----------------------------- MODULE MCPipelines -----------------------------
(***************************************************************************)
(* The two pipelines that follow files: a behaviour is one of SyncEngine,  *)
(* whose syncs come one after the other, or one of IndexedFiles.  No       *)
(* action that is fair is enabled at first, so the fairness of one says    *)
(* nothing of the other's behaviours.                                      *)
(***************************************************************************)
EXTENDS SyncEngine, IndexedFiles

CONSTANTS a1, a2

TwoAgents == <<a1, a2>>

VARIABLE focus

MCInit ==
  /\ Init /\ FilesInit
  /\ focus \in {"sync", "files"}
  /\ focus = "sync" => disk = [f \in Files |-> 0]

MCNext ==
  \/ focus = "sync" /\ Next /\ UNCHANGED <<fileVars, focus>>
  \/ focus = "files" /\ FilesNext /\ UNCHANGED <<vars, focus>>

MCSpec ==
  /\ MCInit /\ [][MCNext]_<<vars, fileVars, focus>>
  /\ WF_vars(\E r \in Runs : Flush(r))
  /\ \A r \in Runs : WF_vars(Syncing(r))
  /\ FilesFairness
=============================================================================
