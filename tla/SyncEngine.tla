----------------------------- MODULE SyncEngine -----------------------------
(***************************************************************************)
(* Compiling agent sources into the files another tool reads               *)
(* (packages/core/src/sync/engine.ts), with the state file that tells an   *)
(* external edit from an output of its own (state.ts) and the watcher that *)
(* starts a sync after source edits (watcher.ts).  Nothing serialises the  *)
(* syncs: two flushes of the watcher, or a flush and a caller of syncAll,  *)
(* overlap at every await.  Files are seen by their content.               *)
(***************************************************************************)
EXTENDS Integers, Sequences

CONSTANTS
  Order,        (* the agents, in the order in which a sync visits them    *)
  Runs,         (* calls of syncAll in progress at a time (bound)          *)
  Resolutions,  (* sync.conflictResolution of the callers' configurations  *)
  Faults,       (* whether processes crash, reads reject, files vanish     *)
  MaxVersion,   (* bound on the versions of a source                       *)
  MaxEdits,     (* bound on the edits of an output                         *)
  MaxTime       (* bound on the clock                                      *)

Agents == {Order[i] : i \in DOMAIN Order}

ASSUME SyncParameters ==
  /\ Order \in Seq(Agents)
  /\ Order # <<>>
  /\ \A i, j \in DOMAIN Order : Order[i] = Order[j] => i = j
  /\ Resolutions \subseteq {"orqenix-wins", "opencode-wins", "prompt"}
  /\ Faults \in BOOLEAN
  /\ {MaxVersion, MaxEdits, MaxTime} \subseteq Nat
  /\ MaxVersion > 0

VARIABLES
  now,       (* Date.now()                                                 *)
  source,    (* source[a]: the version of the source of agent a            *)
  output,    (* output[a]: the content of the file compiled from it        *)
  saved,     (* saved[a]: the content whose hash agents.json records       *)
  backups,   (* backups[a]: the contents found in sync/backups             *)
  due,       (* whether the watcher's debounce timer is armed              *)
  run,       (* run[r]: a call of syncAll                                  *)
  edits,     (* how often outputs have been edited                         *)
  quiet,     (* history: quiet[a]: the last edit of a's output, if it was  *)
             (* made on a recorded file, and no sync was in progress       *)
  disturbed  (* history: syncs overlapped, or one of them did not end well *)

vars == <<now, source, output, saved, backups, due, run, edits, quiet, disturbed>>

Content ==
  [by : {"nobody", "orqenix", "user", "torn"}, version : 0..MaxVersion + MaxEdits, stamp : 0..MaxTime]

(* No file, or no record of it. *)
NoContent == [by |-> "nobody", version |-> 0, stamp |-> 0]

Edit(n) == [by |-> "user", version |-> n, stamp |-> 0]

(* What a crash leaves of a file that is being written. *)
Torn == [by |-> "torn", version |-> 0, stamp |-> 0]

(* The marker that compileAgentForOpenCode writes holds the time.          *)
Compiled(v) == [by |-> "orqenix", version |-> v, stamp |-> now]

(* at: the position in Order; mem: the state that was loaded; compiled and *)
(* existing: locals of the loop.                                           *)
Run ==
  [pc : {"idle", "visiting", "reading", "prompting", "backing", "writing", "saving"},
   at : 1..Len(Order),
   mem : [Agents -> Content],
   compiled : Content,
   existing : Content]

Blank == [a \in Agents |-> NoContent]

Idle == [pc |-> "idle", at |-> 1, mem |-> Blank, compiled |-> NoContent, existing |-> NoContent]

Init ==
  /\ now = 0
  /\ source = [a \in Agents |-> 1]
  /\ output = Blank
  /\ saved = Blank
  /\ backups = [a \in Agents |-> {}]
  /\ due = FALSE
  /\ run = [r \in Runs |-> Idle]
  /\ edits = 0
  /\ quiet = Blank
  /\ disturbed = FALSE

Active(r) == run[r].pc # "idle"
Visits(r) == Order[run[r].at]
Record(r) == run[r].mem[Visits(r)]

Goes(r, pc) == run' = [run EXCEPT ![r].pc = pc]

MovedShort(x) ==                        \* mutant: the loop ends one agent early
  IF x.at + 1 < Len(Order) THEN [x EXCEPT !.pc = "visiting", !.at = @ + 1]
                           ELSE [x EXCEPT !.pc = "saving"]

(* continue, or the end of the loop. *)
Moved(x) == IF x.at < Len(Order) THEN [x EXCEPT !.pc = "visiting", !.at = @ + 1]
                                 ELSE [x EXCEPT !.pc = "saving"]

Advances(r) == run' = [run EXCEPT ![r] = Moved(@)]
-----------------------------------------------------------------------------
(* What a read of a file finds, or a write leaves there: while another run *)
(* writes the same file, perhaps neither content.                          *)
Among(c, torn, busy) == {c} \union IF busy THEN {torn} ELSE {}

OutputBusy(r, a) == \E q \in Runs \ {r} : run[q].pc = "writing" /\ Visits(q) = a
StateBusy(r) == \E q \in Runs \ {r} : run[q].pc = "saving"

(* Without the records no edit can be told from an output any more. *)
Lapses(recorded, found) == quiet' = IF found = recorded THEN quiet ELSE Blank

(* syncAll loads the state once, a file that does not parse counts as none. *)
Loads(r) ==
  /\ ~ Active(r)
  /\ \E m \in Among(saved, Blank, StateBusy(r)) :
       /\ run' = [run EXCEPT ![r] = [Idle EXCEPT !.pc = "visiting", !.mem = m]]
       /\ Lapses(saved, m)
  /\ disturbed' = (disturbed \/ \E q \in Runs : Active(q))
  /\ UNCHANGED <<now, source, output, saved, backups, edits>>

SyncAll(r) == Loads(r) /\ UNCHANGED due

(* The watcher's timer fires, whether or not an earlier flush is over. *)
Flush(r) == due /\ due' = FALSE /\ Loads(r)

(* The source is read and compiled and the output looked for. *)
Compiles(r) ==
  LET a == Visits(r)
  IN  /\ run[r].pc = "visiting"
      /\ run' = [run EXCEPT ![r] =
                   [@ EXCEPT !.compiled = Compiled(source[a]),
                             !.pc = IF output[a] = NoContent THEN "writing" ELSE "reading"]]
      /\ UNCHANGED <<now, source, output, saved, backups, due, edits, quiet, disturbed>>

(* An agent whose source is missing at the moment is passed over. *)
Skips(r) ==
  /\ Faults
  /\ run[r].pc = "visiting"
  /\ Advances(r)
  /\ UNCHANGED <<now, source, output, saved, backups, due, edits, quiet, disturbed>>

(* A file that has no record is nobody's edit. *)
ExternallyEdited(rec, existing) == rec # NoContent /\ rec # existing

InSync(existing, compiled) == existing = compiled

(* The output is read and compared with its record. *)
ReadsAs(r, e) ==
  LET x == [run[r] EXCEPT !.existing = e]
      edited == ExternallyEdited(Record(r), e)
  IN  \/ /\ edited /\ "orqenix-wins" \in Resolutions
         /\ run' = [run EXCEPT ![r] = [x EXCEPT !.pc = "backing"]]
      \/ /\ edited /\ "opencode-wins" \in Resolutions
         /\ run' = [run EXCEPT ![r] = Moved(x)]
      \/ /\ edited /\ "prompt" \in Resolutions
         /\ \/ run' = [run EXCEPT ![r] = [x EXCEPT !.pc = "prompting"]]
            \/ run' = [run EXCEPT ![r] = Moved(x)]     \* no conflictPrompt is given
      \/ /\ ~ edited /\ InSync(e, run[r].compiled)
         /\ run' = [run EXCEPT ![r] = Moved(x)]
      \/ /\ ~ edited /\ ~ InSync(e, run[r].compiled)
         /\ run' = [run EXCEPT ![r] = [x EXCEPT !.pc = "writing"]]

Reads(r) ==
  LET a == Visits(r)
  IN  /\ run[r].pc = "reading" /\ output[a] # NoContent
      /\ \E e \in Among(output[a], Torn, OutputBusy(r, a)) : ReadsAs(r, e)
      /\ UNCHANGED <<now, source, output, saved, backups, due, edits, quiet, disturbed>>

(* "overwrite", or "keep" and "skip". *)
Prompted(r) ==
  /\ run[r].pc = "prompting"
  /\ Goes(r, "backing") \/ Advances(r)
  /\ UNCHANGED <<now, source, output, saved, backups, due, edits, quiet, disturbed>>

BacksUpCompiled(r) ==                   \* mutant: the new content is backed up
  /\ run[r].pc = "backing"
  /\ backups' = [backups EXCEPT ![Visits(r)] = @ \union {run[r].compiled}]
  /\ Goes(r, "writing")
  /\ UNCHANGED <<now, source, output, saved, due, edits, quiet, disturbed>>

BacksUp(r) ==
  /\ run[r].pc = "backing"
  /\ backups' = [backups EXCEPT ![Visits(r)] = @ \union {run[r].existing}]
  /\ Goes(r, "writing")
  /\ UNCHANGED <<now, source, output, saved, due, edits, quiet, disturbed>>

WritesUnrecorded(r) ==                  \* mutant: an output that was there keeps its record
  LET a == Visits(r)
  IN  /\ run[r].pc = "writing"
      /\ \E c \in Among(run[r].compiled, Torn, OutputBusy(r, a)) : output' = [output EXCEPT ![a] = c]
      /\ run' = [run EXCEPT ![r] =
                   Moved(IF Record(r) = NoContent THEN [@ EXCEPT !.mem[a] = run[r].compiled] ELSE @)]
      /\ UNCHANGED <<now, source, saved, backups, due, edits, quiet, disturbed>>

Writes(r) ==
  LET a == Visits(r)
  IN  /\ run[r].pc = "writing"
      /\ \E c \in Among(run[r].compiled, Torn, OutputBusy(r, a)) : output' = [output EXCEPT ![a] = c]
      /\ run' = [run EXCEPT ![r] = Moved([@ EXCEPT !.mem[a] = run[r].compiled])]
      /\ UNCHANGED <<now, source, saved, backups, due, edits, quiet, disturbed>>

(* The whole state, as this sync knows it. *)
Saves(r) ==
  /\ run[r].pc = "saving"
  /\ \E m \in Among(run[r].mem, Blank, StateBusy(r)) : saved' = m /\ Lapses(run[r].mem, m)
  /\ run' = [run EXCEPT ![r] = Idle]
  /\ UNCHANGED <<now, source, output, backups, due, edits, disturbed>>

(* A manifest or a source that cannot be read or parsed, or an output that *)
(* has vanished, ends the sync of all teams: nothing is saved.             *)
Fails(r) ==
  /\ Faults
  /\ run[r].pc = "visiting" \/ (run[r].pc = "reading" /\ output[Visits(r)] = NoContent)
  /\ run' = [run EXCEPT ![r] = Idle]
  /\ disturbed' = TRUE
  /\ UNCHANGED <<now, source, output, saved, backups, due, edits, quiet>>

(* The process that syncs dies, or one of its writes rejects: a write in   *)
(* progress is torn.  A state file that is torn records nothing any more.  *)
Crash(r) ==
  /\ Faults
  /\ Active(r)
  /\ run' = [run EXCEPT ![r] = Idle]
  /\ disturbed' = TRUE
  /\ \/ UNCHANGED <<output, saved, quiet>>
     \/ /\ run[r].pc = "writing"
        /\ output' = [output EXCEPT ![Visits(r)] = Torn]
        /\ UNCHANGED <<saved, quiet>>
     \/ /\ run[r].pc = "saving"
        /\ saved' = Blank
        /\ quiet' = Blank
        /\ UNCHANGED output
  /\ due' \in {due, FALSE}                \* the watcher may be in that process
  /\ UNCHANGED <<now, source, backups, edits>>
-----------------------------------------------------------------------------
(* The user.  The watcher sees the edits of sources.                       *)
EditSource(a) ==
  /\ source[a] < MaxVersion
  /\ source' = [source EXCEPT ![a] = @ + 1]
  /\ due' = TRUE
  /\ UNCHANGED <<now, output, saved, backups, run, edits, quiet, disturbed>>

EditOutput(a) ==
  /\ output[a] # NoContent /\ edits < MaxEdits
  /\ edits' = edits + 1
  /\ output' = [output EXCEPT ![a] = Edit(edits + 1)]
  /\ quiet' = [quiet EXCEPT ![a] =
                 IF saved[a] # NoContent /\ \A r \in Runs : ~ Active(r) THEN Edit(edits + 1) ELSE NoContent]
  /\ UNCHANGED <<now, source, saved, backups, due, run, disturbed>>

RemoveOutput(a) ==
  /\ Faults
  /\ output[a] # NoContent
  /\ output' = [output EXCEPT ![a] = NoContent]
  /\ quiet' = [quiet EXCEPT ![a] = NoContent]
  /\ UNCHANGED <<now, source, saved, backups, due, run, edits, disturbed>>

Tick ==
  /\ now < MaxTime
  /\ now' = now + 1
  /\ UNCHANGED <<source, output, saved, backups, due, run, edits, quiet, disturbed>>

Syncing(r) == Compiles(r) \/ Reads(r) \/ BacksUp(r) \/ Writes(r) \/ Saves(r)

Next ==
  \/ \E r \in Runs : SyncAll(r) \/ Flush(r) \/ Syncing(r) \/ Prompted(r) \/ Skips(r) \/ Fails(r) \/ Crash(r)
  \/ \E a \in Agents : EditSource(a) \/ EditOutput(a) \/ RemoveOutput(a)
  \/ Tick

Spec == Init /\ [][Next]_vars

(* Timers fire and file operations settle. *)
FairSpec ==
  /\ Spec
  /\ WF_vars(\E r \in Runs : Flush(r))
  /\ \A r \in Runs : WF_vars(Syncing(r))
-----------------------------------------------------------------------------
TypeOK ==
  /\ now \in 0..MaxTime
  /\ source \in [Agents -> 1..MaxVersion]
  /\ output \in [Agents -> Content]
  /\ saved \in [Agents -> Content]
  /\ backups \in [Agents -> SUBSET Content]
  /\ due \in BOOLEAN
  /\ run \in [Runs -> Run]
  /\ edits \in 0..MaxEdits
  /\ quiet \in [Agents -> Content]
  /\ disturbed \in BOOLEAN

(* An edit of an output that Orqenix has a record of, made while no sync   *)
(* is in progress, is never lost: it is still in the file or in a backup,  *)
(* whatever syncs overlap afterwards, fail or crash, as long as no crash   *)
(* and no overlapping save tears the state file (engine.ts:162-208).       *)
QuietEditsSurvive ==
  \A a \in Agents :
    quiet[a] # NoContent => output[a] = quiet[a] \/ quiet[a] \in backups[a]

(* As long as syncs do not overlap, fail or crash, no output of Orqenix's  *)
(* own is taken for an external edit: the record follows the file          *)
(* (engine.ts:165-166, 207-208, state.ts:41-45).                           *)
OwnOutputsRecognised ==
  disturbed \/
    \A r \in Runs :
      run[r].pc \in {"visiting", "reading"} /\ output[Visits(r)].by = "orqenix" =>
        ~ ExternallyEdited(Record(r), output[Visits(r)])

Shows(a, v) == output[a].by = "orqenix" /\ output[a].version = v

(* "Orqenix will sync your edits to .opencode/agents/ automatically"       *)
(* (teams-built-in/dev-team/README.md:40): a source edit that the watcher  *)
(* has noticed reaches the output, unless a newer one replaces it.         *)
EditsReachOutputs ==
  \A a \in Agents, v \in 1..MaxVersion :
    due /\ source[a] = v ~> source[a] # v \/ Shows(a, v)

(* The same, for good: in the end an output that Orqenix wrote is compiled *)
(* from the source as it is (engine.ts:118-207).                           *)
OutputsSettle ==
  \A a \in Agents : <>[](output[a].by = "orqenix" => output[a].version = source[a])

(* Edits made at rest survive every sync, failure and crash that leaves    *)
(* the state file whole, among well-typed files, records and syncs.        *)
EditsKept == TypeOK /\ QuietEditsSurvive

(* A source edit reaches its output, and what is there in the end is       *)
(* compiled from the source as it is.                                      *)
EditsSettle == EditsReachOutputs /\ OutputsSettle
-----------------------------------------------------------------------------
(* What the comments and documents of the source say and the code does not *)
(* do.                                                                     *)

(* "per-team incremental sync" (engine.ts:44): an output that is up to     *)
(* date is left alone.                                                     *)
WritesOnlyChanges ==
  [][\A a \in Agents :
       output'[a] # output[a] /\ output'[a].by = "orqenix" => ~ Shows(a, output'[a].version)]_vars

(* "(external edit kept)" (engine.ts:171): what is kept for an edit is one. *)
KeepsOnlyEdits ==
  \A r \in Runs :
    run[r].pc = "reading" /\ output[Visits(r)].by = "orqenix" =>
      ~ ExternallyEdited(Record(r), output[Visits(r)])
=============================================================================
