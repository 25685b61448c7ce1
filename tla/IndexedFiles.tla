----------------------------- MODULE IndexedFiles -----------------------------
(***************************************************************************)
(* A directory and the index of its files: FileWatcher                     *)
(* (packages/file-watcher/src/watcher.ts) batches the events of chokidar   *)
(* and hands each batch to a listener, Reindexer.applyEvents               *)
(* (packages/reindex-incremental/src/indexer.ts); scanFull walks the whole *)
(* directory.                                                              *)
(*                                                                         *)
(* A version of a file is a number, 0 when it is absent; its hash and its  *)
(* size are both that number.  A pass (a batch, or the scan) looks at one  *)
(* file at a time: stat, then readFile, then the index, with an await      *)
(* before each.  A batch is flushed without waiting for the one before.    *)
(***************************************************************************)
EXTENDS Integers, Sequences, FiniteSets

CONSTANTS
  Files,
  Batches,     (* bound: batches the listener holds at a time              *)
  MaxChanges,  (* bound: changes to the directory                          *)
  MaxWatches   (* bound: starts of the watcher                             *)

Scan == "scan"

ASSUME FileParameters ==
  /\ IsFiniteSet(Files) /\ "idle" \notin Files
  /\ Scan \notin Batches
  /\ MaxChanges \in Nat \ {0}

Passes == Batches \union {Scan}

VARIABLES
  disk, changes,    (* the directory, and how often it changed              *)
  unseen,           (* the files whose change chokidar has not yet reported *)
  watch, watches,   (* FileWatcher.status, and how often it was started     *)
  pending, timer,   (* the events not yet flushed, and the debounce timer   *)
  index,            (* reindex_entries: absent, or [hash, size]             *)
  todo,             (* todo[p]: the events, or the files, p has to look at  *)
  look,             (* look[p]: what p has found of the first of them       *)
  before, visited,  (* existing and visited of scanFull                     *)
  missed,           (* history: files changed with nobody watching          *)
  covers,           (* history: those a scan makes up for: no event is due  *)
  spoilt, crossed   (* history: failed reads and torn sizes; passes at once *)

dirVars   == <<disk, changes, unseen>>
watchVars == <<watch, watches, pending, timer>>
passVars  == <<index, todo, look, before, visited, covers, spoilt, crossed>>
fileVars  == <<dirVars, watchVars, passVars, missed>>

Absent == [hash |-> 0, size |-> 0]
IdleBatch(p) == todo[p] = << >>
NotLooked == [at |-> "stat", size |-> 0, hash |-> 0]
Scanning == covers # {"idle"}

FilesInit ==
  /\ disk \in [Files -> {0, 1}] /\ changes = 1
  /\ unseen = {}
  /\ watch = "idle" /\ watches = 0
  /\ pending = << >> /\ timer = FALSE
  /\ index = [f \in Files |-> Absent]
  /\ todo = [p \in Passes |-> << >>]
  /\ look = [p \in Passes |-> NotLooked]
  /\ before = {} /\ visited = {}
  /\ missed = {f \in Files : disk[f] # 0}
  /\ covers = {"idle"}
  /\ spoilt = {} /\ crossed = FALSE
-----------------------------------------------------------------------------
(* A file is written or deleted.  chokidar reports it while it watches.    *)
FileChanges(f) ==
  /\ changes < MaxChanges
  /\ changes' = changes + 1
  /\ \E version \in {0, changes + 1} :
       version # disk[f] /\ disk' = [disk EXCEPT ![f] = version]
  /\ IF watch = "running"
       THEN unseen' = unseen \union {f} /\ UNCHANGED <<missed, covers>>
       ELSE /\ missed' = missed \union {f}
            /\ covers' = covers \ {f}
            /\ UNCHANGED unseen
  /\ UNCHANGED <<watchVars, index, todo, look, before, visited, spoilt, crossed>>

WatchStarts ==
  /\ watch \in {"idle", "stopped", "failed"}
  /\ watches < MaxWatches
  /\ watches' = watches + 1
  /\ watch' = "running"
  /\ UNCHANGED <<dirVars, pending, timer, passVars, missed>>

(* Mutant: a timer that is running is cleared, and none started.           *)
EnqueueNoRearm(f) ==
  /\ f \in unseen
  /\ watch \in {"running", "stopping"}
  /\ unseen' = unseen \ {f}
  /\ pending' = Append(pending, [kind |-> IF disk[f] = 0 THEN "unlink" ELSE "change", file |-> f])
  /\ timer' = ~ timer
  /\ UNCHANGED <<disk, changes, watch, watches, passVars, missed>>

(* enqueue: the event joins the batch and the timer starts afresh.         *)
Enqueue(f) ==
  /\ f \in unseen
  /\ watch \in {"running", "stopping"}
  /\ unseen' = unseen \ {f}
  /\ pending' = Append(pending, [kind |-> IF disk[f] = 0 THEN "unlink" ELSE "change", file |-> f])
  /\ timer' = TRUE
  /\ UNCHANGED <<disk, changes, watch, watches, passVars, missed>>

FilesOf(events) == {events[i].file : i \in DOMAIN events}

(* The batch goes to the listener, if there still is one. *)
FlushTo(b) ==
  /\ pending' = << >>
  /\ timer' = FALSE
  /\ IF pending = << >> \/ watch = "failed"
       THEN /\ missed' = missed \union FilesOf(pending)
            /\ covers' = covers \ FilesOf(pending)
            /\ UNCHANGED <<todo, crossed>>
       ELSE /\ IdleBatch(b)
            /\ todo' = [todo EXCEPT ![b] = pending]
            /\ crossed' = (crossed \/ Scanning \/ \E c \in Batches : ~ IdleBatch(c))
            /\ UNCHANGED <<missed, covers>>
  /\ UNCHANGED <<index, look, before, visited, spoilt>>

TimerFires(b) ==
  /\ timer
  /\ FlushTo(b)
  /\ UNCHANGED <<dirVars, watch, watches>>

(* chokidar fails: the listener is dropped, and the watcher not closed.    *)
WatchFails ==
  /\ watch = "running"
  /\ watch' = "failed"
  /\ missed' = missed \union unseen
  /\ covers' = covers \ unseen
  /\ unseen' = {}
  /\ UNCHANGED <<disk, changes, watches, pending, timer,
                 index, todo, look, before, visited, spoilt, crossed>>

StopBegins ==
  /\ watch = "running"
  /\ watch' = "stopping"
  /\ timer' = FALSE
  /\ UNCHANGED <<dirVars, watches, pending, passVars, missed>>

(* chokidar has closed; the rest is flushed before the watcher is stopped. *)
StopEnds(b) ==
  /\ watch = "stopping"
  /\ unseen = {}
  /\ watch' = "stopped"
  /\ FlushTo(b)
  /\ UNCHANGED <<dirVars, watches>>
-----------------------------------------------------------------------------
PassesOn(p) ==    (* p is done with the first of its files                     *)
  /\ todo' = [todo EXCEPT ![p] = Tail(@)]
  /\ look' = [look EXCEPT ![p] = NotLooked]

File(p) == IF p = Scan THEN Head(todo[p]) ELSE Head(todo[p]).file

Unlists(f) == index' = [index EXCEPT ![f] = Absent] /\ spoilt' = spoilt \ {f}

(* An unlink event removes the entry without a look at the directory.      *)
AppliesUnlink(b) ==
  /\ ~ IdleBatch(b) /\ Head(todo[b]).kind = "unlink"
  /\ Unlists(File(b))
  /\ PassesOn(b)
  /\ UNCHANGED <<before, visited>>

Looks(p, at) ==
  /\ ~ IdleBatch(p)
  /\ look[p].at = at
  /\ p # Scan => Head(todo[p]).kind # "unlink"

Stats(p) ==
  /\ Looks(p, "stat")
  /\ IF disk[File(p)] = 0
       THEN /\ PassesOn(p)
            /\ IF p = Scan THEN UNCHANGED <<index, spoilt>> ELSE Unlists(File(p))
       ELSE /\ look' = [look EXCEPT ![p] = [at |-> "read", size |-> disk[File(p)], hash |-> 0]]
            /\ UNCHANGED <<todo, index, spoilt>>
  /\ UNCHANGED <<before, visited>>

(* A file that cannot be read is passed over: a batch keeps its old entry, *)
(* and scanFull, which has not visited it, removes that in the end.        *)
ReadFails(p) ==
  /\ Looks(p, "read")
  /\ PassesOn(p)
  /\ spoilt' = spoilt \union {File(p)}
  /\ UNCHANGED <<index, before, visited>>

ReadsFile(p) ==
  /\ Looks(p, "read")
  /\ disk[File(p)] # 0
  /\ look' = [look EXCEPT ![p] = [at |-> "index", size |-> @.size, hash |-> disk[File(p)]]]
  /\ UNCHANGED <<index, todo, before, visited, spoilt>>

(* Mutant: every listed file counts as unchanged.                          *)
PriorListed(p) == IF index[File(p)] = Absent THEN {} ELSE {look[p].hash}

(* The entry p compares with: what a batch reads now, what a scan read at  *)
(* its start.  An entry of the same hash stays, whatever its size.         *)
Prior(p) ==
  IF p = Scan THEN {e.hash : e \in {e \in before : e.file = File(p)}}
              ELSE {index[File(p)].hash} \ {0}

Indexes(p) ==
  /\ Looks(p, "index")
  /\ PassesOn(p)
  /\ visited' = IF p = Scan THEN visited \union {File(p)} ELSE visited
  /\ LET f == File(p)  entry == [hash |-> look[p].hash, size |-> look[p].size]
     IN  /\ index' = IF Prior(p) = {entry.hash} THEN index ELSE [index EXCEPT ![f] = entry]
         /\ spoilt' = IF index'[f].size = index'[f].hash THEN spoilt \ {f} ELSE spoilt \union {f}
  /\ UNCHANGED before

PassStep(p) ==
  /\ \/ p # Scan /\ AppliesUnlink(p)
     \/ Stats(p) \/ ReadFails(p) \/ ReadsFile(p) \/ Indexes(p)
  /\ UNCHANGED <<dirVars, watchVars, missed, covers, crossed>>

ScanBegins ==
  /\ ~ Scanning
  /\ before' = {[file |-> f, hash |-> index[f].hash] : f \in {f \in Files : index[f] # Absent}}
  /\ visited' = {}
  /\ \E order \in {s \in [1 .. Cardinality({f \in Files : disk[f] # 0}) -> Files] :
                      {s[i] : i \in DOMAIN s} = {f \in Files : disk[f] # 0}} :
       todo' = [todo EXCEPT ![Scan] = order]
  /\ covers' = missed \ (FilesOf(pending) \union unseen)
  /\ crossed' = (crossed \/ \E b \in Batches : ~ IdleBatch(b))
  /\ UNCHANGED <<dirVars, watchVars, index, look, spoilt, missed>>

(* The entries of before that the walk did not visit are removed. *)
ScanEnds ==
  /\ Scanning /\ IdleBatch(Scan)
  /\ LET gone == {e.file : e \in before} \ visited
     IN  index' = [f \in Files |-> IF f \in gone THEN Absent ELSE index[f]]
  /\ missed' = missed \ covers
  /\ covers' = {"idle"}
  /\ UNCHANGED <<dirVars, watchVars, todo, look, before, visited, spoilt, crossed>>

FilesNext ==
  \/ \E f \in Files : FileChanges(f) \/ Enqueue(f)
  \/ WatchStarts \/ WatchFails \/ StopBegins
  \/ \E b \in Batches : TimerFires(b) \/ StopEnds(b)
  \/ \E p \in Passes : PassStep(p)
  \/ ScanBegins \/ ScanEnds

(* Timers fire, the system reports changes, and reads end. *)
FilesFairness ==
  /\ \A f \in Files : WF_fileVars(Enqueue(f))
  /\ WF_fileVars(\E b \in Batches : TimerFires(b))
  /\ \A p \in Passes : WF_fileVars(PassStep(p))
  /\ WF_fileVars(ScanEnds)

FilesSpec == FilesInit /\ [][FilesNext]_fileVars /\ FilesFairness
-----------------------------------------------------------------------------
FilesTypeOK ==
  /\ disk \in [Files -> 0 .. MaxChanges]
  /\ unseen \subseteq Files /\ missed \subseteq Files /\ spoilt \subseteq Files
  /\ covers \subseteq Files \union {"idle"}
  /\ watch \in {"idle", "running", "stopping", "stopped", "failed"}
  /\ index \in [Files -> [hash : 0 .. MaxChanges, size : 0 .. MaxChanges]]
  /\ \A p \in Passes : look[p].at \in {"stat", "read", "index"}
  /\ unseen # {} => watch \in {"running", "stopping"}

Settled ==
  /\ unseen = {} /\ pending = << >>
  /\ ~ Scanning /\ \A b \in Batches : IdleBatch(b)

(* When every event was delivered and every pass is over, the index is the *)
(* directory, deleted files included, whether the watcher still runs or    *)
(* was stopped: except for files that changed with nobody watching since   *)
(* the last scan, that could not be read, or whose size was taken before   *)
(* they were written and read, and unless two passes overlapped.           *)
SettledIndexMatches ==
  Settled /\ ~ crossed =>
    \A f \in Files \ (missed \union spoilt) : index[f] = [hash |-> disk[f], size |-> disk[f]]

(* However its batches come, a running watcher catches up in the end.      *)
WatchCatchesUp == []<>(Settled \/ watch # "running")

(* The index follows the directory through batches, scans, failures and    *)
(* stops of the watcher.                                                   *)
IndexFollows == FilesTypeOK /\ SettledIndexMatches
=============================================================================
