---------------------------- MODULE Distillation ----------------------------
(***************************************************************************)
(* The distillation of the chat into memories: HeuristicDistiller and      *)
(* DistillerWorker (packages/memory-distiller/src) over MemoryTierStore    *)
(* (packages/memory-tiers/src/store.ts).  Several processes may hold a     *)
(* worker over one database: a batch is synchronous in its process, and as *)
(* no transaction holds its statements together those of several processes *)
(* interleave.                                                             *)
(*                                                                         *)
(* An entry of the chat is its role and the memories that extractFromText  *)
(* finds in it; the watermark is the rowid of the entry it names, as no    *)
(* entry is ever deleted.  A memory stands for its type and content, whose *)
(* hash is unique in the scope.  A batch takes its memories in any order.  *)
(***************************************************************************)
EXTENDS Naturals, Sequences, FiniteSets

CONSTANTS
  Memories, Extractions,  (* memories, and what an entry may yield of them *)
  InitialTier,            (* classifyInitialTier                           *)
  Workers, Loops,         (* processes; bound: loops of one worker         *)
  BatchSize, IdleStopRuns,
  MaxChat, MaxStarts, MaxPromotions   (* bounds of the model               *)

Tiers == {"working", "episodic", "semantic", "procedural"}

ASSUME DistillationAssumption ==
  /\ Extractions \subseteq SUBSET Memories
  /\ InitialTier \in [Memories -> Tiers \ {"procedural"}]
  /\ BatchSize \in Nat \ {0} /\ IdleStopRuns \in Nat \ {0}
  /\ MaxChat \in Nat /\ MaxStarts \in Nat /\ MaxPromotions \in Nat

Entry == [role : {"user"}, facts : Extractions] \union [role : {"system"}, facts : {{}}]

VARIABLES
  chatLog,                      (* chat_entries                            *)
  memories,                     (* the tier of every memory, or "none"     *)
  mark,                         (* memory_distiller_watermarks             *)
  workerStatus, stopRequested,  (* the fields of each DistillerWorker      *)
  heard,                        (* does anyone listen to its errors        *)
  loops,                        (* loops[w][l]: a start() under way        *)
  promoting,                    (* promoting[w]: what promote() looked at  *)
  starts, promotions,           (* how many there were                     *)
  doubled,                      (* history: w started with a loop left,    *)
  deaf,                         (* or met an error nobody listened to      *)
  frozen,                       (* history: the memories once procedural,  *)
  overlooked                    (* and those another promotion had looked  *)
                                (* at before they were                     *)

memoryVars   == <<chatLog, memories, mark>>
workerVars  == <<workerStatus, stopRequested, heard, starts, doubled, deaf>>
tierVars    == <<promotions, promoting, frozen, overlooked>>
distillVars == <<memoryVars, loops, workerVars, tierVars>>

(* upto is the watermark the batch has read, then its last row; todo what  *)
(* is left to insert, fact the one that is not in the store.               *)
NoLoop == [at |-> "off", upto |-> 0, todo |-> {}, fact |-> {}, idle |-> 0]

DistillInit ==
  /\ chatLog = << >>
  /\ memories = [m \in Memories |-> "none"]
  /\ mark = 0
  /\ workerStatus = [w \in Workers |-> "idle"]
  /\ stopRequested = [w \in Workers |-> FALSE]
  /\ heard \in [Workers -> BOOLEAN]
  /\ loops = [w \in Workers |-> [l \in Loops |-> NoLoop]]
  /\ promoting = [w \in Workers |-> {}]
  /\ starts = 0 /\ promotions = 0
  /\ doubled = [w \in Workers |-> FALSE]
  /\ deaf = [w \in Workers |-> FALSE]
  /\ frozen = {} /\ overlooked = {}

InBatch == {"begin", "read", "look", "write", "mark"}
LoopsOf(w) == {l \in Loops : loops[w][l].at # "off"}

(* The process is in the middle of something synchronous. *)
Occupied(w) == promoting[w] # {} \/ \E l \in Loops : loops[w][l].at \in InBatch

Stored == {m \in Memories : memories[m] # "none"}
-----------------------------------------------------------------------------
(* The chat grows, by any process: ChatChain says how.                     *)
ChatGrows ==
  /\ Len(chatLog) < MaxChat
  /\ \E entry \in Entry : chatLog' = Append(chatLog, entry)
  /\ UNCHANGED <<memories, mark, loops, workerVars, tierVars>>

(* start() of a worker that is not "running": its first batch begins       *)
(* before anything is awaited.                                             *)
WorkerStarts(w, l) ==
  /\ ~ Occupied(w) /\ starts < MaxStarts
  /\ workerStatus[w] # "running"
  /\ loops[w][l] = NoLoop
  /\ workerStatus' = [workerStatus EXCEPT ![w] = "running"]
  /\ stopRequested' = [stopRequested EXCEPT ![w] = FALSE]
  /\ loops' = [loops EXCEPT ![w][l] = [NoLoop EXCEPT !.at = "begin"]]
  /\ starts' = starts + 1
  /\ doubled' = [doubled EXCEPT ![w] = @ \/ LoopsOf(w) # {}]
  /\ UNCHANGED <<memoryVars, heard, deaf, tierVars>>

WorkerStops(w) ==
  /\ ~ Occupied(w)
  /\ workerStatus[w] = "running"
  /\ workerStatus' = [workerStatus EXCEPT ![w] = "stopping"]
  /\ stopRequested' = [stopRequested EXCEPT ![w] = TRUE]
  /\ UNCHANGED <<memoryVars, loops, heard, starts, doubled, deaf, tierVars>>

(* The process ends wherever it is; the next one has a worker of its own.  *)
ProcessDies(w) ==
  /\ LoopsOf(w) # {} \/ workerStatus[w] # "idle" \/ promoting[w] # {}
  /\ loops' = [loops EXCEPT ![w] = [l \in Loops |-> NoLoop]]
  /\ workerStatus' = [workerStatus EXCEPT ![w] = "idle"]
  /\ stopRequested' = [stopRequested EXCEPT ![w] = FALSE]
  /\ promoting' = [promoting EXCEPT ![w] = {}]
  /\ doubled' = [doubled EXCEPT ![w] = FALSE]
  /\ deaf' = [deaf EXCEPT ![w] = FALSE]
  /\ UNCHANGED <<memoryVars, heard, starts, promotions, frozen, overlooked>>
-----------------------------------------------------------------------------
LoopIs(w, l, loop) == loops' = [loops EXCEPT ![w][l] = loop]

(* The loop is left, whatever other loop of the worker goes on. *)
Leaves(w, l) ==
  /\ LoopIs(w, l, NoLoop)
  /\ workerStatus' = [workerStatus EXCEPT ![w] = "stopped"]
  /\ UNCHANGED <<stopRequested, heard, starts, doubled, deaf>>

(* emit("error") throws where nobody listens, before the status is set. *)
BatchThrows(w, l) ==
  IF heard[w]
    THEN Leaves(w, l)
    ELSE /\ LoopIs(w, l, NoLoop)
         /\ deaf' = [deaf EXCEPT ![w] = TRUE]
         /\ UNCHANGED <<workerStatus, stopRequested, heard, starts, doubled>>

(* Any statement may fail: the database is locked or gone. *)
StatementFails(w, l) ==
  /\ loops[w][l].at \in InBatch
  /\ BatchThrows(w, l)
  /\ UNCHANGED <<memoryVars, tierVars>>

BatchBegins(w, l) ==
  /\ loops[w][l].at = "begin"
  /\ LoopIs(w, l, [loops[w][l] EXCEPT !.at = "read", !.upto = mark])
  /\ UNCHANGED <<memoryVars, workerVars>>

(* The rows of readBatch: the first BatchSize after the watermark, without *)
(* those of the system.                                                    *)
Unread(since) == {n \in DOMAIN chatLog : n > since /\ chatLog[n].role # "system"}
BatchRows(since) == {n \in Unread(since) : Cardinality({k \in Unread(since) : k <= n}) <= BatchSize}

Yields(rows) == UNION {chatLog[n].facts : n \in rows}

(* Mutant: nothing is left to insert, and the watermark not written. *)
PhaseOfUnmarked(todo) == IF todo = {} THEN "asleep" ELSE "look"

(* The phase of a batch that has this left to insert. *)
PhaseOf(todo) == IF todo = {} THEN "mark" ELSE "look"

BatchReads(w, l) ==
  /\ loops[w][l].at = "read"
  /\ LET rows == BatchRows(loops[w][l].upto)
     IN  \E last \in rows :
           /\ \A n \in rows : n <= last
           /\ LoopIs(w, l, [at |-> PhaseOf(Yields(rows)), upto |-> last, todo |-> Yields(rows),
                          fact |-> {}, idle |-> 0])
  /\ UNCHANGED <<memoryVars, workerVars>>

(* Nothing to read: the loop sleeps, or has done so often enough. *)
BatchIsEmpty(w, l) ==
  /\ loops[w][l].at = "read"
  /\ BatchRows(loops[w][l].upto) = {}
  /\ IF loops[w][l].idle + 1 >= IdleStopRuns
       THEN Leaves(w, l)
       ELSE /\ LoopIs(w, l, [NoLoop EXCEPT !.at = "asleep", !.idle = loops[w][l].idle + 1])
            /\ UNCHANGED workerVars
  /\ UNCHANGED memoryVars

(* insert(), its SELECT: what is stored is passed over. *)
InsertLooks(w, l) ==
  /\ loops[w][l].at = "look"
  /\ \E m \in loops[w][l].todo :
       LET rest == loops[w][l].todo \ {m}
       IN  LoopIs(w, l, IF m \in Stored
                         THEN [loops[w][l] EXCEPT !.at = PhaseOf(rest), !.todo = rest]
                         ELSE [loops[w][l] EXCEPT !.at = "write", !.fact = {m}])
  /\ UNCHANGED <<memoryVars, workerVars>>

(* Its INSERT, which the unique index refuses when another was faster. *)
InsertWrites(w, l) ==
  /\ loops[w][l].at = "write"
  /\ loops[w][l].fact \cap Stored = {}
  /\ memories' = [m \in Memories |-> IF m \in loops[w][l].fact THEN InitialTier[m] ELSE memories[m]]
  /\ LET rest == loops[w][l].todo \ loops[w][l].fact
     IN  LoopIs(w, l, [loops[w][l] EXCEPT !.at = PhaseOf(rest), !.todo = rest, !.fact = {}])
  /\ UNCHANGED <<chatLog, mark, workerVars>>

InsertConflicts(w, l) ==
  /\ loops[w][l].at = "write"
  /\ loops[w][l].fact \cap Stored # {}
  /\ BatchThrows(w, l)
  /\ UNCHANGED memoryVars

(* Mutant: all there is by now counts as distilled. *)
NewMarkLatest(loop) == Len(chatLog)

(* The watermark is that of this batch, however far another has moved it.  *)
NewMark(loop) == loop.upto

(* Then checkAndSleep is awaited. *)
MarkWrites(w, l) ==
  /\ loops[w][l].at = "mark"
  /\ mark' = NewMark(loops[w][l])
  /\ LoopIs(w, l, [NoLoop EXCEPT !.at = "asleep"])
  /\ UNCHANGED <<chatLog, memories, workerVars>>

LoopWakes(w, l) ==
  /\ loops[w][l].at = "asleep" /\ ~ Occupied(w)
  /\ IF stopRequested[w]
       THEN Leaves(w, l)
       ELSE LoopIs(w, l, [loops[w][l] EXCEPT !.at = "begin"]) /\ UNCHANGED workerVars
  /\ UNCHANGED memoryVars

BatchStep(w, l) ==
  \/ BatchBegins(w, l) \/ BatchReads(w, l) \/ BatchIsEmpty(w, l)
  \/ InsertLooks(w, l) \/ InsertWrites(w, l) \/ InsertConflicts(w, l)
  \/ MarkWrites(w, l) \/ LoopWakes(w, l)
-----------------------------------------------------------------------------
(* promote(): a SELECT that refuses a procedural memory, then the UPDATE,  *)
(* to whatever tier the caller says.                                       *)
PromoteLooks(w, m) ==
  /\ ~ Occupied(w) /\ promotions < MaxPromotions
  /\ m \in Stored /\ memories[m] # "procedural"
  /\ promotions' = promotions + 1
  /\ promoting' = [promoting EXCEPT ![w] = {m}]
  /\ UNCHANGED <<memoryVars, loops, workerVars, frozen, overlooked>>

PromoteWrites(w, m) ==
  /\ promoting[w] = {m}
  /\ \E tier \in Tiers :
       /\ memories' = [memories EXCEPT ![m] = tier]
       /\ frozen' = IF tier = "procedural" THEN frozen \union {m} ELSE frozen
       /\ overlooked' = IF tier = "procedural" /\ \E v \in Workers \ {w} : m \in promoting[v]
                          THEN overlooked \union {m} ELSE overlooked
  /\ promoting' = [promoting EXCEPT ![w] = {}]
  /\ UNCHANGED <<chatLog, mark, loops, workerVars, promotions>>

(* A process goes on: statements return and timers fire, of whichever of   *)
(* its loops.                                                              *)
ProcessStep(w) ==
  \/ (\E l \in Loops : BatchStep(w, l)) /\ UNCHANGED tierVars
  \/ \E m \in Memories : PromoteWrites(w, m)

DistillNext ==
  \/ ChatGrows
  \/ \E w \in Workers :
       \/ WorkerStops(w) \/ ProcessDies(w) \/ ProcessStep(w)
       \/ \E l \in Loops : WorkerStarts(w, l) \/ StatementFails(w, l)
       \/ \E m \in Memories : PromoteLooks(w, m)

DistillFairness == \A w \in Workers : WF_distillVars(ProcessStep(w))

DistillSpec == DistillInit /\ [][DistillNext]_distillVars /\ DistillFairness
-----------------------------------------------------------------------------
DistillTypeOK ==
  /\ chatLog \in Seq(Entry)
  /\ Len(chatLog) <= MaxChat
  /\ memories \in [Memories -> Tiers \union {"none"}]
  /\ mark \in 0 .. Len(chatLog)
  /\ workerStatus \in [Workers -> {"idle", "running", "stopping", "stopped"}]
  /\ stopRequested \in [Workers -> BOOLEAN] /\ heard \in [Workers -> BOOLEAN]
  /\ loops \in [Workers -> [Loops ->
       [at : InBatch \union {"off", "asleep"}, upto : 0 .. Len(chatLog), todo : SUBSET Memories,
        fact : SUBSET Memories, idle : 0 .. IdleStopRuns]]]
  /\ promoting \in [Workers -> SUBSET Memories]
  /\ doubled \in [Workers -> BOOLEAN] /\ deaf \in [Workers -> BOOLEAN]
  /\ frozen \subseteq Memories /\ overlooked \subseteq Memories

(* No entry is passed over: all that the entries up to the watermark yield *)
(* is stored, though batches of other processes interleave, a slow one     *)
(* moves the watermark back, and any of them may fail or die half-way.     *)
MarkCovers == Yields(1 .. mark) \subseteq Stored

(* "running" and "stopping" tell of exactly one loop, unless stop() was    *)
(* undone by a start() before the loop had noticed it, or an error was     *)
(* met that nobody listened to: then start() does nothing from then on.    *)
StatusTells ==
  \A w \in Workers : ~ doubled[w] /\ ~ deaf[w] =>
    IF workerStatus[w] \in {"running", "stopping"} THEN \E l \in Loops : LoopsOf(w) = {l}
                                                    ELSE LoopsOf(w) = {}

(* A procedural memory stays one, unless another promotion had looked at   *)
(* it before it was.                                                       *)
ProceduralStays == \A m \in frozen \ overlooked : memories[m] = "procedural"

(* Distillation loses nothing of the chat, and its workers and memories    *)
(* are in the state they tell.                                             *)
MemoriesDistilled == DistillTypeOK /\ MarkCovers /\ StatusTells /\ ProceduralStays

CaughtUp == Yields(DOMAIN chatLog) \subseteq Stored
StopsHeeded == \A w \in Workers : workerStatus[w] = "stopping" => LoopsOf(w) = {}

(* A chat that grows no more is distilled unless all loops end first, even *)
(* though a slow process may move the watermark of a faster one back; and  *)
(* a worker that was told to stop has no loop in the end, however many it  *)
(* had.                                                                    *)
DistillsWhatItFinds ==
  /\ []<>(CaughtUp \/ \A w \in Workers : LoopsOf(w) = {})
  /\ []<>StopsHeeded
=============================================================================
