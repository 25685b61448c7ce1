-------------------------- MODULE SyncEngineProofs --------------------------
(***************************************************************************)
(* Proofs about the two pipelines from files: SyncEngine, for any agents,  *)
(* any number of overlapping syncs and any configuration, and the index of *)
(* a directory.                                                            *)
(***************************************************************************)
EXTENDS SyncEngine, IndexedFiles, SequenceTheorems, FiniteSetTheorems, TLAPS

(* Records and what is about to be written are outputs of Orqenix's own.   *)
Own(c) == c = NoContent \/ c.by = "orqenix"

(* What a run that has compiled has in hand. *)
Holds(x) ==
  x.pc \in {"reading", "prompting", "backing", "writing"} => x.compiled.by = "orqenix"

Records ==
  /\ \A a \in Agents : Own(saved[a])
  /\ \A r \in Runs : /\ \A a \in Agents : Own(run[r].mem[a])
                     /\ Holds(run[r])
  /\ \A a \in Agents : quiet[a] # NoContent => quiet[a].by = "user"

(* What a sync that has come to agent a owes to a quiet edit of its output. *)
Respects(r, a) ==
  /\ Active(r) => run[r].mem[a] # NoContent
  /\ run[r].pc \in {"prompting", "backing"} /\ Visits(r) = a =>
       run[r].existing = quiet[a] \/ quiet[a] \in backups[a]
  /\ run[r].pc = "writing" /\ Visits(r) = a => quiet[a] \in backups[a]

Kept ==
  \A a \in Agents :
    quiet[a] # NoContent =>
      /\ saved[a] # NoContent
      /\ output[a] = quiet[a] \/ quiet[a] \in backups[a]
      /\ \A r \in Runs : Respects(r, a)

IInv == TypeOK /\ Records /\ Kept

LEMMA Bounds ==
  MaxVersion \in Nat /\ MaxEdits \in Nat /\ MaxTime \in Nat /\ MaxVersion > 0
  BY SyncParameters

LEMMA OrderFacts ==
  /\ Len(Order) \in Nat /\ 1 \in 1..Len(Order)
  /\ \A i \in 1..Len(Order) : Order[i] \in Agents
  BY SyncParameters DEF Agents

LEMMA VisitsAgents ==
  ASSUME TypeOK, NEW r \in Runs
  PROVE  Visits(r) \in Agents
  BY OrderFacts DEF TypeOK, Run, Visits

LEMMA Contents ==
  /\ NoContent \in Content /\ Torn \in Content /\ Blank \in [Agents -> Content]
  /\ Torn # NoContent
  /\ \A a \in Agents : Blank[a] = NoContent
  BY Bounds DEF NoContent, Torn, Content, Blank

LEMMA EditContent ==
  ASSUME NEW n \in 0..MaxEdits
  PROVE  Edit(n) \in Content /\ Edit(n).by = "user"
<1>1. n \in 0..MaxVersion + MaxEdits /\ 0 \in 0..MaxTime
  BY Bounds
<1> QED
  BY <1>1 DEF Edit, Content

LEMMA CompiledContent ==
  ASSUME NEW v \in 1..MaxVersion, now \in 0..MaxTime
  PROVE  Compiled(v) \in Content /\ Compiled(v).by = "orqenix"
<1>1. v \in 0..MaxVersion + MaxEdits
  BY Bounds
<1> QED
  BY <1>1 DEF Compiled, Content

LEMMA IdleRun ==
  /\ Idle \in Run /\ Idle.pc = "idle" /\ Idle.mem = Blank /\ Idle.compiled = NoContent
  BY Contents, OrderFacts DEF Idle, Run

(* What the end of an iteration does to a run. *)
LEMMA MovedRun ==
  ASSUME NEW x \in Run
  PROVE  /\ Moved(x) \in Run
         /\ Moved(x).pc \in {"visiting", "saving"}
         /\ Moved(x).mem = x.mem /\ Moved(x).compiled = x.compiled
<1>1. x.at \in 1..Len(Order) /\ Len(Order) \in Nat
  BY OrderFacts DEF Run
<1>2. CASE x.at < Len(Order)
  <2>1. x.at + 1 \in 1..Len(Order)
    BY <1>1, <1>2
  <2>2. Moved(x) = [x EXCEPT !.pc = "visiting", !.at = x.at + 1]
    BY <1>2 DEF Moved
  <2> QED
    BY <2>1, <2>2 DEF Run
<1>3. CASE ~ (x.at < Len(Order))
  <2>1. Moved(x) = [x EXCEPT !.pc = "saving"]
    BY <1>3 DEF Moved
  <2> QED
    BY <2>1 DEF Run
<1> QED
  BY <1>2, <1>3

LEMMA InitEstablishes == Init => IInv
<1> SUFFICES ASSUME Init PROVE IInv
  OBVIOUS
<1>1. TypeOK
  <2>1. 0 \in 0..MaxTime /\ 0 \in 0..MaxEdits /\ 1 \in 1..MaxVersion
    BY Bounds
  <2>2. run \in [Runs -> Run]
    BY IdleRun DEF Init
  <2>3. output \in [Agents -> Content] /\ saved \in [Agents -> Content] /\ quiet \in [Agents -> Content]
    BY Contents DEF Init
  <2> QED
    BY <2>1, <2>2, <2>3 DEF Init, TypeOK
<1>2. Records
  BY Contents, IdleRun DEF Init, Records, Own, Holds
<1>3. Kept
  BY Contents DEF Init, Kept
<1> QED
  BY <1>1, <1>2, <1>3 DEF IInv

(* A step that only moves the run r, to x. *)
RunMoves(r, x) ==
  /\ x \in Run
  /\ run' = [run EXCEPT ![r] = x]
  /\ UNCHANGED <<now, source, saved, edits, quiet>>

(* Such a step keeps the invariant if x owes nothing new. *)
LEMMA RunMovesStep ==
  ASSUME IInv, NEW r \in Runs, NEW x, RunMoves(r, x),
         backups' \in [Agents -> SUBSET Content],
         \A a \in Agents : backups[a] \subseteq backups'[a],
         output' \in [Agents -> Content],
         due' \in BOOLEAN, disturbed' \in BOOLEAN,
         \A a \in Agents : Own(x.mem[a]),
         Holds(x),
         \A a \in Agents : quiet[a] # NoContent =>
           /\ output'[a] = quiet[a] \/ quiet[a] \in backups'[a]
           /\ x.pc # "idle" => x.mem[a] # NoContent
           /\ x.pc \in {"prompting", "backing"} /\ Order[x.at] = a =>
                x.existing = quiet[a] \/ quiet[a] \in backups'[a]
           /\ x.pc = "writing" /\ Order[x.at] = a => quiet[a] \in backups'[a]
  PROVE  IInv'
<1>1. TypeOK /\ Records /\ Kept
  BY DEF IInv
<1>2. /\ run'[r] = x
      /\ \A q \in Runs : q # r => run'[q] = run[q]
      /\ run' \in [Runs -> Run]
  BY <1>1 DEF RunMoves, TypeOK
<1>3. TypeOK'
  BY <1>1, <1>2 DEF TypeOK, RunMoves
<1>4. Records'
  BY <1>1, <1>2 DEF Records, RunMoves
<1>5. Kept'
  <2> SUFFICES ASSUME NEW a \in Agents, quiet[a] # NoContent
               PROVE  /\ saved[a] # NoContent
                      /\ output'[a] = quiet[a] \/ quiet[a] \in backups'[a]
                      /\ \A q \in Runs : Respects(q, a)'
    BY DEF Kept, RunMoves
  <2>1. saved[a] # NoContent /\ \A q \in Runs : Respects(q, a)
    BY <1>1 DEF Kept
  <2>2. Respects(r, a)'
    BY <1>2 DEF Respects, Active, Visits, RunMoves
  <2>3. ASSUME NEW q \in Runs, q # r PROVE Respects(q, a)'
    BY <1>2, <2>1, <2>3 DEF Respects, Active, Visits, RunMoves
  <2> QED
    BY <2>1, <2>2, <2>3
<1> QED
  BY <1>3, <1>4, <1>5 DEF IInv

(* A step after which no edit is quiet any more. *)
LEMMA LapseStep ==
  ASSUME IInv, NEW r \in Runs, NEW x \in Run,
         run' = [run EXCEPT ![r] = x],
         Holds(x), \A a \in Agents : Own(x.mem[a]),
         quiet' = Blank,
         saved' \in [Agents -> Content], \A a \in Agents : Own(saved'[a]),
         output' \in [Agents -> Content],
         due' \in BOOLEAN, disturbed' \in BOOLEAN,
         UNCHANGED <<now, source, backups, edits>>
  PROVE  IInv'
<1>0. TypeOK /\ Records
  BY DEF IInv
<1>1. /\ run'[r] = x /\ \A q \in Runs : q # r => run'[q] = run[q]
      /\ run' \in [Runs -> Run]
  BY <1>0 DEF TypeOK
<1>2. TypeOK'
  BY <1>0, <1>1, Contents DEF TypeOK
<1>3. Records'
  BY <1>0, <1>1, Contents DEF Records
<1>4. Kept'
  BY Contents DEF Kept
<1> QED
  BY <1>2, <1>3, <1>4 DEF IInv

(* The steps of a sync, one by one. *)
LEMMA LoadsStep ==
  ASSUME IInv, NEW r \in Runs, Loads(r), due' \in BOOLEAN
  PROVE  IInv'
<1>1. PICK m \in {saved, Blank} :
        /\ run' = [run EXCEPT ![r] = [Idle EXCEPT !.pc = "visiting", !.mem = m]]
        /\ quiet' = IF m = saved THEN quiet ELSE Blank
  BY DEF Loads, Among, Lapses
<1> DEFINE x == [Idle EXCEPT !.pc = "visiting", !.mem = m]
<1>0. TypeOK /\ Records /\ Kept
  BY DEF IInv
<1>2. x \in Run /\ x.pc = "visiting" /\ x.mem = m
  BY <1>0, IdleRun, Contents DEF TypeOK, Run
<1>3. run' = [run EXCEPT ![r] = x] /\ disturbed' \in BOOLEAN
      /\ UNCHANGED <<now, source, output, saved, backups, edits>>
  BY <1>0, <1>1 DEF Loads, TypeOK
<1>4. Holds(x) /\ \A b \in Agents : Own(x.mem[b])
  BY <1>0, <1>2, Contents DEF Records, Own, Holds
<1>5. output \in [Agents -> Content] /\ backups \in [Agents -> SUBSET Content]
      /\ saved \in [Agents -> Content] /\ \A b \in Agents : Own(saved[b])
  BY <1>0 DEF TypeOK, Records
<1>6. CASE m = saved
  <2>1. RunMoves(r, x)
    BY <1>1, <1>2, <1>3, <1>6 DEF RunMoves
  <2>2. \A b \in Agents : quiet[b] # NoContent =>
          saved[b] # NoContent /\ (output[b] = quiet[b] \/ quiet[b] \in backups[b])
    BY <1>0 DEF Kept
  <2> HIDE DEF x
  <2> QED
    BY <1>2, <1>3, <1>4, <1>5, <1>6, <2>1, <2>2, RunMovesStep
<1>7. CASE m # saved
  <2>1. quiet' = Blank
    BY <1>1, <1>7
  <2> HIDE DEF x
  <2> QED
    BY <1>2, <1>3, <1>4, <1>5, <2>1, LapseStep
<1> QED
  BY <1>6, <1>7

LEMMA CompilesStep ==
  ASSUME IInv, NEW r \in Runs, Compiles(r)
  PROVE  IInv'
<1> DEFINE a == Visits(r)
<1>0. TypeOK /\ Records /\ Kept
  BY DEF IInv
<1>1. /\ run[r] \in Run /\ run \in [Runs -> Run]
      /\ a \in Agents /\ a = Order[run[r].at]
      /\ output \in [Agents -> Content] /\ backups \in [Agents -> SUBSET Content]
      /\ due \in BOOLEAN /\ disturbed \in BOOLEAN
  BY <1>0, VisitsAgents DEF TypeOK, Visits
<1>2. /\ \A b \in Agents : Own(run[r].mem[b])
      /\ Holds(run[r])
      /\ \A b \in Agents : quiet[b] # NoContent => quiet[b].by = "user"
  BY <1>0 DEF Records
<1>3. \A b \in Agents : quiet[b] # NoContent =>
        /\ saved[b] # NoContent
        /\ output[b] = quiet[b] \/ quiet[b] \in backups[b]
        /\ Respects(r, b)
  BY <1>0 DEF Kept
<1>4. \A b \in Agents : quiet[b] # NoContent /\ Active(r) => run[r].mem[b] # NoContent
  BY <1>3 DEF Respects
<1> DEFINE x == [run[r] EXCEPT !.compiled = Compiled(source[a]),
                               !.pc = IF output[a] = NoContent THEN "writing" ELSE "reading"]
<1>5. Compiled(source[a]) \in Content /\ Compiled(source[a]).by = "orqenix"
  BY <1>0, <1>1, CompiledContent DEF TypeOK
<1>6. /\ x \in Run /\ x.mem = run[r].mem /\ x.at = run[r].at
      /\ x.compiled = Compiled(source[a])
      /\ x.pc = IF output[a] = NoContent THEN "writing" ELSE "reading"
  BY <1>1, <1>5 DEF Run
<1>7. RunMoves(r, x) /\ UNCHANGED <<output, backups, due, disturbed>> /\ Active(r)
  BY <1>6 DEF Compiles, RunMoves, Active
<1>8. \A b \in Agents : quiet[b] # NoContent /\ b = a /\ x.pc = "writing" => quiet[b] \in backups[b]
  BY <1>3, <1>6
<1>9. Holds(x) /\ \A b \in Agents : Own(x.mem[b])
  BY <1>2, <1>5, <1>6 DEF Holds
<1>10. \A b \in Agents : quiet[b] # NoContent =>
        /\ output[b] = quiet[b] \/ quiet[b] \in backups[b]
        /\ x.mem[b] # NoContent
        /\ ~ (x.pc \in {"prompting", "backing"})
        /\ x.pc = "writing" /\ Order[x.at] = b => quiet[b] \in backups[b]
  BY <1>1, <1>3, <1>4, <1>6, <1>7, <1>8
<1> HIDE DEF x, a
<1> QED
  BY <1>1, <1>6, <1>7, <1>9, <1>10, RunMovesStep DEF RunMoves

LEMMA ReadsStep ==
  ASSUME IInv, NEW r \in Runs, Reads(r)
  PROVE  IInv'
<1> DEFINE a == Visits(r)
<1>0. TypeOK /\ Records /\ Kept
  BY DEF IInv
<1>1. /\ run[r] \in Run /\ run \in [Runs -> Run]
      /\ a \in Agents /\ a = Order[run[r].at]
      /\ output \in [Agents -> Content] /\ backups \in [Agents -> SUBSET Content]
      /\ due \in BOOLEAN /\ disturbed \in BOOLEAN
  BY <1>0, VisitsAgents DEF TypeOK, Visits
<1>2. /\ \A b \in Agents : Own(run[r].mem[b])
      /\ Holds(run[r])
      /\ \A b \in Agents : quiet[b] # NoContent => quiet[b].by = "user"
  BY <1>0 DEF Records
<1>3. \A b \in Agents : quiet[b] # NoContent =>
        /\ saved[b] # NoContent
        /\ output[b] = quiet[b] \/ quiet[b] \in backups[b]
        /\ Respects(r, b)
  BY <1>0 DEF Kept
<1>4. \A b \in Agents : quiet[b] # NoContent /\ Active(r) => run[r].mem[b] # NoContent
  BY <1>3 DEF Respects
<1>e. PICK e \in Among(output[a], Torn, OutputBusy(r, a)) : ReadsAs(r, e)
  BY DEF Reads
<1>f. e \in Content /\ (e = output[a] \/ OutputBusy(r, a))
  BY <1>1, <1>e, Contents DEF Among
<1>g. quiet[a] # NoContent /\ e # output[a] => quiet[a] \in backups[a]
  BY <1>0, <1>1, <1>f DEF OutputBusy, Kept, Respects
<1> DEFINE y == [run[r] EXCEPT !.existing = e]
           edited == ExternallyEdited(Record(r), e)
<1>5. /\ y \in Run /\ y.mem = run[r].mem /\ y.at = run[r].at
      /\ y.compiled = run[r].compiled /\ y.existing = e /\ y.pc = run[r].pc
  BY <1>1, <1>f DEF Run
<1>6. PICK x : /\ RunMoves(r, x)
               /\ \/ x = Moved(y)
                  \/ \E pc \in {"backing", "prompting"} : x = [y EXCEPT !.pc = pc]
                  \/ ~ edited /\ x = [y EXCEPT !.pc = "writing"]
               /\ UNCHANGED <<output, backups, due, disturbed>> /\ Active(r)
  <2>1. /\ Moved(y) \in Run
        /\ \A pc \in {"backing", "prompting", "writing"} : [y EXCEPT !.pc = pc] \in Run
    BY <1>5, MovedRun DEF Run
  <2>2. PICK x : /\ run' = [run EXCEPT ![r] = x]
                 /\ \/ x = Moved(y)
                    \/ \E pc \in {"backing", "prompting"} : x = [y EXCEPT !.pc = pc]
                    \/ ~ edited /\ x = [y EXCEPT !.pc = "writing"]
    BY <1>e DEF ReadsAs
  <2> QED
    BY <2>1, <2>2 DEF Reads, RunMoves, Active
<1>7. /\ x.mem = run[r].mem /\ x.compiled = run[r].compiled
      /\ x.pc \in {"visiting", "saving"} \/ (x.existing = e /\ x.at = run[r].at)
      /\ x.pc \in {"visiting", "saving", "backing", "prompting"} \/ ~ edited
  <2>1. CASE x = Moved(y)
    BY <1>5, <2>1, MovedRun
  <2>2. CASE \E pc \in {"backing", "prompting", "writing"} : x = [y EXCEPT !.pc = pc]
    BY <1>5, <1>6, <2>2, MovedRun DEF Run
  <2> QED
    BY <1>6, <2>1, <2>2
<1>8. \A b \in Agents : quiet[b] # NoContent /\ b = a /\ ~ edited => quiet[b] \in backups[b]
  <2> SUFFICES ASSUME quiet[a] # NoContent, e = quiet[a]
               PROVE  edited
    BY <1>1, <1>3, <1>g
  <2>1. Record(r) # NoContent /\ Own(Record(r))
    BY <1>1, <1>2, <1>4, <1>6 DEF Record
  <2> QED
    BY <1>1, <1>2, <2>1 DEF ExternallyEdited, Own
<1>9. Holds(x) /\ \A b \in Agents : Own(x.mem[b])
  <2>1. run[r].pc = "reading"
    BY DEF Reads
  <2> QED
    BY <1>2, <1>7, <2>1 DEF Holds
<1>10. \A b \in Agents : quiet[b] # NoContent =>
        /\ output[b] = quiet[b] \/ quiet[b] \in backups[b]
        /\ x.mem[b] # NoContent
        /\ x.pc \in {"prompting", "backing"} /\ Order[x.at] = b =>
             x.existing = quiet[b] \/ quiet[b] \in backups[b]
        /\ x.pc = "writing" /\ Order[x.at] = b => quiet[b] \in backups[b]
  <2> HIDE DEF y, edited, a
  <2> SUFFICES ASSUME NEW b \in Agents, quiet[b] # NoContent
               PROVE  /\ output[b] = quiet[b] \/ quiet[b] \in backups[b]
                      /\ x.mem[b] # NoContent
                      /\ x.pc \in {"prompting", "backing"} /\ Order[x.at] = b =>
                           x.existing = quiet[b] \/ quiet[b] \in backups[b]
                      /\ x.pc = "writing" /\ Order[x.at] = b => quiet[b] \in backups[b]
    OBVIOUS
  <2>1. (output[b] = quiet[b] \/ quiet[b] \in backups[b]) /\ x.mem[b] # NoContent
    BY <1>3, <1>4, <1>6, <1>7
  <2>2. x.pc \in {"prompting", "backing"} /\ Order[x.at] = b => b = a /\ x.existing = e
    BY <1>1, <1>7
  <2>3. x.pc = "writing" /\ Order[x.at] = b => b = a /\ ~ edited
    BY <1>1, <1>7
  <2> QED
    BY <1>8, <1>g, <2>1, <2>2, <2>3
<1> HIDE DEF y, a, edited
<1> QED
  BY <1>1, <1>6, <1>9, <1>10, RunMovesStep DEF RunMoves

LEMMA PromptedStep ==
  ASSUME IInv, NEW r \in Runs, Prompted(r)
  PROVE  IInv'
<1> DEFINE a == Visits(r)
<1>0. TypeOK /\ Records /\ Kept
  BY DEF IInv
<1>1. /\ run[r] \in Run /\ run \in [Runs -> Run]
      /\ a \in Agents /\ a = Order[run[r].at]
      /\ output \in [Agents -> Content] /\ backups \in [Agents -> SUBSET Content]
      /\ due \in BOOLEAN /\ disturbed \in BOOLEAN
  BY <1>0, VisitsAgents DEF TypeOK, Visits
<1>2. /\ \A b \in Agents : Own(run[r].mem[b])
      /\ Holds(run[r])
      /\ \A b \in Agents : quiet[b] # NoContent => quiet[b].by = "user"
  BY <1>0 DEF Records
<1>3. \A b \in Agents : quiet[b] # NoContent =>
        /\ saved[b] # NoContent
        /\ output[b] = quiet[b] \/ quiet[b] \in backups[b]
        /\ Respects(r, b)
  BY <1>0 DEF Kept
<1>4. \A b \in Agents : quiet[b] # NoContent /\ Active(r) => run[r].mem[b] # NoContent
  BY <1>3 DEF Respects
<1>5. PICK x : /\ RunMoves(r, x)
               /\ x = Moved(run[r]) \/ x = [run[r] EXCEPT !.pc = "backing"]
               /\ UNCHANGED <<output, backups, due, disturbed>> /\ run[r].pc = "prompting"
  <2>1. Moved(run[r]) \in Run /\ [run[r] EXCEPT !.pc = "backing"] \in Run
    BY <1>1, MovedRun DEF Run
  <2>2. PICK x : /\ run' = [run EXCEPT ![r] = x]
                 /\ x = Moved(run[r]) \/ x = [run[r] EXCEPT !.pc = "backing"]
    BY DEF Prompted, Goes, Advances
  <2> QED
    BY <2>1, <2>2 DEF Prompted, RunMoves
<1>6. /\ x.mem = run[r].mem /\ x.compiled = run[r].compiled
      /\ \/ x.pc \in {"visiting", "saving"}
         \/ x.pc = "backing" /\ x.existing = run[r].existing /\ x.at = run[r].at
  BY <1>1, <1>5, MovedRun DEF Run
<1>7. \A b \in Agents : quiet[b] # NoContent /\ b = a => run[r].existing = quiet[b] \/ quiet[b] \in backups[b]
  BY <1>3, <1>5 DEF Respects
<1>8. Active(r)
  BY <1>5 DEF Active
<1>9. Holds(x) /\ \A b \in Agents : Own(x.mem[b])
  BY <1>2, <1>5, <1>6 DEF Holds
<1>10. \A b \in Agents : quiet[b] # NoContent =>
        /\ output[b] = quiet[b] \/ quiet[b] \in backups[b]
        /\ x.mem[b] # NoContent
        /\ x.pc \in {"prompting", "backing"} /\ Order[x.at] = b =>
             x.existing = quiet[b] \/ quiet[b] \in backups[b]
        /\ x.pc # "writing"
  <2> HIDE DEF a
  <2> QED
    BY <1>1, <1>3, <1>4, <1>6, <1>7, <1>8
<1> HIDE DEF a
<1> QED
  BY <1>1, <1>5, <1>9, <1>10, RunMovesStep DEF RunMoves

LEMMA BacksUpStep ==
  ASSUME IInv, NEW r \in Runs, BacksUp(r)
  PROVE  IInv'
<1> DEFINE a == Visits(r)
<1>0. TypeOK /\ Records /\ Kept
  BY DEF IInv
<1>1. /\ run[r] \in Run /\ run \in [Runs -> Run]
      /\ a \in Agents /\ a = Order[run[r].at]
      /\ output \in [Agents -> Content] /\ backups \in [Agents -> SUBSET Content]
      /\ due \in BOOLEAN /\ disturbed \in BOOLEAN
  BY <1>0, VisitsAgents DEF TypeOK, Visits
<1>2. /\ \A b \in Agents : Own(run[r].mem[b])
      /\ Holds(run[r])
      /\ \A b \in Agents : quiet[b] # NoContent => quiet[b].by = "user"
  BY <1>0 DEF Records
<1>3. \A b \in Agents : quiet[b] # NoContent =>
        /\ saved[b] # NoContent
        /\ output[b] = quiet[b] \/ quiet[b] \in backups[b]
        /\ Respects(r, b)
  BY <1>0 DEF Kept
<1>4. \A b \in Agents : quiet[b] # NoContent /\ Active(r) => run[r].mem[b] # NoContent
  BY <1>3 DEF Respects
<1> DEFINE x == [run[r] EXCEPT !.pc = "writing"]
<1>5. /\ x \in Run /\ x.mem = run[r].mem /\ x.at = run[r].at
      /\ x.compiled = run[r].compiled /\ x.pc = "writing" /\ run[r].existing \in Content
  BY <1>1 DEF Run
<1>6. RunMoves(r, x) /\ UNCHANGED <<output, due, disturbed>> /\ run[r].pc = "backing"
  BY <1>5 DEF BacksUp, RunMoves, Goes
<1>7. /\ backups' = [backups EXCEPT ![a] = @ \union {run[r].existing}]
      /\ backups' \in [Agents -> SUBSET Content]
      /\ \A b \in Agents : backups[b] \subseteq backups'[b]
  BY <1>1, <1>5 DEF BacksUp
<1>8. \A b \in Agents : quiet[b] # NoContent /\ b = a => quiet[b] \in backups'[b]
  BY <1>1, <1>3, <1>6, <1>7 DEF Respects
<1>9. Active(r)
  BY <1>6 DEF Active
<1>10. Holds(x)
  BY <1>2, <1>5, <1>6 DEF Holds
<1> HIDE DEF x, a
<1> QED
  BY <1>1, <1>2, <1>3, <1>4, <1>5, <1>6, <1>7, <1>8, <1>9, <1>10, RunMovesStep

LEMMA WritesStep ==
  ASSUME IInv, NEW r \in Runs, Writes(r)
  PROVE  IInv'
<1> DEFINE a == Visits(r)
<1>0. TypeOK /\ Records /\ Kept
  BY DEF IInv
<1>1. /\ run[r] \in Run /\ run \in [Runs -> Run]
      /\ a \in Agents /\ a = Order[run[r].at]
      /\ output \in [Agents -> Content] /\ backups \in [Agents -> SUBSET Content]
      /\ due \in BOOLEAN /\ disturbed \in BOOLEAN
  BY <1>0, VisitsAgents DEF TypeOK, Visits
<1>2. /\ \A b \in Agents : Own(run[r].mem[b])
      /\ Holds(run[r])
      /\ \A b \in Agents : quiet[b] # NoContent => quiet[b].by = "user"
  BY <1>0 DEF Records
<1>3. \A b \in Agents : quiet[b] # NoContent =>
        /\ saved[b] # NoContent
        /\ output[b] = quiet[b] \/ quiet[b] \in backups[b]
        /\ Respects(r, b)
  BY <1>0 DEF Kept
<1>4. \A b \in Agents : quiet[b] # NoContent /\ Active(r) => run[r].mem[b] # NoContent
  BY <1>3 DEF Respects
<1> DEFINE y == [run[r] EXCEPT !.mem[a] = run[r].compiled]
           x == Moved(y)
<1>5. /\ y \in Run /\ y.compiled = run[r].compiled
      /\ \A b \in Agents : y.mem[b] = IF b = a THEN run[r].compiled ELSE run[r].mem[b]
      /\ run[r].compiled \in Content
  BY <1>1 DEF Run
<1>6. x \in Run /\ x.pc \in {"visiting", "saving"} /\ x.mem = y.mem /\ x.compiled = y.compiled
  BY <1>5, MovedRun
<1>7. RunMoves(r, x) /\ UNCHANGED <<backups, due, disturbed>> /\ run[r].pc = "writing"
  BY <1>6 DEF Writes, RunMoves
<1>8. PICK c \in Content : output' = [output EXCEPT ![a] = c]
  BY <1>5, Contents DEF Writes, Among
<1>9. \A b \in Agents : quiet[b] # NoContent =>
        output'[b] = quiet[b] \/ quiet[b] \in backups[b]
  BY <1>1, <1>3, <1>7, <1>8 DEF Respects
<1>10. Active(r)
  BY <1>7 DEF Active
<1>11. run[r].compiled # NoContent /\ Own(run[r].compiled) /\ Holds(x)
  BY <1>2, <1>6, <1>7 DEF Holds, Own, NoContent
<1>12. \A b \in Agents : quiet[b] # NoContent => x.mem[b] # NoContent
  BY <1>4, <1>5, <1>6, <1>10, <1>11
<1>13. \A b \in Agents : Own(x.mem[b])
  BY <1>2, <1>5, <1>6, <1>11
<1> HIDE DEF x, y, a
<1> QED
  BY <1>1, <1>2, <1>5, <1>6, <1>7, <1>8, <1>9, <1>11, <1>12, <1>13, RunMovesStep

LEMMA SavesStep ==
  ASSUME IInv, NEW r \in Runs, Saves(r)
  PROVE  IInv'
<1> DEFINE a == Visits(r)
<1>0. TypeOK /\ Records /\ Kept
  BY DEF IInv
<1>1. /\ run[r] \in Run /\ run \in [Runs -> Run]
      /\ a \in Agents /\ a = Order[run[r].at]
      /\ output \in [Agents -> Content] /\ backups \in [Agents -> SUBSET Content]
      /\ due \in BOOLEAN /\ disturbed \in BOOLEAN
  BY <1>0, VisitsAgents DEF TypeOK, Visits
<1>2. /\ \A b \in Agents : Own(run[r].mem[b])
      /\ Holds(run[r])
      /\ \A b \in Agents : quiet[b] # NoContent => quiet[b].by = "user"
  BY <1>0 DEF Records
<1>3. \A b \in Agents : quiet[b] # NoContent =>
        /\ saved[b] # NoContent
        /\ output[b] = quiet[b] \/ quiet[b] \in backups[b]
        /\ Respects(r, b)
  BY <1>0 DEF Kept
<1>4. \A b \in Agents : quiet[b] # NoContent /\ Active(r) => run[r].mem[b] # NoContent
  BY <1>3 DEF Respects
<1>5. PICK m \in {run[r].mem, Blank} :
        saved' = m /\ quiet' = IF m = run[r].mem THEN quiet ELSE Blank
  BY DEF Saves, Among, Lapses
<1>6. run[r].pc = "saving" /\ run' = [run EXCEPT ![r] = Idle]
      /\ UNCHANGED <<now, source, output, backups, due, edits, disturbed>>
  BY DEF Saves
<1>7. /\ run'[r] = Idle /\ \A q \in Runs : q # r => run'[q] = run[q]
      /\ run' \in [Runs -> Run]
  BY <1>1, <1>6, IdleRun
<1>8. saved' \in [Agents -> Content] /\ \A b \in Agents : Own(saved'[b])
  BY <1>1, <1>2, <1>5, Contents DEF Run, Own
<1>9. CASE m = run[r].mem
  <2>1. quiet' = quiet /\ saved' = run[r].mem
    BY <1>5, <1>9
  <2>2. TypeOK'
    BY <1>0, <1>6, <1>7, <1>8, <2>1 DEF TypeOK
  <2>3. Records'
    BY <1>0, <1>7, <1>8, <2>1, IdleRun, Contents DEF Records, Own, Holds
  <2>4. Kept'
    <3> SUFFICES ASSUME NEW b \in Agents, quiet[b] # NoContent
                 PROVE  /\ saved'[b] # NoContent
                        /\ output[b] = quiet[b] \/ quiet[b] \in backups[b]
                        /\ \A q \in Runs : Respects(q, b)'
      BY <1>6, <2>1 DEF Kept
    <3>1. saved'[b] # NoContent
      BY <1>4, <1>6, <2>1 DEF Active
    <3>2. Respects(r, b)'
      BY <1>7, IdleRun DEF Respects, Active
    <3>3. ASSUME NEW q \in Runs, q # r PROVE Respects(q, b)'
      BY <1>0, <1>6, <1>7, <2>1, <3>3 DEF Kept, Respects, Active, Visits
    <3> QED
      BY <1>3, <3>1, <3>2, <3>3
  <2> QED
    BY <2>2, <2>3, <2>4 DEF IInv
<1>10. CASE m # run[r].mem
  <2>1. quiet' = Blank
    BY <1>5, <1>10
  <2>2. Holds(Idle) /\ \A b \in Agents : Own(Idle.mem[b])
    BY IdleRun, Contents DEF Holds, Own
  <2> HIDE DEF a
  <2> QED
    BY <1>1, <1>6, <1>8, <2>1, <2>2, IdleRun, LapseStep
<1> QED
  BY <1>9, <1>10

LEMMA SkipsStep ==
  ASSUME IInv, NEW r \in Runs, Skips(r)
  PROVE  IInv'
<1> DEFINE a == Visits(r)
<1>0. TypeOK /\ Records /\ Kept
  BY DEF IInv
<1>1. /\ run[r] \in Run /\ run \in [Runs -> Run]
      /\ a \in Agents /\ a = Order[run[r].at]
      /\ output \in [Agents -> Content] /\ backups \in [Agents -> SUBSET Content]
      /\ due \in BOOLEAN /\ disturbed \in BOOLEAN
  BY <1>0, VisitsAgents DEF TypeOK, Visits
<1>2. /\ \A b \in Agents : Own(run[r].mem[b])
      /\ Holds(run[r])
      /\ \A b \in Agents : quiet[b] # NoContent => quiet[b].by = "user"
  BY <1>0 DEF Records
<1>3. \A b \in Agents : quiet[b] # NoContent =>
        /\ saved[b] # NoContent
        /\ output[b] = quiet[b] \/ quiet[b] \in backups[b]
        /\ Respects(r, b)
  BY <1>0 DEF Kept
<1>4. \A b \in Agents : quiet[b] # NoContent /\ Active(r) => run[r].mem[b] # NoContent
  BY <1>3 DEF Respects
<1>5. Moved(run[r]) \in Run /\ run[r].pc = "visiting"
  BY <1>1, MovedRun DEF Skips
<1>6. RunMoves(r, Moved(run[r])) /\ UNCHANGED <<output, backups, due, disturbed>> /\ Active(r)
  BY <1>5 DEF Skips, Advances, RunMoves, Active
<1>7. Holds(Moved(run[r])) /\ Moved(run[r]).mem = run[r].mem
      /\ Moved(run[r]).pc \in {"visiting", "saving"}
  BY <1>1, MovedRun DEF Holds
<1> HIDE DEF a
<1> QED
  BY <1>1, <1>2, <1>3, <1>4, <1>5, <1>6, <1>7, RunMovesStep

LEMMA FailsStep ==
  ASSUME IInv, NEW r \in Runs, Fails(r)
  PROVE  IInv'
<1> DEFINE a == Visits(r)
<1>0. TypeOK /\ Records /\ Kept
  BY DEF IInv
<1>1. /\ run[r] \in Run /\ run \in [Runs -> Run]
      /\ a \in Agents /\ a = Order[run[r].at]
      /\ output \in [Agents -> Content] /\ backups \in [Agents -> SUBSET Content]
      /\ due \in BOOLEAN /\ disturbed \in BOOLEAN
  BY <1>0, VisitsAgents DEF TypeOK, Visits
<1>2. /\ \A b \in Agents : Own(run[r].mem[b])
      /\ Holds(run[r])
      /\ \A b \in Agents : quiet[b] # NoContent => quiet[b].by = "user"
  BY <1>0 DEF Records
<1>3. \A b \in Agents : quiet[b] # NoContent =>
        /\ saved[b] # NoContent
        /\ output[b] = quiet[b] \/ quiet[b] \in backups[b]
        /\ Respects(r, b)
  BY <1>0 DEF Kept
<1>4. \A b \in Agents : quiet[b] # NoContent /\ Active(r) => run[r].mem[b] # NoContent
  BY <1>3 DEF Respects
<1>5. RunMoves(r, Idle) /\ UNCHANGED <<output, backups, due>> /\ disturbed' \in BOOLEAN
  BY IdleRun DEF Fails, RunMoves
<1> HIDE DEF a
<1> QED
  BY <1>1, <1>3, <1>5, IdleRun, Contents, RunMovesStep DEF Own, Holds

LEMMA CrashStep ==
  ASSUME IInv, NEW r \in Runs, Crash(r)
  PROVE  IInv'
<1> DEFINE a == Visits(r)
<1>0. TypeOK /\ Records /\ Kept
  BY DEF IInv
<1>1. /\ run[r] \in Run /\ run \in [Runs -> Run]
      /\ a \in Agents /\ a = Order[run[r].at]
      /\ output \in [Agents -> Content] /\ backups \in [Agents -> SUBSET Content]
      /\ due \in BOOLEAN /\ disturbed \in BOOLEAN
  BY <1>0, VisitsAgents DEF TypeOK, Visits
<1>2. /\ \A b \in Agents : Own(run[r].mem[b])
      /\ Holds(run[r])
      /\ \A b \in Agents : quiet[b] # NoContent => quiet[b].by = "user"
  BY <1>0 DEF Records
<1>3. \A b \in Agents : quiet[b] # NoContent =>
        /\ saved[b] # NoContent
        /\ output[b] = quiet[b] \/ quiet[b] \in backups[b]
        /\ Respects(r, b)
  BY <1>0 DEF Kept
<1>4. \A b \in Agents : quiet[b] # NoContent /\ Active(r) => run[r].mem[b] # NoContent
  BY <1>3 DEF Respects
<1>5. CASE UNCHANGED <<saved, quiet>>
  <2>1. RunMoves(r, Idle) /\ UNCHANGED backups /\ disturbed' \in BOOLEAN /\ due' \in BOOLEAN
    BY <1>1, <1>5, IdleRun DEF Crash, RunMoves
  <2>2. \/ UNCHANGED output
        \/ run[r].pc = "writing" /\ output' = [output EXCEPT ![a] = Torn]
    BY <1>5 DEF Crash
  <2>3. output' \in [Agents -> Content]
    BY <1>1, <2>2, Contents
  <2>4. \A b \in Agents : quiet[b] # NoContent =>
          output'[b] = quiet[b] \/ quiet[b] \in backups[b]
    BY <1>1, <1>3, <2>2 DEF Respects
  <2> HIDE DEF a
  <2> QED
    BY <1>1, <2>1, <2>3, <2>4, IdleRun, Contents, RunMovesStep DEF Own, Holds
<1>6. CASE saved' = Blank /\ quiet' = Blank
  <2>1. run' = [run EXCEPT ![r] = Idle] /\ disturbed' \in BOOLEAN /\ due' \in BOOLEAN
    BY <1>1 DEF Crash
  <2>2. output' \in [Agents -> Content]
    BY <1>1, Contents DEF Crash
  <2>3. Holds(Idle) /\ \A b \in Agents : Own(Idle.mem[b]) /\ Own(saved'[b])
    BY <1>6, IdleRun, Contents DEF Holds, Own
  <2>4. UNCHANGED <<now, source, backups, edits>>
    BY DEF Crash
  <2> HIDE DEF a
  <2> QED
    BY <1>6, <2>1, <2>2, <2>3, <2>4, IdleRun, Contents, LapseStep
<1> QED
  BY <1>5, <1>6 DEF Crash

LEMMA EditOutputStep ==
  ASSUME IInv, NEW a \in Agents, EditOutput(a)
  PROVE  IInv'
<1>0. TypeOK /\ Records /\ Kept
  BY DEF IInv
<1>1. edits' \in 0..MaxEdits /\ Edit(edits + 1) \in Content /\ Edit(edits + 1).by = "user"
  <2>1. edits + 1 \in 0..MaxEdits /\ edits' = edits + 1
    BY <1>0, Bounds DEF EditOutput, TypeOK
  <2> QED
    BY <2>1, EditContent
<1>2. /\ output' = [output EXCEPT ![a] = Edit(edits + 1)]
      /\ UNCHANGED <<now, source, saved, backups, due, run, disturbed>>
  BY DEF EditOutput
<1>3. \/ quiet' = [quiet EXCEPT ![a] = NoContent]
      \/ /\ quiet' = [quiet EXCEPT ![a] = Edit(edits + 1)]
         /\ saved[a] # NoContent /\ \A r \in Runs : ~ Active(r)
  BY DEF EditOutput
<1>4. TypeOK'
  BY <1>0, <1>1, <1>2, <1>3, Contents DEF TypeOK
<1>5. Records'
  BY <1>0, <1>1, <1>2, <1>3 DEF Records, TypeOK
<1>6. Kept'
  <2> SUFFICES ASSUME NEW b \in Agents, quiet'[b] # NoContent
               PROVE  /\ saved[b] # NoContent
                      /\ output'[b] = quiet'[b] \/ quiet'[b] \in backups[b]
                      /\ \A r \in Runs : Respects(r, b)'
    BY <1>2 DEF Kept
  <2>1. CASE b # a
    <3>1. quiet'[b] = quiet[b] /\ output'[b] = output[b]
      BY <1>0, <1>2, <1>3, <2>1 DEF TypeOK
    <3> QED
      BY <1>0, <1>2, <3>1 DEF Kept, Respects, Active, Visits
  <2>2. CASE b = a
    <3>1. /\ quiet'[b] = Edit(edits + 1) /\ output'[b] = Edit(edits + 1)
          /\ saved[b] # NoContent /\ \A r \in Runs : ~ Active(r)
      BY <1>0, <1>2, <1>3, <2>2 DEF TypeOK
    <3> QED
      BY <1>2, <3>1 DEF Respects, Active
  <2> QED
    BY <2>1, <2>2
<1> QED
  BY <1>4, <1>5, <1>6 DEF IInv

LEMMA RemoveOutputStep ==
  ASSUME IInv, NEW a \in Agents, RemoveOutput(a)
  PROVE  IInv'
<1>0. TypeOK /\ Records /\ Kept
  BY DEF IInv
<1>1. /\ output' = [output EXCEPT ![a] = NoContent] /\ quiet' = [quiet EXCEPT ![a] = NoContent]
      /\ UNCHANGED <<now, source, saved, backups, due, run, edits, disturbed>>
  BY DEF RemoveOutput
<1>2. TypeOK'
  BY <1>0, <1>1, Contents DEF TypeOK
<1>3. Records'
  BY <1>0, <1>1 DEF Records, TypeOK
<1>4. Kept'
  <2> SUFFICES ASSUME NEW b \in Agents, quiet'[b] # NoContent
               PROVE  /\ saved[b] # NoContent
                      /\ output'[b] = quiet'[b] \/ quiet'[b] \in backups[b]
                      /\ \A r \in Runs : Respects(r, b)'
    BY <1>1 DEF Kept
  <2>1. b # a /\ quiet'[b] = quiet[b] /\ output'[b] = output[b]
    BY <1>0, <1>1 DEF TypeOK
  <2> QED
    BY <1>0, <1>1, <2>1 DEF Kept, Respects, Active, Visits
<1> QED
  BY <1>2, <1>3, <1>4 DEF IInv

LEMMA StepPreserves == IInv /\ [Next]_vars => IInv'
<1> SUFFICES ASSUME IInv, [Next]_vars PROVE IInv'
  OBVIOUS
<1>1. ASSUME NEW r \in Runs, SyncAll(r) \/ Flush(r) PROVE IInv'
  <2>1. Loads(r) /\ due' \in BOOLEAN
    BY <1>1 DEF SyncAll, Flush, IInv, TypeOK
  <2> QED
    BY <2>1, LoadsStep
<1>2. ASSUME NEW r \in Runs, Syncing(r) PROVE IInv'
  BY <1>2, CompilesStep, ReadsStep, BacksUpStep, WritesStep, SavesStep DEF Syncing
<1>3. ASSUME NEW r \in Runs, Prompted(r) \/ Skips(r) \/ Fails(r) \/ Crash(r) PROVE IInv'
  BY <1>3, PromptedStep, SkipsStep, FailsStep, CrashStep
<1>4. ASSUME NEW a \in Agents, EditSource(a) PROVE IInv'
  <2>1. TypeOK'
    BY <1>4, SyncParameters DEF IInv, TypeOK, EditSource
  <2>2. Records' /\ Kept'
    BY <1>4 DEF IInv, EditSource, Records, Kept, Respects, Active, Visits
  <2> QED
    BY <2>1, <2>2 DEF IInv
<1>5. ASSUME NEW a \in Agents, EditOutput(a) \/ RemoveOutput(a) PROVE IInv'
  BY <1>5, EditOutputStep, RemoveOutputStep
<1>6. CASE Tick
  <2>1. TypeOK'
    BY <1>6, SyncParameters DEF IInv, TypeOK, Tick
  <2>2. Records' /\ Kept'
    BY <1>6 DEF IInv, Tick, Records, Kept, Respects, Active, Visits
  <2> QED
    BY <2>1, <2>2 DEF IInv
<1>7. CASE UNCHANGED vars
  BY <1>7 DEF IInv, vars, TypeOK, Records, Kept, Respects, Active, Visits
<1> QED
  BY <1>1, <1>2, <1>3, <1>4, <1>5, <1>6, <1>7 DEF Next

(* The inductive invariant holds of every behaviour. *)
THEOREM Invariance == Spec => []IInv
<1>1. Init => IInv
  BY InitEstablishes
<1>2. IInv /\ [Next]_vars => IInv'
  BY StepPreserves
<1> QED
  BY <1>1, <1>2, PTL DEF Spec

(* Every reachable state has its types. *)
THEOREM TypeCorrect == Spec => []TypeOK
<1>1. IInv => TypeOK
  BY DEF IInv
<1> QED
  BY <1>1, Invariance, PTL

(* An edit made on a recorded output while no sync is in progress stays in *)
(* the file or gets into a backup, for any number of overlapping syncs,    *)
(* failures and crashes that do not tear the state file                    *)
(* (engine.ts:162-208).                                                    *)
THEOREM QuietEditsAreKept == Spec => []QuietEditsSurvive
<1>1. IInv => QuietEditsSurvive
  BY DEF IInv, Kept, QuietEditsSurvive
<1> QED
  BY <1>1, Invariance, PTL

(* SyncEngine.syncAll: types hold, and an edit made at rest is kept.       *)
THEOREM EditsAreKept == Spec => []EditsKept
<1>1. TypeOK /\ QuietEditsSurvive => EditsKept
  BY DEF EditsKept
<1> QED BY <1>1, TypeCorrect, QuietEditsAreKept, PTL

-----------------------------------------------------------------------------
(* The records m name every output of Orqenix's own that they know.        *)
Recognises(m) ==
  \A a \in Agents : output[a].by = "orqenix" => m[a] = NoContent \/ m[a] = output[a]

(* As long as nothing is disturbed one sync runs, which knows the outputs; *)
(* at rest the state file does.                                            *)
OneSync ==
  /\ \A q, r \in Runs : Active(q) /\ Active(r) => q = r
  /\ \A r \in Runs : Active(r) => Recognises(run[r].mem)
  /\ (\A r \in Runs : ~ Active(r)) => Recognises(saved)

(* A step of the sync in progress that leaves the outputs alone.           *)
LEMMA SyncGoesOn ==
  ASSUME TypeOK, disturbed \/ OneSync, NEW r \in Runs, Active(r),
         NEW x \in Run, run' = [run EXCEPT ![r] = x], x.mem = run[r].mem, x.pc # "idle",
         UNCHANGED <<output, saved, disturbed>>
  PROVE  disturbed' \/ OneSync'
<1>1. /\ run'[r] = x /\ \A q \in Runs \ {r} : run'[q] = run[q]
  BY DEF TypeOK
<1>2. \A q \in Runs : Active(q)' <=> Active(q)
  BY <1>1 DEF Active
<1>3. \A q \in Runs : run'[q].mem = run[q].mem
  BY <1>1
<1> QED BY <1>2, <1>3 DEF OneSync, Recognises

LEMMA LoadsRecognises ==
  ASSUME TypeOK, disturbed \/ OneSync, NEW r \in Runs, Loads(r)
  PROVE  disturbed' \/ OneSync'
<1> SUFFICES ASSUME ~ disturbed' PROVE OneSync'
  OBVIOUS
<1>1. PICK m \in Among(saved, Blank, StateBusy(r)) :
        run' = [run EXCEPT ![r] = [Idle EXCEPT !.pc = "visiting", !.mem = m]]
  BY DEF Loads
<1>2. /\ ~ disturbed /\ \A q \in Runs : ~ Active(q)
      /\ UNCHANGED <<output, saved>>
  BY DEF Loads
<1>3. Recognises(saved) /\ m \in {saved, Blank}
  BY <1>1, <1>2 DEF OneSync, Among
<1>4. /\ run'[r].pc = "visiting" /\ run'[r].mem = m
      /\ \A q \in Runs \ {r} : run'[q] = run[q]
  BY <1>1 DEF TypeOK, Idle
<1>5. \A q \in Runs : Active(q)' <=> q = r
  BY <1>2, <1>4 DEF Active
<1>6. Recognises(m)'
  BY <1>2, <1>3, Contents DEF Recognises
<1>7. \A q \in Runs : Active(q)' => Recognises(run[q].mem)'
  BY <1>4, <1>5, <1>6 DEF Recognises
<1> QED BY <1>5, <1>7 DEF OneSync

LEMMA WritesRecognises ==
  ASSUME TypeOK, disturbed \/ OneSync, NEW r \in Runs, Writes(r)
  PROVE  disturbed' \/ OneSync'
<1> DEFINE a == Visits(r)
           x == [run[r] EXCEPT !.mem[a] = run[r].compiled]
<1>1. /\ run[r].pc = "writing" /\ Active(r) /\ run[r] \in Run /\ a \in Agents
      /\ run' = [run EXCEPT ![r] = Moved(x)] /\ UNCHANGED <<saved, disturbed>>
  BY VisitsAgents DEF Writes, TypeOK, Active
<1>2. PICK c \in Among(run[r].compiled, Torn, OutputBusy(r, a)) : output' = [output EXCEPT ![a] = c]
  BY DEF Writes
<1>3. c = run[r].compiled \/ c.by = "torn"
  BY <1>2 DEF Among, Torn
<1>4. x \in Run /\ x.mem = [run[r].mem EXCEPT ![a] = run[r].compiled]
  BY <1>1 DEF Run
<1> HIDE DEF x
<1>5. Moved(x).pc # "idle" /\ Moved(x).mem = x.mem
  BY <1>4, MovedRun
<1>6. /\ run'[r] = Moved(x) /\ \A q \in Runs \ {r} : run'[q] = run[q]
  BY <1>1 DEF TypeOK
<1>7. \A q \in Runs : Active(q)' <=> Active(q)
  BY <1>1, <1>5, <1>6 DEF Active
<1>8. /\ output'[a] = c /\ \A b \in Agents \ {a} : output'[b] = output[b]
      /\ x.mem[a] = run[r].compiled /\ \A b \in Agents \ {a} : x.mem[b] = run[r].mem[b]
  BY <1>1, <1>2, <1>4 DEF TypeOK, Run
<1>9. ASSUME OneSync PROVE OneSync'
  <2>1. Recognises(run[r].mem) /\ \A q \in Runs : Active(q) => q = r
    BY <1>1, <1>9 DEF OneSync
  <2>2. Recognises(run[r].mem)'
    <3>1. \A b \in Agents : output'[b].by = "orqenix" => x.mem[b] = NoContent \/ x.mem[b] = output'[b]
      BY <1>3, <1>8, <2>1 DEF Recognises
    <3>2. run'[r].mem = x.mem
      BY <1>5, <1>6
    <3> QED BY <3>1, <3>2 DEF Recognises
  <2> QED BY <1>1, <1>7, <2>1, <2>2 DEF OneSync
<1> QED BY <1>1, <1>9

LEMMA SavesRecognises ==
  ASSUME TypeOK, disturbed \/ OneSync, NEW r \in Runs, Saves(r)
  PROVE  disturbed' \/ OneSync'
<1>1. PICK m \in Among(run[r].mem, Blank, StateBusy(r)) : saved' = m
  BY DEF Saves
<1>2. /\ Active(r) /\ run' = [run EXCEPT ![r] = Idle] /\ UNCHANGED <<output, disturbed>>
      /\ m \in {run[r].mem, Blank}
  BY <1>1 DEF Saves, Active, Among
<1>3. /\ run'[r] = Idle /\ \A q \in Runs \ {r} : run'[q] = run[q]
  BY <1>2 DEF TypeOK
<1>4. \A q \in Runs : Active(q)' <=> Active(q) /\ q # r
  BY <1>3, IdleRun DEF Active
<1>5. ASSUME OneSync PROVE OneSync'
  <2>1. Recognises(run[r].mem) /\ \A q \in Runs : ~ Active(q)'
    BY <1>2, <1>4, <1>5 DEF OneSync
  <2>2. Recognises(saved)'
    BY <1>1, <1>2, <2>1, Contents DEF Recognises
  <2> QED BY <2>1, <2>2 DEF OneSync
<1> QED BY <1>2, <1>5

(* A step of the user: an output changes to what is not Orqenix's.         *)
LEMMA UserRecognises ==
  ASSUME TypeOK, disturbed \/ OneSync, NEW a \in Agents, NEW c,
         output' = [output EXCEPT ![a] = c], c.by # "orqenix",
         UNCHANGED <<run, saved, disturbed>>
  PROVE  disturbed' \/ OneSync'
<1>1. output'[a] = c /\ \A b \in Agents \ {a} : output'[b] = output[b]
  BY DEF TypeOK
<1>2. \A r \in Runs : (Recognises(run[r].mem) => Recognises(run[r].mem)') /\ (Active(r)' <=> Active(r))
  BY <1>1 DEF Recognises, Active
<1>3. Recognises(saved) => Recognises(saved)'
  BY <1>1 DEF Recognises
<1> QED BY <1>2, <1>3 DEF OneSync

LEMMA StepRecognises ==
  ASSUME TypeOK, TypeOK', disturbed \/ OneSync, [Next]_vars
  PROVE  disturbed' \/ OneSync'
<1>1. ASSUME NEW r \in Runs, SyncAll(r) \/ Flush(r) PROVE disturbed' \/ OneSync'
  BY <1>1, LoadsRecognises DEF SyncAll, Flush
<1>2. ASSUME NEW r \in Runs, Compiles(r) PROVE disturbed' \/ OneSync'
  <2> DEFINE x == [run[r] EXCEPT !.compiled = Compiled(source[Visits(r)]),
                                 !.pc = IF output[Visits(r)] = NoContent THEN "writing" ELSE "reading"]
  <2>1. Active(r) /\ run[r] \in Run /\ run' = [run EXCEPT ![r] = x]
        /\ UNCHANGED <<output, saved, disturbed>>
    BY <1>2 DEF Compiles, Active, TypeOK
  <2>2. x = run'[r]
    BY <2>1 DEF TypeOK
  <2>3. x \in Run
    BY <2>2 DEF TypeOK
  <2>4. x.mem = run[r].mem /\ x.pc # "idle"
    BY <2>1 DEF Run
  <2> HIDE DEF x
  <2> QED BY <2>1, <2>3, <2>4, SyncGoesOn
<1>3. ASSUME NEW r \in Runs, Skips(r) PROVE disturbed' \/ OneSync'
  <2>1. Active(r) /\ run[r] \in Run /\ run' = [run EXCEPT ![r] = Moved(run[r])]
        /\ UNCHANGED <<output, saved, disturbed>>
    BY <1>3 DEF Skips, Advances, Active, TypeOK
  <2>2. Moved(run[r]) \in Run /\ Moved(run[r]).pc # "idle" /\ Moved(run[r]).mem = run[r].mem
    BY <2>1, MovedRun
  <2> QED BY <2>1, <2>2, SyncGoesOn
<1>4. ASSUME NEW r \in Runs, Reads(r) PROVE disturbed' \/ OneSync'
  <2>1. Active(r) /\ run[r] \in Run /\ UNCHANGED <<output, saved, disturbed>>
    BY <1>4 DEF Reads, Active, TypeOK
  <2>2. PICK e \in Among(output[Visits(r)], Torn, OutputBusy(r, Visits(r))) : ReadsAs(r, e)
    BY <1>4 DEF Reads
  <2>3. e \in Content
    BY <2>2, VisitsAgents, Contents DEF Among, TypeOK
  <2> DEFINE x == [run[r] EXCEPT !.existing = e]
  <2>4. x \in Run /\ x.mem = run[r].mem
    BY <2>1, <2>3 DEF Run
  <2>5. \/ \E pc \in {"backing", "prompting", "writing"} : run' = [run EXCEPT ![r] = [x EXCEPT !.pc = pc]]
        \/ run' = [run EXCEPT ![r] = Moved(x)]
    BY <2>2 DEF ReadsAs
  <2> HIDE DEF x
  <2>6. CASE run' = [run EXCEPT ![r] = Moved(x)]
    <3>1. Moved(x) \in Run /\ Moved(x).pc # "idle" /\ Moved(x).mem = run[r].mem
      BY <2>4, MovedRun
    <3> QED BY <2>1, <2>6, <3>1, SyncGoesOn
  <2>7. ASSUME NEW pc \in {"backing", "prompting", "writing"}, run' = [run EXCEPT ![r] = [x EXCEPT !.pc = pc]]
        PROVE  disturbed' \/ OneSync'
    <3> DEFINE y == [x EXCEPT !.pc = pc]
    <3>1. y \in Run /\ y.mem = run[r].mem /\ y.pc # "idle"
      BY <2>4, <2>7 DEF Run
    <3>2. run' = [run EXCEPT ![r] = y]
      BY <2>7
    <3> HIDE DEF y
    <3> QED BY <2>1, <3>1, <3>2, SyncGoesOn
  <2> QED BY <2>5, <2>6, <2>7
<1>5. ASSUME NEW r \in Runs, NEW pc \in {"backing", "writing"}, Active(r), Goes(r, pc),
             UNCHANGED <<output, saved, disturbed>>
      PROVE  disturbed' \/ OneSync'
  <2> DEFINE y == [run[r] EXCEPT !.pc = pc]
  <2>1. run[r] \in Run
    BY DEF TypeOK
  <2>2. y \in Run /\ y.mem = run[r].mem /\ y.pc # "idle"
    BY <1>5, <2>1 DEF Run
  <2>3. run' = [run EXCEPT ![r] = y]
    BY <1>5 DEF Goes
  <2> HIDE DEF y
  <2> QED BY <1>5, <2>2, <2>3, SyncGoesOn
<1>6. ASSUME NEW r \in Runs, Prompted(r) PROVE disturbed' \/ OneSync'
  <2>1. Active(r) /\ run[r] \in Run /\ UNCHANGED <<output, saved, disturbed>>
    BY <1>6 DEF Prompted, Active, TypeOK
  <2>2. CASE Goes(r, "backing")
    BY <1>5, <2>1, <2>2
  <2>3. CASE Advances(r)
    <3>1. run' = [run EXCEPT ![r] = Moved(run[r])]
      BY <2>3 DEF Advances, TypeOK
    <3>2. Moved(run[r]) \in Run /\ Moved(run[r]).pc # "idle" /\ Moved(run[r]).mem = run[r].mem
      BY <2>1, MovedRun
    <3> QED BY <2>1, <3>1, <3>2, SyncGoesOn
  <2> QED BY <1>6, <2>2, <2>3 DEF Prompted
<1>7. ASSUME NEW r \in Runs, BacksUp(r) PROVE disturbed' \/ OneSync'
  BY <1>5, <1>7 DEF BacksUp, Active
<1>8. ASSUME NEW r \in Runs, Fails(r) \/ Crash(r) PROVE disturbed' \/ OneSync'
  BY <1>8 DEF Fails, Crash
<1>9. ASSUME NEW a \in Agents, EditOutput(a) PROVE disturbed' \/ OneSync'
  <2>1. Edit(edits + 1).by = "user"
    BY DEF Edit
  <2> QED BY <1>9, <2>1, UserRecognises DEF EditOutput
<1>10. ASSUME NEW a \in Agents, RemoveOutput(a) PROVE disturbed' \/ OneSync'
  <2>1. NoContent.by = "nobody"
    BY DEF NoContent
  <2> QED BY <1>10, <2>1, UserRecognises DEF RemoveOutput
<1>11. CASE UNCHANGED <<run, output, saved, disturbed>>
  BY <1>11 DEF OneSync, Active, Recognises
<1>12. ASSUME NEW a \in Agents, EditSource(a) PROVE disturbed' \/ OneSync'
  BY <1>11, <1>12 DEF EditSource
<1>13. CASE Tick
  BY <1>11, <1>13 DEF Tick
<1>14. CASE UNCHANGED vars
  BY <1>11, <1>14 DEF vars
<1> QED BY <1>1, <1>2, <1>3, <1>4, <1>6, <1>7, <1>8, <1>9, <1>10, <1>12, <1>13, <1>14,
           WritesRecognises, SavesRecognises DEF Next, Syncing

(* For any agents, configuration and faults: while nothing is disturbed no *)
(* output of Orqenix's own is taken for an external edit.                  *)
THEOREM OwnOutputsAreRecognised == Spec => []OwnOutputsRecognised
<1>1. Init => disturbed \/ OneSync
  BY Contents, IdleRun DEF Init, OneSync, Active, Recognises
<1>2. TypeOK /\ TypeOK' /\ (disturbed \/ OneSync) /\ [Next]_vars => (disturbed \/ OneSync)'
  BY StepRecognises
<1>3. TypeOK /\ (disturbed \/ OneSync) => OwnOutputsRecognised
  <2> SUFFICES ASSUME TypeOK, OneSync, NEW r \in Runs, run[r].pc \in {"visiting", "reading"},
                      output[Visits(r)].by = "orqenix"
               PROVE  ~ ExternallyEdited(Record(r), output[Visits(r)])
    BY DEF OwnOutputsRecognised
  <2>1. Recognises(run[r].mem) /\ Visits(r) \in Agents
    BY VisitsAgents DEF OneSync, Active
  <2> QED BY <2>1 DEF Recognises, ExternallyEdited, Record
<1> QED BY <1>1, <1>2, <1>3, TypeCorrect, PTL DEF Spec
-----------------------------------------------------------------------------
(* The index of a directory: a file whose change is not under way to it is *)
(* right, while passes come one after the other.                           *)

Event == [kind : {"unlink", "change"}, file : Files]
Version == 0 .. MaxChanges
Entry == [hash : Version, size : Version]
Look == [at : {"stat", "read", "index"}, size : Version, hash : Version]

FilesTyped ==
  /\ FilesTypeOK
  /\ changes \in 1 .. MaxChanges
  /\ covers = {"idle"} \/ covers \subseteq Files
  /\ pending \in Seq(Event)
  /\ todo \in [Passes -> Seq(Event) \union Seq(Files)]
  /\ todo[Scan] \in Seq(Files) /\ \A b \in Batches : todo[b] \in Seq(Event)
  /\ look \in [Passes -> Look]
  /\ before \subseteq [file : Files, hash : Version] /\ visited \subseteq Files
  /\ \A p \in Passes : IdleBatch(p) => look[p] = NotLooked
  /\ ~ Scanning => IdleBatch(Scan)

(* Every change of f was reported, or is covered by the scan; and no event *)
(* of it is due.                                                           *)
Seen(f) == f \notin unseen \union (missed \ covers)
Quiet(f) == Seen(f) /\ f \notin FilesOf(pending)

RightEntry(f) == index[f] = [hash |-> disk[f], size |-> disk[f]]

(* An unlink event of a file that is there is not the last one of it.      *)
LastRight(events, f, version) ==
  \A i \in DOMAIN events :
    events[i].kind = "unlink" /\ events[i].file = f /\ version # 0 =>
      \E j \in DOMAIN events : j > i /\ events[j].file = f

LookRight(l, version) ==
  /\ l.at \in {"read", "index"} => version # 0 /\ l.size = version
  /\ l.at = "index" => l.hash = version

Queued(files) == {files[i] : i \in DOMAIN files}

PendingRight == \A f \in Files : Seen(f) => LastRight(pending, f, disk[f])

OnePass ==
  /\ Scanning => \A b \in Batches : IdleBatch(b)
  /\ \A b, c \in Batches : b = c \/ IdleBatch(b) \/ IdleBatch(c)

BatchRight(b, f) ==
  /\ LastRight(todo[b], f, disk[f])
  /\ ~ IdleBatch(b) /\ File(b) = f => LookRight(look[b], disk[f])

ScanRight(f) ==
  /\ f \in Queued(todo[Scan]) => disk[f] # 0
  /\ ~ IdleBatch(Scan) /\ File(Scan) = f => LookRight(look[Scan], disk[f])
  /\ disk[f] # 0 /\ f \notin Queued(todo[Scan]) \union spoilt => f \in visited /\ RightEntry(f)
  /\ disk[f] = 0 => f \notin visited /\ (index[f] = Absent \/ \E e \in before : e.file = f)
  /\ \A e \in before : e.file = f => index[f].hash = e.hash \/ RightEntry(f)

IndexRight(f) ==
  f \notin spoilt /\ (\A b \in Batches : f \notin FilesOf(todo[b])) => RightEntry(f)

FileRight(f) ==
  /\ \A b \in Batches : BatchRight(b, f)
  /\ IF Scanning THEN ScanRight(f) ELSE IndexRight(f)

FlowRight == ~ crossed => OnePass /\ \A f \in Files : Quiet(f) => FileRight(f)

FilesInv == FilesTyped /\ PendingRight /\ FlowRight
-----------------------------------------------------------------------------
(* Events that come and go.                                                *)

LEMMA TailEvents ==
  ASSUME NEW S, NEW s \in Seq(S), s # << >>
  PROVE  /\ Head(s) \in S /\ Tail(s) \in Seq(S) /\ s[1] = Head(s) /\ 1 \in DOMAIN s
         /\ \A i \in DOMAIN Tail(s) : i + 1 \in DOMAIN s /\ Tail(s)[i] = s[i + 1]
         /\ \A i \in DOMAIN s : i = 1 \/ (i > 1 /\ i - 1 \in DOMAIN Tail(s) /\ Tail(s)[i - 1] = s[i])
<1>1. /\ Head(s) \in S /\ Tail(s) \in Seq(S) /\ Len(Tail(s)) = Len(s) - 1
      /\ \A i \in 1 .. Len(Tail(s)) : Tail(s)[i] = s[i + 1]
  BY HeadTailProperties
<1>2. Len(s) \in Nat /\ Len(s) # 0 /\ DOMAIN s = 1 .. Len(s) /\ DOMAIN Tail(s) = 1 .. Len(s) - 1
  BY <1>1, LenProperties
<1> QED BY <1>1, <1>2

LEMMA TailFiles ==
  ASSUME NEW s \in Seq(Event), s # << >>
  PROVE  FilesOf(s) = FilesOf(Tail(s)) \union {Head(s).file}
<1>1. ASSUME NEW f \in FilesOf(s) PROVE f \in FilesOf(Tail(s)) \union {Head(s).file}
  <2>1. PICK i \in DOMAIN s : f = s[i].file
    BY DEF FilesOf
  <2>2. i = 1 \/ (i - 1 \in DOMAIN Tail(s) /\ Tail(s)[i - 1] = s[i])
    BY TailEvents
  <2>3. CASE i = 1
    BY <2>1, <2>3, TailEvents
  <2>4. CASE i - 1 \in DOMAIN Tail(s) /\ Tail(s)[i - 1] = s[i]
    BY <2>1, <2>4 DEF FilesOf
  <2> QED BY <2>2, <2>3, <2>4
<1>2. Head(s).file \in FilesOf(s)
  <2>1. 1 \in DOMAIN s /\ s[1] = Head(s)
    BY TailEvents
  <2> QED BY <2>1 DEF FilesOf
<1>3. ASSUME NEW f \in FilesOf(Tail(s)) PROVE f \in FilesOf(s)
  <2>1. PICK i \in DOMAIN Tail(s) : f = Tail(s)[i].file
    BY DEF FilesOf
  <2> QED BY <2>1, TailEvents DEF FilesOf
<1> QED BY <1>1, <1>2, <1>3

LEMMA TailQueued ==
  ASSUME NEW s \in Seq(Files), s # << >>
  PROVE  Queued(s) = Queued(Tail(s)) \union {Head(s)}
<1>1. ASSUME NEW f \in Queued(s) PROVE f \in Queued(Tail(s)) \union {Head(s)}
  <2>1. PICK i \in DOMAIN s : f = s[i]
    BY DEF Queued
  <2>2. i = 1 \/ (i - 1 \in DOMAIN Tail(s) /\ Tail(s)[i - 1] = s[i])
    BY TailEvents
  <2>3. CASE i = 1
    BY <2>1, <2>3, TailEvents
  <2>4. CASE i - 1 \in DOMAIN Tail(s) /\ Tail(s)[i - 1] = s[i]
    BY <2>1, <2>4 DEF Queued
  <2> QED BY <2>2, <2>3, <2>4
<1>2. Head(s) \in Queued(s)
  <2>1. 1 \in DOMAIN s /\ s[1] = Head(s)
    BY TailEvents
  <2> QED BY <2>1 DEF Queued
<1>3. ASSUME NEW f \in Queued(Tail(s)) PROVE f \in Queued(s)
  <2>1. PICK i \in DOMAIN Tail(s) : f = Tail(s)[i]
    BY DEF Queued
  <2> QED BY <2>1, TailEvents DEF Queued
<1> QED BY <1>1, <1>2, <1>3

LEMMA TailLast ==
  ASSUME NEW s \in Seq(Event), s # << >>, NEW f, NEW version, LastRight(s, f, version)
  PROVE  LastRight(Tail(s), f, version)
<1>1. ASSUME NEW i \in DOMAIN Tail(s), Tail(s)[i].kind = "unlink", Tail(s)[i].file = f, version # 0
      PROVE  \E j \in DOMAIN Tail(s) : j > i /\ Tail(s)[j].file = f
  <2>1. i + 1 \in DOMAIN s /\ s[i + 1] = Tail(s)[i] /\ i \in Nat
    BY TailEvents, LenProperties
  <2>2. PICK j \in DOMAIN s : j > i + 1 /\ s[j].file = f
    BY <1>1, <2>1 DEF LastRight
  <2>3. j \in Nat /\ j - 1 \in DOMAIN Tail(s) /\ Tail(s)[j - 1] = s[j]
    BY <2>1, <2>2, TailEvents, LenProperties
  <2> QED BY <2>1, <2>2, <2>3
<1> QED BY <1>1 DEF LastRight

(* The head is an unlink event of a file that is there: another follows.   *)
LEMMA HeadLast ==
  ASSUME NEW s \in Seq(Event), s # << >>, NEW version, LastRight(s, Head(s).file, version),
         Head(s).kind = "unlink", version # 0
  PROVE  Head(s).file \in FilesOf(Tail(s))
<1>1. PICK j \in DOMAIN s : j > 1 /\ s[j].file = Head(s).file
  BY TailEvents DEF LastRight
<1>2. j - 1 \in DOMAIN Tail(s) /\ Tail(s)[j - 1] = s[j]
  BY <1>1, TailEvents
<1> QED BY <1>1, <1>2 DEF FilesOf

LEMMA AppendLast ==
  ASSUME NEW s \in Seq(Event), NEW e \in Event, NEW f, NEW version,
         e.file = f => (e.kind = "unlink" => version = 0),
         e.file # f => LastRight(s, f, version)
  PROVE  LastRight(Append(s, e), f, version)
<1>1. /\ Len(s) \in Nat /\ DOMAIN s = 1 .. Len(s) /\ DOMAIN Append(s, e) = 1 .. Len(s) + 1
      /\ Append(s, e)[Len(s) + 1] = e /\ \A i \in 1 .. Len(s) : Append(s, e)[i] = s[i]
  BY AppendProperties, LenProperties
<1>2. ASSUME NEW i \in 1 .. Len(s) + 1, Append(s, e)[i].kind = "unlink", Append(s, e)[i].file = f, version # 0
      PROVE  \E j \in 1 .. Len(s) + 1 : j > i /\ Append(s, e)[j].file = f
  <2>1. i \in 1 .. Len(s)
    BY <1>1, <1>2
  <2>2. CASE e.file = f
    BY <1>1, <2>1, <2>2
  <2>3. CASE e.file # f
    <3>1. PICK j \in DOMAIN s : j > i /\ s[j].file = f
      BY <1>1, <1>2, <2>1, <2>3 DEF LastRight
    <3> QED BY <1>1, <3>1
  <2> QED BY <2>2, <2>3
<1> QED BY <1>1, <1>2 DEF LastRight

LEMMA AppendFiles ==
  ASSUME NEW s \in Seq(Event), NEW e \in Event
  PROVE  FilesOf(Append(s, e)) = FilesOf(s) \union {e.file}
<1>1. /\ Len(s) \in Nat /\ DOMAIN s = 1 .. Len(s) /\ DOMAIN Append(s, e) = 1 .. Len(s) + 1
      /\ Append(s, e)[Len(s) + 1] = e /\ \A i \in 1 .. Len(s) : Append(s, e)[i] = s[i]
  BY AppendProperties, LenProperties
<1>2. ASSUME NEW f \in FilesOf(Append(s, e)) PROVE f \in FilesOf(s) \union {e.file}
  BY <1>1 DEF FilesOf
<1>3. ASSUME NEW f \in FilesOf(s) \union {e.file} PROVE f \in FilesOf(Append(s, e))
  BY <1>1 DEF FilesOf
<1> QED BY <1>2, <1>3

LEMMA EventFiles ==
  /\ FilesOf(<< >>) = {} /\ << >> \in Seq(Event)
  /\ \A f, version : LastRight(<< >>, f, version)
  /\ \A s \in Seq(Event) : FilesOf(s) \subseteq Files
<1>1. DOMAIN << >> = {} /\ << >> \in Seq(Event)
  OBVIOUS
<1>2. ASSUME NEW s \in Seq(Event), NEW i \in DOMAIN s PROVE s[i].file \in Files
  <2>1. s[i] \in Event
    BY <1>2
  <2> QED BY <2>1 DEF Event
<1> QED BY <1>1, <1>2 DEF FilesOf, LastRight

(* Files that a scan covers no longer do not end it.                       *)
LEMMA ScanGoesOn ==
  ASSUME covers = {"idle"} \/ covers \subseteq Files, NEW S \in SUBSET Files, covers' = covers \ S
  PROVE  Scanning' = Scanning /\ (covers' = {"idle"} \/ covers' \subseteq Files)
BY FileParameters DEF Scanning
-----------------------------------------------------------------------------
(* A step that leaves a file and the passes alone.                         *)
LEMMA FileStays ==
  ASSUME NEW f \in Files, FileRight(f), disk'[f] = disk[f], Scanning' = Scanning,
         UNCHANGED <<index, todo, look, before, visited, spoilt>>
  PROVE  FileRight(f)'
BY DEF FileRight, BatchRight, ScanRight, IndexRight, RightEntry, IdleBatch, File

LEMMA FilesInitially == FilesInit => FilesInv
<1> SUFFICES ASSUME FilesInit PROVE FilesInv
  OBVIOUS
<1> USE FileParameters DEF FilesInit
<1>1. Scan \in Passes /\ \A p \in Passes : todo[p] = << >> /\ look[p] = NotLooked
  BY DEF Passes
<1>2. NotLooked \in Look /\ Absent \in Entry
  BY DEF NotLooked, Look, Absent, Entry, Version
<1>3. FilesTypeOK
  BY <1>1, <1>2 DEF FilesTypeOK, Entry, Version, NotLooked
<1>4. << >> \in Seq(Event) /\ << >> \in Seq(Files)
  OBVIOUS
<1>5. FilesTyped
  BY <1>1, <1>2, <1>3, <1>4 DEF FilesTyped, Scanning, IdleBatch, Passes
<1>6. PendingRight
  BY EventFiles DEF PendingRight
<1>7. OnePass
  BY <1>1 DEF OnePass, IdleBatch, Passes
<1>8. ASSUME NEW f \in Files, Quiet(f) PROVE FileRight(f)
  <2>1. disk[f] = 0 /\ index[f] = Absent
    BY <1>8 DEF Quiet, Seen
  <2>2. RightEntry(f)
    BY <2>1 DEF RightEntry, Absent
  <2> QED BY <1>1, <2>2, EventFiles DEF FileRight, BatchRight, IndexRight, Scanning, IdleBatch, Passes
<1> QED BY <1>5, <1>6, <1>7, <1>8 DEF FilesInv, FlowRight
-----------------------------------------------------------------------------
(* The steps of the directory and of the watcher.                          *)

LEMMA ChangeKeeps ==
  ASSUME FilesInv, NEW g \in Files, FileChanges(g)
  PROVE  FilesInv'
<1>1. /\ changes < MaxChanges /\ changes' = changes + 1
      /\ UNCHANGED <<watchVars, index, todo, look, before, visited, spoilt, crossed>>
  BY DEF FileChanges
<1>2. PICK version \in {0, changes + 1} : disk' = [disk EXCEPT ![g] = version]
  BY DEF FileChanges
<1>3. /\ \A f \in Files : Seen(f)' => f # g /\ Seen(f)
      /\ unseen' \subseteq Files /\ missed' \subseteq Files
      /\ unseen' # {} => watch \in {"running", "stopping"}
  BY DEF FileChanges, Seen, FilesInv, FilesTyped, FilesTypeOK
<1>4. covers' = covers \/ covers' = covers \ {g}
  BY DEF FileChanges
<1>5. Scanning' = Scanning /\ (covers' = {"idle"} \/ covers' \subseteq Files)
  BY <1>4, ScanGoesOn DEF FilesInv, FilesTyped, Scanning
<1>6. changes + 1 \in 1 .. MaxChanges /\ version \in Version
  BY <1>1, FileParameters DEF FilesInv, FilesTyped, Version
<1>7. disk' \in [Files -> Version] /\ \A f \in Files : f # g => disk'[f] = disk[f]
  BY <1>2, <1>6 DEF FilesInv, FilesTyped, FilesTypeOK, Version
<1>8. FilesTyped'
  BY <1>1, <1>3, <1>5, <1>6, <1>7
     DEF FilesInv, FilesTyped, FilesTypeOK, watchVars, IdleBatch, Version
<1>9. PendingRight'
  BY <1>1, <1>3, <1>7 DEF FilesInv, PendingRight, watchVars
<1>10. FlowRight'
  <2>1. ASSUME NEW f \in Files, Quiet(f)', ~ crossed PROVE FileRight(f)'
    <3>1. Quiet(f) /\ disk'[f] = disk[f]
      BY <1>1, <1>3, <1>7, <2>1 DEF Quiet, watchVars
    <3> QED BY <1>1, <1>5, <2>1, <3>1, FileStays DEF FilesInv, FlowRight
  <2>2. ~ crossed => OnePass'
    BY <1>1, <1>5 DEF FilesInv, FlowRight, OnePass, IdleBatch
  <2> QED BY <1>1, <2>1, <2>2 DEF FlowRight
<1> QED BY <1>8, <1>9, <1>10 DEF FilesInv

LEMMA StartKeeps ==
  ASSUME FilesInv, WatchStarts \/ StopBegins
  PROVE  FilesInv'
<1>1. UNCHANGED <<disk, changes, unseen, watches, pending, passVars, missed>>
        \/ UNCHANGED <<disk, changes, unseen, pending, timer, passVars, missed>>
  BY DEF WatchStarts, StopBegins, dirVars
<1>2. UNCHANGED <<disk, changes, unseen, pending, missed, index, todo, look, before, visited, covers,
                  spoilt, crossed>>
  BY <1>1 DEF passVars
<1>3. watch' \in {"running", "stopping"}
  BY DEF WatchStarts, StopBegins
<1>4. FilesTyped'
  BY <1>2, <1>3 DEF FilesInv, FilesTyped, FilesTypeOK, IdleBatch, Scanning
<1>5. PendingRight'
  BY <1>2 DEF FilesInv, PendingRight, Seen
<1>6. FlowRight'
  <2>1. ASSUME NEW f \in Files, Quiet(f)', ~ crossed PROVE FileRight(f)'
    <3>1. Quiet(f) /\ disk'[f] = disk[f] /\ Scanning' = Scanning
      BY <1>2, <2>1 DEF Quiet, Seen, Scanning
    <3> QED BY <1>2, <2>1, <3>1, FileStays DEF FilesInv, FlowRight
  <2>2. ~ crossed => OnePass'
    BY <1>2 DEF FilesInv, FlowRight, OnePass, IdleBatch, Scanning
  <2> QED BY <1>2, <2>1, <2>2 DEF FlowRight
<1> QED BY <1>4, <1>5, <1>6 DEF FilesInv

LEMMA FailKeeps ==
  ASSUME FilesInv, WatchFails
  PROVE  FilesInv'
<1>1. /\ watch' = "failed" /\ missed' = missed \union unseen /\ covers' = covers \ unseen /\ unseen' = {}
      /\ UNCHANGED <<disk, changes, pending, index, todo, look, before, visited, spoilt, crossed>>
  BY DEF WatchFails
<1>2. Scanning' = Scanning /\ (covers' = {"idle"} \/ covers' \subseteq Files)
  BY <1>1, ScanGoesOn DEF FilesInv, FilesTyped, FilesTypeOK
<1>3. \A f \in Files : Seen(f)' => Seen(f)
  BY <1>1 DEF Seen
<1>4. FilesTyped'
  BY <1>1, <1>2 DEF FilesInv, FilesTyped, FilesTypeOK, IdleBatch
<1>5. PendingRight'
  BY <1>1, <1>3 DEF FilesInv, PendingRight
<1>6. FlowRight'
  <2>1. ASSUME NEW f \in Files, Quiet(f)', ~ crossed PROVE FileRight(f)'
    <3>1. Quiet(f) /\ disk'[f] = disk[f]
      BY <1>1, <1>3, <2>1 DEF Quiet
    <3> QED BY <1>1, <1>2, <2>1, <3>1, FileStays DEF FilesInv, FlowRight
  <2>2. ~ crossed => OnePass'
    BY <1>1, <1>2 DEF FilesInv, FlowRight, OnePass, IdleBatch
  <2> QED BY <1>1, <2>1, <2>2 DEF FlowRight
<1> QED BY <1>4, <1>5, <1>6 DEF FilesInv

(* An event tells what the file was as it was reported.                    *)
LEMMA EnqueueKeeps ==
  ASSUME FilesInv, NEW g \in Files, Enqueue(g)
  PROVE  FilesInv'
<1> DEFINE e == [kind |-> IF disk[g] = 0 THEN "unlink" ELSE "change", file |-> g]
<1>1. /\ unseen' = unseen \ {g} /\ pending' = Append(pending, e)
      /\ UNCHANGED <<disk, changes, watch, index, todo, look, before, visited, covers, spoilt, crossed, missed>>
  BY DEF Enqueue, passVars
<1>2. e \in Event /\ e.file = g /\ (e.kind = "unlink" => disk[g] = 0)
  BY DEF Event
<1> HIDE DEF e
<1>3. pending \in Seq(Event)
  BY DEF FilesInv, FilesTyped
<1>4. pending' \in Seq(Event) /\ FilesOf(pending') = FilesOf(pending) \union {g}
  BY <1>1, <1>2, <1>3, AppendProperties, AppendFiles
<1>5. \A f \in Files : Seen(f)' => f = g \/ Seen(f)
  BY <1>1 DEF Seen
<1>6. FilesTyped'
  BY <1>1, <1>4 DEF FilesInv, FilesTyped, FilesTypeOK, IdleBatch, Scanning
<1>7. PendingRight'
  <2>1. ASSUME NEW f \in Files, Seen(f)' PROVE LastRight(pending', f, disk[f])
    <3>1. f # g => LastRight(pending, f, disk[f])
      BY <1>5, <2>1 DEF FilesInv, PendingRight
    <3> QED BY <1>1, <1>2, <1>3, <3>1, AppendLast
  <2> QED BY <1>1, <2>1 DEF PendingRight
<1>8. FlowRight'
  <2>1. ASSUME NEW f \in Files, Quiet(f)', ~ crossed PROVE FileRight(f)'
    <3>1. Quiet(f) /\ disk'[f] = disk[f] /\ Scanning' = Scanning
      BY <1>1, <1>4, <1>5, <2>1 DEF Quiet, Scanning
    <3> QED BY <1>1, <2>1, <3>1, FileStays DEF FilesInv, FlowRight
  <2>2. ~ crossed => OnePass'
    BY <1>1 DEF FilesInv, FlowRight, OnePass, IdleBatch, Scanning
  <2> QED BY <1>1, <2>1, <2>2 DEF FlowRight
<1> QED BY <1>6, <1>7, <1>8 DEF FilesInv

(* A batch is handed over, or nobody is there to take it.                  *)
LEMMA FlushKeeps ==
  ASSUME FilesInv, NEW b \in Batches, FlushTo(b), UNCHANGED <<disk, changes, unseen>>,
         watch' = watch \/ (watch' = "stopped" /\ unseen = {})
  PROVE  FilesInv'
<1>1. /\ pending' = << >>
      /\ UNCHANGED <<index, look, before, visited, spoilt>>
  BY DEF FlushTo
<1>2. pending \in Seq(Event) /\ FilesOf(pending) \in SUBSET Files
  BY EventFiles DEF FilesInv, FilesTyped
<1>3. FilesOf(pending') = {} /\ pending' \in Seq(Event) /\ PendingRight'
  BY <1>1, EventFiles DEF PendingRight
<1>4. CASE pending = << >> \/ watch = "failed"
  <2>1. /\ missed' = missed \union FilesOf(pending) /\ covers' = covers \ FilesOf(pending)
        /\ UNCHANGED <<todo, crossed>>
    BY <1>4 DEF FlushTo
  <2>2. Scanning' = Scanning /\ (covers' = {"idle"} \/ covers' \subseteq Files)
    BY <1>2, <2>1, ScanGoesOn DEF FilesInv, FilesTyped
  <2>3. FilesTyped'
    BY <1>1, <1>2, <1>3, <2>1, <2>2 DEF FilesInv, FilesTyped, FilesTypeOK, IdleBatch
  <2>4. FlowRight'
    <3>1. ASSUME NEW f \in Files, Quiet(f)', ~ crossed PROVE FileRight(f)'
      <4>1. Quiet(f)
        BY <2>1, <3>1 DEF Quiet, Seen
      <4> QED BY <1>1, <2>1, <2>2, <3>1, <4>1, FileStays DEF FilesInv, FlowRight
    <3>2. ~ crossed => OnePass'
      BY <2>1, <2>2 DEF FilesInv, FlowRight, OnePass, IdleBatch
    <3> QED BY <2>1, <3>1, <3>2 DEF FlowRight
  <2> QED BY <1>3, <2>3, <2>4 DEF FilesInv
<1>5. CASE ~ (pending = << >> \/ watch = "failed")
  <2>1. /\ IdleBatch(b) /\ todo' = [todo EXCEPT ![b] = pending]
        /\ crossed' = (crossed \/ Scanning \/ \E c \in Batches : ~ IdleBatch(c))
        /\ UNCHANGED <<missed, covers>>
    BY <1>5 DEF FlushTo
  <2>2. b \in Passes /\ Scan \in Passes /\ b # Scan /\ Batches \subseteq Passes
    BY FileParameters DEF Passes
  <2>3. todo'[b] = pending /\ \A p \in Passes : p # b => todo'[p] = todo[p]
    BY <2>1, <2>2 DEF FilesInv, FilesTyped
  <2>4. Scanning' = Scanning
    BY <2>1 DEF Scanning
  <2>5. FilesTyped'
    <3>1. todo' \in [Passes -> Seq(Event) \union Seq(Files)]
      BY <1>2, <2>1 DEF FilesInv, FilesTyped
    <3>2. todo'[Scan] = todo[Scan] /\ \A c \in Batches : todo'[c] \in Seq(Event)
      BY <1>2, <2>2, <2>3 DEF FilesInv, FilesTyped
    <3>3. \A p \in Passes : IdleBatch(p)' => look'[p] = NotLooked
      BY <1>1, <2>1, <2>3 DEF FilesInv, FilesTyped, IdleBatch
    <3> QED BY <1>1, <1>3, <2>1, <2>4, <3>1, <3>2, <3>3
            DEF FilesInv, FilesTyped, FilesTypeOK, IdleBatch
  <2>6. ASSUME ~ crossed' PROVE OnePass' /\ \A f \in Files : Quiet(f)' => FileRight(f)'
    <3>1. ~ crossed /\ ~ Scanning /\ \A c \in Batches : todo[c] = << >>
      BY <2>1, <2>6 DEF IdleBatch
    <3>2. \A c \in Batches : c # b => todo'[c] = << >>
      BY <2>2, <2>3, <3>1
    <3>3. OnePass'
      BY <2>4, <3>1, <3>2 DEF OnePass, IdleBatch
    <3>4. ASSUME NEW f \in Files, Quiet(f)' PROVE FileRight(f)'
      <4>1. Seen(f) /\ LastRight(pending, f, disk[f])
        BY <2>1, <3>4 DEF Quiet, Seen, FilesInv, PendingRight
      <4>2. look'[b] = NotLooked
        BY <1>1, <2>1, <2>2 DEF FilesInv, FilesTyped
      <4>3. ASSUME NEW c \in Batches PROVE BatchRight(c, f)'
        <5>1. CASE c = b
          BY <2>3, <4>1, <4>2, <5>1 DEF BatchRight, LookRight, NotLooked
        <5>2. CASE c # b
          BY <3>2, <5>2, EventFiles DEF BatchRight, IdleBatch
        <5> QED BY <5>1, <5>2
      <4>4. IndexRight(f)'
        <5>1. ASSUME f \notin spoilt, f \notin FilesOf(pending) PROVE RightEntry(f)
          <6>1. Quiet(f) /\ \A c \in Batches : f \notin FilesOf(todo[c])
            BY <3>1, <4>1, <5>1, EventFiles DEF Quiet
          <6> QED BY <3>1, <5>1, <6>1 DEF FilesInv, FlowRight, FileRight, IndexRight
        <5>2. f \notin FilesOf(todo'[b]) => f \notin FilesOf(pending)
          BY <2>3
        <5> QED BY <1>1, <5>1, <5>2 DEF IndexRight, RightEntry
      <4> QED BY <2>4, <3>1, <4>3, <4>4 DEF FileRight
    <3> QED BY <3>3, <3>4
  <2> QED BY <1>3, <2>5, <2>6 DEF FilesInv, FlowRight
<1> QED BY <1>4, <1>5
-----------------------------------------------------------------------------
(* The steps of a pass.                                                    *)

(* A pass has found something of its first file.                           *)
LooksOn(p) ==
  /\ UNCHANGED <<todo, index, spoilt, visited, before>>
  /\ \E l \in Look :
       /\ look' = [look EXCEPT ![p] = l]
       /\ disk[File(p)] # 0
       /\ \/ l.at = "read" /\ l.size = disk[File(p)]
          \/ look[p].at = "read" /\ l.at = "index" /\ l.size = look[p].size /\ l.hash = disk[File(p)]

(* It is done with it, and what it did about it.                           *)
Unlisted(p) ==
  /\ p # Scan /\ index' = [index EXCEPT ![File(p)] = Absent] /\ spoilt' = spoilt \ {File(p)}
  /\ Head(todo[p]).kind = "unlink" \/ disk[File(p)] = 0
  /\ visited' = visited

Vanished(p) == p = Scan /\ disk[File(p)] = 0 /\ UNCHANGED <<index, spoilt, visited>>

Unread(p) == spoilt' = spoilt \union {File(p)} /\ UNCHANGED <<index, visited>>

Relisted(p) ==
  /\ look[p].at = "index"
  /\ visited' = IF p = Scan THEN visited \union {File(p)} ELSE visited
  /\ \/ Prior(p) = {look[p].hash} /\ index' = index
     \/ index' = [index EXCEPT ![File(p)] = [hash |-> look[p].hash, size |-> look[p].size]]
  /\ spoilt' = IF index'[File(p)].size = index'[File(p)].hash
                 THEN spoilt \ {File(p)} ELSE spoilt \union {File(p)}

LEMMA PassCases ==
  ASSUME FilesTyped, NEW p \in Passes, PassStep(p)
  PROVE  /\ ~ IdleBatch(p) /\ File(p) \in Files
         /\ UNCHANGED <<disk, changes, unseen, watch, pending, missed, covers, crossed>>
         /\ \/ LooksOn(p)
            \/ /\ PassesOn(p) /\ before' = before
               /\ Unlisted(p) \/ Vanished(p) \/ Unread(p) \/ Relisted(p)
<1>1. ~ IdleBatch(p)
  BY DEF PassStep, AppliesUnlink, Stats, ReadFails, ReadsFile, Indexes, Looks
<1>2. File(p) \in Files
  <2>1. CASE p = Scan
    BY <1>1, <2>1, HeadTailProperties DEF FilesTyped, IdleBatch, File
  <2>2. CASE p # Scan
    <3>1. Head(todo[p]) \in Event
      BY <1>1, <2>2, HeadTailProperties DEF FilesTyped, IdleBatch, Passes
    <3> QED BY <2>2, <3>1 DEF File, Event
  <2> QED BY <2>1, <2>2
<1>3. UNCHANGED <<disk, changes, unseen, watch, pending, missed, covers, crossed>>
  BY DEF PassStep, dirVars, watchVars
<1>4. disk[File(p)] \in Version /\ look[p] \in Look
  BY <1>2 DEF FilesTyped, FilesTypeOK, Version
<1> DEFINE Case == \/ LooksOn(p)
                   \/ /\ PassesOn(p) /\ before' = before
                      /\ Unlisted(p) \/ Vanished(p) \/ Unread(p) \/ Relisted(p)
<1>5. ASSUME p # Scan /\ AppliesUnlink(p) PROVE Case
  BY <1>5 DEF AppliesUnlink, Unlists, Unlisted
<1>6. ASSUME Stats(p) PROVE Case
  <2>1. CASE disk[File(p)] = 0
    BY <1>6, <2>1 DEF Stats, Unlists, Unlisted, Vanished
  <2>2. CASE disk[File(p)] # 0
    <3>1. [at |-> "read", size |-> disk[File(p)], hash |-> 0] \in Look
      BY <1>4, FileParameters DEF Look, Version
    <3>2. look' = [look EXCEPT ![p] = [at |-> "read", size |-> disk[File(p)], hash |-> 0]]
          /\ UNCHANGED <<todo, index, spoilt, visited, before>>
      BY <1>6, <2>2 DEF Stats
    <3> QED BY <2>2, <3>1, <3>2 DEF LooksOn
  <2> QED BY <2>1, <2>2
<1>7. ASSUME ReadFails(p) PROVE Case
  BY <1>7 DEF ReadFails, Unread
<1>8. ASSUME ReadsFile(p) PROVE Case
  <2> DEFINE l == [at |-> "index", size |-> look[p].size, hash |-> disk[File(p)]]
  <2>1. l \in Look /\ l.at = "index" /\ l.size = look[p].size /\ l.hash = disk[File(p)]
    BY <1>4 DEF Look
  <2>2. look' = [look EXCEPT ![p] = l]
    BY <1>8 DEF ReadsFile
  <2>3. look[p].at = "read" /\ disk[File(p)] # 0 /\ UNCHANGED <<index, todo, before, visited, spoilt>>
    BY <1>8 DEF ReadsFile, Looks
  <2> HIDE DEF l
  <2> QED BY <2>1, <2>2, <2>3 DEF LooksOn
<1>9. ASSUME Indexes(p) PROVE Case
  <2>1. /\ look[p].at = "index" /\ PassesOn(p) /\ before' = before
        /\ visited' = IF p = Scan THEN visited \union {File(p)} ELSE visited
        /\ index' = IF Prior(p) = {look[p].hash} THEN index
                    ELSE [index EXCEPT ![File(p)] = [hash |-> look[p].hash, size |-> look[p].size]]
        /\ spoilt' = IF index'[File(p)].size = index'[File(p)].hash
                       THEN spoilt \ {File(p)} ELSE spoilt \union {File(p)}
    BY <1>9 DEF Indexes, Looks
  <2> QED BY <2>1 DEF Relisted
<1>10. Case
  <2> HIDE DEF Case
  <2> QED BY <1>5, <1>6, <1>7, <1>8, <1>9 DEF PassStep
<1> QED BY <1>1, <1>2, <1>3, <1>10

LEMMA PassTyped ==
  ASSUME FilesTyped, NEW p \in Passes, ~ IdleBatch(p), File(p) \in Files, PassesOn(p)
  PROVE  /\ todo'[p] = Tail(todo[p]) /\ look'[p] = NotLooked
         /\ \A q \in Passes : q # p => todo'[q] = todo[q] /\ look'[q] = look[q]
         /\ todo' \in [Passes -> Seq(Event) \union Seq(Files)]
         /\ todo'[Scan] \in Seq(Files) /\ \A b \in Batches : todo'[b] \in Seq(Event)
         /\ look' \in [Passes -> Look]
         /\ \A q \in Passes : IdleBatch(q)' => look'[q] = NotLooked
<1>1. /\ todo'[p] = Tail(todo[p]) /\ look'[p] = NotLooked
      /\ \A q \in Passes : q # p => todo'[q] = todo[q] /\ look'[q] = look[q]
  BY DEF PassesOn, FilesTyped
<1>2. p = Scan => Tail(todo[p]) \in Seq(Files)
  BY HeadTailProperties DEF FilesTyped, IdleBatch
<1>3. p # Scan => Tail(todo[p]) \in Seq(Event)
  BY HeadTailProperties DEF FilesTyped, IdleBatch, Passes
<1>4. NotLooked \in Look
  BY FileParameters DEF NotLooked, Look, Version
<1>5. todo' \in [Passes -> Seq(Event) \union Seq(Files)] /\ look' \in [Passes -> Look]
  BY <1>2, <1>3, <1>4 DEF PassesOn, FilesTyped
<1>6. todo'[Scan] \in Seq(Files) /\ \A b \in Batches : todo'[b] \in Seq(Event)
  BY <1>1, <1>2, <1>3, FileParameters DEF Passes, FilesTyped
<1>7. \A q \in Passes : IdleBatch(q)' => look'[q] = NotLooked
  BY <1>1 DEF IdleBatch, FilesTyped
<1> QED BY <1>1, <1>5, <1>6, <1>7

LEMMA PassKeepsTypes ==
  ASSUME FilesTyped, NEW p \in Passes, PassStep(p)
  PROVE  FilesTyped'
<1>0. /\ ~ IdleBatch(p) /\ File(p) \in Files
      /\ UNCHANGED <<disk, changes, unseen, watch, pending, missed, covers, crossed>>
  BY PassCases
<1>1. CASE LooksOn(p)
  <2>1. PICK l \in Look : look' = [look EXCEPT ![p] = l]
    BY <1>1 DEF LooksOn
  <2>2. look' \in [Passes -> Look] /\ \A q \in Passes : q # p => look'[q] = look[q]
    BY <2>1 DEF FilesTyped
  <2>3. \A q \in Passes : look'[q].at \in {"stat", "read", "index"}
    BY <2>2 DEF Look
  <2>4. \A q \in Passes : IdleBatch(q)' => look'[q] = NotLooked
    BY <1>0, <1>1, <2>2 DEF LooksOn, FilesTyped, IdleBatch
  <2> QED BY <1>0, <1>1, <2>2, <2>3, <2>4 DEF LooksOn, FilesTyped, FilesTypeOK, IdleBatch, Scanning
<1>2. CASE PassesOn(p) /\ before' = before /\ (Unlisted(p) \/ Vanished(p) \/ Unread(p) \/ Relisted(p))
  <2>1. /\ todo' \in [Passes -> Seq(Event) \union Seq(Files)]
        /\ todo'[Scan] \in Seq(Files) /\ \A b \in Batches : todo'[b] \in Seq(Event)
        /\ look' \in [Passes -> Look]
        /\ \A q \in Passes : IdleBatch(q)' => look'[q] = NotLooked
        /\ ~ Scanning => todo'[Scan] = << >>
    BY <1>0, <1>2, PassTyped DEF FilesTyped, IdleBatch, Passes
  <2>2. \A q \in Passes : look'[q].at \in {"stat", "read", "index"}
    BY <2>1 DEF Look
  <2>3. Absent \in Entry /\ [hash |-> look[p].hash, size |-> look[p].size] \in Entry
        /\ index \in [Files -> Entry]
    BY FileParameters DEF Absent, Entry, Version, FilesTyped, FilesTypeOK, Look
  <2>4. index' \in [Files -> Entry] /\ spoilt' \subseteq Files /\ visited' \subseteq Files
    <3> USE DEF FilesTyped, FilesTypeOK
    <3>1. CASE Unlisted(p)
      BY <1>0, <2>3, <3>1 DEF Unlisted
    <3>2. CASE Vanished(p) \/ Unread(p)
      BY <1>0, <2>3, <3>2 DEF Vanished, Unread
    <3>3. CASE Relisted(p)
      <4>1. spoilt' = spoilt \ {File(p)} \/ spoilt' = spoilt \union {File(p)}
        BY <3>3 DEF Relisted
      <4>2. index' \in [Files -> Entry]
        BY <2>3, <3>3 DEF Relisted
      <4>3. visited' \subseteq Files
        BY <1>0, <3>3 DEF Relisted
      <4> QED BY <1>0, <4>1, <4>2, <4>3
    <3> QED BY <1>2, <3>1, <3>2, <3>3
  <2> QED BY <1>0, <1>2, <2>1, <2>2, <2>4 DEF FilesTyped, FilesTypeOK, IdleBatch, Scanning, Entry, Version
<1> QED BY <1>1, <1>2, PassCases

LEMMA Stale ==
  ASSUME NEW l \in Look, NEW k \in Look, NEW version, LookRight(k, version),
         \/ l.at = "read" /\ l.size = version /\ version # 0
         \/ k.at = "read" /\ l.at = "index" /\ l.size = k.size /\ l.hash = version
  PROVE  LookRight(l, version)
BY DEF LookRight

(* A batch leaves its file right, unless another event of it follows.      *)
LEMMA BatchStep ==
  ASSUME FilesInv, NEW b \in Batches, PassStep(b), ~ crossed
  PROVE  OnePass' /\ \A f \in Files : Quiet(f) => FileRight(f)'
<1>0. /\ b \in Passes /\ b # Scan /\ Batches \subseteq Passes
      /\ FilesTyped /\ OnePass /\ \A f \in Files : Quiet(f) => FileRight(f)
  BY FileParameters DEF Passes, FilesInv, FlowRight
<1>1. /\ ~ IdleBatch(b) /\ File(b) \in Files
      /\ UNCHANGED <<disk, changes, unseen, watch, pending, missed, covers, crossed>>
  BY <1>0, PassCases
<1>2. /\ ~ Scanning /\ \A c \in Batches : c # b => IdleBatch(c)
  BY <1>0, <1>1 DEF OnePass
<1>3. Scanning' = Scanning
  BY <1>1 DEF Scanning
<1>4. todo[b] \in Seq(Event) /\ todo[b] # << >> /\ File(b) = Head(todo[b]).file
  BY <1>0, <1>1 DEF FilesTyped, IdleBatch, File
<1>5. \A c \in Batches : c # b => todo'[c] = todo[c] /\ look'[c] = look[c]
  BY <1>0, <1>1, PassCases, PassTyped DEF LooksOn, FilesTyped
<1>6. OnePass'
  BY <1>2, <1>3, <1>5 DEF OnePass, IdleBatch
<1>7. ASSUME NEW f \in Files, Quiet(f) PROVE FileRight(f)'
  <2>1. /\ \A c \in Batches : BatchRight(c, f)
        /\ IndexRight(f)
    BY <1>0, <1>2, <1>7 DEF FileRight
  <2>2. \A c \in Batches : c # b => BatchRight(c, f)'
    BY <1>1, <1>2, <1>5, <2>1 DEF BatchRight, IdleBatch
  <2>3. LastRight(todo[b], f, disk[f]) /\ (File(b) = f => LookRight(look[b], disk[f]))
    BY <1>1, <2>1 DEF BatchRight
  <2>4. CASE LooksOn(b)
    <3>1. PICK l \in Look :
            /\ look' = [look EXCEPT ![b] = l]
            /\ disk[File(b)] # 0
            /\ \/ l.at = "read" /\ l.size = disk[File(b)]
               \/ look[b].at = "read" /\ l.at = "index" /\ l.size = look[b].size /\ l.hash = disk[File(b)]
      BY <2>4 DEF LooksOn
    <3>2. look'[b] = l /\ look[b] \in Look
      BY <1>0, <3>1 DEF FilesTyped
    <3>3. todo' = todo /\ index' = index /\ spoilt' = spoilt
      BY <2>4 DEF LooksOn
    <3>4. File(b) = f => LookRight(l, disk[f])
      BY <2>3, <3>1, <3>2, Stale
    <3>5. BatchRight(b, f)'
      BY <1>1, <2>3, <3>2, <3>3, <3>4 DEF BatchRight, File
    <3>6. IndexRight(f)'
      BY <1>1, <2>1, <3>3 DEF IndexRight, RightEntry
    <3> QED BY <1>2, <1>3, <2>2, <3>5, <3>6 DEF FileRight
  <2>5. CASE PassesOn(b) /\ (Unlisted(b) \/ Vanished(b) \/ Unread(b) \/ Relisted(b))
    <3>1. todo'[b] = Tail(todo[b]) /\ look'[b] = NotLooked
      BY <1>0, <1>1, <2>5, PassTyped
    <3>2. BatchRight(b, f)'
      <4>1. LastRight(Tail(todo[b]), f, disk[f])
        BY <1>4, <2>3, TailLast
      <4>2. LookRight(NotLooked, disk[f])
        BY DEF LookRight, NotLooked
      <4> QED BY <1>1, <3>1, <4>1, <4>2 DEF BatchRight
    <3>3. FilesOf(todo[b]) = FilesOf(todo'[b]) \union {File(b)}
      BY <1>4, <3>1, TailFiles
    <3>4. ASSUME f \notin spoilt', f \notin FilesOf(todo'[b]), \A c \in Batches : f \notin FilesOf(todo'[c])
          PROVE  index'[f] = [hash |-> disk[f], size |-> disk[f]]
      <4>0. index \in [Files -> Entry] /\ look[b] \in Look
        BY <1>0 DEF FilesTyped, FilesTypeOK, Entry, Version
      <4>1. CASE f # File(b)
        <5>1. index'[f] = index[f] /\ (f \in spoilt => f \in spoilt')
          BY <1>1, <2>5, <4>0, <4>1 DEF Unlisted, Vanished, Unread, Relisted
        <5>2. \A c \in Batches : f \notin FilesOf(todo[c])
          BY <1>5, <3>3, <3>4, <4>1
        <5> QED BY <2>1, <3>4, <5>1, <5>2 DEF IndexRight, RightEntry
      <4>2. CASE f = File(b) /\ Unlisted(b)
        <5>1. disk[f] = 0
          BY <1>4, <2>3, <3>1, <3>4, <4>2, HeadLast DEF Unlisted
        <5> QED BY <1>1, <4>0, <4>2, <5>1 DEF Unlisted, Absent
      <4>3. CASE f = File(b) /\ (Vanished(b) \/ Unread(b))
        BY <1>0, <3>4, <4>3 DEF Vanished, Unread
      <4>4. CASE f = File(b) /\ Relisted(b)
        <5>1. look[b].hash = disk[f] /\ look[b].size = disk[f]
          BY <2>3, <4>4 DEF LookRight, Relisted
        <5>2. CASE Prior(b) = {look[b].hash} /\ index' = index
          <6>1. index[f].hash = disk[f]
            BY <1>0, <4>4, <5>1, <5>2 DEF Prior
          <6>2. index'[f].size = index'[f].hash
            BY <3>4, <4>4 DEF Relisted
          <6>3. index[f] \in Entry
            BY <4>0
          <6> QED BY <5>2, <6>1, <6>2, <6>3 DEF Entry
        <5>3. CASE index' = [index EXCEPT ![File(b)] = [hash |-> look[b].hash, size |-> look[b].size]]
          BY <4>0, <4>4, <5>1, <5>3
        <5> QED BY <4>4, <5>2, <5>3 DEF Relisted
      <4> QED BY <2>5, <4>1, <4>2, <4>3, <4>4
    <3>5. IndexRight(f)'
      BY <1>1, <3>4 DEF IndexRight, RightEntry
    <3> QED BY <1>2, <1>3, <2>2, <3>2, <3>5 DEF FileRight
  <2> QED BY <1>0, <2>4, <2>5, PassCases
<1> QED BY <1>6, <1>7

(* So does a scan.                                                         *)
LEMMA ScanStep ==
  ASSUME FilesInv, PassStep(Scan), ~ crossed
  PROVE  OnePass' /\ \A f \in Files : Quiet(f) => FileRight(f)'
<1>0. /\ Scan \in Passes /\ \A b \in Batches : b \in Passes /\ b # Scan
      /\ FilesTyped /\ OnePass /\ \A f \in Files : Quiet(f) => FileRight(f)
  BY FileParameters DEF Passes, FilesInv, FlowRight
<1>1. /\ ~ IdleBatch(Scan) /\ File(Scan) \in Files
      /\ UNCHANGED <<disk, changes, unseen, watch, pending, missed, covers, crossed>>
  BY <1>0, PassCases
<1>2. Scanning /\ \A b \in Batches : IdleBatch(b)
  BY <1>0, <1>1 DEF OnePass, FilesTyped
<1>3. Scanning' = Scanning
  BY <1>1 DEF Scanning
<1>4. todo[Scan] \in Seq(Files) /\ todo[Scan] # << >> /\ File(Scan) = Head(todo[Scan])
  BY <1>0, <1>1 DEF FilesTyped, IdleBatch, File
<1>5. \A b \in Batches : todo'[b] = todo[b] /\ look'[b] = look[b]
  BY <1>0, <1>1, PassCases, PassTyped DEF LooksOn, FilesTyped
<1>6. OnePass'
  BY <1>2, <1>3, <1>5 DEF OnePass, IdleBatch
<1>7. ASSUME NEW f \in Files, Quiet(f) PROVE FileRight(f)'
  <2>1. (\A b \in Batches : BatchRight(b, f)) /\ ScanRight(f)
    BY <1>0, <1>2, <1>7 DEF FileRight
  <2>2. \A b \in Batches : BatchRight(b, f)'
    BY <1>1, <1>2, <1>5, <2>1 DEF BatchRight, IdleBatch
  <2>3. ScanRight(f)'
    <3>0. /\ f \in Queued(todo[Scan]) => disk[f] # 0
          /\ File(Scan) = f => LookRight(look[Scan], disk[f])
          /\ disk[f] # 0 /\ f \notin Queued(todo[Scan]) \union spoilt => f \in visited /\ RightEntry(f)
          /\ disk[f] = 0 => f \notin visited /\ (index[f] = Absent \/ \E e \in before : e.file = f)
          /\ \A e \in before : e.file = f => index[f].hash = e.hash \/ RightEntry(f)
      BY <1>1, <2>1 DEF ScanRight
    <3>1. CASE LooksOn(Scan)
      <4>1. PICK l \in Look :
              /\ look' = [look EXCEPT ![Scan] = l]
              /\ disk[File(Scan)] # 0
              /\ \/ l.at = "read" /\ l.size = disk[File(Scan)]
                 \/ /\ look[Scan].at = "read" /\ l.at = "index"
                    /\ l.size = look[Scan].size /\ l.hash = disk[File(Scan)]
        BY <3>1 DEF LooksOn
      <4>2. look'[Scan] = l /\ look[Scan] \in Look
        BY <1>0, <4>1 DEF FilesTyped
      <4>3. UNCHANGED <<todo, index, spoilt, visited, before>>
        BY <3>1 DEF LooksOn
      <4>4. File(Scan) = f => LookRight(l, disk[f])
        BY <3>0, <4>1, <4>2, Stale
      <4> QED BY <1>1, <2>1, <4>2, <4>3, <4>4 DEF ScanRight, File, RightEntry, IdleBatch
    <3>2. CASE PassesOn(Scan) /\ before' = before /\ (Vanished(Scan) \/ Unread(Scan) \/ Relisted(Scan))
      <4>1. todo'[Scan] = Tail(todo[Scan]) /\ look'[Scan] = NotLooked
        BY <1>0, <1>1, <3>2, PassTyped
      <4>2. Queued(todo[Scan]) = Queued(todo'[Scan]) \union {File(Scan)}
        BY <1>4, <4>1, TailQueued
      <4>3. LookRight(look'[Scan], disk[f])
        BY <4>1 DEF LookRight, NotLooked
      <4>4. index \in [Files -> Entry] /\ look[Scan] \in Look
        BY <1>0 DEF FilesTyped, FilesTypeOK, Entry, Version
      <4>5. CASE f # File(Scan)
        <5>1. index'[f] = index[f] /\ (f \in spoilt' <=> f \in spoilt) /\ (f \in visited' <=> f \in visited)
          BY <1>1, <3>2, <4>4, <4>5 DEF Vanished, Unread, Relisted
        <5> QED BY <1>1, <3>0, <3>2, <4>2, <4>3, <4>5, <5>1 DEF ScanRight, RightEntry
      <4>6. CASE f = File(Scan)
        <5>1. disk[f] # 0 /\ LookRight(look[Scan], disk[f])
          BY <3>0, <4>2, <4>6
        <5>2. CASE Unread(Scan)
          BY <1>1, <3>0, <3>2, <4>2, <4>3, <4>6, <5>1, <5>2 DEF ScanRight, RightEntry, Unread
        <5>3. CASE Relisted(Scan)
          <6>1. look[Scan].hash = disk[f] /\ look[Scan].size = disk[f] /\ f \in visited'
            BY <4>6, <5>1, <5>3 DEF LookRight, Relisted
          <6>2. CASE Prior(Scan) = {look[Scan].hash} /\ index' = index
            <7>1. PICK e \in before : e.file = f /\ e.hash = disk[f]
              BY <4>6, <6>1, <6>2 DEF Prior
            <7>2. index[f].hash = disk[f]
              BY <3>0, <7>1 DEF RightEntry
            <7>3. f \notin spoilt' => index[f].size = index[f].hash
              BY <4>6, <5>3, <6>2 DEF Relisted
            <7>4. index[f] \in Entry
              BY <4>4
            <7>5. f \notin spoilt' => RightEntry(f)
              BY <7>2, <7>3, <7>4 DEF Entry, RightEntry
            <7> QED BY <1>1, <3>0, <3>2, <4>3, <5>1, <6>1, <6>2, <7>5 DEF ScanRight, RightEntry
          <6>3. CASE index' = [index EXCEPT ![File(Scan)] = [hash |-> look[Scan].hash, size |-> look[Scan].size]]
            <7>1. index'[f] = [hash |-> disk[f], size |-> disk[f]]
              BY <4>4, <4>6, <6>1, <6>3
            <7> QED BY <1>1, <4>3, <5>1, <6>1, <7>1 DEF ScanRight, RightEntry
          <6> QED BY <5>3, <6>2, <6>3 DEF Relisted
        <5> QED BY <3>2, <4>6, <5>1, <5>2, <5>3 DEF Vanished
      <4> QED BY <4>5, <4>6
    <3> QED BY <1>0, <3>1, <3>2, PassCases DEF Unlisted
  <2> QED BY <1>2, <1>3, <2>2, <2>3 DEF FileRight
<1> QED BY <1>6, <1>7

LEMMA PassKeeps ==
  ASSUME FilesInv, NEW p \in Passes, PassStep(p)
  PROVE  FilesInv'
<1>1. FilesTyped'
  BY PassKeepsTypes DEF FilesInv
<1>2. UNCHANGED <<disk, unseen, pending, missed, covers, crossed>>
  BY PassCases DEF FilesInv
<1>3. PendingRight' /\ \A f \in Files : Quiet(f)' => Quiet(f)
  BY <1>2 DEF FilesInv, PendingRight, Seen, Quiet
<1>4. ~ crossed => OnePass' /\ \A f \in Files : Quiet(f) => FileRight(f)'
  BY BatchStep, ScanStep DEF Passes
<1> QED BY <1>1, <1>2, <1>3, <1>4 DEF FilesInv, FlowRight
-----------------------------------------------------------------------------
(* A scan finds the files that are there, and what the index said before.  *)
LEMMA ScanBeginKeeps ==
  ASSUME FilesInv, ScanBegins
  PROVE  FilesInv'
<1> DEFINE there == {f \in Files : disk[f] # 0}
<1>1. /\ ~ Scanning
      /\ before' = {[file |-> f, hash |-> index[f].hash] : f \in {f \in Files : index[f] # Absent}}
      /\ visited' = {}
      /\ covers' = missed \ (FilesOf(pending) \union unseen)
      /\ crossed' = (crossed \/ \E b \in Batches : ~ IdleBatch(b))
      /\ UNCHANGED <<disk, changes, unseen, watch, watches, pending, timer, index, look, spoilt, missed>>
  BY DEF ScanBegins, dirVars, watchVars
<1>2. PICK order \in [1 .. Cardinality(there) -> Files] :
        {order[i] : i \in DOMAIN order} = there /\ todo' = [todo EXCEPT ![Scan] = order]
  BY DEF ScanBegins
<1>3. Cardinality(there) \in Nat
  BY FileParameters, FS_Subset, FS_CardinalityType
<1>4. order \in Seq(Files)
  <2>1. \A n \in Nat : \A o \in [1 .. n -> Files] : o \in Seq(Files)
    OBVIOUS
  <2> HIDE DEF there
  <2> QED BY <1>2, <1>3, <2>1
<1>5. Scan \in Passes /\ \A b \in Batches : b \in Passes /\ b # Scan
  BY FileParameters DEF Passes
<1>6. todo'[Scan] = order /\ \A p \in Passes : p # Scan => todo'[p] = todo[p]
  BY <1>2, <1>5 DEF FilesInv, FilesTyped
<1>7. covers' \subseteq Files /\ Scanning'
  BY <1>1, FileParameters DEF FilesInv, FilesTyped, FilesTypeOK, Scanning
<1>8. look[Scan] = NotLooked
  BY <1>1, <1>5 DEF FilesInv, FilesTyped
<1>9. FilesTyped'
  <2>1. todo' \in [Passes -> Seq(Event) \union Seq(Files)]
    BY <1>2, <1>4 DEF FilesInv, FilesTyped
  <2>2. todo'[Scan] \in Seq(Files) /\ \A b \in Batches : todo'[b] \in Seq(Event)
    BY <1>4, <1>5, <1>6 DEF FilesInv, FilesTyped
  <2>3. \A f \in Files : index[f].hash \in Version
    BY DEF FilesInv, FilesTyped, FilesTypeOK, Version
  <2>4. before' \subseteq [file : Files, hash : Version]
    BY <1>1, <2>3
  <2>5. \A p \in Passes : IdleBatch(p)' => look'[p] = NotLooked
    BY <1>1, <1>6, <1>8 DEF FilesInv, FilesTyped, IdleBatch
  <2> QED BY <1>1, <1>7, <2>1, <2>2, <2>4, <2>5 DEF FilesInv, FilesTyped, FilesTypeOK
<1>10. PendingRight'
  <2>1. ASSUME NEW f \in Files, Seen(f)' PROVE LastRight(pending, f, disk[f])
    <3>1. CASE f \in FilesOf(pending)
      <4>1. Seen(f)
        BY <1>1, <2>1, <3>1 DEF Seen
      <4> QED BY <4>1 DEF FilesInv, PendingRight
    <3>2. CASE f \notin FilesOf(pending)
      BY <3>2 DEF LastRight, FilesOf
    <3> QED BY <3>1, <3>2
  <2> QED BY <1>1, <2>1 DEF PendingRight
<1>11. ASSUME ~ crossed' PROVE OnePass' /\ \A f \in Files : Quiet(f)' => FileRight(f)'
  <2>1. \A b \in Batches : todo'[b] = << >>
    BY <1>1, <1>5, <1>6, <1>11 DEF IdleBatch
  <2>2. OnePass'
    BY <2>1 DEF OnePass, IdleBatch
  <2>3. ASSUME NEW f \in Files PROVE FileRight(f)'
    <3>1. \A b \in Batches : BatchRight(b, f)'
      BY <2>1, EventFiles DEF BatchRight, IdleBatch
    <3>2. Queued(todo'[Scan]) = there
      BY ZenonT(40), <1>2, <1>6 DEF Queued
    <3>3. LookRight(look'[Scan], disk'[f])
      BY <1>1, <1>8 DEF LookRight, NotLooked
    <3>4. \A e \in before' : e.file = f => index[f].hash = e.hash
      <4>1. ASSUME NEW e \in before', e.file = f PROVE index[f].hash = e.hash
        <5>1. PICK g \in {g \in Files : index[g] # Absent} : e = [file |-> g, hash |-> index[g].hash]
          BY <1>1, <4>1
        <5> QED BY <4>1, <5>1
      <4> QED BY <4>1
    <3>5. index[f] # Absent => \E e \in before' : e.file = f
      <4>1. ASSUME index[f] # Absent PROVE \E e \in before' : e.file = f
        <5>1. [file |-> f, hash |-> index[f].hash] \in before'
          BY <1>1, <4>1
        <5>2. [file |-> f, hash |-> index[f].hash].file = f
          OBVIOUS
        <5> QED BY <5>1, <5>2
      <4> QED BY <4>1
    <3>6. ScanRight(f)'
      BY <1>1, <3>2, <3>3, <3>4, <3>5 DEF ScanRight
    <3> QED BY <1>7, <3>1, <3>6 DEF FileRight
  <2> QED BY <2>2, <2>3
<1> QED BY <1>9, <1>10, <1>11 DEF FilesInv, FlowRight

(* Where it ends, a file that no event is due for is right.                *)
LEMMA ScanEndKeeps ==
  ASSUME FilesInv, ScanEnds
  PROVE  FilesInv'
<1> DEFINE gone == {e.file : e \in before} \ visited
<1>1. /\ Scanning /\ IdleBatch(Scan)
      /\ index' = [f \in Files |-> IF f \in gone THEN Absent ELSE index[f]]
      /\ missed' = missed \ covers /\ covers' = {"idle"}
      /\ UNCHANGED <<disk, changes, unseen, watch, watches, pending, timer, todo, look, before, visited,
                     spoilt, crossed>>
  BY DEF ScanEnds, dirVars, watchVars
<1>2. ~ Scanning' /\ \A f \in Files : Seen(f)' <=> Seen(f)
  BY <1>1, FileParameters DEF Scanning, Seen
<1>3. Absent \in Entry /\ index \in [Files -> Entry]
  BY FileParameters DEF Absent, Entry, Version, FilesInv, FilesTyped, FilesTypeOK
<1>4. index' \in [Files -> Entry]
  BY <1>1, <1>3
<1>5. FilesTyped'
  BY <1>1, <1>4 DEF FilesInv, FilesTyped, FilesTypeOK, IdleBatch, Entry, Version
<1>6. PendingRight'
  BY <1>1, <1>2 DEF FilesInv, PendingRight
<1>7. ASSUME ~ crossed PROVE OnePass' /\ \A f \in Files : Quiet(f)' => FileRight(f)'
  <2>1. OnePass'
    BY <1>1, <1>2, <1>7 DEF OnePass, FilesInv, FlowRight, IdleBatch
  <2>2. ASSUME NEW f \in Files, Quiet(f)' PROVE FileRight(f)'
    <3>1. Quiet(f)
      BY <1>1, <1>2, <2>2 DEF Quiet
    <3>2. (\A b \in Batches : BatchRight(b, f)) /\ ScanRight(f)
      BY <1>1, <1>7, <3>1 DEF FilesInv, FlowRight, FileRight
    <3>3. \A b \in Batches : BatchRight(b, f)'
      BY <1>1, <3>2 DEF BatchRight, IdleBatch, File
    <3>4. f \notin Queued(todo[Scan])
      BY <1>1 DEF Queued, IdleBatch
    <3>5. f \notin spoilt => index'[f] = [hash |-> disk[f], size |-> disk[f]]
      <4>1. CASE disk[f] # 0
        BY <1>1, <1>3, <3>2, <3>4, <4>1 DEF ScanRight, RightEntry
      <4>2. CASE disk[f] = 0
        BY <1>1, <1>3, <3>2, <4>2 DEF ScanRight, Absent
      <4> QED BY <4>1, <4>2
    <3>6. IndexRight(f)'
      BY <1>1, <3>5 DEF IndexRight, RightEntry
    <3> QED BY <1>2, <3>3, <3>6 DEF FileRight
  <2> QED BY <2>1, <2>2
<1> QED BY <1>1, <1>5, <1>6, <1>7 DEF FilesInv, FlowRight

LEMMA FilesKept == FilesInv /\ [FilesNext]_fileVars => FilesInv'
<1> SUFFICES ASSUME FilesInv, [FilesNext]_fileVars PROVE FilesInv'
  OBVIOUS
<1>1. CASE UNCHANGED fileVars
  <2>1. UNCHANGED <<disk, changes, unseen, watch, pending, missed, index, todo, look, before, visited, covers,
                    spoilt, crossed>>
    BY <1>1 DEF fileVars, dirVars, watchVars, passVars
  <2> QED BY <2>1 DEF FilesInv, FilesTyped, FilesTypeOK, IdleBatch, Scanning, PendingRight, Seen, FlowRight,
                      OnePass, Quiet, FileRight, BatchRight, ScanRight, IndexRight, RightEntry, File
<1>2. ASSUME NEW b \in Batches, TimerFires(b) PROVE FilesInv'
  BY <1>2, FlushKeeps DEF TimerFires, dirVars
<1>3. ASSUME NEW b \in Batches, StopEnds(b) PROVE FilesInv'
  BY <1>3, FlushKeeps DEF StopEnds, dirVars
<1> QED BY <1>1, <1>2, <1>3, ChangeKeeps, EnqueueKeeps, StartKeeps, FailKeeps, PassKeeps, ScanBeginKeeps,
           ScanEndKeeps DEF FilesNext

(* When every event was delivered and every pass is over, the index is the *)
(* directory, unless two passes overlapped, and but for the files that     *)
(* changed unwatched since the last scan, or could not be read.            *)
THEOREM IndexFollowsFiles == FilesSpec => []IndexFollows
<1>1. FilesInv => IndexFollows
  <2>1. ASSUME FilesInv, Settled, ~ crossed, NEW f \in Files \ (missed \union spoilt)
        PROVE  index[f] = [hash |-> disk[f], size |-> disk[f]]
    <3>1. Quiet(f)
      BY <2>1, EventFiles DEF Settled, Quiet, Seen
    <3>2. IndexRight(f)
      BY <2>1, <3>1 DEF FilesInv, FlowRight, FileRight, Settled
    <3>3. \A b \in Batches : f \notin FilesOf(todo[b])
      BY <2>1, EventFiles DEF Settled, IdleBatch
    <3> QED BY <2>1, <3>2, <3>3 DEF IndexRight, RightEntry
  <2> QED BY <2>1 DEF IndexFollows, SettledIndexMatches, FilesInv, FilesTyped
<1> QED BY <1>1, FilesInitially, FilesKept, PTL DEF FilesSpec
=============================================================================
