----------------------------- MODULE StoreProofs -----------------------------
(***************************************************************************)
(* Theorems of what a node keeps for its calls: the chain of the chat, the *)
(* overrides of a setting, the entry, row and hooks of a plugin, the links *)
(* of a scope, the cache of the lazy loader, and the rows, blobs and audit *)
(* chain of the memory engine.                                             *)
(***************************************************************************)
EXTENDS ChatChain, SettingsRegistry, PluginLifecycle, LinkedScopes,
        LazyLoader, MemoryStore, SequenceTheorems, FiniteSetTheorems, TLAPS

-----------------------------------------------------------------------------
(* The chat: every row repeats the hash before it as long as no append     *)
(* overtook another between its look and its transaction.                  *)

ChatRow == [content : Messages, prev : Messages \union {Null}]

ChatTyped ==
  /\ chatRows \in Seq(ChatRow)
  /\ entryCount = Len(chatRows) /\ entryCount <= MaxEntries
  /\ appending \in [Appenders -> [content : Messages \union {Null}, at : {"idle", "verify", "insert"},
                                  prev : Messages \union {Null}, length : Nat]]
  /\ \A a \in Appenders : appending[a].at # "idle" => appending[a].content \in Messages

Chained(list) == \A i \in DOMAIN list : list[i].prev = Previous(list, i)

(* An append about to insert has the hash of the row that was the last.    *)
LooksAtLast ==
  \A a \in Appenders : appending[a].at = "insert" =>
    /\ appending[a].length <= Len(chatRows)
    /\ appending[a].length = Len(chatRows) => appending[a].prev = LastHash

ChatInv == ChatTyped /\ LooksAtLast /\ (forked \/ Chained(chatRows))

(* The sequence without a row, row by row. *)
LEMMA RemovedRows ==
  ASSUME NEW list \in Seq(ChatRow), NEW i \in 1 .. Len(list)
  PROVE  /\ Removed(list, i) \in Seq(ChatRow)
         /\ Len(Removed(list, i)) = Len(list) - 1
         /\ \A k \in 1 .. Len(list) - 1 : Removed(list, i)[k] = IF k < i THEN list[k] ELSE list[k + 1]
<1> DEFINE before == SubSeq(list, 1, i - 1)
           after  == SubSeq(list, i + 1, Len(list))
<1>0. Len(list) \in Nat
  OBVIOUS
<1>1. /\ before \in Seq(ChatRow) /\ Len(before) = i - 1
      /\ \A k \in 1 .. i - 1 : before[k] = list[k]
  BY SubSeqProperties
<1>2. /\ after \in Seq(ChatRow) /\ Len(after) = Len(list) - i
      /\ \A k \in 1 .. Len(list) - i : after[k] = list[i + k]
  BY SubSeqProperties
<1> HIDE DEF before, after
<1>3. /\ before \o after \in Seq(ChatRow)
      /\ Len(before \o after) = Len(list) - 1
      /\ \A k \in 1 .. Len(list) - 1 :
           (before \o after)[k] = IF k <= Len(before) THEN before[k] ELSE after[k - Len(before)]
  <2>1. /\ before \o after \in Seq(ChatRow) /\ Len(before \o after) = Len(before) + Len(after)
        /\ \A k \in 1 .. Len(before) + Len(after) :
             (before \o after)[k] = IF k <= Len(before) THEN before[k] ELSE after[k - Len(before)]
    BY ONLY <1>1, <1>2, ConcatProperties
  <2>2. Len(before) + Len(after) = Len(list) - 1
    BY ONLY <1>0, <1>1, <1>2, i \in 1 .. Len(list)
  <2> QED BY <2>1, <2>2
<1>4. ASSUME NEW k \in 1 .. Len(list) - 1
      PROVE  (before \o after)[k] = IF k < i THEN list[k] ELSE list[k + 1]
  <2>1. CASE k < i
    BY <1>1, <1>3, <2>1
  <2>2. CASE k >= i
    <3>1. (before \o after)[k] = after[k - (i - 1)] /\ k - (i - 1) \in 1 .. Len(list) - i
      BY <1>1, <1>3, <2>2
    <3>2. after[k - (i - 1)] = list[i + (k - (i - 1))]
      BY <3>1, <1>2
    <3> QED BY <3>1, <3>2, <2>2
  <2>3. k < i \/ k >= i
    BY <1>0
  <2> QED BY <2>1, <2>2, <2>3
<1>5. Removed(list, i) = before \o after
  BY DEF Removed, before, after
<1> QED BY <1>3, <1>4, <1>5

(* Where the removal of a row from a chained sequence shows. *)
LEMMA RemovalShows ==
  ASSUME NEW list \in Seq(ChatRow), Chained(list), NEW i \in 1 .. Len(list)
  PROVE  ~ Verifies(Removed(list, i)) <=>
           (i < Len(list) /\ i <= VerifyLimit /\ Previous(list, i) # list[i].content)
<1> DEFINE cut == Removed(list, i)
<1>1. /\ cut \in Seq(ChatRow) /\ DOMAIN cut = 1 .. Len(list) - 1
      /\ \A k \in 1 .. Len(list) - 1 : cut[k] = IF k < i THEN list[k] ELSE list[k + 1]
  <2>1. /\ cut \in Seq(ChatRow) /\ Len(cut) = Len(list) - 1
        /\ \A k \in 1 .. Len(list) - 1 : cut[k] = IF k < i THEN list[k] ELSE list[k + 1]
    BY RemovedRows
  <2> HIDE DEF cut
  <2>2. DOMAIN cut = 1 .. Len(cut)
    BY <2>1
  <2> QED BY <2>1, <2>2
<1>2. \A k \in 1 .. Len(list) : list[k].prev = IF k = 1 THEN Null ELSE list[k - 1].content
  BY DEF Chained, Previous
<1> HIDE DEF cut
<1>3. ASSUME NEW k \in 1 .. Len(list) - 1, k # i
      PROVE  cut[k].prev = Previous(cut, k)
  <2>1. CASE k < i
    <3>1. cut[k] = list[k] /\ (k # 1 => cut[k - 1] = list[k - 1])
      BY <1>1, <2>1
    <3> QED BY <3>1, <1>2, <1>3 DEF Previous
  <2>2. CASE k > i
    <3>1. cut[k] = list[k + 1] /\ k # 1 /\ cut[k - 1] = list[k]
      BY <1>1, <2>2
    <3>2. list[k + 1].prev = list[k].content
      BY <1>2, <1>3
    <3> QED BY <3>1, <3>2 DEF Previous
  <2> QED BY <2>1, <2>2, <1>3
<1>4. ASSUME i < Len(list)
      PROVE  cut[i].prev = list[i].content /\ Previous(cut, i) = Previous(list, i)
  <2>1. cut[i] = list[i + 1] /\ (i # 1 => cut[i - 1] = list[i - 1])
    <3> HIDE DEF ChatRow
    <3>1. i \in 1 .. Len(list) - 1 /\ Len(list) \in Nat
      BY <1>4
    <3>2. cut[i] = list[i + 1]
      BY <1>1, <3>1
    <3>3. ASSUME i # 1 PROVE cut[i - 1] = list[i - 1]
      <4>1. i - 1 \in 1 .. Len(list) - 1 /\ i - 1 < i
        BY <3>1, <3>3
      <4> QED BY <1>1, <4>1
    <3> QED BY <3>2, <3>3
  <2>2. list[i + 1].prev = list[i].content
    BY <1>2, <1>4
  <2> QED BY <2>1, <2>2 DEF Previous
<1>5. CASE i < Len(list) /\ i <= VerifyLimit /\ Previous(list, i) # list[i].content
  BY <1>1, <1>4, <1>5 DEF Verifies, cut
<1>6. CASE ~ (i < Len(list) /\ i <= VerifyLimit /\ Previous(list, i) # list[i].content)
  <2>1. ASSUME NEW k \in DOMAIN cut, k <= VerifyLimit PROVE cut[k].prev = Previous(cut, k)
    <3>1. CASE k # i
      BY <3>1, <1>1, <1>3, <2>1
    <3>2. CASE k = i
      <4>1. i < Len(list)
        BY <3>2, <1>1, <2>1
      <4> QED BY <4>1, <1>4, <1>6, <2>1, <3>2
    <3> QED BY <3>1, <3>2
  <2> QED BY <2>1, <1>6 DEF Verifies, cut
<1> QED BY <1>5, <1>6

LEMMA ChatInvInit == ChatInit => ChatInv
BY ChatParameters DEF ChatParameters, ChatInit, ChatInv, ChatTyped, LooksAtLast, Chained, NotAppending

LEMMA ChatInvNext == ChatInv /\ [ChatNext]_chatVars => ChatInv'
<1> SUFFICES ASSUME ChatInv, [ChatNext]_chatVars PROVE ChatInv'
  OBVIOUS
<1> USE ChatParameters DEF ChatParameters
<1>1. /\ chatRows \in Seq(ChatRow) /\ Len(chatRows) \in Nat /\ DOMAIN chatRows = 1 .. Len(chatRows)
      /\ LastHash \in Messages \union {Null}
  <2>1. chatRows \in Seq(ChatRow) /\ Len(chatRows) \in Nat /\ DOMAIN chatRows = 1 .. Len(chatRows)
    BY DEF ChatInv, ChatTyped
  <2>2. CASE chatRows = << >>
    BY <2>1, <2>2 DEF LastHash
  <2>3. CASE chatRows # << >>
    <3>1. chatRows[Len(chatRows)] \in ChatRow
      BY <2>1, <2>3
    <3>2. chatRows[Len(chatRows)].content \in Messages
      BY <3>1 DEF ChatRow
    <3> QED BY <3>2, <2>1, <2>3 DEF LastHash
  <2> QED BY <2>1, <2>2, <2>3
<1>2. ASSUME NEW a \in Appenders, AppendBegins(a) \/ AppendRefused(a)
      PROVE  ChatInv'
  <2>1. UNCHANGED <<chatRows, entryCount, forked>>
    BY <1>2 DEF AppendBegins, AppendRefused
  <2>2. PICK call : /\ appending' = [appending EXCEPT ![a] = call]
                    /\ call \in [content : Messages \union {Null}, at : {"idle", "verify"},
                                 prev : {Null}, length : {0}]
                    /\ call.at # "idle" => call.content \in Messages
    <3>1. CASE AppendBegins(a)
      <4>1. PICK c \in Messages :
              appending' = [appending EXCEPT ![a] = [content |-> c, at |-> "verify", prev |-> Null, length |-> 0]]
        BY <3>1 DEF AppendBegins
      <4>2. c \in Messages
        BY <4>1
      <4>3. [content |-> c, at |-> "verify", prev |-> Null, length |-> 0]
              \in [content : Messages \union {Null}, at : {"idle", "verify"}, prev : {Null}, length : {0}]
        BY <4>2
      <4> QED BY <4>1, <4>2, <4>3
    <3>2. CASE AppendRefused(a)
      <4>1. NotAppending \in [content : Messages \union {Null}, at : {"idle", "verify"},
                              prev : {Null}, length : {0}]
        BY DEF NotAppending
      <4>2. NotAppending.at = "idle"
        BY DEF NotAppending
      <4> QED BY <3>2, <4>1, <4>2 DEF AppendRefused
    <3> QED BY <3>1, <3>2, <1>2
  <2>3. \A b \in Appenders : appending'[b] = IF b = a THEN call ELSE appending[b]
    BY <2>2 DEF ChatInv, ChatTyped
  <2>5. ChatTyped'
    BY <2>1, <2>2, <2>3 DEF ChatInv, ChatTyped
  <2>6. \A b \in Appenders : appending'[b].at = "insert" => appending'[b] = appending[b]
    BY <2>2, <2>3
  <2>4. LooksAtLast'
    BY <2>1, <2>6 DEF ChatInv, LooksAtLast, LastHash
  <2> QED BY <2>1, <2>4, <2>5 DEF ChatInv, Chained, Previous
<1>3. ASSUME NEW a \in Appenders, ReadsPrevious(a)
      PROVE  ChatInv'
  <2>1. UNCHANGED <<chatRows, entryCount, forked>>
    BY <1>3 DEF ReadsPrevious
  <2>2. \A b \in Appenders :
          IF b = a THEN /\ appending'[a].at = "insert" /\ appending'[a].content = appending[a].content
                        /\ appending'[a].prev = LastHash /\ appending'[a].length = Len(chatRows)
                   ELSE appending'[b] = appending[b]
    BY <1>3 DEF ReadsPrevious, ChatInv, ChatTyped
  <2>3. ChatTyped'
    <3>1. appending[a].content \in Messages
      BY <1>3 DEF ReadsPrevious, ChatInv, ChatTyped
    <3>2. PICK call : call = [appending[a] EXCEPT !.at = "insert", !.prev = LastHash, !.length = Len(chatRows)]
      OBVIOUS
    <3>3. call \in [content : Messages \union {Null}, at : {"idle", "verify", "insert"},
                    prev : Messages \union {Null}, length : Nat]
      BY <1>1, <3>2 DEF ChatInv, ChatTyped
    <3>4. appending' = [appending EXCEPT ![a] = call]
      BY <1>3, <3>2 DEF ReadsPrevious, ChatInv, ChatTyped
    <3> QED BY <2>1, <2>2, <3>1, <3>3, <3>4 DEF ChatInv, ChatTyped
  <2>4. LooksAtLast'
    BY <2>1, <2>2 DEF ChatInv, LooksAtLast, LastHash
  <2> QED BY <2>1, <2>3, <2>4 DEF ChatInv, Chained, Previous
<1>4. ASSUME NEW a \in Appenders, Inserts(a)
      PROVE  ChatInv'
  <2>1. PICK row : row = [content |-> appending[a].content, prev |-> appending[a].prev]
    OBVIOUS
  <2>2. row \in ChatRow
    BY <1>4, <2>1 DEF Inserts, ChatInv, ChatTyped, ChatRow
  <2>3. chatRows' = Append(chatRows, row)
    BY <1>4, <2>1 DEF Inserts
  <2>4. /\ chatRows' \in Seq(ChatRow) /\ Len(chatRows') = Len(chatRows) + 1
        /\ \A i \in 1 .. Len(chatRows) : chatRows'[i] = chatRows[i]
        /\ chatRows'[Len(chatRows) + 1] = row
    BY <1>1, <2>2, <2>3, AppendProperties
  <2>5. ChatTyped'
    BY <1>1, <1>4, <2>4 DEF Inserts, ChatInv, ChatTyped, NotAppending
  <2>6. \A b \in Appenders : appending'[b].at = "insert" => appending'[b] = appending[b]
    BY <1>4 DEF Inserts, ChatInv, ChatTyped, NotAppending
  <2>7. LooksAtLast'
    BY <1>1, <2>4, <2>6 DEF ChatInv, ChatTyped, LooksAtLast
  <2>8. ASSUME ~ forked' PROVE Chained(chatRows)'
    <3>1. Chained(chatRows) /\ appending[a].length = Len(chatRows)
      BY <1>4, <2>8 DEF Inserts, ChatInv
    <3>2. row.prev = LastHash
      BY <1>4, <2>1, <3>1 DEF Inserts, ChatInv, LooksAtLast
    <3> SUFFICES ASSUME NEW i \in DOMAIN chatRows' PROVE chatRows'[i].prev = Previous(chatRows', i)
      BY DEF Chained
    <3>3. CASE i = Len(chatRows) + 1
      <4>1. Previous(chatRows', i) = LastHash
        BY <1>1, <2>4, <3>3 DEF Previous, LastHash
      <4> QED BY <4>1, <2>4, <3>2, <3>3
    <3>4. CASE i \in 1 .. Len(chatRows)
      <4>1. Previous(chatRows', i) = Previous(chatRows, i)
        BY <1>1, <2>4, <3>4 DEF Previous
      <4> QED BY <4>1, <1>1, <2>4, <3>1, <3>4 DEF Chained
    <3> QED BY <1>1, <2>4, <3>3, <3>4
  <2> QED BY <2>5, <2>7, <2>8 DEF ChatInv
<1>5. CASE UNCHANGED chatVars
  BY <1>5 DEF chatVars, ChatInv, ChatTyped, LooksAtLast, LastHash, Chained, Previous
<1> QED BY <1>2, <1>3, <1>4, <1>5 DEF ChatNext

(* The chain of a session verifies, for any messages, processes and limit, *)
(* unless an append overtook another; and verification notices that a row  *)
(* is gone exactly where the hash before it and the listing's limit let it.*)
THEOREM ChainTells == ChatSpec => []ChainTellsTheSession
<1>1. ChatInv => ChainTellsTheSession
  <2> SUFFICES ASSUME ChatInv PROVE ChainTellsTheSession
    OBVIOUS
  <2>1. /\ chatRows \in Seq(ChatRow) /\ DOMAIN chatRows = 1 .. Len(chatRows)
    BY DEF ChatInv, ChatTyped
  <2>2. ChatTypeOK
    <3>1. \A i \in DOMAIN chatRows : chatRows[i] \in ChatRow
      BY <2>1
    <3> QED BY <3>1 DEF ChatInv, ChatTyped, ChatTypeOK, ChatRow
  <2>3. ChainVerifies
    BY DEF ChatInv, ChainVerifies, Chained, Verifies
  <2>4. RemovalNoticed
    BY <2>1, RemovalShows DEF ChatInv, RemovalNoticed
  <2> QED BY <2>2, <2>3, <2>4 DEF ChainTellsTheSession
<1> QED BY <1>1, ChatInvInit, ChatInvNext, PTL DEF ChatSpec

-----------------------------------------------------------------------------
(* A setting: what failed leaves no trace, and a resolution tells of one   *)
(* moment.                                                                 *)

Holdings == [LevelSet -> Values \union {Unset}]

SettingsTyped ==
  /\ SettingsTypeOK /\ updates \in Nat
  /\ \A u \in Updates : updating[u].at # "idle" => updating[u].level \in LevelSet

(* Where no calls met, at most one is in progress, and the level holds     *)
(* what it found or what it has just put there.                            *)
Traceless ==
  \A l \in LevelSet \ contended :
    /\ \A u, v \in Updates : updating[u].level = l /\ updating[v].level = l => u = v
    /\ \A u \in Updates : updating[u].level = l =>
         /\ updating[u].old = accepted[l]
         /\ updating[u].at = "persist" => overrides[l] = accepted[l]
         /\ updating[u].at = "reload" => overrides[l] = updating[u].value
    /\ (\A u \in Updates : updating[u].level # l) => overrides[l] = accepted[l]

(* A resolution has passed what is unset in these, and is yet to ask what  *)
(* is in these as it is by now.                                            *)
AsIn(over) ==
  \A i \in DOMAIN Levels : CanOverride(Levels[i]) =>
    IF i < resolving.next THEN over[Levels[i]] = Unset
                          ELSE over[Levels[i]] = overrides[Levels[i]]

OfOneMoment ==
  resolving.at = "reading" =>
    /\ resolving.answer = Unset
    /\ moves = 0 => AsIn(overrides)
    /\ EffectiveIn(overrides) \in effective
    /\ moves <= 1 => \E over \in Holdings : EffectiveIn(over) \in effective /\ AsIn(over)

SettingsInv == SettingsTyped /\ Traceless /\ OfOneMoment /\ ResolvesWhatWasInEffect

LEMMA LevelFacts ==
  /\ \A i \in DOMAIN Levels : i \in Nat /\ i >= 1 /\ Levels[i] \in LevelSet
  /\ \A i, j \in DOMAIN Levels : Levels[i] = Levels[j] => i = j
  /\ "none" \notin LevelSet
  /\ MaxUpdates \in Nat
<1>1. Levels \in Seq({"session", "branch", "project", "user", "system"})
  BY SettingsParameters DEF SettingsParameters
<1>2. \A i \in DOMAIN Levels : i \in Nat /\ i >= 1 /\ Levels[i] \in {"session", "branch", "project", "user", "system"}
  BY <1>1
<1> QED BY <1>2, SettingsParameters DEF SettingsParameters, LevelSet

(* What is in effect: the first permitted override. *)
LEMMA FirstIsInEffect ==
  ASSUME NEW over, NEW i \in DOMAIN Levels, CanOverride(Levels[i]), over[Levels[i]] # Unset,
         \A j \in DOMAIN Levels : j < i /\ CanOverride(Levels[j]) => over[Levels[j]] = Unset
  PROVE  EffectiveIn(over) = over[Levels[i]]
<1> DEFINE set == {k \in DOMAIN Levels : CanOverride(Levels[k]) /\ over[Levels[k]] # Unset}
           first == CHOOSE k \in set : \A j \in set : k <= j
<1>1. i \in set /\ \A j \in set : i <= j
  BY LevelFacts
<1>2. first \in set /\ \A j \in set : first <= j
  BY <1>1
<1>3. first = i
  <2> HIDE DEF first
  <2>1. first \in Nat /\ i \in Nat /\ i <= first /\ first <= i
    BY <1>1, <1>2, LevelFacts
  <2> QED BY <2>1
<1> QED BY <1>1, <1>3 DEF EffectiveIn

LEMMA NothingInEffect ==
  ASSUME NEW over,
         \A j \in DOMAIN Levels : CanOverride(Levels[j]) => over[Levels[j]] = Unset
  PROVE  EffectiveIn(over) = Unset
BY DEF EffectiveIn

LEMMA SettingsInvInit == SettingsInit => SettingsInv
<1> SUFFICES ASSUME SettingsInit PROVE SettingsInv
  OBVIOUS
<1>1. SettingsTyped
  BY DEF SettingsInit, SettingsTyped, SettingsTypeOK, NoUpdate, NotResolving
<1>2. Traceless
  BY LevelFacts DEF SettingsInit, Traceless, NoUpdate
<1>3. OfOneMoment /\ ResolvesWhatWasInEffect
  BY DEF SettingsInit, OfOneMoment, ResolvesWhatWasInEffect, NotResolving
<1> QED BY <1>1, <1>2, <1>3 DEF SettingsInv

(* Every write of the persistence, as far as a resolution sees it. *)
LEMMA PersistKeepsMoment ==
  ASSUME SettingsInv, NEW l \in LevelSet, NEW value \in Values \union {Unset}, Persist(l, value),
         UNCHANGED resolving
  PROVE  /\ overrides' \in Holdings /\ moves' \in 0 .. 2
         /\ \A k \in LevelSet : overrides'[k] = IF k = l THEN value ELSE overrides[k]
         /\ OfOneMoment' /\ ResolvesWhatWasInEffect'
<1>1. overrides \in Holdings /\ moves \in 0 .. 2 /\ resolving.next \in Nat
  BY DEF SettingsInv, SettingsTyped, SettingsTypeOK, Holdings
<1>2. /\ overrides' \in Holdings
      /\ \A k \in LevelSet : overrides'[k] = IF k = l THEN value ELSE overrides[k]
  BY <1>1 DEF Persist, Holdings
<1>3. moves' \in 0 .. 2
  BY <1>1 DEF Persist
<1>4. ResolvesWhatWasInEffect'
  BY DEF Persist, SettingsInv, ResolvesWhatWasInEffect
<1>5. OfOneMoment'
  <2> SUFFICES ASSUME resolving.at = "reading"
               PROVE  /\ resolving.answer = Unset /\ moves' # 0
                      /\ EffectiveIn(overrides') \in effective'
                      /\ moves' <= 1 => \E over \in Holdings : EffectiveIn(over) \in effective' /\ AsIn(over)'
    BY DEF OfOneMoment
  <2>1. moves' # 0 /\ (moves' <= 1 => moves = 0)
    BY <1>1 DEF Persist
  <2>2. EffectiveIn(overrides') \in effective' /\ effective \subseteq effective'
    BY DEF Persist
  <2>3. ASSUME moves = 0
        PROVE  \E over \in Holdings : EffectiveIn(over) \in effective' /\ AsIn(over)'
    <3>1. AsIn(overrides) /\ EffectiveIn(overrides) \in effective
      BY <2>3 DEF SettingsInv, OfOneMoment
    <3>2. CASE \E k \in DOMAIN Levels : k < resolving.next /\ Levels[k] = l
      <4>1. \A i \in DOMAIN Levels : i >= resolving.next => Levels[i] # l
        BY <3>2, <1>1, LevelFacts
      <4>2. PICK over \in Holdings : over = overrides
        BY <1>1
      <4>3. AsIn(over)'
        <5> SUFFICES ASSUME NEW i \in DOMAIN Levels, CanOverride(Levels[i])
                     PROVE  IF i < resolving.next THEN over[Levels[i]] = Unset
                                                  ELSE over[Levels[i]] = overrides'[Levels[i]]
          BY DEF AsIn
        <5>1. IF i < resolving.next THEN over[Levels[i]] = Unset
                                    ELSE over[Levels[i]] = overrides[Levels[i]]
          BY <3>1, <4>2 DEF AsIn
        <5>2. i >= resolving.next => overrides'[Levels[i]] = overrides[Levels[i]]
          BY <4>1, <1>2, LevelFacts
        <5> QED BY <5>1, <5>2, <1>1, LevelFacts
      <4> QED BY <2>2, <3>1, <4>2, <4>3
    <3>3. CASE \A k \in DOMAIN Levels : k < resolving.next => Levels[k] # l
      <4>1. PICK over \in Holdings : over = overrides'
        BY <1>2
      <4>2. AsIn(over)'
        <5> SUFFICES ASSUME NEW i \in DOMAIN Levels, CanOverride(Levels[i]), i < resolving.next
                     PROVE  overrides'[Levels[i]] = Unset
          BY <4>1 DEF AsIn
        <5>1. overrides[Levels[i]] = Unset
          BY <3>1 DEF AsIn
        <5> QED BY <5>1, <3>3, <1>2, LevelFacts
      <4> QED BY <2>2, <4>1, <4>2
    <3> QED BY <3>2, <3>3
  <2>4. resolving.answer = Unset
    BY DEF SettingsInv, OfOneMoment
  <2> QED BY <2>1, <2>2, <2>3, <2>4
<1> QED BY <1>2, <1>3, <1>4, <1>5

(* A call that leaves the persistence alone changes nothing that a         *)
(* resolution sees.                                                        *)
LEMMA MomentStays ==
  ASSUME SettingsInv, UNCHANGED <<overrides, resolution>>
  PROVE  OfOneMoment' /\ ResolvesWhatWasInEffect'
<1>1. \A over : AsIn(over)' <=> AsIn(over)
  BY DEF AsIn, resolution
<1> QED BY <1>1 DEF SettingsInv, OfOneMoment, ResolvesWhatWasInEffect, resolution, AsIn

(* The calls of update and revert. *)
LEMMA UpdateSteps ==
  ASSUME SettingsInv, NEW u \in Updates,
         UpdateBegins(u) \/ UpdatePersists(u) \/ ReloadSucceeds(u) \/ ReloadFails(u)
  PROVE  SettingsInv'
<1>1. /\ overrides \in Holdings /\ accepted \in Holdings /\ updates \in Nat
      /\ updating[u].at # "idle" =>
           updating[u].level \in LevelSet /\ updating[u].value \in Values \union {Unset}
             /\ updating[u].old \in Values \union {Unset}
  BY DEF SettingsInv, SettingsTyped, SettingsTypeOK, Holdings
<1>2. CASE UpdateBegins(u)
  <2>1. PICK l \in LevelSet, v \in Values :
          /\ updating' = [updating EXCEPT ![u] =
                            [at |-> "persist", level |-> l, value |-> v, old |-> overrides[l]]]
          /\ contended' = IF \E w \in Updates : updating[w].level = l
                            THEN contended \union {l} ELSE contended
    BY <1>2 DEF UpdateBegins
  <2>2. UNCHANGED <<overrides, accepted, resolution>> /\ updates' \in Nat
    BY <1>1, <1>2 DEF UpdateBegins
  <2>3. \A w \in Updates :
          IF w = u THEN /\ updating'[u].at = "persist" /\ updating'[u].level = l
                        /\ updating'[u].old = overrides[l]
                   ELSE updating'[w] = updating[w]
    BY <2>1 DEF SettingsInv, SettingsTyped, SettingsTypeOK
  <2>4. SettingsTyped'
    <3>1. PICK began : began = [at |-> "persist", level |-> l, value |-> v, old |-> overrides[l]]
      OBVIOUS
    <3>2. began \in [at : {"idle", "persist", "reload"}, level : LevelSet \union {"none"},
                     value : Values \union {Unset}, old : Values \union {Unset}]
      BY <3>1, <2>1, <1>1 DEF Holdings
    <3>3. updating' \in [Updates -> [at : {"idle", "persist", "reload"}, level : LevelSet \union {"none"},
                                     value : Values \union {Unset}, old : Values \union {Unset}]]
      BY <3>1, <3>2, <2>1 DEF SettingsInv, SettingsTyped, SettingsTypeOK
    <3>4. contended' \subseteq LevelSet
      BY <2>1 DEF SettingsInv, SettingsTyped, SettingsTypeOK
    <3>5. \A w \in Updates : /\ updating'[w].at = "idle" => updating'[w] = NoUpdate
                             /\ updating'[w].at # "idle" => updating'[w].level \in LevelSet
      BY <2>1, <2>3 DEF SettingsInv, SettingsTyped, SettingsTypeOK
    <3> QED BY <2>2, <3>3, <3>4, <3>5 DEF SettingsInv, SettingsTyped, SettingsTypeOK, resolution
  <2>5. Traceless'
    <3> SUFFICES ASSUME NEW k \in LevelSet \ contended'
                 PROVE  /\ \A w, z \in Updates : updating'[w].level = k /\ updating'[z].level = k => w = z
                        /\ \A w \in Updates : updating'[w].level = k =>
                             /\ updating'[w].old = accepted'[k]
                             /\ updating'[w].at = "persist" => overrides'[k] = accepted'[k]
                             /\ updating'[w].at = "reload" => overrides'[k] = updating'[w].value
                        /\ (\A w \in Updates : updating'[w].level # k) => overrides'[k] = accepted'[k]
      BY DEF Traceless
    <3>1. k \in LevelSet \ contended /\ updating[u].level # k
      BY <1>2, <2>1, LevelFacts DEF UpdateBegins, NoUpdate
    <3>2. CASE k = l
      <4>1. \A w \in Updates : updating[w].level # l
        BY <2>1, <3>2
      <4>2. overrides[l] = accepted[l]
        BY <3>1, <3>2, <4>1 DEF SettingsInv, Traceless
      <4> QED BY <2>2, <2>3, <3>2, <4>1, <4>2
    <3>3. CASE k # l
      BY <2>2, <2>3, <3>1, <3>3 DEF SettingsInv, Traceless
    <3> QED BY <3>2, <3>3
  <2> QED BY <2>2, <2>4, <2>5, MomentStays DEF SettingsInv
<1>3. CASE UpdatePersists(u)
  <2>1. PICK l \in LevelSet, v \in Values \union {Unset} :
          l = updating[u].level /\ v = updating[u].value /\ Persist(l, v)
    BY <1>1, <1>3 DEF UpdatePersists
  <2>2. /\ overrides' \in Holdings /\ moves' \in 0 .. 2
        /\ \A k \in LevelSet : overrides'[k] = IF k = l THEN v ELSE overrides[k]
        /\ OfOneMoment' /\ ResolvesWhatWasInEffect'
    BY <1>3, <2>1, PersistKeepsMoment DEF UpdatePersists
  <2>3. \A w \in Updates :
          IF w = u THEN /\ updating'[u].at = "reload" /\ updating'[u].level = l
                        /\ updating'[u].old = updating[u].old /\ updating'[u].value = v
                   ELSE updating'[w] = updating[w]
    BY <1>3, <2>1 DEF UpdatePersists, SettingsInv, SettingsTyped, SettingsTypeOK
  <2>4. SettingsTyped'
    <3>1. updating' \in [Updates -> [at : {"idle", "persist", "reload"}, level : LevelSet \union {"none"},
                                     value : Values \union {Unset}, old : Values \union {Unset}]]
      BY <1>3 DEF UpdatePersists, SettingsInv, SettingsTyped, SettingsTypeOK
    <3> QED BY <1>3, <2>1, <2>2, <2>3, <3>1
            DEF UpdatePersists, SettingsInv, SettingsTyped, SettingsTypeOK, Holdings
  <2>5. Traceless'
    BY <1>3, <2>1, <2>2, <2>3 DEF UpdatePersists, SettingsInv, Traceless
  <2> QED BY <2>2, <2>4, <2>5 DEF SettingsInv
<1>4. CASE ReloadSucceeds(u)
  <2>1. UNCHANGED <<overrides, updates, contended, resolution>>
    BY <1>4 DEF ReloadSucceeds
  <2>2. \A w \in Updates : updating'[w] = IF w = u THEN NoUpdate ELSE updating[w]
    BY <1>4 DEF ReloadSucceeds, SettingsInv, SettingsTyped, SettingsTypeOK
  <2>3. /\ accepted' \in Holdings
        /\ \A k \in LevelSet : accepted'[k] = IF k = updating[u].level THEN updating[u].value ELSE accepted[k]
    BY <1>1, <1>4 DEF ReloadSucceeds, Holdings
  <2>4. SettingsTyped'
    <3>1. NoUpdate \in [at : {"idle", "persist", "reload"}, level : LevelSet \union {"none"},
                        value : Values \union {Unset}, old : Values \union {Unset}] /\ NoUpdate.at = "idle"
      BY DEF NoUpdate
    <3>2. updating' \in [Updates -> [at : {"idle", "persist", "reload"}, level : LevelSet \union {"none"},
                                     value : Values \union {Unset}, old : Values \union {Unset}]]
      BY <1>4, <3>1 DEF ReloadSucceeds, SettingsInv, SettingsTyped, SettingsTypeOK
    <3> QED BY <2>1, <2>2, <2>3, <3>1, <3>2 DEF SettingsInv, SettingsTyped, SettingsTypeOK, Holdings, resolution
  <2>5. Traceless'
    <3>1. \A w \in Updates : w = u => updating'[w].level = "none"
      BY <2>2 DEF NoUpdate
    <3> QED BY <1>1, <1>4, <2>1, <2>2, <2>3, <3>1, LevelFacts DEF ReloadSucceeds, SettingsInv, Traceless
  <2> QED BY <2>1, <2>4, <2>5, MomentStays DEF SettingsInv
<1>5. CASE ReloadFails(u)
  <2>1. PICK l \in LevelSet, v \in Values \union {Unset} :
          l = updating[u].level /\ v = updating[u].old /\ Persist(l, v)
    BY <1>1, <1>5 DEF ReloadFails
  <2>2. /\ overrides' \in Holdings /\ moves' \in 0 .. 2
        /\ \A k \in LevelSet : overrides'[k] = IF k = l THEN v ELSE overrides[k]
        /\ OfOneMoment' /\ ResolvesWhatWasInEffect'
    BY <1>5, <2>1, PersistKeepsMoment DEF ReloadFails
  <2>3. \A w \in Updates : updating'[w] = IF w = u THEN NoUpdate ELSE updating[w]
    BY <1>5 DEF ReloadFails, SettingsInv, SettingsTyped, SettingsTypeOK
  <2>4. SettingsTyped'
    <3>1. NoUpdate \in [at : {"idle", "persist", "reload"}, level : LevelSet \union {"none"},
                        value : Values \union {Unset}, old : Values \union {Unset}] /\ NoUpdate.at = "idle"
      BY DEF NoUpdate
    <3>2. updating' \in [Updates -> [at : {"idle", "persist", "reload"}, level : LevelSet \union {"none"},
                                     value : Values \union {Unset}, old : Values \union {Unset}]]
      BY <1>5, <3>1 DEF ReloadFails, SettingsInv, SettingsTyped, SettingsTypeOK
    <3> QED BY <1>5, <2>2, <2>3, <3>1, <3>2
            DEF ReloadFails, SettingsInv, SettingsTyped, SettingsTypeOK, Holdings
  <2>5. Traceless'
    <3>1. \A w \in Updates : w = u => updating'[w].level = "none"
      BY <2>3 DEF NoUpdate
    <3> QED BY <1>5, <2>1, <2>2, <2>3, <3>1, LevelFacts DEF ReloadFails, SettingsInv, Traceless
  <2> QED BY <2>2, <2>4, <2>5 DEF SettingsInv
<1> QED BY <1>2, <1>3, <1>4, <1>5

LEMMA RevertSteps ==
  ASSUME SettingsInv, NEW l \in LevelSet, RevertSetting(l)
  PROVE  SettingsInv'
<1>1. /\ overrides' \in Holdings /\ moves' \in 0 .. 2
      /\ \A k \in LevelSet : overrides'[k] = IF k = l THEN Unset ELSE overrides[k]
      /\ OfOneMoment' /\ ResolvesWhatWasInEffect'
  <2>1. PICK v \in Values \union {Unset} : v = Unset
    OBVIOUS
  <2>2. Persist(l, v) /\ UNCHANGED resolving
    BY <2>1 DEF RevertSetting
  <2> QED BY <2>1, <2>2, PersistKeepsMoment
<1>2. /\ accepted' \in Holdings
      /\ \A k \in LevelSet : accepted'[k] = IF k = l THEN Unset ELSE accepted[k]
  BY DEF RevertSetting, SettingsInv, SettingsTyped, SettingsTypeOK, Holdings
<1>3. SettingsTyped'
  BY <1>1, <1>2 DEF RevertSetting, SettingsInv, SettingsTyped, SettingsTypeOK, Holdings
<1>4. Traceless'
  BY <1>1, <1>2 DEF RevertSetting, SettingsInv, Traceless
<1> QED BY <1>1, <1>3, <1>4 DEF SettingsInv

(* A resolution, level by level. *)
LEMMA ResolveSteps ==
  ASSUME SettingsInv, ResolveBegins \/ ResolveReads \/ ResolveDefaults
  PROVE  SettingsInv'
<1>1. /\ overrides \in Holdings /\ moves \in 0 .. 2 /\ resolving.next \in Nat
      /\ resolving \in [at : {"idle", "reading", "done"}, next : Nat, answer : Values \union {Unset}]
  BY DEF SettingsInv, SettingsTyped, SettingsTypeOK, Holdings
<1>2. UNCHANGED <<overrides, updating, updates, accepted, contended>>
  BY DEF ResolveBegins, ResolveReads, ResolveDefaults
<1>3. Traceless'
  BY <1>2 DEF SettingsInv, Traceless
<1>4. CASE ResolveBegins
  <2>1. /\ resolving' = [at |-> "reading", next |-> 1, answer |-> Unset]
        /\ effective' = {EffectiveIn(overrides)} /\ moves' = 0
    BY <1>4 DEF ResolveBegins, NotResolving
  <2>2. SettingsTyped'
    BY <1>2, <2>1 DEF SettingsInv, SettingsTyped, SettingsTypeOK
  <2>3. PICK over \in Holdings : over = overrides
    BY <1>1
  <2>4. AsIn(over)' /\ AsIn(overrides)'
    BY <1>2, <2>1, <2>3, LevelFacts DEF AsIn
  <2>5. OfOneMoment'
    BY <1>2, <2>1, <2>3, <2>4 DEF OfOneMoment
  <2>6. ResolvesWhatWasInEffect'
    BY <2>1 DEF ResolvesWhatWasInEffect
  <2> QED BY <1>3, <2>2, <2>5, <2>6 DEF SettingsInv
<1>5. CASE ResolveReads
  <2>1. PICK i \in LevelsLeft :
          /\ \A j \in LevelsLeft : i <= j
          /\ resolving' = IF overrides[Levels[i]] = Unset
                            THEN [resolving EXCEPT !.next = i + 1]
                            ELSE [resolving EXCEPT !.at = "done", !.answer = overrides[Levels[i]]]
    BY <1>5 DEF ResolveReads
  <2>2. /\ resolving.at = "reading" /\ UNCHANGED <<effective, moves>>
    BY <1>5 DEF ResolveReads
  <2>3. /\ i \in DOMAIN Levels /\ i \in Nat /\ i >= resolving.next /\ CanOverride(Levels[i])
        /\ Levels[i] \in LevelSet
        /\ \A j \in DOMAIN Levels : j >= resolving.next /\ j < i => ~ CanOverride(Levels[j])
    BY <1>1, <2>1, LevelFacts DEF LevelsLeft
  <2>4. ASSUME NEW over, AsIn(over)
        PROVE  /\ over[Levels[i]] = overrides[Levels[i]]
               /\ \A j \in DOMAIN Levels : j < i /\ CanOverride(Levels[j]) => over[Levels[j]] = Unset
    BY <1>1, <2>3, <2>4, LevelFacts DEF AsIn
  <2>5. CASE overrides[Levels[i]] = Unset
    <3>1. /\ resolving' \in [at : {"idle", "reading", "done"}, next : Nat, answer : Values \union {Unset}]
          /\ resolving'.at = "reading" /\ resolving'.next = i + 1
          /\ resolving'.answer = resolving.answer
      BY <1>1, <2>1, <2>2, <2>3, <2>5
    <3>2. SettingsTyped'
      BY <1>2, <2>2, <3>1 DEF SettingsInv, SettingsTyped, SettingsTypeOK
    <3>3. ASSUME NEW over, AsIn(over)
          PROVE  \A j \in DOMAIN Levels : CanOverride(Levels[j]) =>
                   IF j < i + 1 THEN over[Levels[j]] = Unset ELSE over[Levels[j]] = overrides[Levels[j]]
      <4> SUFFICES ASSUME NEW j \in DOMAIN Levels, CanOverride(Levels[j])
                   PROVE  IF j < i + 1 THEN over[Levels[j]] = Unset
                                       ELSE over[Levels[j]] = overrides[Levels[j]]
        OBVIOUS
      <4>1. j \in Nat
        BY LevelFacts
      <4>2. CASE j < i
        BY <4>1, <4>2, <2>3, <2>4, <3>3
      <4>3. CASE j = i
        BY <4>3, <2>3, <2>4, <2>5, <3>3
      <4>4. CASE j > i
        BY <4>1, <4>4, <2>3, <1>1, <3>3 DEF AsIn
      <4> QED BY <4>1, <4>2, <4>3, <4>4, <2>3
    <3>4. OfOneMoment'
      <4>1. moves = 0 => AsIn(overrides)'
        <5> SUFFICES ASSUME moves = 0 PROVE AsIn(overrides)'
          OBVIOUS
        <5>1. AsIn(overrides)
          BY <2>2 DEF SettingsInv, OfOneMoment
        <5>2. \A j \in DOMAIN Levels : CanOverride(Levels[j]) =>
                   IF j < i + 1 THEN overrides[Levels[j]] = Unset ELSE TRUE
          BY <3>3, <5>1
        <5> QED BY <5>2, <1>2, <3>1 DEF AsIn
      <4>2. moves <= 1 => \E over \in Holdings : EffectiveIn(over) \in effective /\ AsIn(over)'
        <5> SUFFICES ASSUME moves <= 1
                     PROVE  \E over \in Holdings : EffectiveIn(over) \in effective /\ AsIn(over)'
          OBVIOUS
        <5>1. PICK over \in Holdings : EffectiveIn(over) \in effective /\ AsIn(over)
          BY <2>2 DEF SettingsInv, OfOneMoment
        <5>2. AsIn(over)'
          BY <3>3, <5>1, <1>2, <3>1 DEF AsIn
        <5> QED BY <5>1, <5>2
      <4>3. EffectiveIn(overrides) \in effective
        BY <2>2 DEF SettingsInv, OfOneMoment
      <4>4. resolving'.answer = Unset
        BY <2>2, <3>1 DEF SettingsInv, OfOneMoment
      <4> QED BY <4>1, <4>2, <4>3, <4>4, <1>2, <2>2 DEF OfOneMoment
    <3>5. ResolvesWhatWasInEffect'
      BY <3>1 DEF ResolvesWhatWasInEffect
    <3> QED BY <1>3, <3>2, <3>4, <3>5 DEF SettingsInv
  <2>6. CASE overrides[Levels[i]] # Unset
    <3>1. /\ resolving' \in [at : {"idle", "reading", "done"}, next : Nat, answer : Values \union {Unset}]
          /\ resolving'.at = "done" /\ resolving'.answer = overrides[Levels[i]]
      BY <1>1, <2>1, <2>3, <2>6 DEF Holdings
    <3>2. SettingsTyped'
      BY <1>2, <2>2, <3>1 DEF SettingsInv, SettingsTyped, SettingsTypeOK
    <3>3. moves <= 1 => overrides[Levels[i]] \in effective
      <4> SUFFICES ASSUME moves <= 1 PROVE overrides[Levels[i]] \in effective
        OBVIOUS
      <4>1. PICK over \in Holdings : EffectiveIn(over) \in effective /\ AsIn(over)
        BY <2>2 DEF SettingsInv, OfOneMoment
      <4>2. EffectiveIn(over) = over[Levels[i]] /\ over[Levels[i]] = overrides[Levels[i]]
        BY <4>1, <2>3, <2>4, <2>6, FirstIsInEffect
      <4> QED BY <4>1, <4>2
    <3>4. OfOneMoment' /\ ResolvesWhatWasInEffect'
      BY <2>2, <3>1, <3>3 DEF OfOneMoment, ResolvesWhatWasInEffect
    <3> QED BY <1>3, <3>2, <3>4 DEF SettingsInv
  <2> QED BY <2>5, <2>6
<1>6. CASE ResolveDefaults
  <2>1. /\ resolving.at = "reading" /\ LevelsLeft = {} /\ UNCHANGED <<effective, moves>>
        /\ resolving' \in [at : {"idle", "reading", "done"}, next : Nat, answer : Values \union {Unset}]
        /\ resolving'.at = "done" /\ resolving'.answer = resolving.answer
    BY <1>1, <1>6 DEF ResolveDefaults
  <2>2. SettingsTyped'
    BY <1>2, <2>1 DEF SettingsInv, SettingsTyped, SettingsTypeOK
  <2>3. moves <= 1 => Unset \in effective
    <3> SUFFICES ASSUME moves <= 1 PROVE Unset \in effective
      OBVIOUS
    <3>1. PICK over \in Holdings : EffectiveIn(over) \in effective /\ AsIn(over)
      BY <2>1 DEF SettingsInv, OfOneMoment
    <3>2. \A j \in DOMAIN Levels : CanOverride(Levels[j]) => over[Levels[j]] = Unset
      BY <1>1, <2>1, <3>1, LevelFacts DEF LevelsLeft, AsIn
    <3> QED BY <3>1, <3>2, NothingInEffect
  <2>4. OfOneMoment' /\ ResolvesWhatWasInEffect'
    BY <2>1, <2>3 DEF SettingsInv, OfOneMoment, ResolvesWhatWasInEffect
  <2> QED BY <1>3, <2>2, <2>4 DEF SettingsInv
<1> QED BY <1>4, <1>5, <1>6

LEMMA SettingsInvNext == SettingsInv /\ [SettingsNext]_settingVars => SettingsInv'
<1> SUFFICES ASSUME SettingsInv, [SettingsNext]_settingVars PROVE SettingsInv'
  OBVIOUS
<1>1. CASE UNCHANGED settingVars
  <2>1. UNCHANGED <<overrides, updating, updates, resolution, accepted, contended>>
    BY <1>1 DEF settingVars, resolution
  <2>2. SettingsTyped' /\ Traceless'
    BY <2>1 DEF SettingsInv, SettingsTyped, SettingsTypeOK, Traceless, resolution
  <2> QED BY <2>1, <2>2, MomentStays DEF SettingsInv
<1> QED BY <1>1, UpdateSteps, RevertSteps, ResolveSteps DEF SettingsNext

(* For any levels, values, updates and resolution: where no calls for one  *)
(* level met, a reload that failed leaves no trace there, and a resolution *)
(* answers with what was in effect at one moment, unless two changes       *)
(* overtook it.                                                            *)
THEOREM SettingsAreRestored == SettingsSpec => []SettingsRestored
<1>1. SettingsInv => SettingsRestored
  BY DEF SettingsInv, SettingsTyped, Traceless, SettingsRestored, FailedReloadLeavesNoTrace
<1> QED BY <1>1, SettingsInvInit, SettingsInvNext, PTL DEF SettingsSpec

-----------------------------------------------------------------------------
(* One plugin: its entry, its hooks and the stored row.                    *)

Steps == {"load", "onInstall", "register", "get", "onActivate", "active", "onDeactivate", "inactive",
          "replace", "unregister"}

LastSteps == {"register", "active", "inactive", "replace", "unregister"}

(* Which step of a call may come directly after which.                     *)
Follows(x, y) ==
  \/ x = "load" /\ y \in {"onInstall", "replace"}
  \/ x = "onInstall" /\ y = "register"
  \/ x = "get" /\ y \in {"onActivate", "onDeactivate"}
  \/ x = "onActivate" /\ y = "active"
  \/ x = "onDeactivate" /\ y = "inactive"
  \/ x = "inactive" /\ y \in {"load", "unregister"}
  \/ x = "replace" /\ y = "get"

(* What is left of a call.                                                 *)
Ordered(s) ==
  /\ s \in Seq(Steps)
  /\ \A i \in 1 .. Len(s) - 1 : Follows(s[i], s[i + 1])
  /\ s # << >> => s[Len(s)] \in LastSteps

LEMMA UpdateIsOrdered ==
  Ordered(<<"get", "onDeactivate", "inactive", "load", "replace", "get", "onActivate", "active">>)
<1> DEFINE s == <<"get", "onDeactivate", "inactive", "load", "replace", "get", "onActivate", "active">>
<1>1. s \in Seq(Steps)
  BY DEF Steps
<1>2. /\ Len(s) = 8 /\ s[1] = "get" /\ s[2] = "onDeactivate" /\ s[3] = "inactive" /\ s[4] = "load"
      /\ s[5] = "replace" /\ s[6] = "get" /\ s[7] = "onActivate" /\ s[8] = "active"
  OBVIOUS
<1> HIDE DEF s
<1>3. \A i \in 1 .. 7 : i = 1 \/ i = 2 \/ i = 3 \/ i = 4 \/ i = 5 \/ i = 6 \/ i = 7
  OBVIOUS
<1>4. \A i \in 1 .. 7 : Follows(s[i], s[i + 1])
  <2> SUFFICES ASSUME NEW i \in 1 .. 7 PROVE Follows(s[i], s[i + 1])
    OBVIOUS
  <2>1. Follows(s[1], s[2]) /\ Follows(s[2], s[3]) /\ Follows(s[3], s[4]) /\ Follows(s[4], s[5])
    BY <1>2 DEF Follows
  <2>2. Follows(s[5], s[6]) /\ Follows(s[6], s[7]) /\ Follows(s[7], s[8])
    BY <1>2 DEF Follows
  <2> QED BY <1>3, <2>1, <2>2
<1> QED BY <1>1, <1>2, <1>4 DEF Ordered, LastSteps, s

LEMMA CallsAreOrdered ==
  /\ Ordered(<<"load", "onInstall", "register">>)
  /\ Ordered(<<"get", "onActivate", "active">>)
  /\ Ordered(<<"get", "onDeactivate", "inactive">>)
  /\ Ordered(<<"unregister">>)
  /\ Ordered(<<"load", "replace">>)
  /\ Ordered(<<"get", "onDeactivate", "inactive", "unregister">>)
<1>1. Ordered(<<"load", "onInstall", "register">>)
  BY DEF Ordered, Follows, Steps, LastSteps
<1>2. Ordered(<<"get", "onActivate", "active">>)
  BY DEF Ordered, Follows, Steps, LastSteps
<1>3. Ordered(<<"get", "onDeactivate", "inactive">>)
  BY DEF Ordered, Follows, Steps, LastSteps
<1>4. Ordered(<<"unregister">>) /\ Ordered(<<"load", "replace">>)
  BY DEF Ordered, Follows, Steps, LastSteps
<1>5. Ordered(<<"get", "onDeactivate", "inactive", "unregister">>)
  <2> DEFINE s == <<"get", "onDeactivate", "inactive", "unregister">>
  <2>1. /\ s \in Seq(Steps) /\ Len(s) = 4
        /\ s[1] = "get" /\ s[2] = "onDeactivate" /\ s[3] = "inactive" /\ s[4] = "unregister"
    BY DEF Steps
  <2> HIDE DEF s
  <2>2. Follows(s[1], s[2]) /\ Follows(s[2], s[3]) /\ Follows(s[3], s[4])
    BY <2>1 DEF Follows
  <2>3. \A i \in 1 .. 3 : i = 1 \/ i = 2 \/ i = 3
    OBVIOUS
  <2>4. \A i \in 1 .. 3 : Follows(s[i], s[i + 1])
    BY <2>2, <2>3
  <2> QED BY <2>1, <2>4 DEF Ordered, LastSteps, s
<1> QED BY <1>1, <1>2, <1>3, <1>4, <1>5

LEMMA OrderedTail ==
  ASSUME NEW s, Ordered(s), s # << >>
  PROVE  /\ s \in Seq(Steps) /\ Len(s) \in Nat \ {0} /\ Head(s) = s[1] /\ s[1] \in Steps
         /\ Ordered(Tail(s))
         /\ Len(s) = 1 => s[1] \in LastSteps
         /\ Len(s) # 1 => Tail(s) # << >> /\ Head(Tail(s)) = s[2] /\ Follows(s[1], s[2])
<1>1. s \in Seq(Steps) /\ Len(s) \in Nat \ {0}
  BY DEF Ordered
<1>2. Head(s) = s[1] /\ s[1] \in Steps
  BY <1>1
<1>3. /\ Tail(s) \in Seq(Steps) /\ Len(Tail(s)) = Len(s) - 1
      /\ \A i \in 1 .. Len(s) - 1 : Tail(s)[i] = s[i + 1]
  BY <1>1
<1>4. Ordered(Tail(s))
  <2>1. \A i \in 1 .. Len(Tail(s)) - 1 : Follows(Tail(s)[i], Tail(s)[i + 1])
    <3> SUFFICES ASSUME NEW i \in 1 .. Len(Tail(s)) - 1
                 PROVE  Follows(Tail(s)[i], Tail(s)[i + 1])
      OBVIOUS
    <3>1. i \in 1 .. Len(s) - 1 /\ i + 1 \in 1 .. Len(s) - 1
      BY <1>1, <1>3
    <3>2. Tail(s)[i] = s[i + 1] /\ Tail(s)[i + 1] = s[i + 1 + 1]
      BY <1>3, <3>1
    <3>3. Follows(s[i + 1], s[i + 1 + 1])
      BY <3>1 DEF Ordered
    <3> QED BY <3>2, <3>3
  <2>2. ASSUME Tail(s) # << >>
        PROVE  Tail(s)[Len(Tail(s))] \in LastSteps
    <3>1. Len(s) - 1 \in 1 .. Len(s) - 1
      BY <1>1, <1>3, <2>2
    <3>2. Tail(s)[Len(s) - 1] = s[Len(s) - 1 + 1] /\ Len(s) - 1 + 1 = Len(s)
      BY <1>1, <1>3, <3>1
    <3> QED BY <1>3, <3>2 DEF Ordered
  <2> QED BY <1>3, <2>1, <2>2 DEF Ordered
<1>5. ASSUME Len(s) # 1
      PROVE  Tail(s) # << >> /\ Head(Tail(s)) = s[2] /\ Follows(s[1], s[2])
  <2>1. \A n \in Nat \ {0} : n # 1 => n - 1 \in Nat \ {0} /\ 1 \in 1 .. n - 1
    OBVIOUS
  <2>4. Len(s) - 1 \in Nat \ {0} /\ 1 \in 1 .. Len(s) - 1
    BY <1>1, <1>5, <2>1
  <2>2. Tail(s)[1] = s[2] /\ Follows(s[1], s[2])
    BY <1>3, <2>4 DEF Ordered
  <2>5. \A u \in Seq(Steps) : Len(u) \in Nat \ {0} => u # << >> /\ Head(u) = u[1]
    OBVIOUS
  <2>3. Tail(s) # << >> /\ Head(Tail(s)) = Tail(s)[1]
    BY <1>3, <2>4, <2>5
  <2> QED BY <2>2, <2>3
<1>6. Len(s) = 1 => s[1] \in LastSteps
  BY DEF Ordered
<1> QED BY <1>1, <1>2, <1>4, <1>5, <1>6
-----------------------------------------------------------------------------
(* The step a call takes next. *)
NextStep(c) == IF doing[c].steps = << >> THEN "none" ELSE doing[c].steps[1]

(* It goes on to put another version in place. *)
Updating(c) ==
  \/ NextStep(c) = "replace"
  \/ NextStep(c) = "load" /\ Len(doing[c].steps) > 1 /\ doing[c].steps[2] = "replace"

VersionsRead == Versions \union {"none"}

CallsOrdered ==
  /\ doing \in [PluginCalls -> [steps : Seq(Steps), version : VersionsRead]]
  /\ \A c \in PluginCalls : /\ Ordered(doing[c].steps)
                            /\ doing[c].steps = << >> => doing[c] = Resting

(* What a call does later relies on what it has read: nothing has changed. *)
CallHolds(c) ==
  /\ NextStep(c) = "unregister" \/ Updating(c) => plugin.state # "active"
  /\ NextStep(c) \in {"onActivate", "active", "onDeactivate", "inactive"} => Registered
  /\ NextStep(c) \in {"onActivate", "active"} => doing[c].version = plugin.version
  /\ NextStep(c) = "active" => running = plugin.version
  /\ NextStep(c) = "inactive" => running = "none" \/ "failed" \in unhooked

(* As long as calls do not overlap: the registry and the hooks agree, but  *)
(* for the step between the hook and the change of the state.              *)
InTurn ==
  /\ \A c, d \in PluginCalls : doing[c] = Resting \/ doing[d] = Resting \/ c = d
  /\ \A c \in PluginCalls : CallHolds(c)
  /\ plugin.state = "active" /\ "restored" \notin unhooked
       => running = plugin.version \/ \E c \in PluginCalls : NextStep(c) = "inactive"
  /\ running # "none" /\ unhooked = {}
       => plugin.state = "active" \/ \E c \in PluginCalls : NextStep(c) = "active"

(* A call that puts a version in place has read it. *)
LoadedFirst(c) ==
  NextStep(c) \in {"onInstall", "register", "replace"} => doing[c].version \in Versions

PluginInv ==
  /\ PluginTypeOK /\ StoredAsListed /\ CallsOrdered
  /\ \A c \in PluginCalls : LoadedFirst(c)
  /\ mixed \/ InTurn

LEMMA CallBegins ==
  ASSUME PluginInv, NEW c \in PluginCalls, NEW s, Ordered(s), s # << >>,
         s[1] \in {"load", "get"} \/ (s[1] = "unregister" /\ plugin.state # "active"),
         s[1] = "load" /\ Len(s) > 1 => s[2] = "onInstall" \/ plugin.state # "active",
         Calls(c, s)
  PROVE  PluginInv'
<1>1. s \in Seq(Steps)
  BY DEF Ordered
<1>2. /\ doing' = [doing EXCEPT ![c].steps = s] /\ doing[c] = Resting
      /\ UNCHANGED <<plugin, stored, running, restarts, unhooked>>
      /\ mixed' = (mixed \/ ~ Quiet)
  BY DEF Calls
<1>3. /\ doing'[c].steps = s /\ doing'[c].version = doing[c].version
      /\ \A d \in PluginCalls \ {c} : doing'[d] = doing[d]
      /\ doing' \in [PluginCalls -> [steps : Seq(Steps), version : VersionsRead]]
  BY <1>1, <1>2 DEF PluginInv, CallsOrdered
<1>4. CallsOrdered'
  BY <1>3 DEF PluginInv, CallsOrdered, Resting
<1>5. PluginTypeOK'
  BY <1>2, <1>3 DEF PluginInv, PluginTypeOK, CallsOrdered, VersionsRead
<1>6. StoredAsListed'
  BY <1>2 DEF PluginInv, StoredAsListed, Registered
<1>8. \A d \in PluginCalls : LoadedFirst(d)'
  <2>1. NextStep(c)' = s[1]
    BY <1>3 DEF NextStep
  <2>2. \A d \in PluginCalls \ {c} : NextStep(d)' = NextStep(d)
    BY <1>3 DEF NextStep
  <2> QED BY <1>3, <2>1, <2>2 DEF LoadedFirst, PluginInv
<1>7. ASSUME ~ mixed'
      PROVE  InTurn'
  <2>1. InTurn /\ \A d \in PluginCalls : doing[d] = Resting
    BY <1>2, <1>7 DEF PluginInv, Quiet, PluginTypeOK
  <2>2. \A d \in PluginCalls \ {c} : doing'[d] = Resting /\ NextStep(d)' = "none"
    BY <1>3, <2>1 DEF NextStep, Resting
  <2>3. NextStep(c)' = s[1]
    BY <1>3 DEF NextStep
  <2>4. \A d \in PluginCalls : NextStep(d) = "none"
    <3>1. Resting.steps = << >>
      BY DEF Resting
    <3> QED BY <2>1, <3>1 DEF NextStep
  <2>5. CallHolds(c)'
    <3>1. Updating(c)' => plugin.state # "active"
      BY <1>3, <2>3 DEF Updating
    <3> QED BY <1>2, <2>3, <3>1 DEF CallHolds
  <2>6. \A d \in PluginCalls \ {c} : CallHolds(d)'
    BY <2>2 DEF CallHolds, Updating
  <2>7. \A d, e \in PluginCalls : doing'[d] = Resting \/ doing'[e] = Resting \/ d = e
    BY <2>2
  <2> QED BY <1>2, <2>1, <2>4, <2>5, <2>6, <2>7 DEF InTurn
<1> QED BY <1>4, <1>5, <1>6, <1>7, <1>8 DEF PluginInv

(* After a step a call rests or goes on with the step that follows.        *)
LEMMA Goes ==
  ASSUME CallsOrdered, NEW c \in PluginCalls, doing[c].steps # << >>,
         NEW v \in VersionsRead, Proceeds(c, v)
  PROVE  /\ CallsOrdered'
         /\ \A d \in PluginCalls \ {c} : doing'[d] = doing[d]
         /\ NextStep(c) \in Steps
         /\ \/ doing'[c] = Resting /\ NextStep(c)' = "none" /\ NextStep(c) \in LastSteps
            \/ /\ doing'[c].version = v /\ NextStep(c)' = doing[c].steps[2]
               /\ Len(doing[c].steps) > 1 /\ Follows(NextStep(c), NextStep(c)')
<1> DEFINE s == doing[c].steps
<1>1. /\ s \in Seq(Steps) /\ Len(s) \in Nat \ {0} /\ Head(s) = s[1] /\ s[1] \in Steps
      /\ Ordered(Tail(s))
      /\ Len(s) = 1 => s[1] \in LastSteps
      /\ Len(s) # 1 => Tail(s) # << >> /\ Head(Tail(s)) = s[2] /\ Follows(s[1], s[2])
  BY OrderedTail DEF CallsOrdered
<1>2. NextStep(c) = s[1]
  BY DEF NextStep
<1>3. Resting \in [steps : Seq(Steps), version : VersionsRead] /\ Resting.steps = << >>
  BY DEF Resting, VersionsRead
<1>4. CASE Len(s) = 1
  <2>1. doing' = [doing EXCEPT ![c] = Resting]
    BY <1>4 DEF Proceeds
  <2>2. doing'[c] = Resting /\ \A d \in PluginCalls \ {c} : doing'[d] = doing[d]
    BY <2>1 DEF CallsOrdered
  <2>3. doing' \in [PluginCalls -> [steps : Seq(Steps), version : VersionsRead]]
    BY <1>3, <2>1 DEF CallsOrdered
  <2>4. Ordered(<< >>)
    BY DEF Ordered
  <2>5. CallsOrdered'
    BY <1>3, <2>2, <2>3, <2>4 DEF CallsOrdered
  <2>6. NextStep(c)' = "none"
    BY <1>3, <2>2 DEF NextStep
  <2> QED BY <1>1, <1>2, <1>4, <2>2, <2>5, <2>6
<1>5. CASE Len(s) # 1
  <2>1. doing' = [doing EXCEPT ![c] = [steps |-> Tail(s), version |-> v]]
    BY <1>5 DEF Proceeds
  <2>2. /\ doing'[c] = [steps |-> Tail(s), version |-> v]
        /\ \A d \in PluginCalls \ {c} : doing'[d] = doing[d]
    BY <2>1 DEF CallsOrdered
  <2>3. Tail(s) \in Seq(Steps) /\ Tail(s) # << >>
    BY <1>1, <1>5 DEF Ordered
  <2>4. doing' \in [PluginCalls -> [steps : Seq(Steps), version : VersionsRead]]
    BY <2>1, <2>3 DEF CallsOrdered
  <2>5. doing'[c].steps = Tail(s) /\ doing'[c].version = v
    BY <2>2
  <2>6. CallsOrdered'
    BY <1>1, <2>2, <2>3, <2>4, <2>5 DEF CallsOrdered
  <2>7. \A u \in Seq(Steps) : u # << >> => Head(u) = u[1]
    OBVIOUS
  <2>8. NextStep(c)' = s[2]
    BY <1>1, <1>5, <2>3, <2>5, <2>7 DEF NextStep
  <2>9. Len(s) > 1
    BY <1>1, <1>5
  <2> QED BY <1>1, <1>2, <1>5, <2>2, <2>5, <2>6, <2>8, <2>9
<1> QED BY <1>4, <1>5

LEMMA Stops ==
  ASSUME CallsOrdered, NEW c \in PluginCalls, Throws(c)
  PROVE  /\ CallsOrdered'
         /\ \A d \in PluginCalls \ {c} : doing'[d] = doing[d]
         /\ doing'[c] = Resting /\ NextStep(c)' = "none"
<1>1. Resting \in [steps : Seq(Steps), version : VersionsRead] /\ Resting.steps = << >>
  BY DEF Resting, VersionsRead
<1>2. doing' = [doing EXCEPT ![c] = Resting]
  BY DEF Throws
<1>3. doing'[c] = Resting /\ \A d \in PluginCalls \ {c} : doing'[d] = doing[d]
  BY <1>2 DEF CallsOrdered
<1>4. doing' \in [PluginCalls -> [steps : Seq(Steps), version : VersionsRead]]
  BY <1>1, <1>2 DEF CallsOrdered
<1>5. Ordered(<< >>)
  BY DEF Ordered
<1> QED BY <1>1, <1>3, <1>4, <1>5 DEF CallsOrdered, NextStep

(* A step of the only call in progress keeps what holds of the others,     *)
(* which rest.                                                             *)
LEMMA OnlyCall ==
  ASSUME CallsOrdered, InTurn, NEW c \in PluginCalls, doing[c].steps # << >>,
         \A d \in PluginCalls \ {c} : doing'[d] = doing[d],
         CallHolds(c)'
  PROVE  /\ \A d, e \in PluginCalls : doing'[d] = Resting \/ doing'[e] = Resting \/ d = e
         /\ \A d \in PluginCalls : CallHolds(d)'
         /\ \A d \in PluginCalls \ {c} : NextStep(d) = "none"
<1>1. doing[c] # Resting
  BY DEF Resting
<1>2. \A d \in PluginCalls \ {c} : doing[d] = Resting
  BY <1>1 DEF InTurn
<1>3. Resting.steps = << >>
  BY DEF Resting
<1>4. \A d \in PluginCalls \ {c} : NextStep(d) = "none" /\ NextStep(d)' = "none"
  BY <1>2, <1>3 DEF NextStep
<1>5. \A d \in PluginCalls \ {c} : CallHolds(d)'
  BY <1>4 DEF CallHolds, Updating
<1> QED BY <1>2, <1>4, <1>5

(* What the only call in progress finds, and has to leave.                 *)
Agreeing(c) ==
  /\ CallHolds(c)
  /\ plugin.state = "active" /\ "restored" \notin unhooked
       => running = plugin.version \/ NextStep(c) = "inactive"
  /\ running # "none" /\ unhooked = {} => plugin.state = "active" \/ NextStep(c) = "active"

LEMMA Alone ==
  ASSUME CallsOrdered, InTurn, NEW c \in PluginCalls, doing[c].steps # << >>
  PROVE  Agreeing(c)
<1>1. \A d \in PluginCalls \ {c} : doing[d] = Resting
  BY DEF InTurn, Resting
<1>2. Resting.steps = << >>
  BY DEF Resting
<1>3. \A d \in PluginCalls \ {c} : NextStep(d) = "none"
  BY <1>1, <1>2 DEF NextStep
<1> QED BY <1>3 DEF InTurn, Agreeing

LEMMA AgreeingInTurn ==
  ASSUME CallsOrdered, InTurn, NEW c \in PluginCalls, doing[c].steps # << >>,
         \A d \in PluginCalls \ {c} : doing'[d] = doing[d],
         Agreeing(c)'
  PROVE  InTurn'
BY OnlyCall DEF InTurn, Agreeing

LEMMA AtStep ==
  ASSUME CallsOrdered, NEW c \in PluginCalls, NEW x, At(c, x)
  PROVE  doing[c].steps # << >> /\ NextStep(c) = x
BY OrderedTail DEF At, NextStep, CallsOrdered

(* The common part of all steps.                                           *)
LEMMA StepKeeps ==
  ASSUME PluginInv, NEW c \in PluginCalls, doing[c].steps # << >>,
         CallsOrdered', \A d \in PluginCalls \ {c} : doing'[d] = doing[d],
         UNCHANGED <<restarts, mixed>>,
         plugin' \in Entries \union {NoPlugin}, stored' \in Entries \union {NoPlugin},
         running' \in Versions \union {"none"},
         unhooked' \subseteq {"failed", "configured", "restored"},
         StoredAsListed', LoadedFirst(c)', Agreeing(c) => Agreeing(c)'
  PROVE  PluginInv'
<1>1. PluginTypeOK'
  BY DEF PluginInv, PluginTypeOK, CallsOrdered, VersionsRead
<1>2. ASSUME InTurn PROVE InTurn'
  BY <1>2, Alone, AgreeingInTurn DEF PluginInv
<1>3. \A d \in PluginCalls \ {c} : NextStep(d)' = NextStep(d)
  BY DEF NextStep
<1>4. \A d \in PluginCalls : LoadedFirst(d)'
  BY <1>3 DEF LoadedFirst, PluginInv
<1> QED BY <1>1, <1>2, <1>4 DEF PluginInv

(* A step that only goes on, or throws. *)
LEMMA UntouchedKeeps ==
  ASSUME PluginInv, NEW c \in PluginCalls, doing[c].steps # << >>,
         CallsOrdered', \A d \in PluginCalls \ {c} : doing'[d] = doing[d],
         UNCHANGED <<plugin, stored, running, unhooked, restarts, mixed>>,
         NextStep(c) \notin {"active", "inactive"}, LoadedFirst(c)',
         Agreeing(c) => CallHolds(c)'
  PROVE  PluginInv'
<1>1. Agreeing(c) => Agreeing(c)'
  BY DEF Agreeing
<1>2. StoredAsListed'
  BY DEF PluginInv, StoredAsListed, Registered
<1>3. /\ plugin' \in Entries \union {NoPlugin} /\ stored' \in Entries \union {NoPlugin}
      /\ running' \in Versions \union {"none"}
      /\ unhooked' \subseteq {"failed", "configured", "restored"}
  BY DEF PluginInv, PluginTypeOK
<1> QED BY <1>1, <1>2, <1>3, StepKeeps

LEMMA ThrowsKeeps ==
  ASSUME PluginInv, NEW c \in PluginCalls, doing[c].steps # << >>, Throws(c),
         UNCHANGED <<plugin, stored, running, unhooked, restarts, mixed>>,
         NextStep(c) \notin {"active", "inactive"}
  PROVE  PluginInv'
<1>1. CallsOrdered
  BY DEF PluginInv
<1>2. CallHolds(c)'
  BY <1>1, Stops DEF CallHolds, Updating
<1>3. LoadedFirst(c)'
  BY <1>1, Stops DEF LoadedFirst
<1> QED BY <1>1, <1>2, <1>3, Stops, UntouchedKeeps

LEMMA LoadKeeps ==
  ASSUME PluginInv, NEW c \in PluginCalls, LoadsPackage(c), UNCHANGED <<restarts, mixed>>
  PROVE  PluginInv'
<1>1. CallsOrdered /\ doing[c].steps # << >> /\ NextStep(c) = "load"
      /\ UNCHANGED <<plugin, stored, running, unhooked, restarts, mixed>>
  BY AtStep DEF PluginInv, LoadsPackage
<1>2. CASE Throws(c)
  BY <1>1, <1>2, ThrowsKeeps
<1>3. CASE \E v \in Versions : Proceeds(c, v)
  <2>1. PICK v \in Versions : Proceeds(c, v)
    BY <1>3
  <2>2. v \in VersionsRead
    BY DEF VersionsRead
  <2>3. Agreeing(c) => CallHolds(c)'
    BY <1>1, <2>1, <2>2, Goes DEF Agreeing, CallHolds, Updating, Follows, LastSteps
  <2>4. LoadedFirst(c)'
    BY <1>1, <2>1, <2>2, Goes DEF LoadedFirst
  <2> QED BY <1>1, <2>1, <2>2, <2>3, <2>4, Goes, UntouchedKeeps
<1> QED BY <1>2, <1>3 DEF LoadsPackage

LEMMA InstallHookKeeps ==
  ASSUME PluginInv, NEW c \in PluginCalls, InstallHookRuns(c), UNCHANGED <<restarts, mixed>>
  PROVE  PluginInv'
<1>1. CallsOrdered /\ doing[c].steps # << >> /\ NextStep(c) = "onInstall"
      /\ UNCHANGED <<plugin, stored, running, unhooked, restarts, mixed>>
  BY AtStep DEF PluginInv, InstallHookRuns
<1>2. CASE Throws(c)
  BY <1>1, <1>2, ThrowsKeeps
<1>3. CASE Proceeds(c, doing[c].version)
  <2>2. doing[c].version \in VersionsRead
    BY <1>1 DEF CallsOrdered
  <2>3. Agreeing(c) => CallHolds(c)'
    BY <1>1, <1>3, <2>2, Goes DEF Agreeing, CallHolds, Updating, Follows, LastSteps
  <2>4. LoadedFirst(c)'
    BY <1>1, <1>3, <2>2, Goes DEF LoadedFirst, PluginInv, Follows
  <2> QED BY <1>1, <1>3, <2>2, <2>3, <2>4, Goes, UntouchedKeeps
<1> QED BY <1>2, <1>3 DEF InstallHookRuns

LEMMA GetKeeps ==
  ASSUME PluginInv, NEW c \in PluginCalls, GetsPlugin(c), UNCHANGED <<restarts, mixed>>
  PROVE  PluginInv'
<1>1. CallsOrdered /\ doing[c].steps # << >> /\ NextStep(c) = "get"
      /\ UNCHANGED <<plugin, stored, running, unhooked, restarts, mixed>>
  BY AtStep DEF PluginInv, GetsPlugin
<1>2. CASE ~ Registered
  BY <1>1, <1>2, ThrowsKeeps DEF GetsPlugin
<1>3. CASE Registered
  <2>1. Proceeds(c, plugin.version)
    BY <1>3 DEF GetsPlugin
  <2>2. plugin.version \in VersionsRead
    BY <1>3 DEF PluginInv, PluginTypeOK, Entries, Registered, VersionsRead
  <2>3. Agreeing(c) => CallHolds(c)'
    BY <1>1, <1>3, <2>1, <2>2, Goes DEF Agreeing, CallHolds, Updating, Follows, LastSteps, Registered
  <2>4. LoadedFirst(c)'
    BY <1>1, <2>1, <2>2, Goes DEF LoadedFirst, Follows
  <2> QED BY <1>1, <2>1, <2>2, <2>3, <2>4, Goes, UntouchedKeeps
<1> QED BY <1>2, <1>3

(* A step that leaves the entry in another state; the row follows it.      *)
LEMMA FlushedKeeps ==
  ASSUME PluginInv, NEW c \in PluginCalls, doing[c].steps # << >>,
         CallsOrdered', \A d \in PluginCalls \ {c} : doing'[d] = doing[d],
         UNCHANGED <<running, restarts, mixed>>,
         NEW entry \in Entries, Flushed(entry),
         unhooked' \subseteq {"failed", "configured", "restored"},
         LoadedFirst(c)', Agreeing(c) => Agreeing(c)'
  PROVE  PluginInv'
<1>1. plugin' = entry /\ stored' = entry
  BY DEF Flushed
<1>2. StoredAsListed'
  BY <1>1 DEF StoredAsListed
<1>3. running' \in Versions \union {"none"}
  BY DEF PluginInv, PluginTypeOK
<1> QED BY <1>1, <1>2, <1>3, StepKeeps

LEMMA RegisterKeeps ==
  ASSUME PluginInv, NEW c \in PluginCalls, Registers(c), UNCHANGED <<restarts, mixed>>
  PROVE  PluginInv'
<1>1. CallsOrdered /\ doing[c].steps # << >> /\ NextStep(c) = "register"
      /\ UNCHANGED <<running, unhooked>> /\ Proceeds(c, "none")
  BY AtStep DEF PluginInv, Registers
<1>2. "none" \in VersionsRead
  BY DEF VersionsRead
<1>3. doing'[c] = Resting /\ NextStep(c)' = "none"
  BY <1>1, <1>2, Goes DEF Follows
<1>4. CallHolds(c)' /\ LoadedFirst(c)'
  BY <1>3 DEF CallHolds, Updating, LoadedFirst
<1>5. CASE Registered
  <2>1. UNCHANGED <<plugin, stored>>
    BY <1>5 DEF Registers
  <2> QED BY <1>1, <1>2, <1>4, <2>1, Goes, UntouchedKeeps
<1>6. CASE ~ Registered
  <2> DEFINE entry == [state |-> "installed", version |-> doing[c].version]
  <2>1. Flushed(entry)
    BY <1>6 DEF Registers
  <2>2. entry \in Entries
    BY <1>1 DEF PluginInv, LoadedFirst, Entries, PluginStates
  <2>3. plugin'.state = "installed"
    BY <2>1 DEF Flushed
  <2>4. plugin.state # "active"
    BY <1>6 DEF Registered, NoPlugin
  <2>5. Agreeing(c) => Agreeing(c)'
    BY <1>1, <1>4, <2>3, <2>4 DEF Agreeing
  <2>6. unhooked' \subseteq {"failed", "configured", "restored"}
    BY <1>1 DEF PluginInv, PluginTypeOK
  <2> HIDE DEF entry
  <2> QED BY <1>1, <1>2, <1>4, <2>1, <2>2, <2>5, <2>6, Goes, FlushedKeeps
<1> QED BY <1>5, <1>6

LEMMA ReplaceKeeps ==
  ASSUME PluginInv, NEW c \in PluginCalls, ReplacesVersion(c), UNCHANGED <<restarts, mixed>>
  PROVE  PluginInv'
<1>1. CallsOrdered /\ doing[c].steps # << >> /\ NextStep(c) = "replace"
      /\ UNCHANGED <<running, unhooked>>
  BY AtStep DEF PluginInv, ReplacesVersion
<1>2. CASE ~ Registered
  <2>1. Throws(c) /\ UNCHANGED <<plugin, stored>>
    BY <1>2 DEF ReplacesVersion
  <2> QED BY <1>1, <2>1, ThrowsKeeps
<1>3. CASE Registered
  <2> DEFINE entry == [state |-> "installed", version |-> doing[c].version]
  <2>1. Flushed(entry) /\ Proceeds(c, "none") /\ "none" \in VersionsRead
    BY <1>3 DEF ReplacesVersion, VersionsRead
  <2>2. entry \in Entries
    BY <1>1 DEF PluginInv, LoadedFirst, Entries, PluginStates
  <2>3. plugin'.state = "installed"
    BY <2>1 DEF Flushed
  <2>4. NextStep(c)' \in {"none", "get"}
    BY <1>1, <2>1, Goes DEF Follows
  <2>5. Agreeing(c) => Agreeing(c)'
    BY <1>1, <2>3, <2>4 DEF Agreeing, CallHolds, Updating
  <2>6. unhooked' \subseteq {"failed", "configured", "restored"}
    BY <1>1 DEF PluginInv, PluginTypeOK
  <2>7. LoadedFirst(c)'
    BY <2>4 DEF LoadedFirst
  <2> HIDE DEF entry
  <2> QED BY <1>1, <2>1, <2>2, <2>5, <2>6, <2>7, Goes, FlushedKeeps
<1> QED BY <1>2, <1>3

LEMMA UnregisterKeeps ==
  ASSUME PluginInv, NEW c \in PluginCalls, Unregisters(c), UNCHANGED <<restarts, mixed>>
  PROVE  PluginInv'
<1>1. CallsOrdered /\ doing[c].steps # << >> /\ NextStep(c) = "unregister"
      /\ UNCHANGED <<stored, running, unhooked>> /\ plugin' = NoPlugin
      /\ Proceeds(c, "none") /\ "none" \in VersionsRead
  BY AtStep DEF PluginInv, Unregisters, VersionsRead
<1>2. NextStep(c)' = "none"
  BY <1>1, Goes DEF Follows
<1>3. CallHolds(c)' /\ LoadedFirst(c)'
  BY <1>2 DEF CallHolds, Updating, LoadedFirst
<1>4. plugin'.state = "none"
  BY <1>1 DEF NoPlugin
<1>5. Agreeing(c) => Agreeing(c)'
  BY <1>1, <1>3, <1>4 DEF Agreeing, CallHolds
<1>6. StoredAsListed'
  BY <1>1 DEF StoredAsListed, Registered
<1>7. /\ plugin' \in Entries \union {NoPlugin} /\ stored' \in Entries \union {NoPlugin}
      /\ running' \in Versions \union {"none"}
      /\ unhooked' \subseteq {"failed", "configured", "restored"}
  BY <1>1 DEF PluginInv, PluginTypeOK
<1> QED BY <1>1, <1>3, <1>5, <1>6, <1>7, Goes, StepKeeps

LEMMA ActivateHookKeeps ==
  ASSUME PluginInv, NEW c \in PluginCalls, ActivateHookRuns(c), UNCHANGED <<restarts, mixed>>
  PROVE  PluginInv'
<1>1. CallsOrdered /\ doing[c].steps # << >> /\ NextStep(c) = "onActivate"
      /\ UNCHANGED <<plugin, stored, unhooked>>
  BY AtStep DEF PluginInv, ActivateHookRuns
<1>2. CASE Throws(c) /\ UNCHANGED running
  BY <1>1, <1>2, ThrowsKeeps
<1>3. CASE Proceeds(c, doing[c].version) /\ running' = doing[c].version
  <2>1. doing[c].version \in VersionsRead
    BY <1>1 DEF CallsOrdered
  <2>2. NextStep(c)' = "active" /\ doing'[c].version = doing[c].version
    BY <1>1, <1>3, <2>1, Goes DEF Follows, LastSteps
  <2>3. LoadedFirst(c)'
    BY <2>2 DEF LoadedFirst
  <2>4. Agreeing(c) => Agreeing(c)'
    BY <1>1, <1>3, <2>2 DEF Agreeing, CallHolds, Updating, Registered
  <2>5. StoredAsListed'
    BY <1>1 DEF PluginInv, StoredAsListed, Registered
  <2>6. /\ plugin' \in Entries \union {NoPlugin} /\ stored' \in Entries \union {NoPlugin}
        /\ running' \in Versions \union {"none"}
        /\ unhooked' \subseteq {"failed", "configured", "restored"}
    BY <1>1, <1>3, <2>1 DEF PluginInv, PluginTypeOK, VersionsRead
  <2> QED BY <1>1, <1>3, <2>1, <2>3, <2>4, <2>5, <2>6, Goes, StepKeeps
<1> QED BY <1>2, <1>3 DEF ActivateHookRuns

LEMMA DeactivateHookKeeps ==
  ASSUME PluginInv, NEW c \in PluginCalls, DeactivateHookRuns(c), UNCHANGED <<restarts, mixed>>
  PROVE  PluginInv'
<1>1. CallsOrdered /\ doing[c].steps # << >> /\ NextStep(c) = "onDeactivate"
      /\ UNCHANGED <<plugin, stored>> /\ Proceeds(c, doing[c].version)
  BY AtStep DEF PluginInv, DeactivateHookRuns
<1>2. doing[c].version \in VersionsRead
  BY <1>1 DEF CallsOrdered
<1>3. NextStep(c)' = "inactive"
  BY <1>1, <1>2, Goes DEF Follows, LastSteps
<1>4. LoadedFirst(c)'
  BY <1>3 DEF LoadedFirst
<1>5. \/ running' = "none"
      \/ running' = running /\ unhooked' = unhooked /\ running = "none"
      \/ running' = running /\ "failed" \in unhooked'
  BY DEF DeactivateHookRuns
<1>6. Agreeing(c) => Agreeing(c)'
  BY <1>1, <1>3, <1>5 DEF Agreeing, CallHolds, Updating, Registered
<1>7. StoredAsListed'
  BY <1>1 DEF PluginInv, StoredAsListed, Registered
<1>8. /\ plugin' \in Entries \union {NoPlugin} /\ stored' \in Entries \union {NoPlugin}
      /\ running' \in Versions \union {"none"}
      /\ unhooked' \subseteq {"failed", "configured", "restored"}
  BY <1>1 DEF PluginInv, PluginTypeOK, DeactivateHookRuns
<1> QED BY <1>1, <1>2, <1>4, <1>6, <1>7, <1>8, Goes, StepKeeps

LEMMA SetStateKeeps ==
  ASSUME PluginInv, NEW c \in PluginCalls, SetsState(c), UNCHANGED <<restarts, mixed>>
  PROVE  PluginInv'
<1>1. PICK state \in {"active", "inactive"} :
        /\ At(c, state)
        /\ IF Registered
             THEN Proceeds(c, "none") /\ Flushed([plugin EXCEPT !.state = state])
             ELSE Throws(c) /\ UNCHANGED <<plugin, stored>>
        /\ unhooked' = IF Registered THEN unhooked \ {"restored"} ELSE unhooked
        /\ UNCHANGED running
  BY DEF SetsState
<1>2. CallsOrdered /\ doing[c].steps # << >> /\ NextStep(c) = state /\ state \in {"active", "inactive"}
  BY <1>1, AtStep DEF PluginInv
<1>3. unhooked' \subseteq {"failed", "configured", "restored"} /\ running' \in Versions \union {"none"}
  BY <1>1 DEF PluginInv, PluginTypeOK
<1>4. CASE ~ Registered
  <2>1. Throws(c) /\ UNCHANGED <<plugin, stored, running, unhooked>>
    BY <1>1, <1>4
  <2>2. NextStep(c)' = "none"
    BY <1>2, <2>1, Stops
  <2>3. CallHolds(c)' /\ LoadedFirst(c)'
    BY <2>2 DEF CallHolds, Updating, LoadedFirst
  <2>4. Agreeing(c) => Agreeing(c)'
    BY <1>2, <1>4, <2>1, <2>3 DEF Agreeing, CallHolds, Registered, NoPlugin
  <2>5. StoredAsListed'
    BY <2>1 DEF PluginInv, StoredAsListed, Registered
  <2>6. plugin' \in Entries \union {NoPlugin} /\ stored' \in Entries \union {NoPlugin}
    BY <2>1 DEF PluginInv, PluginTypeOK
  <2> QED BY <1>2, <1>3, <2>1, <2>3, <2>4, <2>5, <2>6, Stops, StepKeeps
<1>5. CASE Registered
  <2> DEFINE entry == [plugin EXCEPT !.state = state]
  <2>1. Flushed(entry) /\ Proceeds(c, "none") /\ "none" \in VersionsRead
    BY <1>1, <1>5 DEF VersionsRead
  <2>2. plugin \in Entries
    BY <1>5 DEF PluginInv, PluginTypeOK, Registered
  <2>3. entry \in Entries /\ entry.state = state /\ entry.version = plugin.version
    BY <1>2, <2>2 DEF Entries, PluginStates
  <2> HIDE DEF entry
  <2>4. plugin'.state = state /\ plugin'.version = plugin.version
    BY <2>1, <2>3 DEF Flushed
  <2>5. \/ NextStep(c)' = "none"
        \/ state = "inactive" /\ NextStep(c)' \in {"load", "unregister"}
    BY <1>2, <2>1, Goes DEF Follows
  <2>6. LoadedFirst(c)'
    BY <2>5 DEF LoadedFirst
  <2>7. CallHolds(c)'
    BY <2>4, <2>5 DEF CallHolds, Updating
  <2>8. Agreeing(c) => Agreeing(c)'
    BY <1>1, <1>2, <1>5, <2>4, <2>7 DEF Agreeing, CallHolds
  <2> QED BY <1>1, <1>2, <1>3, <2>1, <2>3, <2>6, <2>8, Goes, FlushedKeeps
<1> QED BY <1>4, <1>5

LEMMA ConfigureKeeps ==
  ASSUME PluginInv, ConfigurePlugin
  PROVE  PluginInv'
<1> DEFINE entry == [plugin EXCEPT !.state = "configured"]
<1>1. /\ Registered /\ plugin' = entry /\ stored' = entry
      /\ UNCHANGED <<running, doing, restarts>>
      /\ mixed' = (mixed \/ ~ Quiet)
      /\ unhooked' = IF plugin.state = "active" THEN unhooked \union {"configured"} ELSE unhooked
  BY DEF ConfigurePlugin, Flushed
<1>2. plugin \in Entries
  BY <1>1 DEF PluginInv, PluginTypeOK, Registered
<1>3. entry \in Entries /\ entry.state = "configured"
  BY <1>2 DEF Entries, PluginStates
<1> HIDE DEF entry
<1>4. PluginTypeOK' /\ StoredAsListed'
  BY <1>1, <1>3 DEF PluginInv, PluginTypeOK, StoredAsListed, Quiet
<1>5. CallsOrdered' /\ \A c \in PluginCalls : LoadedFirst(c)'
  BY <1>1 DEF PluginInv, CallsOrdered, LoadedFirst, NextStep
<1>6. ASSUME ~ mixed' PROVE InTurn'
  <2>1. InTurn /\ \A c \in PluginCalls : doing[c] = Resting
    BY <1>1, <1>6 DEF PluginInv, Quiet
  <2>2. Resting.steps = << >>
    BY DEF Resting
  <2>3. \A c \in PluginCalls : NextStep(c) = "none" /\ NextStep(c)' = "none"
    BY <1>1, <2>1, <2>2 DEF NextStep
  <2>4. \A c \in PluginCalls : CallHolds(c)'
    BY <2>3 DEF CallHolds, Updating
  <2>5. plugin'.state = "configured"
    BY <1>1, <1>3
  <2> QED BY <1>1, <2>1, <2>3, <2>4, <2>5 DEF InTurn
<1> QED BY <1>4, <1>5, <1>6 DEF PluginInv

LEMMA RestingIsOrdered ==
  Resting \in [steps : Seq(Steps), version : VersionsRead] /\ Resting.steps = << >> /\ Ordered(<< >>)
BY DEF Resting, VersionsRead, Ordered

LEMMA PluginRestartKeeps ==
  ASSUME PluginInv, PluginRestart
  PROVE  PluginInv'
<1>1. /\ plugin' = stored /\ stored' = stored /\ running' = "none" /\ mixed' = FALSE
      /\ doing' = [c \in PluginCalls |-> Resting]
      /\ unhooked' = IF stored.state = "active" THEN {"restored"} ELSE {}
      /\ restarts < MaxRestarts /\ restarts' = restarts + 1
  BY DEF PluginRestart
<1>2. Resting.version = "none"
  BY DEF Resting
<1>3. PluginTypeOK'
  <2>1. \A c \in PluginCalls : doing'[c].version = "none"
    BY <1>1, <1>2
  <2>2. restarts' \in 0 .. MaxRestarts
    BY <1>1, PluginParameters DEF PluginInv, PluginTypeOK
  <2> QED BY <1>1, <2>1, <2>2 DEF PluginInv, PluginTypeOK
<1>4. StoredAsListed'
  BY <1>1 DEF StoredAsListed
<1>5. CallsOrdered' /\ \A c \in PluginCalls : LoadedFirst(c)'
  BY <1>1, RestingIsOrdered DEF CallsOrdered, LoadedFirst, NextStep
<1>6. InTurn'
  <2>1. \A c \in PluginCalls : doing'[c] = Resting /\ NextStep(c)' = "none"
    BY <1>1, RestingIsOrdered DEF NextStep
  <2>2. \A c \in PluginCalls : CallHolds(c)'
    BY <2>1 DEF CallHolds, Updating
  <2> QED BY <1>1, <2>1, <2>2 DEF InTurn
<1> QED BY <1>3, <1>4, <1>5, <1>6 DEF PluginInv

LEMMA PluginStarts ==
  ASSUME PluginInit
  PROVE  PluginInv
<1>1. Resting.version = "none" /\ NoPlugin.state = "none"
  BY DEF Resting, NoPlugin
<1>2. PluginTypeOK
  <2>1. \A c \in PluginCalls : doing[c].version = "none"
    BY <1>1 DEF PluginInit
  <2>2. restarts \in 0 .. MaxRestarts
    BY PluginParameters DEF PluginInit
  <2> QED BY <2>1, <2>2 DEF PluginInit, PluginTypeOK
<1>3. StoredAsListed
  BY DEF PluginInit, StoredAsListed
<1>5. CallsOrdered /\ \A c \in PluginCalls : LoadedFirst(c)
  BY <1>1, RestingIsOrdered DEF PluginInit, CallsOrdered, LoadedFirst, NextStep
<1>6. InTurn
  <2>1. \A c \in PluginCalls : doing[c] = Resting /\ NextStep(c) = "none"
    BY <1>1, RestingIsOrdered DEF PluginInit, NextStep
  <2>2. \A c \in PluginCalls : CallHolds(c)
    BY <2>1 DEF CallHolds, Updating
  <2> QED BY <1>1, <2>1, <2>2 DEF PluginInit, InTurn
<1> QED BY <1>2, <1>3, <1>5, <1>6 DEF PluginInv

LEMMA CallsBegin ==
  ASSUME PluginInv, NEW c \in PluginCalls,
         InstallPlugin(c) \/ ActivatePlugin(c) \/ DeactivatePlugin(c) \/ UninstallPlugin(c) \/ UpdatePlugin(c)
  PROVE  PluginInv'
<1>1. CASE InstallPlugin(c)
  <2> DEFINE s == <<"load", "onInstall", "register">>
  <2>1. Ordered(s) /\ s # << >> /\ s[1] = "load" /\ s[2] = "onInstall" /\ Calls(c, s)
    BY <1>1, CallsAreOrdered DEF InstallPlugin
  <2> HIDE DEF s
  <2> QED BY <2>1, CallBegins
<1>2. CASE ActivatePlugin(c)
  <2> DEFINE s == <<"get", "onActivate", "active">>
  <2>1. Ordered(s) /\ s # << >> /\ s[1] = "get" /\ Calls(c, s)
    BY <1>2, CallsAreOrdered DEF ActivatePlugin
  <2> HIDE DEF s
  <2> QED BY <2>1, CallBegins
<1>3. CASE DeactivatePlugin(c)
  <2> DEFINE s == <<"get", "onDeactivate", "inactive">>
  <2>1. Ordered(s) /\ s # << >> /\ s[1] = "get" /\ Calls(c, s)
    BY <1>3, CallsAreOrdered DEF DeactivatePlugin
  <2> HIDE DEF s
  <2> QED BY <2>1, CallBegins
<1>4. CASE UninstallPlugin(c) /\ plugin.state = "active"
  <2> DEFINE s == <<"get", "onDeactivate", "inactive", "unregister">>
  <2>1. Ordered(s) /\ s # << >> /\ s[1] = "get" /\ Calls(c, s)
    BY <1>4, CallsAreOrdered DEF UninstallPlugin
  <2> HIDE DEF s
  <2> QED BY <2>1, CallBegins
<1>5. CASE UninstallPlugin(c) /\ plugin.state # "active"
  <2> DEFINE s == <<"unregister">>
  <2>1. Ordered(s) /\ s # << >> /\ s[1] = "unregister" /\ Calls(c, s)
    BY <1>5, CallsAreOrdered DEF UninstallPlugin
  <2> HIDE DEF s
  <2> QED BY <1>5, <2>1, CallBegins
<1>6. CASE UpdatePlugin(c) /\ plugin.state = "active"
  <2> DEFINE s == <<"get", "onDeactivate", "inactive", "load", "replace", "get", "onActivate", "active">>
  <2>1. Ordered(s) /\ s # << >> /\ s[1] = "get" /\ Calls(c, s)
    BY <1>6, UpdateIsOrdered DEF UpdatePlugin
  <2> HIDE DEF s
  <2> QED BY <2>1, CallBegins
<1>7. CASE UpdatePlugin(c) /\ plugin.state # "active"
  <2> DEFINE s == <<"load", "replace">>
  <2>1. Ordered(s) /\ s # << >> /\ s[1] = "load" /\ Calls(c, s)
    BY <1>7, CallsAreOrdered DEF UpdatePlugin
  <2> HIDE DEF s
  <2> QED BY <1>7, <2>1, CallBegins
<1> QED BY <1>1, <1>2, <1>3, <1>4, <1>5, <1>6, <1>7

(* For any calls, versions and restarts: the registry, the hooks of the    *)
(* plugin and the stored rows agree at rest, but for what the history      *)
(* names.                                                                  *)
THEOREM PluginsAreAccounted == PluginSpec => []PluginsAccounted
<1>1. PluginInit => PluginInv
  BY PluginStarts
<1>2. PluginInv /\ [PluginNext]_pluginVars => PluginInv'
  <2> SUFFICES ASSUME PluginInv, [PluginNext]_pluginVars PROVE PluginInv'
    OBVIOUS
  <2>1. ASSUME NEW c \in PluginCalls, PluginStep(c) PROVE PluginInv'
    <3>1. UNCHANGED <<restarts, mixed>>
      BY <2>1 DEF PluginStep
    <3> QED BY <2>1, <3>1, LoadKeeps, InstallHookKeeps, RegisterKeeps, GetKeeps, ActivateHookKeeps,
               DeactivateHookKeeps, SetStateKeeps, ReplaceKeeps, UnregisterKeeps DEF PluginStep
  <2>2. CASE UNCHANGED pluginVars
    BY <2>2 DEF pluginVars, PluginInv, PluginTypeOK, StoredAsListed, Registered, CallsOrdered, LoadedFirst,
                NextStep, InTurn, CallHolds, Updating
  <2> QED BY <2>1, <2>2, CallsBegin, ConfigureKeeps, PluginRestartKeeps DEF PluginNext
<1>3. PluginInv => PluginsAccounted
  <2> SUFFICES ASSUME PluginInv PROVE PluginsAccounted
    OBVIOUS
  <2>1. ASSUME Quiet, ~ mixed
        PROVE  InTurn /\ \A c \in PluginCalls : NextStep(c) = "none"
    <3>1. Resting.steps = << >>
      BY DEF Resting
    <3> QED BY <2>1, <3>1 DEF PluginInv, Quiet, NextStep
  <2>2. ActiveMeansActivated /\ SetUpOnlyWhileActive
    BY <2>1 DEF ActiveMeansActivated, SetUpOnlyWhileActive, InTurn
  <2> QED BY <2>2 DEF PluginsAccounted, PluginInv
<1> QED BY <1>1, <1>2, <1>3, PTL DEF PluginSpec
-----------------------------------------------------------------------------
(* The links of a scope: what a detachment has still to revoke, and whom a *)
(* query asks.                                                             *)

LinkRow == [remote : Remotes, direction : Directions, status : DOMAIN LegalTransitions]
LinkKeys == Remotes \X Directions
LinkUpdates == [key : LinkKeys, status : DOMAIN LegalTransitions, stale : BOOLEAN]

LinksTyped ==
  /\ LinkTypeOK
  /\ links \in Seq(LinkRow)
  /\ detaching \in [by : Writers \union {"none"}, at : {"idle", "links", "remote"},
                    todo : UNION {[S -> LinkKeys] : S \in SUBSET Nat}]
  /\ linking \in [Writers -> LinkUpdates \union {NotLinking}]

(* The row of key is bound. *)
StillBound(key) == \E i \in DOMAIN links : Key(links[i]) = key /\ Bound(links[i])

(* What an update has read of a row is still so, unless it is stale.       *)
ReadsHold ==
  \A p \in Writers :
    linking[p] # NotLinking /\ ~ linking[p].stale =>
      \E i \in DOMAIN links :
        Key(links[i]) = linking[p].key /\ linking[p].status \in LegalTransitions[links[i].status]

(* A detachment that found all links still has those to revoke that are    *)
(* bound, unless a stale update bound one of them again.                   *)
DetachHasAll ==
  detaching.at = "links" /\ ~ beyond /\ ~ crossedLinks =>
    \A key \in bound : StillBound(key) => \E i \in DOMAIN detaching.todo : detaching.todo[i] = key

(* Their rows are there: one that is removed is not asked for any more.    *)
BoundPresent == \A key \in bound : \E i \in DOMAIN links : Key(links[i]) = key

(* A query asks the remotes of all outbound links, unless they are too     *)
(* many to be listed.                                                      *)
AsksAll ==
  /\ query.at \in {"asking", "quorum"} =>
       /\ {query.asked, query.succeeded, query.linked} \subseteq Nat
       /\ query.asked = query.linked \/ query.linked > ListLimit
  /\ query.at = "quorum" => QuorumReached

TableInv == LinksTyped /\ ReadsHold /\ DetachHasAll /\ BoundPresent

LinkInv == TableInv /\ DetachedCompletely /\ AsksAll
-----------------------------------------------------------------------------
LEMMA Statuses == DOMAIN LegalTransitions = {"pending", "active", "revoked"}
BY DEF LegalTransitions

LEMMA Transitions ==
  ASSUME NEW s \in DOMAIN LegalTransitions, NEW t \in LegalTransitions[s]
  PROVE  s # "revoked" /\ t \in DOMAIN LegalTransitions
BY DEF LegalTransitions

LEMMA RowsTyped ==
  ASSUME LinksTyped, NEW i \in DOMAIN links
  PROVE  links[i] \in LinkRow /\ Key(links[i]) \in LinkKeys /\ links[i].status \in DOMAIN LegalTransitions
<1>1. links[i] \in LinkRow
  BY DEF LinksTyped
<1> QED BY <1>1 DEF LinkRow, LinkKeys, Key

(* The rows have different keys, so that a key has one row.                *)
LEMMA RowFound ==
  ASSUME LinkTypeOK, NEW i \in DOMAIN links
  PROVE  Has(Key(links[i])) /\ RowOf(Key(links[i])) = links[i]
<1>1. links[i] \in Rows
  BY DEF Rows
<1>2. ASSUME NEW row \in Rows, Key(row) = Key(links[i]) PROVE row = links[i]
  BY <1>2 DEF Rows, LinkTypeOK
<1> QED BY <1>1, <1>2 DEF Has, RowOf

LEMMA HasRow ==
  ASSUME NEW key
  PROVE  Has(key) <=> \E i \in DOMAIN links : Key(links[i]) = key
BY DEF Has, Rows

LEMMA BoundRow ==
  ASSUME LinkTypeOK, NEW key
  PROVE  Has(key) /\ Bound(RowOf(key)) <=> StillBound(key)
<1>1. ASSUME Has(key) PROVE Bound(RowOf(key)) <=> StillBound(key)
  <2>1. PICK i \in DOMAIN links : Key(links[i]) = key
    BY <1>1, HasRow
  <2>2. RowOf(key) = links[i]
    BY <2>1, RowFound
  <2>3. ASSUME NEW j \in DOMAIN links, Key(links[j]) = key PROVE j = i
    BY <2>1, <2>3 DEF LinkTypeOK
  <2> QED BY <2>1, <2>2, <2>3 DEF StillBound
<1> QED BY <1>1, HasRow DEF StillBound

(* What a write to the row of one key leaves.                              *)
LEMMA SettingSets ==
  ASSUME links \in Seq(LinkRow), NEW key, NEW status \in DOMAIN LegalTransitions, Setting(key, status)
  PROVE  /\ links' \in Seq(LinkRow) /\ DOMAIN links' = DOMAIN links
         /\ \A i \in DOMAIN links :
              /\ Key(links'[i]) = Key(links[i])
              /\ links'[i].status = IF Key(links[i]) = key THEN status ELSE links[i].status
              /\ Bound(links'[i]) <=> IF Key(links[i]) = key THEN status # "revoked" ELSE Bound(links[i])
<1>1. DOMAIN links = 1 .. Len(links) /\ Len(links) \in Nat /\ \A i \in DOMAIN links : links[i] \in LinkRow
  OBVIOUS
<1>2. links' = [i \in 1 .. Len(links) |->
                  IF Key(links[i]) = key THEN [links[i] EXCEPT !.status = status] ELSE links[i]]
  BY <1>1 DEF Setting
<1>3. ASSUME NEW i \in DOMAIN links
      PROVE  /\ links'[i] \in LinkRow /\ Key(links'[i]) = Key(links[i])
             /\ links'[i].status = IF Key(links[i]) = key THEN status ELSE links[i].status
  <2>1. links[i] \in LinkRow
    BY <1>1
  <2>2. links'[i] = IF Key(links[i]) = key THEN [links[i] EXCEPT !.status = status] ELSE links[i]
    BY <1>1, <1>2
  <2> QED BY <2>1, <2>2 DEF LinkRow, Key
<1>4. links' \in Seq(LinkRow) /\ DOMAIN links' = DOMAIN links
  BY <1>1, <1>2, <1>3
<1> QED BY <1>3, <1>4 DEF Bound

LEMMA OthersSet ==
  ASSUME LinksTyped, NEW key \in LinkKeys
  PROVE  /\ Others(key) \in [Writers -> LinkUpdates \union {NotLinking}]
         /\ \A p \in Writers :
              Others(key)[p] # NotLinking /\ ~ Others(key)[p].stale =>
                Others(key)[p] = linking[p] /\ linking[p].key # key
<1>1. <<"none", "none">> # key
  BY DEF LinkKeys, Directions
<1>2. ASSUME NEW p \in Writers
      PROVE  /\ Others(key)[p] \in LinkUpdates \union {NotLinking}
             /\ ~ Others(key)[p].stale => Others(key)[p] = linking[p] /\ linking[p].key # key
  <2>1. linking[p] \in LinkUpdates \union {NotLinking}
    BY DEF LinksTyped
  <2>2. Others(key)[p] = IF linking[p].key = key THEN [linking[p] EXCEPT !.stale = TRUE] ELSE linking[p]
    BY DEF Others
  <2>3. CASE linking[p].key = key
    <3>1. linking[p] \in LinkUpdates
      BY <1>1, <2>1, <2>3 DEF NotLinking
    <3> QED BY <2>2, <2>3, <3>1 DEF LinkUpdates
  <2> QED BY <2>1, <2>2, <2>3
<1> QED BY <1>2 DEF Others

(* A table with the keys of the last one has its type.                     *)
LEMMA TypedTable ==
  ASSUME LinkTypeOK, links' \in Seq(LinkRow), DOMAIN links' = DOMAIN links,
         \A i \in DOMAIN links : Key(links'[i]) = Key(links[i])
  PROVE  /\ \A row \in Rows' : row.remote \in Remotes /\ row.direction \in Directions
                               /\ row.status \in DOMAIN LegalTransitions
         /\ \A i, j \in DOMAIN links' : Key(links'[i]) = Key(links'[j]) => i = j
<1>1. \A row \in Rows' : row \in LinkRow
  BY ElementOfSeq, LenProperties DEF Rows
<1>2. \A i, j \in DOMAIN links' : Key(links'[i]) = Key(links'[j]) => i = j
  BY DEF LinkTypeOK
<1> QED BY <1>1, <1>2 DEF LinkRow

(* What is to be revoked, whichever of the rows are.                       *)
LEMMA TodoTyped ==
  ASSUME LinksTyped, NEW S \in SUBSET DOMAIN links
  PROVE  [i \in S |-> Key(links[i])] \in UNION {[T -> LinkKeys] : T \in SUBSET Nat}
<1>1. S \in SUBSET Nat
  BY LenProperties DEF LinksTyped
<1>2. [i \in S |-> Key(links[i])] \in [S -> LinkKeys]
  BY RowsTyped
<1> QED BY <1>1, <1>2

LEMMA NoTodo ==
  /\ DOMAIN << >> = {}
  /\ << >> \in UNION {[T -> LinkKeys] : T \in SUBSET Nat}
<1>1. << >> = [i \in {} |-> {}] /\ [i \in {} |-> {}] \in [{} -> LinkKeys]
  OBVIOUS
<1> QED BY <1>1
-----------------------------------------------------------------------------
(* The table, the updates and the detachment, for each step.               *)

LEMMA CreateKeeps ==
  ASSUME TableInv, CreateLink
  PROVE  TableInv'
<1>1. PICK remote \in Remotes, direction \in Directions, status \in {"pending", "active"} :
        /\ ~ Has(<<remote, direction>>)
        /\ links' = Append(links, [remote |-> remote, direction |-> direction, status |-> status])
  BY DEF CreateLink
<1> DEFINE row == [remote |-> remote, direction |-> direction, status |-> status]
<1>2. row \in LinkRow /\ Key(row) = <<remote, direction>>
  BY Statuses DEF LinkRow, Key
<1> HIDE DEF row
<1>3. links \in Seq(LinkRow)
  BY DEF TableInv, LinksTyped
<1>4. links' = Append(links, row)
  BY <1>1 DEF row
<1>5. /\ links' \in Seq(LinkRow) /\ Len(links) \in Nat
      /\ DOMAIN links = 1 .. Len(links) /\ DOMAIN links' = 1 .. Len(links) + 1
      /\ \A i \in 1 .. Len(links) : links'[i] = links[i]
      /\ links'[Len(links) + 1] = row
  BY <1>2, <1>3, <1>4, AppendProperties, LenProperties
<1>6. \A i \in 1 .. Len(links) : Key(links[i]) # Key(row)
  BY <1>1, <1>2, <1>5, HasRow
<1>7. LinksTyped'
  <2>1. \A r \in Rows' : r \in LinkRow
    BY <1>5 DEF Rows
  <2>2. \A i, j \in DOMAIN links' : Key(links'[i]) = Key(links'[j]) => i = j
    <3>1. ASSUME NEW i \in DOMAIN links', NEW j \in DOMAIN links', Key(links'[i]) = Key(links'[j]), i # j
          PROVE  FALSE
      <4>1. CASE i \in 1 .. Len(links) /\ j \in 1 .. Len(links)
        <5>1. Key(links[i]) = Key(links[j])
          BY <4>1, <1>5, <3>1
        <5> QED BY <5>1, <4>1, <1>5, <3>1 DEF TableInv, LinksTyped, LinkTypeOK
      <4>2. CASE i = Len(links) + 1 /\ j \in 1 .. Len(links)
        BY <4>2, <1>5, <1>6, <3>1
      <4>3. CASE j = Len(links) + 1 /\ i \in 1 .. Len(links)
        BY <4>3, <1>5, <1>6, <3>1
      <4> QED BY <4>1, <4>2, <4>3, <1>5, <3>1
    <3> QED BY <3>1
  <2>3. made' \in 0 .. MaxLinks
    BY LinkParameters DEF CreateLink, TableInv, LinksTyped, LinkTypeOK
  <2>4. UNCHANGED <<linking, detaching, query>>
    BY DEF CreateLink
  <2> QED BY <1>5, <2>1, <2>2, <2>3, <2>4 DEF TableInv, LinksTyped, LinkTypeOK, LinkRow
<1>8. ReadsHold'
  <2>1. ASSUME NEW p \in Writers, linking'[p] # NotLinking, ~ linking'[p].stale
        PROVE  \E i \in DOMAIN links' :
                 Key(links'[i]) = linking'[p].key /\ linking'[p].status \in LegalTransitions[links'[i].status]
    <3>1. linking' = linking
      BY DEF CreateLink
    <3>2. PICK i \in DOMAIN links :
            Key(links[i]) = linking[p].key /\ linking[p].status \in LegalTransitions[links[i].status]
      BY <2>1, <3>1 DEF TableInv, ReadsHold
    <3> QED BY <3>1, <3>2, <1>5
  <2> QED BY <2>1 DEF ReadsHold
<1>9. DetachHasAll'
  <2> SUFFICES ASSUME detaching.at = "links", ~ beyond, ~ crossedLinks, NEW key \in bound, StillBound(key)'
               PROVE  \E i \in DOMAIN detaching.todo : detaching.todo[i] = key
    BY DEF DetachHasAll, CreateLink
  <2>1. CASE StillBound(key)
    BY <2>1 DEF TableInv, DetachHasAll
  <2>2. CASE ~ StillBound(key)
    <3>1. PICK i \in DOMAIN links : Key(links[i]) = key
      BY DEF TableInv, BoundPresent
    <3>2. key # Key(row)
      BY <3>1, <1>5, <1>6
    <3> QED BY <2>2, <3>2, <1>5 DEF StillBound
  <2> QED BY <2>1, <2>2
<1>10. BoundPresent'
  BY <1>5 DEF TableInv, BoundPresent, CreateLink
<1> QED BY <1>7, <1>8, <1>9, <1>10 DEF TableInv

(* Without row i the others are as they were.                              *)
LEMMA RemoveKeeps ==
  ASSUME TableInv, RemoveLink
  PROVE  TableInv'
<1>1. PICK r \in DOMAIN links :
        /\ links' = SubSeq(links, 1, r - 1) \o SubSeq(links, r + 1, Len(links))
        /\ linking' = Others(Key(links[r]))
        /\ bound' = bound \ {Key(links[r])}
  BY DEF RemoveLink
<1> DEFINE key == Key(links[r])
<1>2. links \in Seq(LinkRow) /\ Len(links) \in Nat /\ DOMAIN links = 1 .. Len(links) /\ r \in 1 .. Len(links)
  BY LenProperties DEF TableInv, LinksTyped
<1>0. key \in LinkKeys
  BY RowsTyped DEF TableInv
<1>3. /\ SubSeq(links, 1, r - 1) \in Seq(LinkRow) /\ Len(SubSeq(links, 1, r - 1)) = r - 1
      /\ \A i \in 1 .. r - 1 : SubSeq(links, 1, r - 1)[i] = links[i]
  BY <1>2, SubSeqProperties, ElementOfSeq
<1>4. /\ SubSeq(links, r + 1, Len(links)) \in Seq(LinkRow)
      /\ Len(SubSeq(links, r + 1, Len(links))) = Len(links) - r
      /\ \A i \in 1 .. Len(links) - r : SubSeq(links, r + 1, Len(links))[i] = links[r + i]
  <2>1. \A i \in r + 1 .. Len(links) : links[i] \in LinkRow
    BY <1>2, ElementOfSeq
  <2>2. Len(links) - (r + 1) + 1 = Len(links) - r /\ \A i \in 1 .. Len(links) - r : r + 1 + i - 1 = r + i
    BY <1>2
  <2> QED BY <1>2, <2>1, <2>2, SubSeqProperties
<1>5. /\ links' \in Seq(LinkRow) /\ DOMAIN links' = 1 .. Len(links) - 1
      /\ \A i \in 1 .. Len(links) - 1 : links'[i] = IF i < r THEN links[i] ELSE links[i + 1]
  <2> DEFINE front == SubSeq(links, 1, r - 1)
             back == SubSeq(links, r + 1, Len(links))
  <2>1. front \in Seq(LinkRow) /\ back \in Seq(LinkRow) /\ links' = front \o back
    BY <1>1, <1>3, <1>4
  <2>2. Len(front) = r - 1 /\ Len(back) = Len(links) - r
    BY <1>3, <1>4
  <2> HIDE DEF front, back
  <2>3. /\ links' \in Seq(LinkRow) /\ Len(links') = Len(front) + Len(back)
        /\ \A i \in 1 .. Len(front) + Len(back) :
             links'[i] = IF i <= Len(front) THEN front[i] ELSE back[i - Len(front)]
    BY <2>1, ConcatProperties
  <2>4. DOMAIN links' = 1 .. Len(links) - 1
    BY <2>2, <2>3, <1>2, LenProperties
  <2>5. ASSUME NEW i \in 1 .. Len(links) - 1 PROVE links'[i] = IF i < r THEN links[i] ELSE links[i + 1]
    <3>1. CASE i < r
      <4>1. i \in 1 .. r - 1 /\ i \in 1 .. Len(front) + Len(back) /\ i <= Len(front)
        BY <3>1, <2>2, <1>2
      <4>2. links'[i] = front[i]
        BY <2>3, <4>1
      <4>3. front[i] = links[i]
        BY <1>3, <4>1 DEF front
      <4> QED BY <3>1, <4>2, <4>3
    <3>2. CASE i >= r
      <4>3. i \in 1 .. Len(front) + Len(back) /\ ~ (i <= Len(front)) /\ i - Len(front) = i - (r - 1)
        BY ONLY <3>2, <2>2, <1>2, i \in 1 .. Len(links) - 1
      <4>4. links'[i] = back[i - Len(front)]
        BY ONLY <2>3, <4>3
      <4>5. i - (r - 1) \in 1 .. Len(links) - r
        BY ONLY <3>2, <1>2, i \in 1 .. Len(links) - 1
      <4>1. links'[i] = back[i - (r - 1)] /\ i - (r - 1) \in 1 .. Len(links) - r
        BY ONLY <4>3, <4>4, <4>5
      <4>2. r + (i - (r - 1)) = i + 1
        BY ONLY <1>2, i \in 1 .. Len(links) - 1
      <4>6. back[i - (r - 1)] = links[r + (i - (r - 1))]
        BY <4>1, <1>4 DEF back
      <4>7. ~ (i < r)
        BY ONLY <3>2, <1>2, i \in 1 .. Len(links) - 1
      <4> QED BY <4>1, <4>2, <4>6, <4>7
    <3> QED BY <3>1, <3>2, <1>2
  <2> QED BY <2>3, <2>4, <2>5
<1>6. ASSUME NEW i \in DOMAIN links'
      PROVE  \E k \in DOMAIN links : k # r /\ links'[i] = links[k] /\ k = (IF i < r THEN i ELSE i + 1)
  BY <1>2, <1>5
<1>7. ASSUME NEW k \in DOMAIN links, k # r
      PROVE  \E i \in DOMAIN links' : links'[i] = links[k]
  <2>1. CASE k < r
    BY <2>1, <1>2, <1>5
  <2>2. CASE k > r
    <3>1. k - 1 \in 1 .. Len(links) - 1 /\ ~ (k - 1 < r) /\ k - 1 + 1 = k
      BY <2>2, <1>2
    <3> QED BY <3>1, <1>5
  <2> QED BY <2>1, <2>2, <1>2, <1>7
<1>8. \A k \in DOMAIN links : k # r => Key(links[k]) # key
  BY DEF TableInv, LinksTyped, LinkTypeOK
<1>9. LinksTyped'
  <2>1. \A row \in Rows' : row \in LinkRow
    BY <1>2, <1>6, ElementOfSeq DEF Rows
  <2>2. ASSUME NEW i \in DOMAIN links', NEW j \in DOMAIN links', Key(links'[i]) = Key(links'[j])
        PROVE  i = j
    <3>1. PICK k \in DOMAIN links : links'[i] = links[k] /\ k = (IF i < r THEN i ELSE i + 1)
      BY <1>6
    <3>2. PICK l \in DOMAIN links : links'[j] = links[l] /\ l = (IF j < r THEN j ELSE j + 1)
      BY <1>6
    <3>3. k = l
      BY <2>2, <3>1, <3>2 DEF TableInv, LinksTyped, LinkTypeOK
    <3> QED BY <3>1, <3>2, <3>3, <1>2, <1>5
  <2>3. UNCHANGED <<made, detaching, query>>
    BY DEF RemoveLink
  <2>4. linking' \in [Writers -> LinkUpdates \union {NotLinking}]
    BY <1>1, <1>0, OthersSet DEF TableInv
  <2> QED BY <1>5, <2>1, <2>2, <2>3, <2>4 DEF TableInv, LinksTyped, LinkTypeOK, LinkRow
<1>10. ReadsHold'
  <2>1. ASSUME NEW p \in Writers, linking'[p] # NotLinking, ~ linking'[p].stale
        PROVE  \E i \in DOMAIN links' :
                 Key(links'[i]) = linking'[p].key /\ linking'[p].status \in LegalTransitions[links'[i].status]
    <3>1. linking[p].key # key /\ linking'[p] = linking[p]
      BY <1>1, <1>0, <2>1, OthersSet DEF TableInv
    <3>2. PICK k \in DOMAIN links :
            Key(links[k]) = linking[p].key /\ linking[p].status \in LegalTransitions[links[k].status]
      BY <2>1, <3>1 DEF TableInv, ReadsHold
    <3> QED BY <3>1, <3>2, <1>7
  <2> QED BY <2>1 DEF ReadsHold
<1>11. DetachHasAll'
  <2>1. ASSUME detaching.at = "links", ~ beyond, ~ crossedLinks, NEW k \in bound', StillBound(k)'
        PROVE  \E i \in DOMAIN detaching.todo : detaching.todo[i] = k
    <3>1. k \in bound /\ StillBound(k)
      BY <1>1, <1>6, <2>1 DEF StillBound
    <3> QED BY <2>1, <3>1 DEF TableInv, DetachHasAll
  <2> QED BY <2>1 DEF DetachHasAll, RemoveLink
<1>12. BoundPresent'
  BY <1>1, <1>7 DEF TableInv, BoundPresent
<1> QED BY <1>9, <1>10, <1>11, <1>12 DEF TableInv

LEMMA ReadsKeep ==
  ASSUME TableInv, NEW p \in Writers, UpdateReads(p)
  PROVE  TableInv'
<1>0. PICK row \in Rows : \E status \in LegalTransitions[row.status] :
        linking' = [linking EXCEPT ![p] = [key |-> Key(row), status |-> status, stale |-> FALSE]]
  BY DEF UpdateReads
<1>1. PICK status \in LegalTransitions[row.status] :
        linking' = [linking EXCEPT ![p] = [key |-> Key(row), status |-> status, stale |-> FALSE]]
  BY <1>0
<1>2. PICK i \in DOMAIN links : links[i] = row
  BY DEF Rows
<1>3. row \in LinkRow /\ Key(row) \in LinkKeys /\ status \in DOMAIN LegalTransitions
  <2>1. row \in LinkRow
    BY <1>2, ElementOfSeq, LenProperties DEF TableInv, LinksTyped
  <2> QED BY <2>1, Transitions DEF LinkRow, LinkKeys, Key
<1>4. UNCHANGED <<links, made, detaching, query, crossedLinks, bound, beyond>>
  BY DEF UpdateReads
<1>5. LinksTyped'
  <2>1. [key |-> Key(row), status |-> status, stale |-> FALSE] \in LinkUpdates
    BY <1>3 DEF LinkUpdates
  <2> QED BY <1>1, <1>4, <2>1 DEF TableInv, LinksTyped, LinkTypeOK, Rows
<1>6. ReadsHold'
  <2>1. ASSUME NEW q \in Writers, linking'[q] # NotLinking, ~ linking'[q].stale
        PROVE  \E j \in DOMAIN links :
                 Key(links[j]) = linking'[q].key /\ linking'[q].status \in LegalTransitions[links[j].status]
    <3>1. CASE q = p
      BY <3>1, <1>1, <1>2 DEF TableInv, LinksTyped
    <3>2. CASE q # p
      BY <3>2, <2>1, <1>1 DEF TableInv, ReadsHold, LinksTyped
    <3> QED BY <3>1, <3>2
  <2> QED BY <2>1, <1>4 DEF ReadsHold
<1> QED BY <1>4, <1>5, <1>6 DEF TableInv, DetachHasAll, BoundPresent, StillBound

(* The write of a key, from a row that is still as it was read unless the  *)
(* update is stale.                                                        *)
LEMMA WritesKeep ==
  ASSUME TableInv, NEW p \in Writers, UpdateWrites(p)
  PROVE  TableInv'
<1> DEFINE key == linking[p].key
           status == linking[p].status
<1>1. linking[p] \in LinkUpdates
  BY DEF UpdateWrites, TableInv, LinksTyped
<1>2. key \in LinkKeys /\ status \in DOMAIN LegalTransitions
  BY <1>1 DEF LinkUpdates
<1>3. /\ Setting(key, status) /\ crossedLinks' = (crossedLinks \/ linking[p].stale)
      /\ linking' = [Others(key) EXCEPT ![p] = NotLinking]
      /\ UNCHANGED <<made, detaching, query, bound, beyond>>
  BY DEF UpdateWrites
<1> HIDE DEF key, status
<1>4. /\ links' \in Seq(LinkRow) /\ DOMAIN links' = DOMAIN links
      /\ \A i \in DOMAIN links :
           /\ Key(links'[i]) = Key(links[i])
           /\ links'[i].status = IF Key(links[i]) = key THEN status ELSE links[i].status
           /\ Bound(links'[i]) <=> IF Key(links[i]) = key THEN status # "revoked" ELSE Bound(links[i])
  BY <1>2, <1>3, SettingSets DEF TableInv, LinksTyped
<1>5. Others(key) \in [Writers -> LinkUpdates \union {NotLinking}]
  BY <1>2, OthersSet DEF TableInv
<1>6. LinksTyped'
  BY <1>3, <1>4, <1>5, TypedTable DEF TableInv, LinksTyped, LinkTypeOK
<1>7. ReadsHold'
  <2>1. ASSUME NEW q \in Writers, linking'[q] # NotLinking, ~ linking'[q].stale
        PROVE  \E i \in DOMAIN links' :
                 Key(links'[i]) = linking'[q].key /\ linking'[q].status \in LegalTransitions[links'[i].status]
    <3>1. linking'[q] = Others(key)[q]
      BY <1>3, <1>5, <2>1
    <3>2. linking'[q] = linking[q] /\ linking[q].key # key
      BY <1>2, <2>1, <3>1, OthersSet DEF TableInv
    <3>3. PICK i \in DOMAIN links :
            Key(links[i]) = linking[q].key /\ linking[q].status \in LegalTransitions[links[i].status]
      BY <2>1, <3>2 DEF TableInv, ReadsHold
    <3> QED BY <3>2, <3>3, <1>4
  <2> QED BY <2>1 DEF ReadsHold
<1>8. DetachHasAll'
  <2>1. ASSUME detaching.at = "links", ~ beyond, ~ crossedLinks, ~ linking[p].stale,
               NEW k \in bound, StillBound(k)'
        PROVE  \E i \in DOMAIN detaching.todo : detaching.todo[i] = k
    <3>1. PICK i \in DOMAIN links : Key(links[i]) = k /\ Bound(links'[i])
      BY <1>4, <2>1 DEF StillBound
    <3>2. CASE k = key
      <4>1. linking[p] # NotLinking
        BY DEF UpdateWrites
      <4>2. PICK j \in DOMAIN links : Key(links[j]) = key /\ status \in LegalTransitions[links[j].status]
        BY <2>1, <4>1 DEF TableInv, ReadsHold, key, status
      <4>3. links[j].status \in DOMAIN LegalTransitions
        BY RowsTyped DEF TableInv
      <4>4. StillBound(k)
        BY <3>2, <4>2, <4>3, Transitions DEF StillBound, Bound
      <4> QED BY <2>1, <4>4 DEF TableInv, DetachHasAll
    <3>3. CASE k # key
      <4>1. StillBound(k)
        BY <3>1, <3>3, <1>4 DEF StillBound
      <4> QED BY <2>1, <4>1 DEF TableInv, DetachHasAll
    <3> QED BY <3>2, <3>3
  <2> QED BY <2>1, <1>3 DEF DetachHasAll
<1>9. BoundPresent'
  BY <1>3, <1>4 DEF TableInv, BoundPresent
<1> QED BY <1>6, <1>7, <1>8, <1>9 DEF TableInv

LEMMA DetachBeginKeeps ==
  ASSUME TableInv, NEW p \in Writers, DetachBegins(p)
  PROVE  TableInv'
<1> DEFINE found == {j \in Listed : Bound(links[j])}
<1>1. /\ detaching' = [by |-> p, at |-> "links", todo |-> [i \in found |-> Key(links[i])]]
      /\ bound' = {Key(row) : row \in {r \in Rows : r.status # "revoked"}}
      /\ beyond' = (Len(links) > ListLimit)
      /\ UNCHANGED <<links, made, linking, query, crossedLinks>>
  BY DEF DetachBegins
<1>2. Len(links) \in Nat /\ DOMAIN links = 1 .. Len(links) /\ ListLimit \in Nat
  BY LenProperties, LinkParameters DEF TableInv, LinksTyped
<1>3. found \in SUBSET DOMAIN links
  BY DEF Listed
<1>4. LinksTyped'
  BY <1>1, <1>3, TodoTyped DEF TableInv, LinksTyped, LinkTypeOK, Rows
<1>5. ReadsHold'
  BY <1>1 DEF TableInv, ReadsHold
<1>6. DetachHasAll'
  <2>1. ASSUME ~ beyond', NEW key \in bound', StillBound(key)'
        PROVE  \E i \in DOMAIN detaching'.todo : detaching'.todo[i] = key
    <3>1. ~ (Len(links) > ListLimit)
      BY <1>1, <2>1
    <3>2. PICK i \in DOMAIN links : Key(links[i]) = key /\ Bound(links[i])
      BY <1>1, <2>1 DEF StillBound
    <3>3. i <= ListLimit
      BY <1>2, <3>1, <3>2
    <3>4. i \in found
      BY <3>2, <3>3 DEF Listed
    <3> QED BY <1>1, <3>2, <3>4
  <2> QED BY <2>1 DEF DetachHasAll
<1>7. BoundPresent'
  BY <1>1 DEF BoundPresent, Rows
<1> QED BY <1>4, <1>5, <1>6, <1>7 DEF TableInv

LEMMA UnlinkBeginKeeps ==
  ASSUME TableInv, NEW p \in Writers, UnlinkBegins(p)
  PROVE  TableInv'
<1>1. PICK unlinked \in SUBSET DOMAIN links :
        detaching' = [by |-> p, at |-> "remote", todo |-> [i \in unlinked |-> Key(links[i])]]
  BY DEF UnlinkBegins, Listed
<1>2. UNCHANGED <<links, made, linking, query, crossedLinks, bound, beyond>>
  BY DEF UnlinkBegins
<1>3. LinksTyped'
  BY <1>1, <1>2, TodoTyped DEF TableInv, LinksTyped, LinkTypeOK, Rows
<1> QED BY <1>1, <1>2, <1>3 DEF TableInv, ReadsHold, DetachHasAll, BoundPresent

(* The least one to revoke is revoked, or the detachment stops.            *)
LEMMA RevokeKeeps ==
  ASSUME TableInv, DetachRevokes
  PROVE  TableInv'
<1>1. PICK r \in DOMAIN detaching.todo :
           LET key == detaching.todo[r]
           IN  IF Has(key) /\ Bound(RowOf(key))
                 THEN /\ Setting(key, "revoked")
                      /\ linking' = Others(key)
                      /\ detaching' = [detaching EXCEPT !.todo = [j \in DOMAIN @ \ {r} |-> @[j]]]
                 ELSE detaching' = NotDetaching /\ UNCHANGED <<links, linking>>
  BY DEF DetachRevokes
<1> DEFINE key == detaching.todo[r]
<1>2. UNCHANGED <<made, query, crossedLinks, bound, beyond>>
  BY DEF DetachRevokes
<1>3. CASE ~ (Has(key) /\ Bound(RowOf(key)))
  <2>1. detaching' = NotDetaching /\ UNCHANGED <<links, linking>>
    BY <1>1, <1>3
  <2>2. detaching' = [by |-> "none", at |-> "idle", todo |-> << >>]
    BY <2>1 DEF NotDetaching
  <2>3. LinksTyped'
    <3>1. detaching' \in [by : Writers \union {"none"}, at : {"idle", "links", "remote"},
                          todo : UNION {[T -> LinkKeys] : T \in SUBSET Nat}]
      BY <2>2, NoTodo
    <3>2. UNCHANGED <<links, made, linking, query>>
      BY <1>2, <2>1
    <3>3. detaching'.at = "idle"
      BY <2>2
    <3> QED BY <3>1, <3>2, <3>3 DEF TableInv, LinksTyped, LinkTypeOK, Rows
  <2> QED BY <1>2, <2>1, <2>2, <2>3 DEF TableInv, ReadsHold, DetachHasAll, BoundPresent
<1>4. CASE Has(key) /\ Bound(RowOf(key))
  <2>1. /\ Setting(key, "revoked") /\ linking' = Others(key)
        /\ detaching' = [detaching EXCEPT !.todo = [j \in DOMAIN @ \ {r} |-> @[j]]]
    BY <1>1, <1>4
  <2> DEFINE todo == detaching.todo
             rest == [j \in DOMAIN todo \ {r} |-> todo[j]]
  <2>2. PICK S \in SUBSET Nat : todo \in [S -> LinkKeys]
    BY DEF TableInv, LinksTyped
  <2>3. key \in LinkKeys
    BY <2>2
  <2> HIDE DEF key
  <2>4. /\ links' \in Seq(LinkRow) /\ DOMAIN links' = DOMAIN links
        /\ \A i \in DOMAIN links :
             /\ Key(links'[i]) = Key(links[i])
             /\ Bound(links'[i]) <=> IF Key(links[i]) = key THEN FALSE ELSE Bound(links[i])
             /\ links'[i].status = IF Key(links[i]) = key THEN "revoked" ELSE links[i].status
    BY <2>1, SettingSets, Statuses DEF TableInv, LinksTyped
  <2>5. DOMAIN rest = DOMAIN todo \ {r} /\ rest \in UNION {[T -> LinkKeys] : T \in SUBSET Nat}
    <3>1. S \ {r} \in SUBSET Nat /\ rest \in [S \ {r} -> LinkKeys]
      BY <2>2
    <3> QED BY <3>1
  <2>6. detaching = [by |-> detaching.by, at |-> detaching.at, todo |-> todo]
    BY DEF TableInv, LinksTyped
  <2>7. detaching' = [by |-> detaching.by, at |-> detaching.at, todo |-> rest]
    BY <2>1, <2>6
  <2>8. LinksTyped'
    <3>1. linking' \in [Writers -> LinkUpdates \union {NotLinking}]
      BY <2>1, <2>3, OthersSet DEF TableInv
    <3>2. detaching' \in [by : Writers \union {"none"}, at : {"idle", "links", "remote"},
                          todo : UNION {[T -> LinkKeys] : T \in SUBSET Nat}]
      BY <2>5, <2>7 DEF TableInv, LinksTyped
    <3> QED BY <1>2, <2>4, <2>7, <3>1, <3>2, TypedTable DEF TableInv, LinksTyped, LinkTypeOK
  <2>9. ReadsHold'
    <3>1. ASSUME NEW q \in Writers, linking'[q] # NotLinking, ~ linking'[q].stale
          PROVE  \E i \in DOMAIN links' :
                   Key(links'[i]) = linking'[q].key /\ linking'[q].status \in LegalTransitions[links'[i].status]
      <4>1. linking'[q] = linking[q] /\ linking[q].key # key
        BY <2>1, <2>3, <3>1, OthersSet DEF TableInv
      <4>2. PICK i \in DOMAIN links :
              Key(links[i]) = linking[q].key /\ linking[q].status \in LegalTransitions[links[i].status]
        BY <3>1, <4>1 DEF TableInv, ReadsHold
      <4> QED BY <4>1, <4>2, <2>4
    <3> QED BY <3>1 DEF ReadsHold
  <2>10. DetachHasAll'
    <3>1. ASSUME detaching.at = "links", ~ beyond, ~ crossedLinks, NEW k \in bound, StillBound(k)'
          PROVE  \E i \in DOMAIN detaching'.todo : detaching'.todo[i] = k
      <4>1. k # key /\ StillBound(k)
        BY <2>4, <3>1 DEF StillBound
      <4>2. PICK j \in DOMAIN todo : todo[j] = k
        BY <3>1, <4>1 DEF TableInv, DetachHasAll
      <4>3. j # r
        BY <4>1, <4>2 DEF key
      <4> QED BY <2>5, <2>7, <4>2, <4>3
    <3> QED BY <1>2, <2>7, <3>1 DEF DetachHasAll
  <2>11. BoundPresent'
    BY <1>2, <2>4 DEF TableInv, BoundPresent
  <2> QED BY <2>8, <2>9, <2>10, <2>11 DEF TableInv
<1> QED BY <1>3, <1>4

LEMMA TableStays ==
  ASSUME TableInv, UNCHANGED <<links, made, linking, crossedLinks, bound, beyond>>,
         query'.at \in {"idle", "hooks", "asking", "quorum", "done"},
         detaching' = detaching \/ detaching' = NotDetaching
  PROVE  TableInv'
<1>1. CASE detaching' = detaching
  BY <1>1 DEF TableInv, LinksTyped, LinkTypeOK, Rows, ReadsHold, DetachHasAll, BoundPresent,
              StillBound
<1>2. CASE detaching' = NotDetaching
  <2>1. detaching' = [by |-> "none", at |-> "idle", todo |-> << >>]
    BY <1>2 DEF NotDetaching
  <2>2. LinksTyped'
    BY <2>1, NoTodo DEF TableInv, LinksTyped, LinkTypeOK, Rows
  <2> QED BY <2>1, <2>2 DEF TableInv, ReadsHold, DetachHasAll, BoundPresent
<1> QED BY <1>1, <1>2

(* The links a completed detachment left are none, unless there were too   *)
(* many or one was bound again by a stale update.                          *)
LEMMA EndKeeps ==
  ASSUME TableInv, DetachEnds
  PROVE  DetachedCompletely'
<1>1. /\ detaching.at = "links" /\ DOMAIN detaching.todo = {}
      /\ escaped' = {key \in bound : Has(key) /\ RowOf(key).status # "revoked"}
      /\ UNCHANGED <<crossedLinks, beyond>>
  BY DEF DetachEnds
<1>2. ASSUME NEW key \in escaped', ~ beyond, ~ crossedLinks PROVE FALSE
  <2>1. key \in bound /\ Has(key) /\ Bound(RowOf(key))
    BY <1>1, <1>2 DEF Bound
  <2>2. StillBound(key)
    BY <2>1, BoundRow DEF TableInv, LinksTyped
  <2> QED BY <1>1, <1>2, <2>1, <2>2 DEF TableInv, DetachHasAll
<1> QED BY <1>1, <1>2 DEF DetachedCompletely
-----------------------------------------------------------------------------
(* The remotes that a query asks are as many as the outbound links that    *)
(* are listed: a remote has one.                                           *)

LEMMA RemotesListed ==
  ASSUME LinksTyped
  PROVE  /\ Cardinality({links[i].remote : i \in OutboundListed}) \in Nat
         /\ Cardinality(OutboundIn(Len(links))) \in Nat
         /\ \/ Cardinality({links[i].remote : i \in OutboundListed}) = Cardinality(OutboundIn(Len(links)))
            \/ Cardinality(OutboundIn(Len(links))) > ListLimit
<1> DEFINE all == OutboundIn(Len(links))
           some == OutboundListed
           T == {links[i].remote : i \in some}
           f == [i \in some |-> links[i].remote]
<1>1. Len(links) \in Nat /\ DOMAIN links = 1 .. Len(links) /\ ListLimit \in Nat
  BY LenProperties, LinkParameters DEF LinksTyped
<1>2. IsFiniteSet(1 .. Len(links))
  BY <1>1, FS_Interval
<1>3. all \subseteq 1 .. Len(links)
  BY DEF OutboundIn
<1>4. IsFiniteSet(all) /\ Cardinality(all) \in Nat
  BY <1>2, <1>3, FS_Subset, FS_CardinalityType
<1>5. some \subseteq all
  BY DEF OutboundListed
<1>6. IsFiniteSet(some) /\ Cardinality(some) \in Nat
  BY <1>4, <1>5, FS_Subset, FS_CardinalityType
<1> HIDE DEF some, all
<1>7. f \in Surjection(some, T)
  BY DEF Surjection
<1>8. f \in Injection(some, T)
  <2>1. ASSUME NEW i \in some, NEW j \in some, f[i] = f[j] PROVE i = j
    <3>1. i \in DOMAIN links /\ j \in DOMAIN links /\ Outbound(links[i]) /\ Outbound(links[j])
      BY <1>1, <1>3, <1>5 DEF all, OutboundIn
    <3>2. links[i].remote = links[j].remote
      BY <2>1
    <3>3. Key(links[i]) = Key(links[j])
      BY <3>1, <3>2 DEF Outbound, Key
    <3> QED BY <3>1, <3>3 DEF LinksTyped, LinkTypeOK
  <2>2. f \in [some -> T]
    OBVIOUS
  <2> HIDE DEF f, T
  <2> QED BY <2>1, <2>2 DEF Injection, IsInjective
<1>9. IsFiniteSet(T) /\ Cardinality(T) = Cardinality(some)
  <2> HIDE DEF f, T
  <2> QED BY <1>6, <1>7, <1>8, FS_Surjection
<1>10. ASSUME Cardinality(all) <= ListLimit PROVE some = all
  <2>1. ASSUME NEW i \in all PROVE i \in some
    <3>1. OutboundIn(i) \subseteq all
      BY <1>1, <1>3 DEF OutboundIn, all
    <3>2. IsFiniteSet(OutboundIn(i)) /\ Cardinality(OutboundIn(i)) <= Cardinality(all)
      BY <1>4, <3>1, FS_Subset
    <3>3. Cardinality(OutboundIn(i)) \in Nat
      BY <3>2, FS_CardinalityType
    <3>4. Cardinality(OutboundIn(i)) <= ListLimit
      BY <1>1, <1>4, <1>10, <3>2, <3>3
    <3> QED BY <3>4 DEF some, all, OutboundListed
  <2> QED BY <2>1, <1>5
<1>11. Cardinality(T) = Cardinality(all) \/ Cardinality(all) > ListLimit
  BY <1>1, <1>4, <1>9, <1>10
<1> QED BY <1>4, <1>6, <1>9, <1>11 DEF some, all

LEMMA HalfRounded == \A n \in Nat : (n + 1) \div 2 \in Nat /\ 2 * ((n + 1) \div 2) >= n
OBVIOUS

LEMMA QueryKeeps ==
  ASSUME TableInv, AsksAll,
         QueryBegins \/ ResolveTargets \/ ScopeSettles \/ QueryEnds \/ QueryForgotten
  PROVE  AsksAll' /\ query'.at \in {"idle", "hooks", "asking", "quorum", "done"}
<1>1. CASE QueryBegins
  BY <1>1 DEF QueryBegins, NoQuery, AsksAll
<1>2. CASE ResolveTargets
  <2>1. query' = [at |-> "asking", targets |-> {links[i].remote : i \in OutboundListed},
                  asked |-> Cardinality({links[i].remote : i \in OutboundListed}),
                  succeeded |-> 0, linked |-> Cardinality(OutboundIn(Len(links)))]
    BY <1>2 DEF ResolveTargets
  <2> QED BY <2>1, RemotesListed DEF AsksAll, TableInv
<1>3. CASE ScopeSettles
  <2>1. PICK s \in query.targets, ok \in {0, 1} :
          query' = [query EXCEPT !.targets = @ \ {s}, !.succeeded = @ + ok]
    BY <1>3 DEF ScopeSettles
  <2>2. query.at = "asking"
    BY <1>3 DEF ScopeSettles
  <2> QED BY <2>1, <2>2 DEF AsksAll
<1>4. CASE QueryEnds
  <2>1. query.at = "asking" /\ query' = [query EXCEPT !.at = IF QuorumReached THEN "quorum" ELSE "done"]
    BY <1>4 DEF QueryEnds
  <2> QED BY <2>1 DEF AsksAll, QuorumReached
<1>5. CASE QueryForgotten
  BY <1>5 DEF QueryForgotten, NoQuery, AsksAll
<1> QED BY <1>1, <1>2, <1>3, <1>4, <1>5
-----------------------------------------------------------------------------
LEMMA LinkInitially == LinkInit => LinkInv
<1> SUFFICES ASSUME LinkInit PROVE LinkInv
  OBVIOUS
<1>1. links = << >> /\ made = 0 /\ bound = {} /\ escaped = {} /\ beyond = FALSE /\ crossedLinks = FALSE
      /\ linking = [p \in Writers |-> NotLinking]
  BY DEF LinkInit
<1>2. detaching = [by |-> "none", at |-> "idle", todo |-> << >>] /\ query.at = "idle"
  BY DEF LinkInit, NotDetaching, NoQuery
<1>3. DOMAIN links = {} /\ << >> \in Seq(LinkRow)
  BY <1>1
<1>4. LinksTyped
  <2>1. LinkTypeOK
    BY <1>1, <1>2, <1>3, LinkParameters DEF LinkTypeOK, Rows
  <2>2. links \in Seq(LinkRow) /\ linking \in [Writers -> LinkUpdates \union {NotLinking}]
    BY <1>1, <1>3
  <2>3. detaching \in [by : Writers \union {"none"}, at : {"idle", "links", "remote"},
                       todo : UNION {[S -> LinkKeys] : S \in SUBSET Nat}]
    BY <1>2, NoTodo
  <2> QED BY <2>1, <2>2, <2>3 DEF LinksTyped
<1> QED BY <1>1, <1>2, <1>3, <1>4
        DEF LinkInv, TableInv, ReadsHold, DetachHasAll, BoundPresent, DetachedCompletely, AsksAll

LEMMA LinkKept == LinkInv /\ [ScopesNext]_scopeVars => LinkInv'
<1> SUFFICES ASSUME LinkInv, [ScopesNext]_scopeVars PROVE LinkInv'
  OBVIOUS
<1>1. TableInv /\ DetachedCompletely /\ AsksAll
  BY DEF LinkInv
<1>2. query.at \in {"idle", "hooks", "asking", "quorum", "done"}
  BY <1>1 DEF TableInv, LinksTyped, LinkTypeOK
<1>3. ASSUME UNCHANGED linkVars PROVE LinkInv'
  <2>1. UNCHANGED <<links, made, linking, detaching, query, crossedLinks, bound, beyond, escaped>>
    BY <1>3 DEF linkVars
  <2>2. TableInv'
    BY <1>1, <1>2, <2>1, TableStays
  <2> QED BY <1>1, <2>1, <2>2 DEF LinkInv, DetachedCompletely, AsksAll, QuorumReached
<1>4. ASSUME TableInv', UNCHANGED query, escaped' \subseteq escaped \/ escaped' = {},
             UNCHANGED beyond \/ escaped' = {}, crossedLinks => crossedLinks'
      PROVE  LinkInv'
  BY <1>1, <1>4 DEF LinkInv, DetachedCompletely, AsksAll, QuorumReached
<1>5. CASE CreateLink
  BY <1>1, <1>4, <1>5, CreateKeeps DEF CreateLink
<1>6. CASE RemoveLink
  BY <1>1, <1>4, <1>6, RemoveKeeps DEF RemoveLink
<1>7. ASSUME NEW p \in Writers, UpdateReads(p) PROVE LinkInv'
  BY <1>1, <1>4, <1>7, ReadsKeep DEF UpdateReads
<1>8. ASSUME NEW p \in Writers, UpdateWrites(p) PROVE LinkInv'
  BY <1>1, <1>4, <1>8, WritesKeep DEF UpdateWrites
<1>9. ASSUME NEW p \in Writers, DetachBegins(p) PROVE LinkInv'
  BY <1>1, <1>4, <1>9, DetachBeginKeeps DEF DetachBegins
<1>10. ASSUME NEW p \in Writers, UnlinkBegins(p) PROVE LinkInv'
  BY <1>1, <1>4, <1>10, UnlinkBeginKeeps DEF UnlinkBegins
<1>11. CASE DetachRevokes
  BY <1>1, <1>4, <1>11, RevokeKeeps DEF DetachRevokes
<1>12. CASE UnlinkEnds
  BY <1>1, <1>2, <1>4, <1>12, TableStays DEF UnlinkEnds
<1>13. CASE DetachEnds
  <2>1. TableInv'
    BY <1>1, <1>2, <1>13, TableStays DEF DetachEnds
  <2>2. AsksAll'
    BY <1>1, <1>13 DEF DetachEnds, AsksAll, QuorumReached
  <2> QED BY <1>1, <1>13, <2>1, <2>2, EndKeeps DEF LinkInv
<1>14. CASE QueryBegins \/ ResolveTargets \/ ScopeSettles \/ QueryEnds \/ QueryForgotten
  <2>1. UNCHANGED <<links, made, linking, detaching, crossedLinks, bound, beyond, escaped>>
    BY <1>14 DEF QueryBegins, ResolveTargets, ScopeSettles, QueryEnds, QueryForgotten
  <2>2. AsksAll' /\ query'.at \in {"idle", "hooks", "asking", "quorum", "done"}
    BY <1>1, <1>14, QueryKeeps
  <2>3. TableInv'
    BY <1>1, <2>1, <2>2, TableStays
  <2> QED BY <1>1, <2>1, <2>2, <2>3 DEF LinkInv, DetachedCompletely
<1>15. CASE UNCHANGED scopeVars
  BY <1>3, <1>15 DEF scopeVars
<1> QED BY <1>3, <1>5, <1>6, <1>7, <1>8, <1>9, <1>10, <1>11, <1>12, <1>13, <1>14, <1>15
        DEF ScopesNext, LinkStep

LEMMA LinkInvAccounts == LinkInv => LinksAccounted
<1> SUFFICES ASSUME LinkInv PROVE QuorumIsOfAllLinks
  BY DEF LinkInv, TableInv, LinksTyped, LinksAccounted
<1>1. ASSUME query.at = "quorum" PROVE 2 * query.succeeded >= query.linked \/ query.linked > ListLimit
  <2>1. /\ query.asked \in Nat /\ query.succeeded \in Nat /\ query.linked \in Nat
        /\ query.asked = query.linked \/ query.linked > ListLimit
        /\ query.succeeded >= (query.asked + 1) \div 2
    BY <1>1 DEF LinkInv, AsksAll, QuorumReached
  <2>2. (query.asked + 1) \div 2 \in Nat /\ 2 * ((query.asked + 1) \div 2) >= query.asked
    BY <2>1, HalfRounded
  <2> QED BY <2>1, <2>2
<1> QED BY <1>1 DEF QuorumIsOfAllLinks

(* A full detachment that reports success leaves no link that it found     *)
(* bound, unless there were more than list returns or a stale update bound *)
(* one again; and a quorum is one of all linked scopes.                    *)
THEOREM LinksAreAccounted == ScopesSpec => []LinksAccounted
<1>1. WsInit /\ LinkInit => LinkInv
  BY LinkInitially
<1> QED BY <1>1, LinkKept, LinkInvAccounts, PTL DEF ScopesSpec
-----------------------------------------------------------------------------
(* The lazy loader: bytes are counted as the elements of finite sets, so   *)
(* what two sets of entries hold that share none adds up.                  *)

Version == 0 .. MaxEdits
Cached == [path : Paths, hash : Version, version : Version]

LEMMA BytesOfOne ==
  ASSUME NEW e \in Cached
  PROVE  IsFiniteSet(Bytes(e)) /\ Cardinality(Bytes(e)) = SizeOf[e.version] /\ SizeOf[e.version] \in Nat \ {0}
<1> DEFINE n == SizeOf[e.version]
<1>1. e.version \in 0 .. MaxEdits
  BY DEF Cached, Version
<1>2. n \in Nat \ {0}
  BY <1>1, SizesArePositive
<1> HIDE DEF n
<1>3. IsFiniteSet(1 .. n) /\ Cardinality(1 .. n) = IF 1 > n THEN 0 ELSE n - 1 + 1
  BY <1>2, FS_Interval
<1>4. IsFiniteSet({e}) /\ Cardinality({e}) = 1
  BY FS_Singleton
<1>5. IsFiniteSet({e} \X (1 .. n)) /\ Cardinality({e} \X (1 .. n)) = Cardinality({e}) * Cardinality(1 .. n)
  BY <1>3, <1>4, FS_Product
<1>6. Cardinality({e} \X (1 .. n)) = n
  BY <1>2, <1>3, <1>4, <1>5
<1> QED BY <1>2, <1>5, <1>6 DEF Bytes, n

LEMMA BytesFinite ==
  ASSUME NEW S \in SUBSET Cached, IsFiniteSet(S)
  PROVE  IsFiniteSet(UNION {Bytes(e) : e \in S}) /\ SizesOf(S) \in Nat
<1> DEFINE f == [e \in S |-> Bytes(e)]
<1> DEFINE T == {Bytes(e) : e \in S}
<1>1. f \in Surjection(S, T)
  BY DEF Surjection
<1>2. IsFiniteSet(T)
  BY <1>1, FS_Surjection
<1>3. ASSUME NEW B \in T PROVE IsFiniteSet(B)
  BY <1>3, BytesOfOne
<1>4. IsFiniteSet(UNION T)
  BY <1>2, <1>3, FS_UNION
<1> QED BY <1>4, FS_CardinalityType DEF SizesOf

LEMMA SizesAdd ==
  ASSUME NEW S \in SUBSET Cached, NEW T \in SUBSET Cached, IsFiniteSet(S), IsFiniteSet(T), S \cap T = {}
  PROVE  SizesOf(S \union T) = SizesOf(S) + SizesOf(T)
<1> DEFINE A == UNION {Bytes(e) : e \in S}
<1> DEFINE B == UNION {Bytes(e) : e \in T}
<1>1. IsFiniteSet(A) /\ IsFiniteSet(B)
  BY BytesFinite
<1>2. UNION {Bytes(e) : e \in S \union T} = A \union B
  OBVIOUS
<1>3. A \cap B = {}
  BY DEF Bytes
<1>4. Cardinality(A \union B) = Cardinality(A) + Cardinality(B) - Cardinality(A \cap B)
  BY <1>1, FS_Union
<1>5. Cardinality(A \cap B) = 0
  BY <1>3, FS_EmptySet
<1>6. Cardinality(A) \in Nat /\ Cardinality(B) \in Nat
  BY <1>1, FS_CardinalityType
<1>7. SizesOf(S) = Cardinality(A) /\ SizesOf(T) = Cardinality(B)
  BY DEF SizesOf
<1>8. SizesOf(S \union T) = Cardinality(A \union B)
  BY <1>2 DEF SizesOf
<1> HIDE DEF A, B
<1> QED BY <1>4, <1>5, <1>6, <1>7, <1>8

LEMMA SizeOfOne ==
  ASSUME NEW e \in Cached
  PROVE  SizesOf({e}) = SizeOf[e.version]
<1>1. UNION {Bytes(x) : x \in {e}} = Bytes(e)
  OBVIOUS
<1> QED BY <1>1, BytesOfOne DEF SizesOf

LEMMA SizeOfNone == SizesOf({}) = 0
<1>1. UNION {Bytes(x) : x \in {}} = {}
  OBVIOUS
<1> QED BY <1>1, FS_EmptySet DEF SizesOf

(* One entry per path. *)
OnePerPath(s) == \A i, j \in DOMAIN s : s[i].path = s[j].path => i = j

LEMMA FinitelyMany ==
  ASSUME NEW s \in Seq(Cached), NEW k \in 0 .. Len(s)
  PROVE  /\ IsFiniteSet({s[i] : i \in 1 .. k}) /\ IsFiniteSet(EntriesOf(s))
         /\ {s[i] : i \in 1 .. k} \subseteq Cached /\ EntriesOf(s) \subseteq Cached
<1>1. Len(s) \in Nat /\ DOMAIN s = 1 .. Len(s) /\ \A i \in 1 .. Len(s) : s[i] \in Cached
  BY LenProperties, ElementOfSeq
<1>2. ASSUME NEW n \in 0 .. Len(s) PROVE IsFiniteSet({s[i] : i \in 1 .. n})
  <2> DEFINE f == [i \in 1 .. n |-> s[i]]
  <2>1. f \in Surjection(1 .. n, {s[i] : i \in 1 .. n})
    BY DEF Surjection
  <2>2. IsFiniteSet(1 .. n)
    BY <1>1, FS_Interval
  <2> QED BY <2>1, <2>2, FS_Surjection
<1>3. EntriesOf(s) = {s[i] : i \in 1 .. Len(s)} /\ Len(s) \in 0 .. Len(s)
  BY <1>1 DEF EntriesOf
<1> QED BY <1>1, <1>2, <1>3

(* What is left when the oldest k are evicted.                             *)
LEMMA Split ==
  ASSUME NEW s \in Seq(Cached), OnePerPath(s), NEW k \in 0 .. Len(s)
  PROVE  LET left == SubSeq(s, k + 1, Len(s)) IN
         /\ left \in Seq(Cached) /\ OnePerPath(left)
         /\ k = Len(s) => left = << >>
         /\ SizesOf(EntriesOf(s)) = SizesOf({s[i] : i \in 1 .. k}) + SizesOf(EntriesOf(left))
<1> DEFINE left == SubSeq(s, k + 1, Len(s))
<1> DEFINE old == {s[i] : i \in 1 .. k}
<1>1. Len(s) \in Nat /\ DOMAIN s = 1 .. Len(s) /\ \A i \in 1 .. Len(s) : s[i] \in Cached
  BY LenProperties, ElementOfSeq
<1>2. /\ left \in Seq(Cached) /\ Len(left) = Len(s) - k
      /\ \A i \in 1 .. Len(s) - k : left[i] = s[k + i]
  <2>1. \A i \in k + 1 .. Len(s) : s[i] \in Cached
    BY <1>1
  <2>2. k + 1 \in Int /\ Len(s) \in Int /\ Len(s) - (k + 1) + 1 = Len(s) - k
    BY <1>1
  <2>3. /\ left \in Seq(Cached) /\ Len(left) = IF k + 1 <= Len(s) THEN Len(s) - (k + 1) + 1 ELSE 0
        /\ \A i \in 1 .. Len(s) - (k + 1) + 1 : left[i] = s[k + 1 + i - 1]
    BY <2>1, <2>2, SubSeqProperties
  <2>4. \A i \in 1 .. Len(s) - k : k + 1 + i - 1 = k + i
    BY <1>1
  <2> HIDE DEF left
  <2>5. Len(left) = Len(s) - k
    <3>1. Len(left) = IF k + 1 <= Len(s) THEN Len(s) - (k + 1) + 1 ELSE 0
      BY <2>3
    <3>2. Len(s) \in Nat
      BY <1>1
    <3> QED BY ONLY <3>1, <3>2, k \in 0 .. Len(s)
  <2>6. ASSUME NEW i \in 1 .. Len(s) - k PROVE left[i] = s[k + i]
    BY <2>2, <2>3, <2>4
  <2> QED BY <2>3, <2>5, <2>6
<1>3. DOMAIN left = 1 .. Len(s) - k
  BY <1>2, LenProperties
<1> HIDE DEF left
<1>4. OnePerPath(left)
  <2> SUFFICES ASSUME NEW i \in 1 .. Len(s) - k, NEW j \in 1 .. Len(s) - k, left[i].path = left[j].path
               PROVE  i = j
    BY <1>3 DEF OnePerPath
  <2>1. k + i \in DOMAIN s /\ k + j \in DOMAIN s /\ s[k + i].path = s[k + j].path
    BY <1>1, <1>2
  <2>2. k + i = k + j
    BY <2>1 DEF OnePerPath
  <2> QED BY <1>1, <2>2
<1>5. EntriesOf(s) \subseteq old \union EntriesOf(left)
  <2> SUFFICES ASSUME NEW i \in 1 .. Len(s) PROVE s[i] \in old \union EntriesOf(left)
    BY <1>1 DEF EntriesOf
  <2>1. CASE i <= k
    BY <2>1, <1>1
  <2>2. CASE i > k
    <3>1. i - k \in 1 .. Len(s) - k /\ left[i - k] = s[k + (i - k)] /\ k + (i - k) = i
      BY <2>2, <1>1, <1>2
    <3> QED BY <3>1, <1>3 DEF EntriesOf
  <2> QED BY <2>1, <2>2, <1>1
<1>6. old \subseteq EntriesOf(s)
  BY <1>1 DEF EntriesOf
<1>7. EntriesOf(left) \subseteq EntriesOf(s)
  <2> SUFFICES ASSUME NEW i \in 1 .. Len(s) - k PROVE left[i] \in EntriesOf(s)
    BY <1>3 DEF EntriesOf
  <2>1. k + i \in DOMAIN s
    BY <1>1
  <2> QED BY <2>1, <1>2 DEF EntriesOf
<1>8. old \cap EntriesOf(left) = {}
  <2> SUFFICES ASSUME NEW i \in 1 .. k, NEW j \in 1 .. Len(s) - k, s[i] = left[j]
               PROVE  FALSE
    BY <1>3 DEF EntriesOf
  <2>1. i \in DOMAIN s /\ k + j \in DOMAIN s /\ s[i].path = s[k + j].path /\ i # k + j
    BY <1>1, <1>2
  <2> QED BY <2>1 DEF OnePerPath
<1>9. IsFiniteSet(old) /\ old \subseteq Cached
  BY FinitelyMany
<1>10. Len(left) \in 0 .. Len(left)
  BY <1>2, LenProperties
<1>11. IsFiniteSet(EntriesOf(left)) /\ EntriesOf(left) \subseteq Cached
  BY <1>2, <1>10, FinitelyMany
<1> HIDE DEF old
<1>12. EntriesOf(s) = old \union EntriesOf(left)
  BY <1>5, <1>6, <1>7
<1>13. SizesOf(EntriesOf(s)) = SizesOf(old) + SizesOf(EntriesOf(left))
  BY <1>8, <1>9, <1>11, <1>12, SizesAdd
<1>14. k = Len(s) => left = << >>
  BY <1>1, <1>2, EmptySeq
<1> QED BY <1>2, <1>4, <1>13, <1>14 DEF left, old

LEMMA LeftIsHeld ==
  ASSUME NEW s \in Seq(Cached), NEW k \in 0 .. Len(s)
  PROVE  EntriesOf(SubSeq(s, k + 1, Len(s))) \subseteq EntriesOf(s)
<1>1. Len(s) \in Nat /\ DOMAIN s = 1 .. Len(s) /\ \A i \in 1 .. Len(s) : s[i] \in Cached
  BY LenProperties, ElementOfSeq
<1> DEFINE left == SubSeq(s, k + 1, Len(s))
<1>2. \A i \in k + 1 .. Len(s) : s[i] \in Cached
  BY <1>1
<1>3. k + 1 \in Int /\ Len(s) \in Int
  BY <1>1
<1>4. /\ left \in Seq(Cached) /\ Len(left) = IF k + 1 <= Len(s) THEN Len(s) - (k + 1) + 1 ELSE 0
      /\ \A i \in 1 .. Len(s) - (k + 1) + 1 : left[i] = s[k + 1 + i - 1]
  BY <1>2, <1>3, SubSeqProperties
<1> HIDE DEF left
<1>5. DOMAIN left = 1 .. Len(left)
  BY <1>4, LenProperties
<1>6. ASSUME NEW i \in DOMAIN left PROVE left[i] \in EntriesOf(s)
  <2>1. i \in 1 .. Len(s) - (k + 1) + 1
    <3>1. Len(left) = IF k + 1 <= Len(s) THEN Len(s) - (k + 1) + 1 ELSE 0
      BY <1>4
    <3>2. Len(s) \in Nat /\ i \in 1 .. Len(left)
      BY <1>1, <1>5
    <3> QED BY ONLY <3>1, <3>2, k \in 0 .. Len(s)
  <2>2. k + 1 + i - 1 \in DOMAIN s
    BY <1>1, <2>1
  <2> QED BY <1>4, <2>1, <2>2 DEF EntriesOf
<1> QED BY <1>6 DEF EntriesOf, left

(* An entry that goes from its place, whatever it is then replaced by.     *)
LEMMA Removal ==
  ASSUME NEW s \in Seq(Cached), OnePerPath(s), NEW i \in DOMAIN s
  PROVE  LET rest == RemoveEntry(s, i) IN
         /\ rest \in Seq(Cached) /\ OnePerPath(rest)
         /\ EntriesOf(rest) = {e \in EntriesOf(s) : e.path # s[i].path}
         /\ Len(rest) = Len(s) - 1
<1> DEFINE a == SubSeq(s, 1, i - 1)
<1> DEFINE b == SubSeq(s, i + 1, Len(s))
<1> DEFINE rest == a \o b
<1>1. Len(s) \in Nat /\ DOMAIN s = 1 .. Len(s) /\ i \in 1 .. Len(s) /\ \A j \in 1 .. Len(s) : s[j] \in Cached
  BY LenProperties, ElementOfSeq
<1>2. a \in Seq(Cached) /\ Len(a) = i - 1 /\ \A j \in 1 .. i - 1 : a[j] = s[1 + j - 1]
  BY <1>1, SubSeqProperties
<1>3. b \in Seq(Cached) /\ Len(b) = Len(s) - i /\ \A j \in 1 .. Len(s) - i : b[j] = s[i + 1 + j - 1]
  BY <1>1, SubSeqProperties
<1> HIDE DEF a, b
<1>4. /\ rest \in Seq(Cached) /\ Len(rest) = Len(a) + Len(b)
      /\ \A j \in 1 .. Len(a) + Len(b) : rest[j] = IF j <= Len(a) THEN a[j] ELSE b[j - Len(a)]
  BY <1>2, <1>3, ConcatProperties
<1> HIDE DEF rest
<1>5. Len(rest) = Len(s) - 1 /\ DOMAIN rest = 1 .. Len(s) - 1
  BY <1>1, <1>2, <1>3, <1>4, LenProperties
<1>6. \A j \in 1 .. Len(s) - 1 : rest[j] = IF j < i THEN s[j] ELSE s[j + 1]
  <2> SUFFICES ASSUME NEW j \in 1 .. Len(s) - 1 PROVE rest[j] = IF j < i THEN s[j] ELSE s[j + 1]
    OBVIOUS
  <2>1. rest[j] = IF j <= Len(a) THEN a[j] ELSE b[j - Len(a)]
    BY <1>1, <1>2, <1>3, <1>4
  <2>2. CASE j < i
    <3>1. j \in 1 .. i - 1 /\ a[j] = s[1 + j - 1] /\ 1 + j - 1 = j /\ j <= Len(a)
      BY <1>1, <1>2, <2>2
    <3> QED BY <2>1, <2>2, <3>1
  <2>3. CASE ~ (j < i)
    <3>1. j - (i - 1) \in 1 .. Len(s) - i
      BY ONLY <1>1, <2>3, j \in 1 .. Len(s) - 1
    <3>2. ~ (j <= Len(a)) /\ j - Len(a) = j - (i - 1) /\ i + 1 + (j - (i - 1)) - 1 = j + 1
      BY ONLY <1>1, <1>2, <2>3, j \in 1 .. Len(s) - 1
    <3>3. b[j - (i - 1)] = s[i + 1 + (j - (i - 1)) - 1]
      BY ONLY <1>3, <3>1
    <3> QED BY <2>1, <2>3, <3>2, <3>3
  <2> QED BY <2>2, <2>3
<1> DEFINE at(j) == IF j < i THEN j ELSE j + 1
<1>7. \A j \in 1 .. Len(s) - 1 : at(j) \in DOMAIN s /\ at(j) # i /\ rest[j] = s[at(j)]
  BY <1>1, <1>6
<1>8. OnePerPath(rest)
  <2> SUFFICES ASSUME NEW j \in 1 .. Len(s) - 1, NEW k \in 1 .. Len(s) - 1, rest[j].path = rest[k].path
               PROVE  j = k
    BY <1>5 DEF OnePerPath
  <2>1. at(j) = at(k)
    BY <1>7 DEF OnePerPath
  <2> QED BY <2>1, <1>1
<1>9. ASSUME NEW e \in EntriesOf(rest) PROVE e \in EntriesOf(s) /\ e.path # s[i].path
  <2>1. PICK j \in 1 .. Len(s) - 1 : e = rest[j]
    BY <1>5 DEF EntriesOf
  <2>2. at(j) \in DOMAIN s /\ at(j) # i /\ e = s[at(j)]
    BY <1>7, <2>1
  <2> HIDE DEF at
  <2> QED BY <2>2 DEF EntriesOf, OnePerPath
<1>10. ASSUME NEW e \in EntriesOf(s), e.path # s[i].path PROVE e \in EntriesOf(rest)
  <2>1. PICK k \in 1 .. Len(s) : e = s[k]
    BY <1>1 DEF EntriesOf
  <2>2. k # i
    BY <1>10, <2>1
  <2>3. PICK j \in 1 .. Len(s) - 1 : at(j) = k
    <3>1. CASE k < i
      <4>1. k \in 1 .. Len(s) - 1 /\ at(k) = k
        BY <1>1, <3>1
      <4> QED BY <4>1
    <3>2. CASE k > i
      <4>1. k - 1 \in 1 .. Len(s) - 1 /\ at(k - 1) = k
        BY <1>1, <3>2
      <4> QED BY <4>1
    <3> QED BY <1>1, <2>2, <3>1, <3>2
  <2>4. rest[j] = e
    BY <1>7, <2>1, <2>3
  <2> QED BY <2>4, <1>5 DEF EntriesOf
<1>11. EntriesOf(rest) = {e \in EntriesOf(s) : e.path # s[i].path}
  BY <1>9, <1>10
<1> QED BY <1>4, <1>5, <1>8, <1>11 DEF RemoveEntry, rest, a, b

LEMMA RemovalByPath ==
  ASSUME NEW s \in Seq(Cached), OnePerPath(s), NEW p
  PROVE  LET rest == WithoutPath(s, p) IN
         /\ rest \in Seq(Cached) /\ OnePerPath(rest)
         /\ EntriesOf(rest) = {e \in EntriesOf(s) : e.path # p}
         /\ s = << >> => rest = << >>
<1>1. CASE \E i \in DOMAIN s : s[i].path = p
  <2> DEFINE i == CHOOSE i \in DOMAIN s : s[i].path = p
  <2>1. i \in DOMAIN s /\ s[i].path = p
    BY <1>1
  <2> HIDE DEF i
  <2>2. WithoutPath(s, p) = RemoveEntry(s, i)
    BY <1>1 DEF WithoutPath, i
  <2>3. s # << >>
    BY <2>1
  <2> QED BY <2>1, <2>2, <2>3, Removal
<1>2. CASE \A i \in DOMAIN s : s[i].path # p
  BY <1>2 DEF WithoutPath, EntriesOf
<1> QED BY <1>1, <1>2

LEMMA Addition ==
  ASSUME NEW s \in Seq(Cached), OnePerPath(s), NEW e \in Cached, \A x \in EntriesOf(s) : x.path # e.path
  PROVE  /\ Append(s, e) \in Seq(Cached) /\ OnePerPath(Append(s, e))
         /\ EntriesOf(Append(s, e)) = EntriesOf(s) \union {e}
         /\ SizesOf(EntriesOf(Append(s, e))) = SizesOf(EntriesOf(s)) + SizeOf[e.version]
<1>1. Len(s) \in Nat /\ DOMAIN s = 1 .. Len(s)
  BY LenProperties
<1>2. /\ Append(s, e) \in Seq(Cached) /\ Len(Append(s, e)) = Len(s) + 1
      /\ \A i \in 1 .. Len(s) : Append(s, e)[i] = s[i]
      /\ Append(s, e)[Len(s) + 1] = e
  BY AppendProperties
<1>3. DOMAIN Append(s, e) = 1 .. Len(s) + 1
  BY <1>2, LenProperties
<1>4. \A i \in 1 .. Len(s) : s[i] \in EntriesOf(s)
  BY <1>1 DEF EntriesOf
<1> DEFINE t == Append(s, e)
<1> HIDE DEF t
<1>5. \A i \in 1 .. Len(s) + 1 : (i \in 1 .. Len(s) /\ t[i] = s[i]) \/ (i = Len(s) + 1 /\ t[i] = e)
  BY <1>1, <1>2 DEF t
<1>6. OnePerPath(t)
  <2> SUFFICES ASSUME NEW i \in 1 .. Len(s) + 1, NEW j \in 1 .. Len(s) + 1, t[i].path = t[j].path PROVE i = j
    BY <1>3 DEF OnePerPath, t
  <2>1. CASE i \in 1 .. Len(s) /\ t[i] = s[i] /\ j \in 1 .. Len(s) /\ t[j] = s[j]
    BY <2>1, <1>1 DEF OnePerPath
  <2>2. CASE i \in 1 .. Len(s) /\ t[i] = s[i] /\ j = Len(s) + 1 /\ t[j] = e
    BY <2>2, <1>4
  <2>3. CASE j \in 1 .. Len(s) /\ t[j] = s[j] /\ i = Len(s) + 1 /\ t[i] = e
    BY <2>3, <1>4
  <2>4. CASE i = Len(s) + 1 /\ j = Len(s) + 1
    BY <2>4
  <2> QED BY <1>5, <2>1, <2>2, <2>3, <2>4
<1>7. EntriesOf(t) \subseteq EntriesOf(s) \union {e}
  <2> SUFFICES ASSUME NEW i \in 1 .. Len(s) + 1 PROVE t[i] \in EntriesOf(s) \union {e}
    BY <1>3 DEF EntriesOf, t
  <2> QED BY <1>4, <1>5
<1>8. EntriesOf(s) \subseteq EntriesOf(t)
  <2> SUFFICES ASSUME NEW i \in 1 .. Len(s) PROVE s[i] \in EntriesOf(t)
    BY <1>1 DEF EntriesOf
  <2>1. i \in 1 .. Len(s) + 1 /\ t[i] = s[i]
    BY <1>1, <1>2 DEF t
  <2> QED BY <1>3, <2>1 DEF EntriesOf, t
<1>9. e \in EntriesOf(t)
  <2>1. Len(s) + 1 \in 1 .. Len(s) + 1 /\ t[Len(s) + 1] = e
    BY <1>1, <1>2 DEF t
  <2> QED BY <1>3, <2>1 DEF EntriesOf, t
<1>10. EntriesOf(t) = EntriesOf(s) \union {e}
  BY <1>7, <1>8, <1>9
<1>11. Len(s) \in 0 .. Len(s)
  BY <1>1
<1>12. IsFiniteSet(EntriesOf(s)) /\ EntriesOf(s) \subseteq Cached
  BY <1>11, FinitelyMany
<1>13. IsFiniteSet({e}) /\ {e} \subseteq Cached /\ EntriesOf(s) \cap {e} = {}
  BY FS_Singleton
<1>14. SizesOf(EntriesOf(s) \union {e}) = SizesOf(EntriesOf(s)) + SizesOf({e})
  BY <1>12, <1>13, SizesAdd
<1> QED BY <1>2, <1>6, <1>10, <1>14, SizeOfOne DEF t

(* Cached contents are what their handles name; loads know their file.     *)
LazyTyped ==
  /\ onDisk \in [Paths -> Version]
  /\ held \in Seq(Cached) /\ OnePerPath(held)
  /\ \A e \in EntriesOf(held) : e.version = e.hash
  /\ totalBytes \in Nat /\ overwritten \in Nat
  /\ loads \in [Loads -> [path : Paths \union {"none"}, hash : Version, since : Nat]]
  /\ \A l \in Loads : loads[l] = NoLoad \/ loads[l].path \in Paths

LazyInv == LazyTyped /\ ReturnsWhatIsNamed /\ TotalCountsHeld /\ HeldWithinLimit

LEMMA LazyInitially == LazyInit => LazyInv
<1> SUFFICES ASSUME LazyInit PROVE LazyInv
  OBVIOUS
<1>1. MaxEdits \in Nat /\ 0 \in Version
  BY SizesArePositive DEF Version
<1>2. CacheMaxBytes \in Nat
  BY SizesArePositive
<1>3. EntriesOf(<< >>) = {} /\ << >> \in Seq(Cached) /\ OnePerPath(<< >>)
  BY DEF EntriesOf, OnePerPath
<1>4. NoLoad \in [path : Paths \union {"none"}, hash : Version, since : Nat]
  BY <1>1 DEF NoLoad
<1>5. LazyTyped
  BY <1>1, <1>3, <1>4 DEF LazyInit, LazyTyped
<1>6. ReturnsWhatIsNamed
  BY DEF LazyInit, ReturnsWhatIsNamed
<1>7. TotalCountsHeld /\ HeldWithinLimit
  <2>1. held = << >> /\ totalBytes = 0 /\ overwritten = 0
    BY DEF LazyInit
  <2>2. SizesOf(EntriesOf(held)) = 0
    BY <1>3, <2>1, SizeOfNone
  <2> QED BY <1>2, <2>1, <2>2 DEF TotalCountsHeld, HeldWithinLimit
<1> QED BY <1>5, <1>6, <1>7 DEF LazyInv

LEMMA HitKeeps ==
  ASSUME LazyInv, NEW p, NEW version, LoadHits(p, version)
  PROVE  LazyInv'
<1>1. PICK i \in DOMAIN held :
        /\ held[i].path = p /\ held[i].hash = version
        /\ held' = Append(RemoveEntry(held, i), held[i])
        /\ returned' = [hash |-> version, content |-> held[i].version]
  BY DEF LoadHits
<1> DEFINE rest == RemoveEntry(held, i)
<1>2. held \in Seq(Cached) /\ OnePerPath(held) /\ held[i] \in EntriesOf(held) /\ held[i] \in Cached
  BY ElementOfSeq DEF LazyInv, LazyTyped, EntriesOf
<1>3. /\ rest \in Seq(Cached) /\ OnePerPath(rest)
      /\ EntriesOf(rest) = {e \in EntriesOf(held) : e.path # held[i].path}
  BY <1>2, Removal
<1> HIDE DEF rest
<1>4. /\ Append(rest, held[i]) \in Seq(Cached) /\ OnePerPath(Append(rest, held[i]))
      /\ EntriesOf(Append(rest, held[i])) = EntriesOf(rest) \union {held[i]}
  BY <1>2, <1>3, Addition
<1>5. EntriesOf(rest) \union {held[i]} = EntriesOf(held)
  <2> SUFFICES ASSUME NEW e \in EntriesOf(held), e.path = held[i].path PROVE e = held[i]
    BY <1>2, <1>3
  <2>1. PICK j \in DOMAIN held : e = held[j]
    BY DEF EntriesOf
  <2> QED BY <1>2, <2>1 DEF OnePerPath
<1>6. held' \in Seq(Cached) /\ OnePerPath(held') /\ EntriesOf(held') = EntriesOf(held)
  BY <1>1, <1>4, <1>5 DEF rest
<1>7. UNCHANGED <<onDisk, totalBytes, loads, overwritten>>
  BY DEF LoadHits
<1>8. LazyTyped'
  BY <1>6, <1>7 DEF LazyInv, LazyTyped
<1>9. ReturnsWhatIsNamed'
  BY <1>1, <1>2 DEF LazyInv, LazyTyped, ReturnsWhatIsNamed
<1>10. TotalCountsHeld'
  BY <1>6, <1>7 DEF LazyInv, TotalCountsHeld
<1>11. HeldWithinLimit'
  <2>1. SizesOf(EntriesOf(held')) = SizesOf(EntriesOf(held))
    BY <1>6
  <2>2. Len(rest) = Len(held) - 1 /\ Len(rest) \in Nat /\ Len(held') = Len(rest) + 1
    <3>1. Len(rest) \in Nat /\ Len(held') = Len(rest) + 1
      BY <1>1, <1>2, <1>3, AppendProperties, LenProperties DEF rest
    <3> QED BY <1>2, <3>1, Removal DEF rest
  <2>3. Len(held') = Len(held)
    BY <1>2, <2>2, LenProperties
  <2> QED BY <2>1, <2>3 DEF LazyInv, HeldWithinLimit
<1> QED BY <1>8, <1>9, <1>10, <1>11 DEF LazyInv

(* What a load that stores leaves: the oldest of the cache evicted, the    *)
(* entry it replaces removed and counted in the history.                   *)
LEMMA StoreKeeps ==
  ASSUME LazyInv, NEW l \in Loads, LoadStores(l)
  PROVE  LazyInv'
<1>0. LazyTyped /\ CacheMaxBytes \in Nat /\ MaxEdits \in Nat
  BY SizesArePositive DEF LazyInv
<1>1. loads[l] # NoLoad /\ loads[l] \in [path : Paths \union {"none"}, hash : Version, since : Nat]
      /\ loads[l].path \in Paths
  BY <1>0 DEF LoadStores, LazyTyped
<1> DEFINE p == loads[l].path
<1>2. PICK content \in loads[l].since .. onDisk[p], k \in 0 .. Len(held) :
        /\ content = loads[l].hash
        /\ Evicts(k, SizeOf[content])
        /\ held' = Append(WithoutPath(SubSeq(held, k + 1, Len(held)), p), [path |-> p, hash |-> loads[l].hash, version |-> content])
        /\ totalBytes' = TotalAfter(k, SizeOf[content])
        /\ overwritten' = overwritten + SizesOf({e \in EntriesOf(SubSeq(held, k + 1, Len(held))) : e.path = p})
        /\ returned' = [hash |-> loads[l].hash, content |-> content]
  BY DEF LoadStores, HashChecked
<1> DEFINE left == SubSeq(held, k + 1, Len(held))
<1> DEFINE rest == WithoutPath(left, p)
<1> DEFINE entry == [path |-> p, hash |-> loads[l].hash, version |-> content]
<1> DEFINE replaced == {e \in EntriesOf(left) : e.path = p}
<1> DEFINE size == SizeOf[content]
<1>3. entry \in Cached /\ entry.path = p /\ entry.version = content /\ entry.hash = content
  BY <1>1, <1>2 DEF Cached
<1>4. size \in Nat \ {0}
  BY <1>3, BytesOfOne
<1>5. held \in Seq(Cached) /\ OnePerPath(held) /\ Len(held) \in Nat
  BY <1>0, LenProperties DEF LazyTyped
<1>6. /\ left \in Seq(Cached) /\ OnePerPath(left)
      /\ k = Len(held) => left = << >>
      /\ SizesOf(EntriesOf(held)) = SizesOf(Oldest(k)) + SizesOf(EntriesOf(left))
  BY <1>5, Split DEF Oldest
<1>7. EntriesOf(left) \subseteq EntriesOf(held)
  BY <1>5, LeftIsHeld
<1> HIDE DEF left, size
<1>8. /\ rest \in Seq(Cached) /\ OnePerPath(rest)
      /\ EntriesOf(rest) = {e \in EntriesOf(left) : e.path # p}
      /\ left = << >> => rest = << >>
  BY <1>6, RemovalByPath
<1> HIDE DEF rest
<1>9. \A x \in EntriesOf(rest) : x.path # entry.path
  BY <1>3, <1>8
<1> HIDE DEF entry
<1>10. /\ Append(rest, entry) \in Seq(Cached) /\ OnePerPath(Append(rest, entry))
       /\ EntriesOf(Append(rest, entry)) = EntriesOf(rest) \union {entry}
       /\ SizesOf(EntriesOf(Append(rest, entry))) = SizesOf(EntriesOf(rest)) + SizeOf[entry.version]
  BY <1>3, <1>8, <1>9, Addition
<1>11. held' = Append(rest, entry)
  BY <1>2 DEF rest, left, entry
<1>12. SizesOf(EntriesOf(held')) = SizesOf(EntriesOf(rest)) + size
  BY <1>3, <1>10, <1>11 DEF size
<1>13. overwritten' = overwritten + SizesOf(replaced)
  BY <1>2 DEF left
<1>14. SizesOf(EntriesOf(left)) = SizesOf(EntriesOf(rest)) + SizesOf(replaced)
       /\ SizesOf(EntriesOf(rest)) \in Nat /\ SizesOf(replaced) \in Nat
  <2>1. Len(left) \in 0 .. Len(left)
    BY <1>6, LenProperties
  <2>2. IsFiniteSet(EntriesOf(left)) /\ EntriesOf(left) \subseteq Cached
    BY <1>6, <2>1, FinitelyMany
  <2>3. EntriesOf(left) = EntriesOf(rest) \union replaced /\ EntriesOf(rest) \cap replaced = {}
        /\ EntriesOf(rest) \subseteq EntriesOf(left) /\ replaced \subseteq EntriesOf(left)
    BY <1>8
  <2> HIDE DEF replaced
  <2>4. IsFiniteSet(EntriesOf(rest)) /\ IsFiniteSet(replaced)
    BY <2>2, <2>3, FS_Subset
  <2>5. EntriesOf(rest) \in SUBSET Cached /\ replaced \in SUBSET Cached
    BY <2>2, <2>3
  <2>6. SizesOf(EntriesOf(rest) \union replaced) = SizesOf(EntriesOf(rest)) + SizesOf(replaced)
    BY <2>3, <2>4, <2>5, SizesAdd
  <2> QED BY <2>3, <2>4, <2>5, <2>6, BytesFinite
<1> HIDE DEF replaced
<1>15. SizesOf(Oldest(k)) \in Nat
  <2>1. IsFiniteSet(Oldest(k)) /\ Oldest(k) \in SUBSET Cached
    BY <1>5, FinitelyMany DEF Oldest
  <2> QED BY <2>1, BytesFinite
<1>16. totalBytes' = totalBytes - SizesOf(Oldest(k)) + size
  BY <1>2 DEF TotalAfter, size
<1>17. totalBytes = SizesOf(EntriesOf(held)) + overwritten
  BY DEF LazyInv, TotalCountsHeld
<1>18. overwritten \in Nat
  BY <1>0 DEF LazyTyped
<1>19. totalBytes' = SizesOf(EntriesOf(held')) + overwritten'
  BY <1>4, <1>6, <1>12, <1>13, <1>14, <1>15, <1>16, <1>17, <1>18
<1>20. totalBytes' \in Nat /\ overwritten' \in Nat
  BY <1>4, <1>12, <1>13, <1>14, <1>18, <1>19
<1>21. LazyTyped'
  <2>1. loads' = [loads EXCEPT ![l] = NoLoad] /\ onDisk' = onDisk
    BY DEF LoadStores
  <2>2. NoLoad \in [path : Paths \union {"none"}, hash : Version, since : Nat]
    BY <1>0 DEF NoLoad, Version
  <2>3. loads' \in [Loads -> [path : Paths \union {"none"}, hash : Version, since : Nat]]
        /\ \A m \in Loads : loads'[m] = NoLoad \/ loads'[m].path \in Paths
    BY <1>0, <2>1, <2>2 DEF LazyTyped
  <2>4. \A e \in EntriesOf(held') : e.version = e.hash
    <3>1. \A e \in EntriesOf(held') : e = entry \/ e \in EntriesOf(held)
      BY <1>7, <1>8, <1>10, <1>11
    <3> QED BY <1>0, <1>3, <3>1 DEF LazyTyped, entry
  <2> QED BY <1>0, <1>10, <1>11, <1>20, <2>1, <2>3, <2>4 DEF LazyTyped
<1>22. ReturnsWhatIsNamed'
  BY <1>2 DEF ReturnsWhatIsNamed
<1>23. TotalCountsHeld'
  BY <1>19 DEF TotalCountsHeld
<1>24. HeldWithinLimit'
  <2>1. CASE Fits(k, SizeOf[content])
    <3>1. totalBytes - SizesOf(Oldest(k)) + size <= CacheMaxBytes
      BY <2>1 DEF Fits, size
    <3>2. SizesOf(EntriesOf(held')) \in Nat
      BY <1>4, <1>12, <1>14
    <3>3. SizesOf(EntriesOf(held')) <= CacheMaxBytes
      BY <1>0, <1>16, <1>19, <1>20, <3>1, <3>2
    <3> QED BY <3>3 DEF HeldWithinLimit
  <2>2. CASE k = Len(held)
    <3>1. rest = << >>
      BY <1>6, <1>8, <2>2
    <3>2. Len(held') = 1
      BY <1>3, <1>8, <1>11, <3>1, AppendProperties
    <3> QED BY <3>2 DEF HeldWithinLimit
  <2> QED BY <1>2, <2>1, <2>2 DEF Evicts
<1> QED BY <1>21, <1>22, <1>23, <1>24 DEF LazyInv

LEMMA LazyKept == LazyInv /\ [LazyNext]_lazyVars => LazyInv'
<1> SUFFICES ASSUME LazyInv, [LazyNext]_lazyVars PROVE LazyInv'
  OBVIOUS
<1>0. LazyTyped /\ CacheMaxBytes \in Nat /\ MaxEdits \in Nat
  BY SizesArePositive DEF LazyInv
<1>1. CASE Clear
  <2>1. EntriesOf(<< >>) = {} /\ << >> \in Seq(Cached) /\ OnePerPath(<< >>)
    BY DEF EntriesOf, OnePerPath
  <2>2. held' = << >> /\ totalBytes' = 0 /\ overwritten' = 0 /\ UNCHANGED <<onDisk, loads, returned>>
    BY <1>1 DEF Clear
  <2>3. LazyTyped'
    BY <1>0, <2>1, <2>2 DEF LazyTyped
  <2>4. ReturnsWhatIsNamed'
    BY <2>2 DEF LazyInv, ReturnsWhatIsNamed
  <2>5. TotalCountsHeld' /\ HeldWithinLimit'
    <3>1. SizesOf(EntriesOf(held')) = 0
      BY <2>1, <2>2, SizeOfNone
    <3> QED BY <1>0, <2>2, <3>1 DEF TotalCountsHeld, HeldWithinLimit
  <2> QED BY <2>3, <2>4, <2>5 DEF LazyInv
<1>2. ASSUME UNCHANGED <<held, totalBytes, returned, overwritten>>, LazyTyped' PROVE LazyInv'
  BY <1>2 DEF LazyInv, ReturnsWhatIsNamed, TotalCountsHeld, HeldWithinLimit
<1>3. ASSUME NEW l \in Loads, LoadThrows(l) PROVE LazyInv'
  <2>1. loads' = [loads EXCEPT ![l] = NoLoad] /\ UNCHANGED <<onDisk, held, totalBytes, returned, overwritten>>
    BY <1>3 DEF LoadThrows
  <2>2. NoLoad \in [path : Paths \union {"none"}, hash : Version, since : Nat]
    BY <1>0 DEF NoLoad, Version
  <2>3. LazyTyped'
    BY <1>0, <2>1, <2>2 DEF LazyTyped
  <2> QED BY <1>2, <2>1, <2>3
<1>4. ASSUME NEW p \in Paths, Edit(p) PROVE LazyInv'
  <2>1. LazyTyped'
    BY <1>0, <1>4 DEF Edit, LazyTyped, Version
  <2> QED BY <1>2, <1>4, <2>1 DEF Edit
<1>5. ASSUME NEW p \in Paths, NEW version \in 0 .. onDisk[p], NEW l \in Loads, LoadMisses(l, p, version)
      PROVE  LazyInv'
  <2>1. onDisk[p] \in 0 .. MaxEdits
    BY <1>0 DEF LazyTyped, Version
  <2>2. [path |-> p, hash |-> version, since |-> onDisk[p]]
          \in [path : Paths \union {"none"}, hash : Version, since : Nat]
    BY <1>0, <2>1 DEF Version
  <2>3. loads' = [loads EXCEPT ![l] = [path |-> p, hash |-> version, since |-> onDisk[p]]]
        /\ UNCHANGED <<onDisk, held, totalBytes, returned, overwritten>>
    BY <1>5 DEF LoadMisses
  <2>4. LazyTyped'
    BY <1>0, <2>2, <2>3 DEF LazyTyped
  <2> QED BY <1>2, <2>3, <2>4
<1>6. CASE UNCHANGED lazyVars
  <2>1. LazyTyped'
    BY <1>0, <1>6 DEF LazyTyped, lazyVars
  <2> QED BY <1>2, <1>6, <2>1 DEF lazyVars
<1> QED BY <1>1, <1>3, <1>4, <1>5, <1>6, HitKeeps, StoreKeeps DEF LazyNext

(* LazyContentLoader.load, evictIfNeeded, clear: for any files, sizes and  *)
(* limit, the cache keeps to its limit, its total to what it holds and its *)
(* answers to the handles, whatever loads overlap with edits and clears.   *)
THEOREM CachesAreAccounted == LazySpec => []CacheAccounted
<1>1. LazyInv => CacheAccounted
  <2> SUFFICES ASSUME LazyInv PROVE LazyTypeOK
    BY DEF LazyInv, CacheAccounted
  <2>1. \A i \in DOMAIN held : held[i] \in Cached
    BY ElementOfSeq DEF LazyInv, LazyTyped
  <2> QED BY <2>1 DEF LazyInv, LazyTyped, LazyTypeOK, Cached, Version, OnePerPath
<1> QED BY <1>1, LazyInitially, LazyKept, PTL DEF LazySpec
-----------------------------------------------------------------------------
(* The memory engine.  The rows of a content, and the engines that have    *)
(* taken a reference for a row they are about to insert, are counted as    *)
(* finite sets, of which a statement adds or removes a member.             *)

Takes(r, c) == r.at = "row" /\ Head(r.todo).content = c

Taking(o, c) == {e \in Engines : Takes(o[e], c)}

Held(rs, c) == {i \in DOMAIN rs : rs[i].content = c}

LEMMA TakingCount ==
  ASSUME NEW c, NEW e \in Engines, NEW o, NEW p, \A x \in Engines : x # e => p[x] = o[x]
  PROVE  /\ Cardinality(Taking(o, c)) \in Nat /\ Cardinality(Taking(p, c)) \in Nat
         /\ Cardinality(Taking(p, c)) + (IF Takes(o[e], c) THEN 1 ELSE 0)
              = Cardinality(Taking(o, c)) + (IF Takes(p[e], c) THEN 1 ELSE 0)
<1>1. Taking(o, c) \subseteq Engines /\ Taking(p, c) \subseteq Engines
  BY DEF Taking
<1>2. IsFiniteSet(Taking(o, c)) /\ IsFiniteSet(Taking(p, c))
  BY <1>1, StoreParameters, FS_Subset
<1>3. Cardinality(Taking(o, c)) \in Nat /\ Cardinality(Taking(p, c)) \in Nat
  BY <1>2, FS_CardinalityType
<1> DEFINE rest == Taking(o, c) \ {e}
<1>4. rest = Taking(p, c) \ {e}
  BY DEF Taking
<1>5. Cardinality(rest) = IF e \in Taking(o, c) THEN Cardinality(Taking(o, c)) - 1 ELSE Cardinality(Taking(o, c))
  BY <1>2, FS_RemoveElement
<1>6. Cardinality(Taking(p, c) \ {e})
        = IF e \in Taking(p, c) THEN Cardinality(Taking(p, c)) - 1 ELSE Cardinality(Taking(p, c))
  BY <1>2, FS_RemoveElement
<1>7. (e \in Taking(o, c) <=> Takes(o[e], c)) /\ (e \in Taking(p, c) <=> Takes(p[e], c))
  BY DEF Taking
<1> HIDE DEF rest
<1> QED BY <1>3, <1>4, <1>5, <1>6, <1>7

LEMMA HeldCount ==
  ASSUME NEW rs \in Seq(Row), NEW c
  PROVE  IsFiniteSet(Held(rs, c)) /\ Cardinality(Held(rs, c)) \in Nat /\ DOMAIN rs = 1 .. Len(rs)
         /\ Held(rs, c) \subseteq 1 .. Len(rs) /\ Len(rs) \in Nat
<1>1. Len(rs) \in Nat /\ DOMAIN rs = 1 .. Len(rs)
  BY LenProperties
<1>2. IsFiniteSet(1 .. Len(rs))
  BY <1>1, FS_Interval
<1>3. Held(rs, c) \subseteq 1 .. Len(rs)
  BY <1>1 DEF Held
<1>4. IsFiniteSet(Held(rs, c))
  BY <1>2, <1>3, FS_Subset
<1> QED BY <1>1, <1>3, <1>4, FS_CardinalityType

LEMMA HeldAppend ==
  ASSUME NEW rs \in Seq(Row), NEW r \in Row, NEW c
  PROVE  Cardinality(Held(Append(rs, r), c)) = Cardinality(Held(rs, c)) + (IF r.content = c THEN 1 ELSE 0)
<1>0. Len(rs) \in Nat /\ DOMAIN rs = 1 .. Len(rs) /\ IsFiniteSet(Held(rs, c)) /\ Held(rs, c) \subseteq 1 .. Len(rs)
      /\ Cardinality(Held(rs, c)) \in Nat
  BY HeldCount
<1> DEFINE ss == Append(rs, r)
<1>1. /\ DOMAIN ss = 1 .. Len(rs) + 1 /\ ss[Len(rs) + 1] = r
      /\ \A i \in 1 .. Len(rs) : ss[i] = rs[i]
  BY AppendProperties, <1>0
<1> HIDE DEF ss
<1>2. 1 .. Len(rs) + 1 = (1 .. Len(rs)) \union {Len(rs) + 1} /\ Len(rs) + 1 \notin 1 .. Len(rs)
  BY <1>0
<1>3. CASE r.content = c
  <2>1. Held(ss, c) = Held(rs, c) \union {Len(rs) + 1}
    BY <1>0, <1>1, <1>2, <1>3 DEF Held
  <2>2. Len(rs) + 1 \notin Held(rs, c)
    BY <1>0, <1>2
  <2>3. Cardinality(Held(ss, c)) = Cardinality(Held(rs, c)) + 1
    BY <1>0, <2>1, <2>2, FS_AddElement
  <2> QED BY <1>3, <2>3 DEF ss
<1>4. CASE r.content # c
  <2>1. Held(ss, c) = Held(rs, c)
    BY <1>0, <1>1, <1>2, <1>4 DEF Held
  <2> QED BY <1>0, <1>4, <2>1 DEF ss
<1> QED BY <1>3, <1>4

(* The sequence of a finite set has every member in one place.             *)
LEMMA SequenceOfSet ==
  ASSUME NEW T, IsFiniteSet(T)
  PROVE  /\ SetToSeq(T) \in Seq(T) /\ Len(SetToSeq(T)) = Cardinality(T) /\ Cardinality(T) \in Nat
         /\ SetToSeq(T) \in Bijection(1 .. Cardinality(T), T)
<1> DEFINE n == Cardinality(T)
<1>1. n \in Nat /\ ExistsBijection(1 .. n, T)
  BY FS_CardinalityType
<1> HIDE DEF n
<1>2. \E f \in [1 .. n -> T] : IsInjective(f)
  BY <1>1 DEF ExistsBijection, Bijection, Injection
<1>3. SetToSeq(T) = CHOOSE f \in [1 .. n -> T] : IsInjective(f)
  BY DEF SetToSeq, n
<1>4. SetToSeq(T) \in [1 .. n -> T] /\ IsInjective(SetToSeq(T))
  BY <1>2, <1>3
<1>5. SetToSeq(T) \in Injection(1 .. n, T)
  BY <1>4 DEF Injection
<1>6. IsFiniteSet(1 .. n) /\ Cardinality(1 .. n) = n
  BY <1>1, FS_Interval
<1>7. SetToSeq(T) \in Surjection(1 .. n, T)
  BY <1>5, <1>6, FS_Injection DEF n
<1>8. SetToSeq(T) \in Seq(T) /\ Len(SetToSeq(T)) = n
  BY <1>1, <1>4
<1> QED BY <1>1, <1>5, <1>7, <1>8 DEF Bijection, n

Clones(rs, T, b) == [n \in DOMAIN SetToSeq(T) |-> [rs[SetToSeq(T)[n]] EXCEPT !.branch = b]]

LEMMA HeldCopies ==
  ASSUME NEW rs \in Seq(Row), NEW T \in SUBSET (DOMAIN rs), NEW b \in Branches, NEW c,
         NEW cl, cl = Clones(rs, T, b)
  PROVE  /\ cl \in Seq(Row) /\ Len(cl) \in Nat
         /\ rs \o cl \in Seq(Row) /\ Len(rs \o cl) = Len(rs) + Len(cl)
         /\ Cardinality({i \in T : rs[i].content = c}) \in Nat
         /\ Cardinality(Held(rs \o cl, c)) = Cardinality(Held(rs, c)) + Cardinality({i \in T : rs[i].content = c})
<1> DEFINE q == SetToSeq(T)
<1> DEFINE k == Cardinality(T)
<1>0. Len(rs) \in Nat /\ DOMAIN rs = 1 .. Len(rs) /\ IsFiniteSet(Held(rs, c)) /\ Held(rs, c) \subseteq 1 .. Len(rs)
      /\ Cardinality(Held(rs, c)) \in Nat
  BY HeldCount
<1>1. IsFiniteSet(T)
  <2>1. IsFiniteSet(1 .. Len(rs))
    BY <1>0, FS_Interval
  <2>2. T \in SUBSET (1 .. Len(rs))
    BY <1>0
  <2> QED BY <2>1, <2>2, FS_Subset
<1>2. k \in Nat /\ q \in Bijection(1 .. k, T)
  BY <1>1, SequenceOfSet
<1> HIDE DEF q, k
<1>3. q \in [1 .. k -> T] /\ (\A x, y \in 1 .. k : q[x] = q[y] => x = y) /\ (\A t \in T : \E x \in 1 .. k : q[x] = t)
  BY <1>2 DEF Bijection, Injection, Surjection, IsInjective
<1>4. cl = [n \in 1 .. k |-> [rs[q[n]] EXCEPT !.branch = b]]
  BY <1>3 DEF q, Clones
<1>5. ASSUME NEW n \in 1 .. k PROVE cl[n] \in Row /\ cl[n].content = rs[q[n]].content
  <2>1. rs[q[n]] \in Row
    BY <1>0, <1>3
  <2>2. cl[n] = [rs[q[n]] EXCEPT !.branch = b]
    BY <1>4
  <2> QED BY <2>1, <2>2 DEF Row
<1>6. cl \in Seq(Row) /\ Len(cl) = k
  BY <1>2, <1>4, <1>5
<1> DEFINE ss == rs \o cl
<1>7. /\ ss \in Seq(Row) /\ Len(ss) = Len(rs) + k
      /\ \A i \in 1 .. Len(rs) + k : ss[i] = IF i <= Len(rs) THEN rs[i] ELSE cl[i - Len(rs)]
  BY <1>6, ConcatProperties
<1>8. DOMAIN ss = 1 .. Len(rs) + k
  BY <1>7, LenProperties
<1> HIDE DEF ss
<1> DEFINE new == {i \in Len(rs) + 1 .. Len(rs) + k : ss[i].content = c}
<1> DEFINE olds == {i \in T : rs[i].content = c}
<1>9. Held(ss, c) = Held(rs, c) \union new /\ Held(rs, c) \intersect new = {}
  <2>1. /\ 1 .. Len(rs) + k = (1 .. Len(rs)) \union (Len(rs) + 1 .. Len(rs) + k)
        /\ (1 .. Len(rs)) \intersect (Len(rs) + 1 .. Len(rs) + k) = {}
    BY <1>0, <1>2
  <2>2. ASSUME NEW i \in 1 .. Len(rs) PROVE ss[i] = rs[i]
    <3>1. i \in 1 .. Len(rs) + k /\ i <= Len(rs)
      BY <1>0, <1>2
    <3> QED BY <1>7, <3>1
  <2> QED BY <1>0, <1>8, <2>1, <2>2 DEF Held
<1>10. IsFiniteSet(new) /\ IsFiniteSet(olds)
  <2>1. IsFiniteSet(Len(rs) + 1 .. Len(rs) + k)
    <3>1. Len(rs) + 1 \in Int /\ Len(rs) + k \in Int
      BY <1>0, <1>2
    <3> QED BY <3>1, FS_Interval
  <2>2. new \in SUBSET (Len(rs) + 1 .. Len(rs) + k) /\ olds \in SUBSET T
    OBVIOUS
  <2> HIDE DEF new, olds
  <2> QED BY <1>1, <2>1, <2>2, FS_Subset
<1>11. Cardinality(new) = Cardinality(olds)
  <2> DEFINE f == [i \in new |-> q[i - Len(rs)]]
  <2>1. ASSUME NEW i \in new
        PROVE  i - Len(rs) \in 1 .. k /\ q[i - Len(rs)] \in olds
    <3>1. i - Len(rs) \in 1 .. k /\ ~ (i <= Len(rs)) /\ i \in 1 .. Len(rs) + k
      BY <1>0, <1>2
    <3>2. ss[i].content = c
      OBVIOUS
    <3>3. ss[i] = cl[i - Len(rs)]
      BY ONLY <1>7, <3>1
    <3> QED BY <1>3, <1>5, <3>1, <3>2, <3>3
  <2>2. ASSUME NEW t \in olds PROVE \E i \in new : q[i - Len(rs)] = t
    <3>1. PICK x \in 1 .. k : q[x] = t
      BY <1>3
    <3> DEFINE i == Len(rs) + x
    <3>2. i \in Len(rs) + 1 .. Len(rs) + k /\ i - Len(rs) = x /\ ~ (i <= Len(rs)) /\ i \in 1 .. Len(rs) + k
      BY <1>0, <1>2
    <3> HIDE DEF i
    <3>3. ss[i] = cl[x]
      BY ONLY <1>7, <3>2
    <3>4. ss[i].content = c
      BY <1>5, <3>1, <3>3
    <3> QED BY <3>1, <3>2, <3>4
  <2>3. \A i, j \in new : q[i - Len(rs)] = q[j - Len(rs)] => i = j
    <3> SUFFICES ASSUME NEW i \in new, NEW j \in new, q[i - Len(rs)] = q[j - Len(rs)] PROVE i = j
      OBVIOUS
    <3>1. i - Len(rs) = j - Len(rs)
      BY <1>3, <2>1
    <3>2. i \in Int /\ j \in Int
      BY <1>0, <1>2
    <3> QED BY <1>0, <3>1, <3>2
  <2> HIDE DEF new, olds
  <2>4. f \in [new -> olds] /\ \A i \in new : f[i] = q[i - Len(rs)]
    BY <2>1
  <2>5. f \in Bijection(new, olds)
    <3> HIDE DEF f
    <3>1. f \in Injection(new, olds)
      BY <2>3, <2>4 DEF Injection, IsInjective
    <3>2. f \in Surjection(new, olds)
      BY <2>2, <2>4 DEF Surjection
    <3> QED BY <3>1, <3>2 DEF Bijection
  <2>6. ExistsBijection(new, olds)
    BY <2>5 DEF ExistsBijection
  <2> QED BY <1>10, <2>6, FS_Bijection
<1> HIDE DEF new, olds
<1>12. Cardinality(Held(ss, c)) = Cardinality(Held(rs, c)) + Cardinality(new)
  <2>1. Cardinality(Held(ss, c)) = Cardinality(Held(rs, c)) + Cardinality(new) - Cardinality(Held(rs, c) \intersect new)
    BY <1>0, <1>9, <1>10, FS_Union
  <2>2. Cardinality(Held(rs, c) \intersect new) = 0 /\ Cardinality(new) \in Nat
    BY <1>9, <1>10, FS_EmptySet, FS_CardinalityType
  <2> QED BY <1>0, <2>1, <2>2
<1>13. Cardinality(olds) \in Nat
  BY <1>10, FS_CardinalityType
<1> QED BY <1>2, <1>6, <1>7, <1>11, <1>12, <1>13 DEF ss, olds

(* The rows 1 .. n are in one place each: an entry of the chain ch, an     *)
(* operation of o, or u.                                                   *)
InOnePlace(n, ch, o, u) ==
  /\ \A id : id \in 1 .. n <=>
       \/ id \in u
       \/ \E i \in DOMAIN ch : id \in ch[i].rows
       \/ \E e \in Engines : id \in o[e].inserted
  /\ \A i, j \in DOMAIN ch : i # j => \A id : ~ (id \in ch[i].rows /\ id \in ch[j].rows)
  /\ \A d, e \in Engines : d # e => \A id : ~ (id \in o[d].inserted /\ id \in o[e].inserted)
  /\ \A i \in DOMAIN ch, e \in Engines : \A id : ~ (id \in ch[i].rows /\ id \in o[e].inserted)
  /\ \A i \in DOMAIN ch : \A id : ~ (id \in ch[i].rows /\ id \in u)
  /\ \A e \in Engines : \A id : ~ (id \in o[e].inserted /\ id \in u)

LEMMA AuditedMeans ==
  ASSUME rows \in Seq(Row)
  PROVE  RowsAudited <=> InOnePlace(Len(rows), auditChain, op, unrecorded)
<1>1. DOMAIN rows = 1 .. Len(rows)
  BY LenProperties
<1> DEFINE P == unrecorded \union (UNION {auditChain[i].rows : i \in DOMAIN auditChain})
                          \union (UNION {op[e].inserted : e \in Engines})
<1>2. ASSUME NEW id
      PROVE  id \in P <=>
               \/ id \in unrecorded
               \/ \E i \in DOMAIN auditChain : id \in auditChain[i].rows
               \/ \E e \in Engines : id \in op[e].inserted
  <2> DEFINE A == UNION {auditChain[i].rows : i \in DOMAIN auditChain}
  <2> DEFINE B == UNION {op[e].inserted : e \in Engines}
  <2>1. id \in A <=> \E i \in DOMAIN auditChain : id \in auditChain[i].rows
    BY Zenon
  <2>2. id \in B <=> \E e \in Engines : id \in op[e].inserted
    BY Zenon
  <2>3. P = unrecorded \union A \union B
    BY Zenon
  <2> HIDE DEF A, B, P
  <2>4. id \in P <=> id \in unrecorded \/ id \in A \/ id \in B
    BY <2>3
  <2> QED BY <2>1, <2>2, <2>4, Zenon
<1>3. RowsAudited <=>
        /\ DOMAIN rows = P
        /\ \A i, j \in DOMAIN auditChain : i # j => auditChain[i].rows \intersect auditChain[j].rows = {}
        /\ \A d, e \in Engines : d # e => op[d].inserted \intersect op[e].inserted = {}
        /\ \A i \in DOMAIN auditChain, e \in Engines : auditChain[i].rows \intersect op[e].inserted = {}
        /\ \A i \in DOMAIN auditChain : auditChain[i].rows \intersect unrecorded = {}
        /\ \A e \in Engines : op[e].inserted \intersect unrecorded = {}
  BY DEF RowsAudited
<1> HIDE DEF P
<1>4. DOMAIN rows = P <=> \A id : id \in 1 .. Len(rows) <=> id \in P
  BY <1>1
<1>5. \A S, T : S \intersect T = {} <=> \A id : ~ (id \in S /\ id \in T)
  OBVIOUS
<1>6. (DOMAIN rows = P) <=> \A id : id \in 1 .. Len(rows) <=>
         \/ id \in unrecorded
         \/ \E i \in DOMAIN auditChain : id \in auditChain[i].rows
         \/ \E e \in Engines : id \in op[e].inserted
  BY <1>2, <1>4, Zenon
<1> QED BY <1>3, <1>5, <1>6, Zenon DEF InOnePlace

LEMMA PlacesKept ==
  ASSUME NEW n, NEW ch, NEW o, NEW p, NEW u, InOnePlace(n, ch, o, u),
         \A x \in Engines : p[x].inserted = o[x].inserted
  PROVE  InOnePlace(n, ch, p, u)
BY DEF InOnePlace

LEMMA PlacesGrow ==
  ASSUME NEW n \in Nat, NEW k \in Nat, NEW ch, NEW o, NEW p, NEW u, NEW e \in Engines, InOnePlace(n, ch, o, u),
         \A x \in Engines : x # e => p[x].inserted = o[x].inserted,
         p[e].inserted = o[e].inserted \union (n + 1 .. n + k)
  PROVE  InOnePlace(n + k, ch, p, u)
<1> DEFINE N == n + 1 .. n + k
<1>1. \A id : id \in 1 .. n + k <=> id \in 1 .. n \/ id \in N
  OBVIOUS
<1>2. \A id : ~ (id \in 1 .. n /\ id \in N)
  OBVIOUS
<1> HIDE DEF N
<1>3. \A id : id \in p[e].inserted <=> id \in o[e].inserted \/ id \in N
  BY DEF N
<1>4. ASSUME NEW id
      PROVE  id \in 1 .. n + k <=>
               \/ id \in u
               \/ \E i \in DOMAIN ch : id \in ch[i].rows
               \/ \E x \in Engines : id \in p[x].inserted
  <2>1. (\E x \in Engines : id \in p[x].inserted) <=> id \in N \/ \E x \in Engines : id \in o[x].inserted
    BY <1>3
  <2>2. id \in 1 .. n <=>
         \/ id \in u
         \/ \E i \in DOMAIN ch : id \in ch[i].rows
         \/ \E x \in Engines : id \in o[x].inserted
    BY DEF InOnePlace
  <2> QED BY <1>1, <2>1, <2>2, Zenon
<1>5. \A id \in N : /\ id \notin u /\ \A i \in DOMAIN ch : id \notin ch[i].rows
                    /\ \A x \in Engines : id \notin o[x].inserted
  BY <1>2 DEF InOnePlace
<1>6. /\ \A i, j \in DOMAIN ch : i # j => \A id : ~ (id \in ch[i].rows /\ id \in ch[j].rows)
      /\ \A i \in DOMAIN ch : \A id : ~ (id \in ch[i].rows /\ id \in u)
  BY DEF InOnePlace
<1>7. ASSUME NEW x \in Engines, NEW y \in Engines, x # y, NEW id
      PROVE  ~ (id \in p[x].inserted /\ id \in p[y].inserted)
  BY <1>3, <1>5, <1>7 DEF InOnePlace
<1>8. ASSUME NEW x \in Engines, NEW id
      PROVE  /\ \A i \in DOMAIN ch : ~ (id \in ch[i].rows /\ id \in p[x].inserted)
             /\ ~ (id \in p[x].inserted /\ id \in u)
  BY <1>3, <1>5 DEF InOnePlace
<1> QED BY <1>4, <1>6, <1>7, <1>8 DEF InOnePlace

LEMMA PlacesFailed ==
  ASSUME NEW n, NEW ch, NEW o, NEW p, NEW u, NEW e \in Engines, InOnePlace(n, ch, o, u),
         \A x \in Engines : x # e => p[x].inserted = o[x].inserted,
         p[e].inserted = {}
  PROVE  InOnePlace(n, ch, p, u \union o[e].inserted)
<1>1. ASSUME NEW id
      PROVE  id \in 1 .. n <=>
               \/ id \in u \union o[e].inserted
               \/ \E i \in DOMAIN ch : id \in ch[i].rows
               \/ \E x \in Engines : id \in p[x].inserted
  <2>1. id \in o[e].inserted \/ (\E x \in Engines : id \in p[x].inserted) <=> \E x \in Engines : id \in o[x].inserted
    OBVIOUS
  <2> QED BY <2>1 DEF InOnePlace
<1>2. ASSUME NEW x \in Engines, NEW id, id \in p[x].inserted
      PROVE  x # e /\ id \in o[x].inserted
  BY <1>2
<1> QED BY <1>1, <1>2 DEF InOnePlace

(* The chain cr has one entry more than ch: what engine e has inserted.    *)
Grown(ch, cr, o, p, e) ==
  \E l \in Nat :
    /\ DOMAIN ch = 1 .. l /\ DOMAIN cr = 1 .. l + 1
    /\ \A i \in 1 .. l : cr[i] = ch[i]
    /\ cr[l + 1].rows = o[e].inserted
    /\ \A x \in Engines : x # e => p[x].inserted = o[x].inserted
    /\ p[e].inserted = {}

LEMMA PlacesEntered ==
  ASSUME NEW n, NEW ch, NEW cr, NEW o, NEW p, NEW u, NEW e \in Engines, InOnePlace(n, ch, o, u),
         Grown(ch, cr, o, p, e)
  PROVE  InOnePlace(n, cr, p, u)
<1>0. PICK l \in Nat :
        /\ DOMAIN ch = 1 .. l /\ DOMAIN cr = 1 .. l + 1
        /\ \A i \in 1 .. l : cr[i] = ch[i]
        /\ cr[l + 1].rows = o[e].inserted
        /\ \A x \in Engines : x # e => p[x].inserted = o[x].inserted
        /\ p[e].inserted = {}
  BY DEF Grown
<1>1. \A i : i \in DOMAIN cr <=> i \in DOMAIN ch \/ i = l + 1
  BY <1>0
<1>2. l + 1 \notin DOMAIN ch /\ l + 1 \in DOMAIN cr
  BY <1>0
<1>3. \A i \in DOMAIN ch : cr[i].rows = ch[i].rows
  BY <1>0
<1> DEFINE m == l + 1
<1> HIDE DEF m
<1>4. /\ \A i : i \in DOMAIN cr <=> i \in DOMAIN ch \/ i = m
      /\ m \notin DOMAIN ch /\ m \in DOMAIN cr /\ cr[m].rows = o[e].inserted
  BY <1>0, <1>1, <1>2 DEF m
<1>5. ASSUME NEW id
      PROVE  id \in 1 .. n <=>
               \/ id \in u
               \/ \E i \in DOMAIN cr : id \in cr[i].rows
               \/ \E x \in Engines : id \in p[x].inserted
  <2>1. id \in o[e].inserted \/ (\E x \in Engines : id \in p[x].inserted) <=> \E x \in Engines : id \in o[x].inserted
    BY <1>0
  <2>2. (\E i \in DOMAIN cr : id \in cr[i].rows) <=> id \in o[e].inserted \/ \E i \in DOMAIN ch : id \in ch[i].rows
    BY <1>3, <1>4
  <2>3. id \in 1 .. n <=>
         \/ id \in u
         \/ \E i \in DOMAIN ch : id \in ch[i].rows
         \/ \E x \in Engines : id \in o[x].inserted
    BY DEF InOnePlace
  <2> QED BY <2>1, <2>2, <2>3, Zenon
<1>6. ASSUME NEW x \in Engines, NEW id, id \in p[x].inserted
      PROVE  x # e /\ id \in o[x].inserted
  BY <1>0, <1>6
<1>7. ASSUME NEW i \in DOMAIN cr, NEW id, id \in cr[i].rows
      PROVE  (i = m /\ id \in o[e].inserted) \/ (i # m /\ i \in DOMAIN ch /\ id \in ch[i].rows)
  BY <1>3, <1>4, <1>7
<1>8. ASSUME NEW i \in DOMAIN cr, NEW j \in DOMAIN cr, i # j, NEW id
      PROVE  ~ (id \in cr[i].rows /\ id \in cr[j].rows)
  BY <1>7, <1>8 DEF InOnePlace
<1>9. ASSUME NEW i \in DOMAIN cr, NEW x \in Engines, NEW id
      PROVE  ~ (id \in cr[i].rows /\ id \in p[x].inserted)
  BY <1>6, <1>7 DEF InOnePlace
<1>10. ASSUME NEW i \in DOMAIN cr, NEW id
       PROVE  ~ (id \in cr[i].rows /\ id \in u)
  BY <1>7 DEF InOnePlace
<1>11. ASSUME NEW x \in Engines, NEW y \in Engines, x # y, NEW id
       PROVE  ~ (id \in p[x].inserted /\ id \in p[y].inserted) /\ ~ (id \in p[x].inserted /\ id \in u)
  BY <1>6, <1>11 DEF InOnePlace
<1>12. ASSUME NEW x \in Engines, NEW id PROVE ~ (id \in p[x].inserted /\ id \in u)
  BY <1>6 DEF InOnePlace
<1> QED BY <1>5, <1>8, <1>9, <1>10, <1>11, <1>12 DEF InOnePlace

LEMMA CountsMean ==
  BlobsCounted <=>
    \A c \in Large : refs[c] = Cardinality(Held(rows, c)) + leaked[c] + Cardinality(Taking(op, c))
<1>1. \A c : Of(c, DOMAIN rows) = Held(rows, c) /\ Inserting(c) = Taking(op, c)
  BY DEF Of, Held, Inserting, Taking, Takes
<1> QED BY <1>1 DEF BlobsCounted

(* While no two appends have overlapped there is one at a time, which has  *)
(* read the last entry there is.                                           *)
OneAppends ==
  ~ overlapped =>
    /\ ChainValid
    /\ \A e \in Engines : op[e].at = "append" => op[e].prev = Len(auditChain)
    /\ \A d, e \in Engines : op[d].at = "append" /\ op[e].at = "append" => d = e

(* Nothing is inserted by an engine that has not begun, or that runs a     *)
(* subagent.                                                               *)
NoneInserted == \A e \in Engines : op[e].at \in {"idle", "run"} => op[e].inserted = {}

StoreInv ==
  /\ StoreTypeOK
  /\ BlobsCounted
  /\ InOnePlace(Len(rows), auditChain, op, unrecorded)
  /\ OneAppends
  /\ NoneInserted

Statement == {"idle", "put", "ref", "row", "last", "append", "run"}

LEMMA GoingType ==
  ASSUME NEW at \in Statement, NEW todo \in Seq(Row), NEW absorb \in Seq(Row), NEW inserted \in SUBSET Nat
  PROVE  /\ Going(at, todo, absorb, inserted) \in Operation
         /\ Going(at, todo, absorb, inserted).at = at
         /\ Going(at, todo, absorb, inserted).todo = todo
         /\ Going(at, todo, absorb, inserted).absorb = absorb
         /\ Going(at, todo, absorb, inserted).inserted = inserted
BY DEF Going, Operation, Statement

LEMMA FoundType ==
  ASSUME NEW r \in Operation, NEW x \in BOOLEAN, NEW n \in Nat
  PROVE  /\ [r EXCEPT !.exists = x] \in Operation /\ [r EXCEPT !.prev = n] \in Operation
         /\ [r EXCEPT !.exists = x].at = r.at /\ [r EXCEPT !.prev = n].at = r.at
         /\ [r EXCEPT !.exists = x].todo = r.todo /\ [r EXCEPT !.prev = n].todo = r.todo
         /\ [r EXCEPT !.exists = x].inserted = r.inserted /\ [r EXCEPT !.prev = n].inserted = r.inserted
         /\ [r EXCEPT !.prev = n].prev = n
BY DEF Operation

LEMMA OperationFields ==
  ASSUME NEW r \in Operation
  PROVE  /\ r.at \in Statement /\ r.todo \in Seq(Row) /\ r.absorb \in Seq(Row)
         /\ r.inserted \in SUBSET Nat /\ r.exists \in BOOLEAN /\ r.prev \in Nat
BY DEF Operation, Statement

LEMMA FirstOfMeans ==
  ASSUME NEW todo \in Seq(Row)
  PROVE  /\ FirstOf(todo) \in {"put", "row", "last"}
         /\ FirstOf(todo) \in {"put", "row"} => todo # <<>>
         /\ FirstOf(todo) = "row" => Head(todo).content \notin Large
BY DEF FirstOf

LEMMA EngineStep ==
  ASSUME StoreTypeOK, NEW e \in Engines, NEW r \in Operation, EngineGoes(e, r)
  PROVE  /\ op' \in [Engines -> Operation] /\ op'[e] = r
         /\ \A x \in Engines : x # e => op'[x] = op[x]
BY DEF EngineGoes, StoreTypeOK

(* An engine goes on without an append.                                    *)
LEMMA OthersAppend ==
  ASSUME OneAppends, NEW e \in Engines, op'[e].at # "append",
         \A x \in Engines : x # e => op'[x] = op[x],
         UNCHANGED <<auditChain, overlapped>>
  PROVE  OneAppends'
BY DEF OneAppends, ChainValid

(* An engine goes on, and nothing is stored, counted or audited.           *)
LEMMA QuietStep ==
  ASSUME StoreInv, NEW e \in Engines, NEW r \in Operation, EngineGoes(e, r),
         UNCHANGED <<tables, leaked, unrecorded>>,
         operations' \in 0 .. MaxOperations, overlapped' \in BOOLEAN,
         r.at \in {"put", "ref", "row"} => r.todo # <<>>,
         r.inserted = op[e].inserted,
         r.at \in {"idle", "run"} => r.inserted = {},
         \A c \in Large : ~ Takes(op[e], c) /\ ~ Takes(r, c)
  PROVE  StoreTypeOK' /\ BlobsCounted' /\ InOnePlace(Len(rows), auditChain, op, unrecorded)' /\ NoneInserted'
<1>1. /\ op' \in [Engines -> Operation] /\ op'[e] = r
      /\ \A x \in Engines : x # e => op'[x] = op[x]
  BY EngineStep DEF StoreInv
<1>2. StoreTypeOK'
  BY <1>1 DEF StoreInv, StoreTypeOK, tables
<1>3. BlobsCounted'
  <2>1. \A c \in Large : refs[c] = Cardinality(Held(rows, c)) + leaked[c] + Cardinality(Taking(op, c))
    BY CountsMean DEF StoreInv
  <2>2. ASSUME NEW c \in Large
        PROVE  refs'[c] = Cardinality(Held(rows', c)) + leaked'[c] + Cardinality(Taking(op', c))
    <3>1. Cardinality(Taking(op', c)) = Cardinality(Taking(op, c))
      <4>1. Taking(op', c) = Taking(op, c)
        BY <1>1 DEF Taking
      <4> QED BY <4>1
    <3> QED BY <2>1, <3>1 DEF tables
  <2>3. (\A c \in Large : refs[c] = Cardinality(Held(rows, c)) + leaked[c] + Cardinality(Taking(op, c)))'
    BY <2>2
  <2> QED BY <2>3, CountsMean, PTL
<1>4. InOnePlace(Len(rows), auditChain, op, unrecorded)'
  <2>1. \A x \in Engines : op'[x].inserted = op[x].inserted
    BY <1>1
  <2>2. InOnePlace(Len(rows), auditChain, op', unrecorded)
    BY <2>1, PlacesKept DEF StoreInv
  <2> QED BY <2>2 DEF InOnePlace, tables
<1>5. NoneInserted'
  BY <1>1 DEF StoreInv, NoneInserted
<1> QED BY <1>2, <1>3, <1>4, <1>5

LEMMA BeginKeeps ==
  ASSUME StoreInv, NEW e \in Engines, NEW at \in {"put", "row", "last"}, NEW todo \in Seq(Row), NEW absorb \in Seq(Row),
         at \in {"put", "row"} => todo # <<>>, at = "row" => Head(todo).content \notin Large,
         Begin(e, at, todo, absorb)
  PROVE  StoreInv'
<1> DEFINE r == Going(at, todo, absorb, {})
<1>1. r \in Operation /\ r.at = at /\ r.todo = todo /\ r.inserted = {}
  BY GoingType DEF Statement
<1> HIDE DEF r
<1>2. op[e].at = "idle" /\ op[e].inserted = {}
  BY DEF Begin, StoreInv, NoneInserted
<1>3. EngineGoes(e, r) /\ UNCHANGED <<tables, leaked, unrecorded, overlapped>>
  BY DEF Begin, r
<1>4. operations' \in 0 .. MaxOperations
  BY StoreParameters DEF Begin, StoreInv, StoreTypeOK
<1>5. \A c \in Large : ~ Takes(op[e], c) /\ ~ Takes(r, c)
  BY <1>1, <1>2 DEF Takes
<1>6. StoreTypeOK' /\ BlobsCounted' /\ InOnePlace(Len(rows), auditChain, op, unrecorded)' /\ NoneInserted'
  BY <1>1, <1>2, <1>3, <1>4, <1>5, QuietStep DEF StoreInv, StoreTypeOK
<1>7. op'[e] = r /\ \A x \in Engines : x # e => op'[x] = op[x]
  BY <1>1, <1>3, EngineStep DEF StoreInv
<1>8. OneAppends'
  BY <1>1, <1>3, <1>7, OthersAppend DEF StoreInv, tables
<1> QED BY <1>6, <1>8 DEF StoreInv

LEMMA RunnerReturnsKeeps ==
  ASSUME StoreInv, NEW e \in Engines, RunnerReturns(e)
  PROVE  StoreInv'
<1>1. op[e] \in Operation /\ op[e].absorb \in Seq(Row) /\ op[e].at = "run" /\ op[e].inserted = {}
  BY OperationFields DEF StoreInv, StoreTypeOK, NoneInserted, RunnerReturns
<1> DEFINE todo == op[e].absorb
<1> DEFINE at == FirstOf(todo)
<1> DEFINE none == <<>>
<1> DEFINE r == Going(at, todo, none, {})
<1>2. at \in {"put", "row", "last"} /\ (at \in {"put", "row"} => todo # <<>>)
      /\ (at = "row" => Head(todo).content \notin Large)
  BY <1>1, FirstOfMeans
<1>4. EngineGoes(e, r) /\ UNCHANGED <<tables, operations, leaked, unrecorded, overlapped>>
  BY DEF RunnerReturns
<1>0. todo \in Seq(Row) /\ none \in Seq(Row) /\ {} \in SUBSET Nat
  BY <1>1
<1> HIDE DEF at, todo, none
<1>3. r \in Operation /\ r.at = at /\ r.todo = todo /\ r.inserted = {}
  BY <1>0, <1>2, GoingType DEF Statement
<1> HIDE DEF r
<1>5. \A c \in Large : ~ Takes(op[e], c) /\ ~ Takes(r, c)
  BY <1>1, <1>2, <1>3 DEF Takes
<1>6. StoreTypeOK' /\ BlobsCounted' /\ InOnePlace(Len(rows), auditChain, op, unrecorded)' /\ NoneInserted'
  BY <1>1, <1>2, <1>3, <1>4, <1>5, QuietStep DEF StoreInv, StoreTypeOK
<1>7. op'[e] = r /\ \A x \in Engines : x # e => op'[x] = op[x]
  BY <1>3, <1>4, EngineStep DEF StoreInv
<1>8. OneAppends'
  BY <1>2, <1>3, <1>4, <1>7, OthersAppend DEF StoreInv, tables
<1> QED BY <1>6, <1>8 DEF StoreInv

LEMMA LooksForBlobKeeps ==
  ASSUME StoreInv, NEW e \in Engines, LooksForBlob(e)
  PROVE  StoreInv'
<1>1. op[e] \in Operation /\ op[e].at = "put" /\ op[e].todo # <<>>
      /\ op[e].todo \in Seq(Row) /\ op[e].absorb \in Seq(Row) /\ op[e].inserted \in SUBSET Nat
  BY OperationFields DEF StoreInv, StoreTypeOK, LooksForBlob
<1> DEFINE g == Going("ref", op[e].todo, op[e].absorb, op[e].inserted)
<1> DEFINE found == refs[Head(op[e].todo).content] > 0
<1> DEFINE r == [g EXCEPT !.exists = found]
<1>2. g \in Operation /\ g.at = "ref" /\ g.todo = op[e].todo /\ g.inserted = op[e].inserted
  BY <1>1, GoingType DEF Statement
<1>3. found \in BOOLEAN
  OBVIOUS
<1>4. EngineGoes(e, r) /\ UNCHANGED <<tables, operations, leaked, unrecorded, overlapped>>
  BY DEF LooksForBlob
<1> HIDE DEF g, found
<1>5. r \in Operation /\ r.at = "ref" /\ r.todo = op[e].todo /\ r.inserted = op[e].inserted
  BY <1>2, <1>3, FoundType
<1> HIDE DEF r
<1>6. \A c \in Large : ~ Takes(op[e], c) /\ ~ Takes(r, c)
  BY <1>1, <1>5 DEF Takes
<1>7. StoreTypeOK' /\ BlobsCounted' /\ InOnePlace(Len(rows), auditChain, op, unrecorded)' /\ NoneInserted'
  BY <1>1, <1>4, <1>5, <1>6, QuietStep DEF StoreInv, StoreTypeOK
<1>8. op'[e] = r /\ \A x \in Engines : x # e => op'[x] = op[x]
  BY <1>4, <1>5, EngineStep DEF StoreInv
<1>9. OneAppends'
  BY <1>4, <1>5, <1>8, OthersAppend DEF StoreInv, tables
<1> QED BY <1>7, <1>9 DEF StoreInv

LEMMA ReadsLastKeeps ==
  ASSUME StoreInv, NEW e \in Engines, ReadsLast(e)
  PROVE  StoreInv'
<1>1. op[e] \in Operation /\ op[e].at = "last"
      /\ op[e].todo \in Seq(Row) /\ op[e].absorb \in Seq(Row) /\ op[e].inserted \in SUBSET Nat
  BY OperationFields DEF StoreInv, StoreTypeOK, ReadsLast
<1>2. Len(auditChain) \in Nat
  BY LenProperties DEF StoreInv, StoreTypeOK
<1> DEFINE g == Going("append", op[e].todo, op[e].absorb, op[e].inserted)
<1> DEFINE r == [g EXCEPT !.prev = Len(auditChain)]
<1>3. g \in Operation /\ g.at = "append" /\ g.todo = op[e].todo /\ g.inserted = op[e].inserted
  BY <1>1, GoingType DEF Statement
<1>4. /\ EngineGoes(e, r) /\ UNCHANGED <<tables, operations, leaked, unrecorded>>
      /\ overlapped' = (overlapped \/ \E x \in Engines : op[x].at = "append")
  BY DEF ReadsLast
<1> HIDE DEF g
<1>5. r \in Operation /\ r.at = "append" /\ r.inserted = op[e].inserted /\ r.prev = Len(auditChain)
  BY <1>2, <1>3, FoundType
<1> HIDE DEF r
<1>6. \A c \in Large : ~ Takes(op[e], c) /\ ~ Takes(r, c)
  BY <1>1, <1>5 DEF Takes
<1>7. overlapped' \in BOOLEAN
  BY <1>4
<1>8. StoreTypeOK' /\ BlobsCounted' /\ InOnePlace(Len(rows), auditChain, op, unrecorded)' /\ NoneInserted'
  BY <1>1, <1>4, <1>5, <1>6, <1>7, QuietStep DEF StoreInv, StoreTypeOK
<1>9. op'[e] = r /\ \A x \in Engines : x # e => op'[x] = op[x]
  BY <1>4, <1>5, EngineStep DEF StoreInv
<1>10. OneAppends'
  <2> SUFFICES ASSUME ~ overlapped'
               PROVE  /\ ChainValid'
                      /\ \A x \in Engines : op'[x].at = "append" => op'[x].prev = Len(auditChain')
                      /\ \A d, x \in Engines : op'[d].at = "append" /\ op'[x].at = "append" => d = x
    BY DEF OneAppends
  <2>1. ~ overlapped /\ \A x \in Engines : op[x].at # "append"
    BY <1>4
  <2>2. ChainValid /\ auditChain' = auditChain
    BY <1>4, <2>1 DEF StoreInv, OneAppends, tables
  <2> QED BY <1>5, <1>9, <2>1, <2>2 DEF ChainValid
<1> QED BY <1>8, <1>10 DEF StoreInv

LEMMA TakesReferenceKeeps ==
  ASSUME StoreInv, NEW e \in Engines, TakesReference(e)
  PROVE  StoreInv'
<1>1. op[e] \in Operation /\ op[e].at = "ref" /\ op[e].todo # <<>>
      /\ op[e].todo \in Seq(Row) /\ op[e].absorb \in Seq(Row) /\ op[e].inserted \in SUBSET Nat
  BY OperationFields DEF StoreInv, StoreTypeOK, TakesReference
<1> DEFINE r == Going("row", op[e].todo, op[e].absorb, op[e].inserted)
<1> DEFINE k == Head(op[e].todo).content
<1>2. r \in Operation /\ r.at = "row" /\ r.todo = op[e].todo /\ r.inserted = op[e].inserted
  BY <1>1, GoingType DEF Statement
<1>3. /\ EngineGoes(e, r) /\ refs' = [refs EXCEPT ![k] = @ + 1]
      /\ UNCHANGED <<rows, branches, auditChain, operations, leaked, unrecorded, overlapped>>
  BY DEF TakesReference
<1> HIDE DEF r, k
<1>4. op' \in [Engines -> Operation] /\ op'[e] = r /\ \A x \in Engines : x # e => op'[x] = op[x]
  BY <1>2, <1>3, EngineStep DEF StoreInv
<1>5. refs \in [Large -> Nat] /\ leaked \in [Large -> Nat] /\ rows \in Seq(Row)
  BY DEF StoreInv, StoreTypeOK
<1>6. refs' \in [Large -> Nat] /\ \A c \in Large : refs'[c] = refs[c] + (IF c = k THEN 1 ELSE 0)
  <2>1. ASSUME NEW c \in Large PROVE refs'[c] \in Nat /\ refs'[c] = refs[c] + (IF c = k THEN 1 ELSE 0)
    <3>1. refs'[c] = IF c = k THEN refs[c] + 1 ELSE refs[c]
      BY <1>3, <1>5
    <3>2. refs[c] \in Nat
      BY <1>5
    <3> QED BY <3>1, <3>2
  <2>2. refs' = [c \in Large |-> refs'[c]]
    BY <1>3, <1>5
  <2> QED BY <2>1, <2>2
<1>7. StoreTypeOK'
  BY <1>1, <1>2, <1>3, <1>4, <1>6 DEF StoreInv, StoreTypeOK
<1>8. BlobsCounted'
  <2>1. \A c \in Large : refs[c] = Cardinality(Held(rows, c)) + leaked[c] + Cardinality(Taking(op, c))
    BY CountsMean DEF StoreInv
  <2>2. ASSUME NEW c \in Large
        PROVE  refs'[c] = Cardinality(Held(rows', c)) + leaked'[c] + Cardinality(Taking(op', c))
    <3>1. ~ Takes(op[e], c) /\ (Takes(op'[e], c) <=> c = k)
      BY <1>1, <1>2, <1>4 DEF Takes, k
    <3>2. /\ Cardinality(Taking(op, c)) \in Nat /\ Cardinality(Taking(op', c)) \in Nat
          /\ Cardinality(Taking(op', c)) + (IF Takes(op[e], c) THEN 1 ELSE 0)
               = Cardinality(Taking(op, c)) + (IF Takes(op'[e], c) THEN 1 ELSE 0)
      BY <1>4, TakingCount
    <3>3. Cardinality(Taking(op', c)) = Cardinality(Taking(op, c)) + (IF c = k THEN 1 ELSE 0)
      BY <3>1, <3>2
    <3>4. Cardinality(Held(rows, c)) \in Nat /\ leaked[c] \in Nat
      BY <1>5, HeldCount
    <3>5. refs[c] = Cardinality(Held(rows, c)) + leaked[c] + Cardinality(Taking(op, c))
      BY <2>1
    <3>6. refs'[c] = refs[c] + (IF c = k THEN 1 ELSE 0)
      BY <1>6
    <3> QED BY <1>3, <3>2, <3>3, <3>4, <3>5, <3>6
  <2>3. (\A c \in Large : refs[c] = Cardinality(Held(rows, c)) + leaked[c] + Cardinality(Taking(op, c)))'
    BY <2>2
  <2> QED BY <2>3, CountsMean, PTL
<1>9. InOnePlace(Len(rows), auditChain, op, unrecorded)'
  <2>1. \A x \in Engines : op'[x].inserted = op[x].inserted
    BY <1>2, <1>4
  <2>2. InOnePlace(Len(rows), auditChain, op', unrecorded)
    BY <2>1, PlacesKept DEF StoreInv
  <2> QED BY <1>3, <2>2 DEF InOnePlace
<1>10. NoneInserted'
  BY <1>2, <1>4 DEF StoreInv, NoneInserted
<1>11. OneAppends'
  BY <1>2, <1>3, <1>4, OthersAppend DEF StoreInv
<1> QED BY <1>7, <1>8, <1>9, <1>10, <1>11 DEF StoreInv

LEMMA InsertsRowKeeps ==
  ASSUME StoreInv, NEW e \in Engines, InsertsRow(e)
  PROVE  StoreInv'
<1>1. op[e] \in Operation /\ op[e].at = "row" /\ op[e].todo # <<>>
      /\ op[e].todo \in Seq(Row) /\ op[e].absorb \in Seq(Row) /\ op[e].inserted \in SUBSET Nat
  BY OperationFields DEF StoreInv, StoreTypeOK, InsertsRow
<1> DEFINE h == Head(op[e].todo)
<1> DEFINE rest == Tail(op[e].todo)
<1> DEFINE at == FirstOf(rest)
<1> DEFINE ids == op[e].inserted \union {Len(rows) + 1}
<1> DEFINE r == Going(at, rest, op[e].absorb, ids)
<1>2. h \in Row /\ rest \in Seq(Row)
  BY <1>1, HeadTailProperties
<1>3. at \in {"put", "row", "last"} /\ (at \in {"put", "row"} => rest # <<>>)
      /\ (at = "row" => Head(rest).content \notin Large)
  BY <1>2, FirstOfMeans
<1>4. /\ EngineGoes(e, r) /\ rows' = Append(rows, h)
      /\ UNCHANGED <<refs, branches, auditChain, operations, leaked, unrecorded, overlapped>>
  BY DEF InsertsRow
<1>5. refs \in [Large -> Nat] /\ leaked \in [Large -> Nat] /\ rows \in Seq(Row) /\ Len(rows) \in Nat
  BY LenProperties DEF StoreInv, StoreTypeOK
<1>6. ids \in SUBSET Nat
  BY <1>1, <1>5
<1>7. \A c : Takes(op[e], c) <=> c = h.content
  BY <1>1 DEF Takes
<1> HIDE DEF at, rest, ids, h
<1>8. r \in Operation /\ r.at = at /\ r.todo = rest /\ r.inserted = ids
  BY <1>1, <1>2, <1>3, <1>6, GoingType DEF Statement
<1> HIDE DEF r
<1>9. op' \in [Engines -> Operation] /\ op'[e] = r /\ \A x \in Engines : x # e => op'[x] = op[x]
  BY <1>4, <1>8, EngineStep DEF StoreInv
<1>10. rows' \in Seq(Row) /\ Len(rows') = Len(rows) + 1
  BY <1>2, <1>4, <1>5, AppendProperties
<1>11. StoreTypeOK'
  BY <1>3, <1>4, <1>8, <1>9, <1>10 DEF StoreInv, StoreTypeOK
<1>12. BlobsCounted'
  <2>1. \A c \in Large : refs[c] = Cardinality(Held(rows, c)) + leaked[c] + Cardinality(Taking(op, c))
    BY CountsMean DEF StoreInv
  <2>2. ASSUME NEW c \in Large
        PROVE  refs'[c] = Cardinality(Held(rows', c)) + leaked'[c] + Cardinality(Taking(op', c))
    <3>1. (Takes(op[e], c) <=> h.content = c) /\ ~ Takes(op'[e], c)
      BY <1>3, <1>7, <1>8, <1>9 DEF Takes
    <3>2. /\ Cardinality(Taking(op, c)) \in Nat /\ Cardinality(Taking(op', c)) \in Nat
          /\ Cardinality(Taking(op', c)) + (IF Takes(op[e], c) THEN 1 ELSE 0)
               = Cardinality(Taking(op, c)) + (IF Takes(op'[e], c) THEN 1 ELSE 0)
      BY <1>9, TakingCount
    <3>3. Cardinality(Taking(op', c)) + (IF h.content = c THEN 1 ELSE 0) = Cardinality(Taking(op, c))
      BY <3>1, <3>2
    <3>4. Cardinality(Held(rows, c)) \in Nat /\ leaked[c] \in Nat
      BY <1>5, HeldCount
    <3>5. refs[c] = Cardinality(Held(rows, c)) + leaked[c] + Cardinality(Taking(op, c))
      BY <2>1
    <3>6. Cardinality(Held(rows', c)) = Cardinality(Held(rows, c)) + (IF h.content = c THEN 1 ELSE 0)
      BY <1>2, <1>4, <1>5, HeldAppend
    <3>7. refs' = refs /\ leaked' = leaked
      BY <1>4
    <3>8. CASE h.content = c
      BY <3>2, <3>3, <3>4, <3>5, <3>6, <3>7, <3>8
    <3>9. CASE h.content # c
      BY <3>2, <3>3, <3>4, <3>5, <3>6, <3>7, <3>9
    <3> QED BY <3>8, <3>9
  <2>3. (\A c \in Large : refs[c] = Cardinality(Held(rows, c)) + leaked[c] + Cardinality(Taking(op, c)))'
    BY <2>2
  <2> QED BY <2>3, CountsMean, PTL
<1>13. InOnePlace(Len(rows), auditChain, op, unrecorded)'
  <2>1. \A x \in Engines : x # e => op'[x].inserted = op[x].inserted
    BY <1>9
  <2>2. op'[e].inserted = op[e].inserted \union (Len(rows) + 1 .. Len(rows) + 1)
    BY <1>5, <1>8, <1>9 DEF ids
  <2>3. InOnePlace(Len(rows) + 1, auditChain, op', unrecorded)
    BY <1>5, <2>1, <2>2, PlacesGrow DEF StoreInv
  <2> QED BY <1>4, <1>10, <2>3 DEF InOnePlace
<1>14. NoneInserted'
  BY <1>3, <1>8, <1>9 DEF StoreInv, NoneInserted
<1>15. OneAppends'
  BY <1>3, <1>4, <1>8, <1>9, OthersAppend DEF StoreInv
<1> QED BY <1>11, <1>12, <1>13, <1>14, <1>15 DEF StoreInv

LEMMA CreateBranchKeeps ==
  ASSUME StoreInv, NEW e \in Engines, NEW parent \in Branches, NEW b \in Branches, NEW tiers,
         CreateBranch(e, parent, b, tiers)
  PROVE  StoreInv'
<1> DEFINE T == Copied(parent, tiers)
<1> DEFINE clones == Clones(rows, T, b)
<1> DEFINE ids == Len(rows) + 1 .. Len(rows) + Len(clones)
<1> DEFINE none == <<>>
<1> DEFINE r == Going("last", none, none, ids)
<1>1. op[e].at = "idle" /\ op[e].inserted = {}
  BY DEF CreateBranch, StoreInv, NoneInserted
<1>2. /\ EngineGoes(e, r) /\ rows' = rows \o clones
      /\ refs' = [c \in Large |-> refs[c] + Cardinality(Of(c, T))]
      /\ branches' = branches \union {b}
      /\ operations < MaxOperations /\ operations' = operations + 1
      /\ UNCHANGED <<auditChain, leaked, unrecorded, overlapped>>
  BY DEF CreateBranch, Clones
<1>3. refs \in [Large -> Nat] /\ leaked \in [Large -> Nat] /\ rows \in Seq(Row) /\ Len(rows) \in Nat
  BY LenProperties DEF StoreInv, StoreTypeOK
<1>4. T \in SUBSET (DOMAIN rows) /\ \A c : Of(c, T) = {i \in T : rows[i].content = c}
  BY DEF Copied, Of
<1> HIDE DEF T
<1>5. ASSUME NEW c
      PROVE  /\ clones \in Seq(Row) /\ Len(clones) \in Nat
             /\ rows \o clones \in Seq(Row) /\ Len(rows \o clones) = Len(rows) + Len(clones)
             /\ Cardinality(Of(c, T)) \in Nat
             /\ Cardinality(Held(rows \o clones, c)) = Cardinality(Held(rows, c)) + Cardinality(Of(c, T))
  <2>1. ASSUME NEW rs \in Seq(Row), NEW X \in SUBSET (DOMAIN rs)
        PROVE  /\ Clones(rs, X, b) \in Seq(Row) /\ Len(Clones(rs, X, b)) \in Nat
               /\ rs \o Clones(rs, X, b) \in Seq(Row)
               /\ Len(rs \o Clones(rs, X, b)) = Len(rs) + Len(Clones(rs, X, b))
               /\ Cardinality({i \in X : rs[i].content = c}) \in Nat
               /\ Cardinality(Held(rs \o Clones(rs, X, b), c))
                    = Cardinality(Held(rs, c)) + Cardinality({i \in X : rs[i].content = c})
    BY HeldCopies
  <2> QED BY <1>3, <1>4, <2>1
<1> HIDE DEF clones
<1>6. ids \in SUBSET Nat /\ none \in Seq(Row)
  BY <1>3, <1>5
<1> HIDE DEF ids, none
<1>7. r \in Operation /\ r.at = "last" /\ r.inserted = ids
  BY <1>6, GoingType DEF Statement
<1> HIDE DEF r
<1>8. op' \in [Engines -> Operation] /\ op'[e] = r /\ \A x \in Engines : x # e => op'[x] = op[x]
  BY <1>2, <1>7, EngineStep DEF StoreInv
<1>9. refs' \in [Large -> Nat] /\ \A c \in Large : refs'[c] = refs[c] + Cardinality(Of(c, T))
  BY <1>2, <1>3, <1>5
<1>10. rows' \in Seq(Row) /\ Len(rows') = Len(rows) + Len(clones)
  BY <1>2, <1>5
<1>11. StoreTypeOK'
  <2>1. operations' \in 0 .. MaxOperations
    BY <1>2, StoreParameters DEF StoreInv, StoreTypeOK
  <2> QED BY <1>2, <1>7, <1>8, <1>9, <1>10, <2>1 DEF StoreInv, StoreTypeOK
<1>12. BlobsCounted'
  <2>1. \A c \in Large : refs[c] = Cardinality(Held(rows, c)) + leaked[c] + Cardinality(Taking(op, c))
    BY CountsMean DEF StoreInv
  <2>2. ASSUME NEW c \in Large
        PROVE  refs'[c] = Cardinality(Held(rows', c)) + leaked'[c] + Cardinality(Taking(op', c))
    <3>1. ~ Takes(op[e], c) /\ ~ Takes(op'[e], c)
      BY <1>1, <1>7, <1>8 DEF Takes
    <3>2. Taking(op', c) = Taking(op, c)
      BY <1>8, <3>1 DEF Taking
    <3>3. Cardinality(Taking(op, c)) \in Nat
      BY <1>8, TakingCount
    <3>4. Cardinality(Held(rows, c)) \in Nat /\ leaked[c] \in Nat /\ Cardinality(Of(c, T)) \in Nat
      BY <1>3, <1>5, HeldCount
    <3>5. refs[c] = Cardinality(Held(rows, c)) + leaked[c] + Cardinality(Taking(op, c))
      BY <2>1
    <3>6. Cardinality(Held(rows', c)) = Cardinality(Held(rows, c)) + Cardinality(Of(c, T))
      BY <1>2, <1>5
    <3>7. refs'[c] = refs[c] + Cardinality(Of(c, T)) /\ leaked' = leaked
      BY <1>2, <1>9
    <3> QED BY <3>2, <3>3, <3>4, <3>5, <3>6, <3>7
  <2>3. (\A c \in Large : refs[c] = Cardinality(Held(rows, c)) + leaked[c] + Cardinality(Taking(op, c)))'
    BY <2>2
  <2> QED BY <2>3, CountsMean, PTL
<1>13. InOnePlace(Len(rows), auditChain, op, unrecorded)'
  <2>1. \A x \in Engines : x # e => op'[x].inserted = op[x].inserted
    BY <1>8
  <2>2. op'[e].inserted = op[e].inserted \union (Len(rows) + 1 .. Len(rows) + Len(clones))
    BY <1>1, <1>7, <1>8 DEF ids
  <2>3. Len(clones) \in Nat
    BY <1>5
  <2>4. InOnePlace(Len(rows) + Len(clones), auditChain, op', unrecorded)
    BY <1>3, <2>1, <2>2, <2>3, PlacesGrow DEF StoreInv
  <2> QED BY <1>2, <1>10, <2>4 DEF InOnePlace
<1>14. NoneInserted'
  BY <1>7, <1>8 DEF StoreInv, NoneInserted
<1>15. OneAppends'
  BY <1>2, <1>7, <1>8, OthersAppend DEF StoreInv
<1> QED BY <1>11, <1>12, <1>13, <1>14, <1>15 DEF StoreInv

LEMMA AppendsKeeps ==
  ASSUME StoreInv, NEW e \in Engines, Appends(e)
  PROVE  StoreInv'
<1>1. op[e] \in Operation /\ op[e].at = "append" /\ op[e].absorb \in Seq(Row)
      /\ op[e].inserted \in SUBSET Nat /\ op[e].prev \in Nat
  BY OperationFields DEF StoreInv, StoreTypeOK, Appends
<1> DEFINE none == <<>>
<1> DEFINE ran == Going("run", none, op[e].absorb, {})
<1> DEFINE done == Going("idle", none, none, {})
<1> DEFINE r == IF op[e].absorb = <<>> THEN done ELSE ran
<1> DEFINE entry == [prev |-> op[e].prev, rows |-> op[e].inserted]
<1>2. /\ EngineGoes(e, r) /\ auditChain' = Append(auditChain, entry)
      /\ UNCHANGED <<rows, refs, branches, operations, leaked, unrecorded, overlapped>>
  BY DEF Appends, NoOp
<1>3. none \in Seq(Row) /\ {} \in SUBSET Nat
  OBVIOUS
<1> HIDE DEF none
<1>4. ran \in Operation /\ ran.at = "run" /\ ran.inserted = {} /\ done \in Operation /\ done.at = "idle" /\ done.inserted = {}
  BY <1>1, <1>3, GoingType DEF Statement
<1> HIDE DEF ran, done
<1>5. r \in Operation /\ r.at \in {"idle", "run"} /\ r.inserted = {}
  BY <1>4
<1> HIDE DEF r
<1>6. op' \in [Engines -> Operation] /\ op'[e] = r /\ \A x \in Engines : x # e => op'[x] = op[x]
  BY <1>2, <1>5, EngineStep DEF StoreInv
<1> DEFINE Entry == [prev : Nat, rows : SUBSET Nat]
<1>7. entry \in Entry /\ entry.rows = op[e].inserted /\ entry.prev = op[e].prev
  BY <1>1
<1>8. auditChain \in Seq(Entry) /\ Len(auditChain) \in Nat /\ DOMAIN auditChain = 1 .. Len(auditChain)
  BY LenProperties DEF StoreInv, StoreTypeOK
<1> HIDE DEF entry, Entry
<1>9. /\ auditChain' \in Seq(Entry) /\ DOMAIN auditChain' = 1 .. Len(auditChain) + 1
      /\ \A i \in 1 .. Len(auditChain) : auditChain'[i] = auditChain[i]
      /\ auditChain'[Len(auditChain) + 1] = entry
  BY <1>2, <1>7, <1>8, AppendProperties, LenProperties
<1>10. StoreTypeOK'
  BY <1>2, <1>5, <1>6, <1>9 DEF StoreInv, StoreTypeOK, Entry
<1>11. BlobsCounted'
  <2>1. \A c \in Large : refs[c] = Cardinality(Held(rows, c)) + leaked[c] + Cardinality(Taking(op, c))
    BY CountsMean DEF StoreInv
  <2>2. \A c \in Large : Taking(op', c) = Taking(op, c)
    BY <1>1, <1>5, <1>6 DEF Taking, Takes
  <2>3. (\A c \in Large : refs[c] = Cardinality(Held(rows, c)) + leaked[c] + Cardinality(Taking(op, c)))'
    BY <1>2, <2>1, <2>2
  <2> QED BY <2>3, CountsMean, PTL
<1>12. InOnePlace(Len(rows), auditChain, op, unrecorded)'
  <2>1. /\ \A x \in Engines : x # e => op'[x].inserted = op[x].inserted
        /\ op'[e].inserted = {}
    BY <1>5, <1>6
  <2>2. InOnePlace(Len(rows), auditChain', op', unrecorded)
    <3> DEFINE l == Len(auditChain)
    <3> DEFINE cr == auditChain'
    <3> DEFINE p == op'
    <3>1. /\ l \in Nat /\ DOMAIN auditChain = 1 .. l /\ DOMAIN cr = 1 .. l + 1
          /\ \A i \in 1 .. l : cr[i] = auditChain[i]
          /\ cr[l + 1].rows = op[e].inserted
          /\ \A x \in Engines : x # e => p[x].inserted = op[x].inserted
          /\ p[e].inserted = {}
      BY <1>7, <1>8, <1>9, <2>1
    <3>2. InOnePlace(Len(rows), auditChain, op, unrecorded)
      BY DEF StoreInv
    <3> HIDE DEF l, cr, p
    <3>3. Grown(auditChain, cr, op, p, e)
      BY <3>1 DEF Grown
    <3>4. InOnePlace(Len(rows), cr, p, unrecorded)
      BY <3>2, <3>3, PlacesEntered
    <3> QED BY <3>4 DEF cr, p
  <2> QED BY <1>2, <2>2 DEF InOnePlace
<1>13. NoneInserted'
  BY <1>5, <1>6 DEF StoreInv, NoneInserted
<1>14. OneAppends'
  <2> SUFFICES ASSUME ~ overlapped'
               PROVE  /\ ChainValid'
                      /\ \A x \in Engines : op'[x].at = "append" => op'[x].prev = Len(auditChain')
                      /\ \A d, x \in Engines : op'[d].at = "append" /\ op'[x].at = "append" => d = x
    BY DEF OneAppends
  <2>1. /\ ChainValid /\ op[e].prev = Len(auditChain)
        /\ \A x \in Engines : op[x].at = "append" => x = e
    BY <1>1, <1>2 DEF StoreInv, OneAppends
  <2>2. \A x \in Engines : op'[x].at # "append"
    BY <1>5, <1>6, <2>1
  <2>3. ASSUME NEW i \in DOMAIN auditChain' PROVE auditChain'[i].prev = i - 1
    <3>1. CASE i = Len(auditChain) + 1
      BY <1>7, <1>8, <1>9, <2>1, <3>1
    <3>2. CASE i # Len(auditChain) + 1
      <4>1. i \in DOMAIN auditChain /\ auditChain'[i] = auditChain[i]
        BY <1>8, <1>9, <3>2
      <4> QED BY <2>1, <4>1 DEF ChainValid
    <3> QED BY <3>1, <3>2
  <2> QED BY <2>2, <2>3 DEF ChainValid
<1> QED BY <1>10, <1>11, <1>12, <1>13, <1>14 DEF StoreInv

LEMMA StoreFailsKeeps ==
  ASSUME StoreInv, NEW e \in Engines, StoreFails(e)
  PROVE  StoreInv'
<1>1. op[e] \in Operation /\ op[e].inserted \in SUBSET Nat
  BY OperationFields DEF StoreInv, StoreTypeOK
<1> DEFINE none == <<>>
<1> DEFINE r == Going("idle", none, none, {})
<1>2. /\ EngineGoes(e, r)
      /\ leaked' = [c \in Large |-> leaked[c] + (IF op[e].at = "row" /\ Head(op[e].todo).content = c THEN 1 ELSE 0)]
      /\ unrecorded' = unrecorded \union op[e].inserted
      /\ UNCHANGED <<tables, operations, overlapped>>
  BY DEF StoreFails, NoOp
<1>3. none \in Seq(Row) /\ {} \in SUBSET Nat
  OBVIOUS
<1> HIDE DEF none
<1>4. r \in Operation /\ r.at = "idle" /\ r.inserted = {}
  BY <1>3, GoingType DEF Statement
<1> HIDE DEF r
<1>5. op' \in [Engines -> Operation] /\ op'[e] = r /\ \A x \in Engines : x # e => op'[x] = op[x]
  BY <1>2, <1>4, EngineStep DEF StoreInv
<1>6. refs \in [Large -> Nat] /\ leaked \in [Large -> Nat] /\ rows \in Seq(Row) /\ unrecorded \subseteq Nat
  BY DEF StoreInv, StoreTypeOK
<1>7. leaked' \in [Large -> Nat] /\ \A c \in Large : leaked'[c] = leaked[c] + (IF Takes(op[e], c) THEN 1 ELSE 0)
  <2>1. \A c : Takes(op[e], c) <=> op[e].at = "row" /\ Head(op[e].todo).content = c
    BY DEF Takes
  <2>2. ASSUME NEW c \in Large PROVE leaked'[c] \in Nat /\ leaked'[c] = leaked[c] + (IF Takes(op[e], c) THEN 1 ELSE 0)
    <3>1. leaked'[c] = leaked[c] + (IF op[e].at = "row" /\ Head(op[e].todo).content = c THEN 1 ELSE 0)
      BY <1>2
    <3>2. leaked[c] \in Nat
      BY <1>6
    <3> QED BY <2>1, <3>1, <3>2
  <2>3. leaked' = [c \in Large |-> leaked'[c]]
    BY <1>2
  <2> QED BY <2>2, <2>3
<1>8. StoreTypeOK'
  BY <1>1, <1>2, <1>4, <1>5, <1>6, <1>7 DEF StoreInv, StoreTypeOK, tables
<1>9. BlobsCounted'
  <2>1. \A c \in Large : refs[c] = Cardinality(Held(rows, c)) + leaked[c] + Cardinality(Taking(op, c))
    BY CountsMean DEF StoreInv
  <2>2. ASSUME NEW c \in Large
        PROVE  refs'[c] = Cardinality(Held(rows', c)) + leaked'[c] + Cardinality(Taking(op', c))
    <3>1. ~ Takes(op'[e], c)
      BY <1>4, <1>5 DEF Takes
    <3>2. /\ Cardinality(Taking(op, c)) \in Nat /\ Cardinality(Taking(op', c)) \in Nat
          /\ Cardinality(Taking(op', c)) + (IF Takes(op[e], c) THEN 1 ELSE 0)
               = Cardinality(Taking(op, c)) + (IF Takes(op'[e], c) THEN 1 ELSE 0)
      BY <1>5, TakingCount
    <3>3. Cardinality(Held(rows, c)) \in Nat /\ leaked[c] \in Nat
      BY <1>6, HeldCount
    <3>4. refs[c] = Cardinality(Held(rows, c)) + leaked[c] + Cardinality(Taking(op, c))
      BY <2>1
    <3>5. leaked'[c] = leaked[c] + (IF Takes(op[e], c) THEN 1 ELSE 0)
      BY <1>7
    <3>6. refs' = refs /\ rows' = rows
      BY <1>2 DEF tables
    <3>7. CASE Takes(op[e], c)
      BY <3>1, <3>2, <3>3, <3>4, <3>5, <3>6, <3>7
    <3>8. CASE ~ Takes(op[e], c)
      BY <3>1, <3>2, <3>3, <3>4, <3>5, <3>6, <3>8
    <3> QED BY <3>7, <3>8
  <2>3. (\A c \in Large : refs[c] = Cardinality(Held(rows, c)) + leaked[c] + Cardinality(Taking(op, c)))'
    BY <2>2
  <2> QED BY <2>3, CountsMean, PTL
<1>10. InOnePlace(Len(rows), auditChain, op, unrecorded)'
  <2>1. /\ \A x \in Engines : x # e => op'[x].inserted = op[x].inserted
        /\ op'[e].inserted = {}
    BY <1>4, <1>5
  <2>2. InOnePlace(Len(rows), auditChain, op', unrecorded \union op[e].inserted)
    BY <2>1, PlacesFailed DEF StoreInv
  <2> QED BY <1>2, <2>2 DEF InOnePlace, tables
<1>11. NoneInserted'
  BY <1>4, <1>5 DEF StoreInv, NoneInserted
<1>12. OneAppends'
  BY <1>2, <1>4, <1>5, OthersAppend DEF StoreInv, tables
<1> QED BY <1>8, <1>9, <1>10, <1>11, <1>12 DEF StoreInv

LEMMA StoreStep ==
  ASSUME StoreInv, StoreNext
  PROVE  StoreInv'
<1>1. PICK e \in Engines :
        \/ \E r \in Row : r.tier = "T1" /\ ~ r.protected /\ Write(e, r)
        \/ \E i \in DOMAIN rows, to \in {"branch", "project"}, b \in Branches : Promote(e, rows[i], to, b)
        \/ \E c \in Contents, b \in Branches : InvokeSubagent(e, c, b)
        \/ RunnerReturns(e)
        \/ LooksForBlob(e)
        \/ TakesReference(e)
        \/ InsertsRow(e)
        \/ \E p, b \in Branches, tiers \in {{"T1"}, Tiers} : CreateBranch(e, p, b, tiers)
        \/ ReadsLast(e)
        \/ Appends(e)
        \/ StoreFails(e)
  BY DEF StoreNext
<1>2. ASSUME NEW r \in Row, Begin(e, FirstOf(<<r>>), <<r>>, <<>>) PROVE StoreInv'
  <2> DEFINE todo == <<r>>
  <2> DEFINE none == <<>>
  <2> DEFINE at == FirstOf(todo)
  <2>1. todo \in Seq(Row) /\ none \in Seq(Row)
    OBVIOUS
  <2>2. Begin(e, at, todo, none)
    BY <1>2
  <2> HIDE DEF todo, none
  <2>3. at \in {"put", "row", "last"} /\ (at \in {"put", "row"} => todo # <<>>)
        /\ (at = "row" => Head(todo).content \notin Large)
    BY <2>1, FirstOfMeans
  <2> HIDE DEF at
  <2> QED BY <2>1, <2>2, <2>3, BeginKeeps
<1>3. CASE \E r \in Row : r.tier = "T1" /\ ~ r.protected /\ Write(e, r)
  BY <1>2, <1>3 DEF Write
<1>4. CASE \E i \in DOMAIN rows, to \in {"branch", "project"}, b \in Branches : Promote(e, rows[i], to, b)
  <2>1. PICK i \in DOMAIN rows, to \in {"branch", "project"}, b \in Branches : Promote(e, rows[i], to, b)
    BY <1>4
  <2> DEFINE copy == [content |-> rows[i].content, branch |-> IF to = "branch" THEN b ELSE rows[i].branch,
                      level |-> to, tier |-> rows[i].tier, protected |-> FALSE]
  <2>2. rows[i] \in Row
    BY ElementOfSeq, LenProperties DEF StoreInv, StoreTypeOK
  <2>3. copy \in Row
    BY <2>2 DEF Row, MemoryLevels
  <2>4. Begin(e, FirstOf(<<copy>>), <<copy>>, <<>>)
    BY <2>1 DEF Promote
  <2> HIDE DEF copy
  <2> QED BY <1>2, <2>3, <2>4
<1>5. CASE \E c \in Contents, b \in Branches : InvokeSubagent(e, c, b)
  <2>1. PICK c \in Contents, b \in Branches : InvokeSubagent(e, c, b)
    BY <1>5
  <2> DEFINE Return(tier) == [content |-> c, branch |-> b, level |-> "session", tier |-> tier, protected |-> TRUE]
  <2> DEFINE absorb == <<Return("T1"), Return("T2")>>
  <2> DEFINE none == <<>>
  <2>2. Return("T1") \in Row /\ Return("T2") \in Row
    BY StoreParameters DEF Row, MemoryLevels
  <2>3. Begin(e, "last", none, absorb)
    BY <2>1 DEF InvokeSubagent
  <2> HIDE DEF Return
  <2>4. absorb \in Seq(Row) /\ none \in Seq(Row)
    BY <2>2
  <2> HIDE DEF absorb, none
  <2> QED BY <2>3, <2>4, BeginKeeps
<1>6. CASE RunnerReturns(e)
  BY <1>6, RunnerReturnsKeeps
<1>7. CASE LooksForBlob(e)
  BY <1>7, LooksForBlobKeeps
<1>8. CASE TakesReference(e)
  BY <1>8, TakesReferenceKeeps
<1>9. CASE InsertsRow(e)
  BY <1>9, InsertsRowKeeps
<1>10. CASE \E p, b \in Branches, tiers \in {{"T1"}, Tiers} : CreateBranch(e, p, b, tiers)
  BY <1>10, CreateBranchKeeps
<1>11. CASE ReadsLast(e)
  BY <1>11, ReadsLastKeeps
<1>12. CASE Appends(e)
  BY <1>12, AppendsKeeps
<1>13. CASE StoreFails(e)
  BY <1>13, StoreFailsKeeps
<1> QED BY <1>1, <1>3, <1>4, <1>5, <1>6, <1>7, <1>8, <1>9, <1>10, <1>11, <1>12, <1>13

LEMMA StoreBegins ==
  ASSUME StoreInit
  PROVE  StoreInv
<1> DEFINE none == <<>>
<1>1. /\ rows = <<>> /\ refs = [c \in Large |-> 0] /\ branches = {Root} /\ auditChain = <<>>
      /\ op = [e \in Engines |-> Going("idle", none, none, {})] /\ operations = 0
      /\ leaked = [c \in Large |-> 0] /\ unrecorded = {} /\ overlapped = FALSE
  BY DEF StoreInit, NoOp
<1>2. none \in Seq(Row)
  OBVIOUS
<1> HIDE DEF none
<1> DEFINE r == Going("idle", none, none, {})
<1>3. r \in Operation /\ r.at = "idle" /\ r.inserted = {}
  BY <1>2, GoingType DEF Statement
<1> HIDE DEF r
<1>4. op \in [Engines -> Operation] /\ \A e \in Engines : op[e].at = "idle" /\ op[e].inserted = {}
  BY <1>1, <1>3 DEF r
<1>5. Len(rows) = 0 /\ DOMAIN rows = {} /\ DOMAIN auditChain = {} /\ rows \in Seq(Row)
      /\ auditChain \in Seq([prev : Nat, rows : SUBSET Nat])
  BY <1>1
<1>6. StoreTypeOK
  <2>1. refs \in [Large -> Nat] /\ leaked \in [Large -> Nat]
    BY <1>1
  <2>4. Root \in Branches /\ MaxOperations \in Nat
    BY StoreParameters
  <2>2. Root \in branches /\ branches \subseteq Branches /\ unrecorded \subseteq Nat
    BY <1>1, <2>4
  <2>5. operations \in 0 .. MaxOperations
    BY <1>1, <2>4
  <2>6. overlapped \in BOOLEAN
    BY <1>1
  <2>3. \A e \in Engines : op[e].at \in {"put", "ref", "row"} => op[e].todo # <<>>
    BY <1>4
  <2> QED BY <1>4, <1>5, <2>1, <2>2, <2>3, <2>5, <2>6 DEF StoreTypeOK
<1>7. BlobsCounted
  <2>1. \A c \in Large : Held(rows, c) = {} /\ Taking(op, c) = {} /\ refs[c] = 0 /\ leaked[c] = 0
    BY <1>1, <1>4, <1>5 DEF Held, Taking, Takes
  <2>2. Cardinality({}) = 0
    BY FS_EmptySet
  <2> QED BY <2>1, <2>2, CountsMean
<1>8. InOnePlace(Len(rows), auditChain, op, unrecorded)
  BY <1>1, <1>4, <1>5 DEF InOnePlace
<1>9. OneAppends /\ NoneInserted
  BY <1>1, <1>4, <1>5 DEF OneAppends, NoneInserted, ChainValid
<1> QED BY <1>6, <1>7, <1>8, <1>9 DEF StoreInv

(* The memory engine: for any engines, contents and branches, however the  *)
(* statements of concurrent operations interleave or fail, the references  *)
(* of a blob are those of its rows and those of rows never inserted, every *)
(* row is in one entry of the audit chain, or its operation is going on or *)
(* has failed, and the chain verifies unless two appends overlapped.       *)
THEOREM StoresAreAccounted == StoreSpec => []StoreAccounted
<1>1. StoreInit => StoreInv
  BY StoreBegins
<1>2. StoreInv /\ [StoreNext]_storeVars => StoreInv'
  <2> SUFFICES ASSUME StoreInv, [StoreNext]_storeVars PROVE StoreInv'
    OBVIOUS
  <2>1. CASE StoreNext
    BY <2>1, StoreStep
  <2>2. CASE UNCHANGED storeVars
    <3>1. rows' = rows /\ refs' = refs /\ branches' = branches /\ auditChain' = auditChain /\ op' = op
          /\ operations' = operations /\ leaked' = leaked /\ unrecorded' = unrecorded /\ overlapped' = overlapped
      BY <2>2 DEF storeVars, tables
    <3> QED BY <3>1 DEF StoreInv, StoreTypeOK, BlobsCounted, Of, Inserting, InOnePlace, OneAppends, ChainValid, NoneInserted
  <2> QED BY <2>1, <2>2
<1>3. StoreInv => StoreAccounted
  BY AuditedMeans DEF StoreInv, StoreAccounted, StoreTypeOK, OneAppends, ChainForksOnlyByOverlap
<1> QED BY <1>1, <1>2, <1>3, PTL DEF StoreSpec
=============================================================================
