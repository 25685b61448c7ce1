---------------------------- MODULE MeshRpcProofs ----------------------------
(***************************************************************************)
(* Theorems of InboundDispatch, for any set of requests, any number of     *)
(* concurrent deliveries and any cache sizes, and of MeshRpc for any       *)
(* calls, retries, timeouts and pauses: the dispatch gives no answer the   *)
(* handler did not give, a call over http ends by its deadline, and the    *)
(* retry loop, the network and the dispatch together implement             *)
(* RequestReply.                                                           *)
(***************************************************************************)
EXTENDS MeshRpc, TLAPS, FiniteSetTheorems, SequenceTheorems

(* Removing an id keeps the others, in their order.                        *)
LEMMA WithoutProperties ==
  ASSUME NEW s \in Seq(Ids), NEW id \in Ids, IsInjective(s)
  PROVE  /\ Without(s, id) \in Seq(Ids)
         /\ IsInjective(Without(s, id))
         /\ ToSet(Without(s, id)) = ToSet(s) \ {id}
         /\ Len(Without(s, id)) = IF id \in ToSet(s) THEN Len(s) - 1 ELSE Len(s)
         /\ \A i, j \in 1..Len(Without(s, id)) : i < j =>
              \E k, l \in 1..Len(s) :
                k < l /\ s[k] = Without(s, id)[i] /\ s[l] = Without(s, id)[j]
<1>1. CASE id \notin ToSet(s)
  <2>1. Without(s, id) = s
    BY <1>1 DEF Without
  <2>2. ToSet(s) \ {id} = ToSet(s)
    BY <1>1
  <2> QED  BY <1>1, <2>1, <2>2
<1>2. CASE id \in ToSet(s)
  <2> DEFINE p == CHOOSE i \in DOMAIN s : s[i] = id
             t == Without(s, id)
             at(i) == IF i < p THEN i ELSE i + 1
  <2>1. p \in 1..Len(s) /\ s[p] = id
    BY <1>2 DEF ToSet
  <2>2. t = SubSeq(s, 1, p - 1) \o SubSeq(s, p + 1, Len(s))
    BY <1>2 DEF Without, RemoveAt
  <2>3. /\ SubSeq(s, 1, p - 1) \in Seq(Ids)
        /\ Len(SubSeq(s, 1, p - 1)) = p - 1
        /\ \A i \in 1..(p - 1) : SubSeq(s, 1, p - 1)[i] = s[i]
    <3>1. p \in Int /\ \A i \in 1..(p - 1) : s[i] \in Ids
      BY <2>1
    <3> HIDE DEF p
    <3> QED  BY <2>1, <3>1, SubSeqProperties
  <2>4. /\ SubSeq(s, p + 1, Len(s)) \in Seq(Ids)
        /\ Len(SubSeq(s, p + 1, Len(s))) = Len(s) - p
        /\ \A i \in 1..(Len(s) - p) : SubSeq(s, p + 1, Len(s))[i] = s[p + i]
    <3>1. p + 1 \in Int /\ Len(s) \in Int /\ \A i \in (p + 1)..Len(s) : s[i] \in Ids
      BY <2>1
    <3> HIDE DEF p
    <3>2. /\ SubSeq(s, p + 1, Len(s)) \in Seq(Ids)
          /\ Len(SubSeq(s, p + 1, Len(s))) =
               IF p + 1 <= Len(s) THEN Len(s) - (p + 1) + 1 ELSE 0
          /\ \A i \in 1..(Len(s) - (p + 1) + 1) :
               SubSeq(s, p + 1, Len(s))[i] = s[p + 1 + i - 1]
      BY <3>1, SubSeqProperties
    <3> QED  BY <2>1, <3>2
  <2> HIDE DEF p
  <2>5. /\ t \in Seq(Ids)
        /\ Len(t) = Len(s) - 1
        /\ \A i \in 1..Len(t) : t[i] = s[at(i)]
    <3>1. /\ t \in Seq(Ids)
          /\ Len(t) = (p - 1) + (Len(s) - p)
          /\ \A i \in 1..((p - 1) + (Len(s) - p)) :
               t[i] = IF i <= p - 1 THEN SubSeq(s, 1, p - 1)[i]
                                    ELSE SubSeq(s, p + 1, Len(s))[i - (p - 1)]
      BY SMTT(30), <2>2, <2>3, <2>4, ConcatProperties
    <3> HIDE DEF t
    <3>2. Len(s) \in Nat /\ (p - 1) + (Len(s) - p) = Len(s) - 1
      BY <2>1
    <3>3. ASSUME NEW i \in 1..Len(t)
          PROVE  t[i] = s[at(i)]
      <4>1. CASE i < p
        BY <2>1, <2>3, <3>1, <3>2, <4>1
      <4>2. CASE ~ (i < p)
        <5>1. i - (p - 1) \in 1..(Len(s) - p)
          BY <2>1, <3>1, <3>2, <4>2
        <5>2. t[i] = SubSeq(s, p + 1, Len(s))[i - (p - 1)]
          BY <2>1, <3>1, <3>2, <4>2
        <5>4. SubSeq(s, p + 1, Len(s))[i - (p - 1)] = s[p + (i - (p - 1))]
          BY <2>4, <5>1
        <5>3. p + (i - (p - 1)) = i + 1
          BY <2>1
        <5> QED  BY <4>2, <5>2, <5>3, <5>4
      <4> QED  BY <4>1, <4>2
    <3> QED  BY <3>1, <3>2, <3>3
  <2> HIDE DEF t
  <2>6. \A i \in 1..Len(t) : at(i) \in 1..Len(s) /\ at(i) # p
    BY <2>1, <2>5
  <2>7. \A i, j \in 1..Len(t) : i < j => at(i) < at(j)
    BY <2>1, <2>5
  <2>8. \A k \in 1..Len(s) : k # p => \E i \in 1..Len(t) : at(i) = k
    <3> SUFFICES ASSUME NEW k \in 1..Len(s), k # p
                 PROVE  \E i \in 1..Len(t) : at(i) = k
      OBVIOUS
    <3>1. CASE k < p
      BY <2>1, <2>5, <3>1
    <3>2. CASE k > p
      <4>1. k - 1 \in 1..Len(t) /\ at(k - 1) = k
        BY <2>1, <2>5, <3>2
      <4> QED  BY <4>1
    <3> QED  BY <2>1, <3>1, <3>2
  <2> HIDE DEF at
  <2>9. DOMAIN s = 1..Len(s) /\ DOMAIN t = 1..Len(t)
    BY <2>5
  <2>10. \A k, l \in 1..Len(s) : s[k] = s[l] => k = l
    BY <2>9 DEF IsInjective
  <2>11. IsInjective(t)
    <3> SUFFICES ASSUME NEW i \in 1..Len(t), NEW j \in 1..Len(t), t[i] = t[j]
                 PROVE  i = j
      BY <2>9 DEF IsInjective
    <3>1. at(i) = at(j)
      BY <2>5, <2>6, <2>10
    <3>2. i \in Int /\ j \in Int /\ at(i) \in Int /\ at(j) \in Int
      BY <2>6
    <3> QED  BY <2>7, <3>1, <3>2
  <2>12. ToSet(t) = ToSet(s) \ {id}
    <3>1. ASSUME NEW x \in ToSet(t)
          PROVE  x \in ToSet(s) \ {id}
      <4>1. PICK i \in 1..Len(t) : x = t[i]
        BY <2>9 DEF ToSet
      <4>2. x = s[at(i)] /\ at(i) \in 1..Len(s) /\ at(i) # p
        BY <2>5, <2>6, <4>1
      <4> QED  BY <2>1, <2>9, <2>10, <4>2 DEF ToSet
    <3>2. ASSUME NEW x \in ToSet(s), x # id
          PROVE  x \in ToSet(t)
      <4>1. PICK k \in 1..Len(s) : x = s[k]
        BY <2>9 DEF ToSet
      <4>2. PICK i \in 1..Len(t) : at(i) = k
        BY <2>1, <2>8, <3>2, <4>1
      <4>3. t[i] = x
        BY <2>5, <4>1, <4>2
      <4> QED  BY <2>9, <4>3 DEF ToSet
    <3> QED  BY <3>1, <3>2
  <2>13. \A i, j \in 1..Len(t) : i < j =>
           \E k, l \in 1..Len(s) : k < l /\ s[k] = t[i] /\ s[l] = t[j]
    BY <2>5, <2>6, <2>7
  <2> QED  BY <1>2, <2>5, <2>11, <2>12, <2>13 DEF t
<1> QED  BY <1>1, <1>2

(* Appending an id that is not there.                                      *)
LEMMA AppendFresh ==
  ASSUME NEW s \in Seq(Ids), NEW id \in Ids, IsInjective(s), id \notin ToSet(s)
  PROVE  /\ Append(s, id) \in Seq(Ids)
         /\ IsInjective(Append(s, id))
         /\ ToSet(Append(s, id)) = ToSet(s) \union {id}
         /\ Len(Append(s, id)) = Len(s) + 1
         /\ \A i \in 1..Len(s) : Append(s, id)[i] = s[i]
         /\ Append(s, id)[Len(s) + 1] = id
<1> DEFINE t == Append(s, id)
<1>1. /\ t \in Seq(Ids)
      /\ Len(t) = Len(s) + 1
      /\ \A i \in 1..Len(s) : t[i] = s[i]
      /\ t[Len(s) + 1] = id
  OBVIOUS
<1> HIDE DEF t
<1>2. DOMAIN s = 1..Len(s) /\ DOMAIN t = 1..(Len(s) + 1) /\ Len(s) \in Nat
  BY <1>1
<1>3. \A i \in 1..Len(s) : s[i] # id
  BY <1>2 DEF ToSet
<1>4. IsInjective(t)
  <2> SUFFICES ASSUME NEW i \in 1..(Len(s) + 1), NEW j \in 1..(Len(s) + 1), t[i] = t[j]
               PROVE  i = j
    BY <1>2 DEF IsInjective
  <2>1. CASE i = Len(s) + 1 \/ j = Len(s) + 1
    BY <1>1, <1>2, <1>3, <2>1
  <2>2. CASE i \in 1..Len(s) /\ j \in 1..Len(s)
    BY <1>1, <1>2, <2>2 DEF IsInjective
  <2> QED  BY <1>2, <2>1, <2>2
<1>5. ToSet(t) = ToSet(s) \union {id}
  <2>1. ASSUME NEW x \in ToSet(t)
        PROVE  x \in ToSet(s) \union {id}
    <3>1. PICK i \in 1..(Len(s) + 1) : x = t[i]
      BY <1>2 DEF ToSet
    <3>2. CASE i = Len(s) + 1
      BY <1>1, <3>1, <3>2
    <3>3. CASE i \in 1..Len(s)
      BY <1>1, <1>2, <3>1, <3>3 DEF ToSet
    <3> QED  BY <1>2, <3>2, <3>3
  <2>2. ASSUME NEW x \in ToSet(s)
        PROVE  x \in ToSet(t)
    <3>1. PICK i \in 1..Len(s) : x = s[i]
      BY <1>2 DEF ToSet
    <3>2. i \in DOMAIN t /\ t[i] = x
      BY <1>1, <1>2, <3>1
    <3> QED  BY <3>2 DEF ToSet
  <2>3. Len(s) + 1 \in DOMAIN t /\ t[Len(s) + 1] = id
    BY <1>1, <1>2
  <2>4. id \in ToSet(t)
    BY <2>3 DEF ToSet
  <2> QED  BY <2>1, <2>2, <2>4
<1> QED  BY <1>1, <1>4, <1>5 DEF t

(* A sequence without repetitions is as long as its set is large.          *)
LEMMA InjectiveLength ==
  ASSUME NEW s \in Seq(Ids), IsInjective(s)
  PROVE  IsFiniteSet(ToSet(s)) /\ Cardinality(ToSet(s)) = Len(s)
<1>1. DOMAIN s = 1..Len(s) /\ Len(s) \in Nat
  OBVIOUS
<1>2. s \in Bijection(1..Len(s), ToSet(s))
  <2>1. s \in [1..Len(s) -> ToSet(s)]
    BY <1>1 DEF ToSet
  <2>2. \A i, j \in 1..Len(s) : s[i] = s[j] => i = j
    BY <1>1 DEF IsInjective
  <2>3. \A x \in ToSet(s) : \E i \in 1..Len(s) : s[i] = x
    BY <1>1 DEF ToSet
  <2> QED  BY <2>1, <2>2, <2>3 DEF Bijection, Injection, Surjection
<1>3. IsFiniteSet(1..Len(s)) /\ Cardinality(1..Len(s)) = Len(s)
  BY SMTT(30), <1>1, FS_Interval
<1>4. ExistsBijection(1..Len(s), ToSet(s))
  BY <1>2 DEF ExistsBijection
<1> QED  BY <1>3, <1>4, FS_Bijection

-----------------------------------------------------------------------------
(* What get, set and eviction do to a cache.                               *)

Shape(c) ==
  /\ c \in Cache
  /\ ToSet(c.order) = Keys(c)
  /\ IsInjective(c.order)

(* A key that precedes another in t does so in s.                          *)
OrderKept(s, t) ==
  \A i, j \in 1..Len(t) : i < j =>
    \E k, l \in 1..Len(s) : k < l /\ s[k] = t[i] /\ s[l] = t[j]

LEMMA DeleteProperties ==
  ASSUME NEW c, Shape(c), NEW id \in Ids
  PROVE  /\ Shape(Delete(c, id))
         /\ Keys(Delete(c, id)) = Keys(c) \ {id}
         /\ \A x \in Ids \ {id} : /\ Delete(c, id).resp[x] = c.resp[x]
                                   /\ Delete(c, id).expiresAt[x] = c.expiresAt[x]
         /\ Len(Delete(c, id).order) <= Len(c.order)
         /\ id \in Keys(c) => Len(Delete(c, id).order) = Len(c.order) - 1
         /\ OrderKept(c.order, Delete(c, id).order)
<1> DEFINE d == Delete(c, id)
<1>1. /\ c.order \in Seq(Ids)
      /\ c.resp \in [Ids -> Status \union {NoEntry}]
      /\ c.expiresAt \in [Ids -> Nat]
  BY DEF Shape, Cache
<1>2. /\ d.order = Without(c.order, id)
      /\ d.resp = [c.resp EXCEPT ![id] = NoEntry]
      /\ d.expiresAt = [c.expiresAt EXCEPT ![id] = 0]
      /\ d = [order |-> d.order, resp |-> d.resp, expiresAt |-> d.expiresAt]
  BY DEF Delete
<1> HIDE DEF d
<1>3. /\ d.order \in Seq(Ids)
      /\ IsInjective(d.order)
      /\ ToSet(d.order) = ToSet(c.order) \ {id}
      /\ Len(d.order) = IF id \in ToSet(c.order) THEN Len(c.order) - 1 ELSE Len(c.order)
      /\ OrderKept(c.order, d.order)
  <2> DEFINE w == Without(c.order, id)
  <2>1. IsInjective(c.order)
    BY DEF Shape
  <2>2. /\ w \in Seq(Ids)
        /\ IsInjective(w)
        /\ ToSet(w) = ToSet(c.order) \ {id}
        /\ Len(w) = IF id \in ToSet(c.order) THEN Len(c.order) - 1 ELSE Len(c.order)
        /\ \A i, j \in 1..Len(w) : i < j =>
             \E k, l \in 1..Len(c.order) : k < l /\ c.order[k] = w[i] /\ c.order[l] = w[j]
    BY <1>1, <2>1, WithoutProperties
  <2> HIDE DEF w
  <2>3. OrderKept(c.order, w)
    BY <2>2 DEF OrderKept
  <2>4. d.order = w
    BY <1>2 DEF w
  <2> QED  BY <2>2, <2>3, <2>4
<1>4. Keys(d) = Keys(c) \ {id}
  BY <1>1, <1>2 DEF Keys
<1>5. d \in Cache
  <2>1. /\ d.resp \in [Ids -> Status \union {NoEntry}]
        /\ d.expiresAt \in [Ids -> Nat]
    BY <1>1, <1>2
  <2> QED  BY <1>2, <1>3, <2>1 DEF Cache
<1>6. \A x \in Ids \ {id} : d.resp[x] = c.resp[x] /\ d.expiresAt[x] = c.expiresAt[x]
  BY <1>1, <1>2
<1>7. Len(d.order) <= Len(c.order)
  BY <1>1, <1>3
<1> QED  BY <1>3, <1>4, <1>5, <1>6, <1>7 DEF Shape, d

(* s with id made the newest.                                              *)
LEMMA RenewedOrder ==
  ASSUME NEW s \in Seq(Ids), NEW id \in Ids, IsInjective(s)
  PROVE  LET t == Append(Without(s, id), id)
         IN  /\ t \in Seq(Ids)
             /\ IsInjective(t)
             /\ ToSet(t) = ToSet(s) \union {id}
             /\ Len(t) = IF id \in ToSet(s) THEN Len(s) ELSE Len(s) + 1
             /\ t[Len(t)] = id
             /\ \A i, j \in 1..Len(t) : i < j =>
                  \/ t[j] = id /\ t[i] # id
                  \/ /\ t[i] # id /\ t[j] # id
                     /\ \E k, l \in 1..Len(s) : k < l /\ s[k] = t[i] /\ s[l] = t[j]
<1> DEFINE w == Without(s, id)
           t == Append(w, id)
<1>1. /\ w \in Seq(Ids)
      /\ IsInjective(w)
      /\ ToSet(w) = ToSet(s) \ {id}
      /\ Len(w) = IF id \in ToSet(s) THEN Len(s) - 1 ELSE Len(s)
      /\ \A i, j \in 1..Len(w) : i < j =>
           \E k, l \in 1..Len(s) : k < l /\ s[k] = w[i] /\ s[l] = w[j]
  BY WithoutProperties
<1> HIDE DEF w
<1>2. id \notin ToSet(w)
  BY <1>1
<1>3. /\ t \in Seq(Ids)
      /\ IsInjective(t)
      /\ ToSet(t) = ToSet(w) \union {id}
      /\ Len(t) = Len(w) + 1
      /\ \A i \in 1..Len(w) : t[i] = w[i]
      /\ t[Len(w) + 1] = id
  BY <1>1, <1>2, AppendFresh
<1> HIDE DEF t
<1>4. ToSet(t) = ToSet(s) \union {id}
  BY <1>1, <1>3
<1>5. Len(t) = IF id \in ToSet(s) THEN Len(s) ELSE Len(s) + 1
  BY <1>1, <1>3
<1>6. \A i \in 1..Len(w) : w[i] # id
  BY <1>1, <1>2 DEF ToSet
<1>7. ASSUME NEW i \in 1..Len(t), NEW j \in 1..Len(t), i < j
      PROVE  \/ t[j] = id /\ t[i] # id
             \/ /\ t[i] # id /\ t[j] # id
                /\ \E k, l \in 1..Len(s) : k < l /\ s[k] = t[i] /\ s[l] = t[j]
  <2>1. Len(w) \in Nat /\ i \in 1..Len(w)
    BY <1>1, <1>3, <1>7
  <2>2. CASE j = Len(w) + 1
    BY <1>3, <1>6, <2>1, <2>2
  <2>3. CASE j # Len(w) + 1
    <3>1. j \in 1..Len(w)
      BY <1>3, <2>1, <2>3
    <3>2. t[i] = w[i] /\ t[j] = w[j] /\ w[i] # id /\ w[j] # id
      BY <1>3, <1>6, <2>1, <3>1
    <3>3. \E k, l \in 1..Len(s) : k < l /\ s[k] = w[i] /\ s[l] = w[j]
      BY <1>1, <1>7, <2>1, <3>1
    <3> QED  BY <3>2, <3>3
  <2> QED  BY <2>2, <2>3
<1> QED  BY <1>1, <1>3, <1>4, <1>5, <1>7 DEF t, w

LEMMA RefreshProperties ==
  ASSUME NEW c, Shape(c), NEW id \in Keys(c)
  PROVE  /\ Shape(Refresh(c, id))
         /\ Refresh(c, id).order = Append(Without(c.order, id), id)
         /\ Refresh(c, id).resp = c.resp
         /\ Refresh(c, id).expiresAt = c.expiresAt
         /\ Len(Refresh(c, id).order) = Len(c.order)
<1> DEFINE d == Refresh(c, id)
<1>1. id \in Ids /\ c.order \in Seq(Ids) /\ id \in ToSet(c.order)
  BY DEF Shape, Cache, Keys
<1>2. /\ d.order = Append(Without(c.order, id), id)
      /\ d.resp = c.resp
      /\ d.expiresAt = c.expiresAt
      /\ d = [c EXCEPT !.order = Append(Without(c.order, id), id)]
  BY DEF Refresh, Shape, Cache
<1> HIDE DEF d
<1>3. /\ d.order \in Seq(Ids)
      /\ IsInjective(d.order)
      /\ ToSet(d.order) = ToSet(c.order) \union {id}
      /\ Len(d.order) = Len(c.order)
  BY <1>1, <1>2, RenewedOrder DEF Shape
<1>4. d \in Cache
  BY <1>2, <1>3 DEF Shape, Cache
<1>5. Keys(d) = Keys(c)
  BY <1>2 DEF Keys
<1> QED  BY <1>1, <1>2, <1>3, <1>4, <1>5 DEF Shape, d

LEMMA PutProperties ==
  ASSUME NEW c, Shape(c), NEW id \in Ids, NEW resp \in Status, NEW expiry \in Nat
  PROVE  /\ Shape(Put(c, id, resp, expiry))
         /\ Put(c, id, resp, expiry).order = Append(Without(c.order, id), id)
         /\ Put(c, id, resp, expiry).resp = [c.resp EXCEPT ![id] = resp]
         /\ Put(c, id, resp, expiry).expiresAt = [c.expiresAt EXCEPT ![id] = expiry]
         /\ Keys(Put(c, id, resp, expiry)) = Keys(c) \union {id}
         /\ Len(Put(c, id, resp, expiry).order) <= Len(c.order) + 1
<1> DEFINE d == Put(c, id, resp, expiry)
<1>1. /\ c.order \in Seq(Ids)
      /\ c.resp \in [Ids -> Status \union {NoEntry}]
      /\ c.expiresAt \in [Ids -> Nat]
  BY DEF Shape, Cache
<1>2. /\ d.order = Append(Without(c.order, id), id)
      /\ d.resp = [c.resp EXCEPT ![id] = resp]
      /\ d.expiresAt = [c.expiresAt EXCEPT ![id] = expiry]
      /\ d \in [order : {Append(Without(c.order, id), id)},
                resp : {[c.resp EXCEPT ![id] = resp]},
                expiresAt : {[c.expiresAt EXCEPT ![id] = expiry]}]
  BY DEF Put
<1> HIDE DEF d
<1>3. /\ d.order \in Seq(Ids)
      /\ IsInjective(d.order)
      /\ ToSet(d.order) = ToSet(c.order) \union {id}
      /\ Len(d.order) = IF id \in ToSet(c.order) THEN Len(c.order) ELSE Len(c.order) + 1
  BY <1>1, <1>2, RenewedOrder DEF Shape
<1>4. d \in Cache
  <2>1. [c.resp EXCEPT ![id] = resp] \in [Ids -> Status \union {NoEntry}]
    BY ONLY <1>1, id \in Ids, resp \in Status
  <2>2. [c.expiresAt EXCEPT ![id] = expiry] \in [Ids -> Nat]
    BY ONLY <1>1, id \in Ids, expiry \in Nat
  <2>3. Append(Without(c.order, id), id) \in Seq(Ids)
    BY <1>2, <1>3
  <2> QED BY ONLY <1>2, <2>1, <2>2, <2>3 DEF Cache
<1>5. Keys(d) = Keys(c) \union {id}
  BY <1>1, <1>2, CacheParameters DEF Keys
<1>6. Len(d.order) <= Len(c.order) + 1
  BY <1>1, <1>3
<1> QED  BY <1>2, <1>3, <1>4, <1>5, <1>6 DEF Shape, d

(* Eviction removes nothing or, from a cache one over its bound, the       *)
(* oldest key.                                                             *)
LEMMA EvictProperties ==
  ASSUME NEW c, Shape(c), NEW maxEntries \in Nat \ {0}, Len(c.order) <= maxEntries + 1
  PROVE  \/ Evict(c, maxEntries) = c /\ Len(c.order) <= maxEntries
         \/ /\ Evict(c, maxEntries) = Delete(c, c.order[1])
            /\ Len(c.order) = maxEntries + 1
            /\ c.order[1] \in Keys(c)
<1>1. c.order \in Seq(Ids) /\ Len(c.order) \in Nat
  BY DEF Shape, Cache
<1>2. Cardinality(Keys(c)) = Len(c.order)
  BY <1>1, InjectiveLength DEF Shape
<1>3. CASE Len(c.order) > maxEntries
  <2>1. Len(c.order) = maxEntries + 1 /\ 1 \in DOMAIN c.order
    BY <1>1, <1>3
  <2>2. Evict(c, maxEntries) = Delete(c, Head(c.order))
    BY <1>2, <1>3 DEF Evict
  <2>3. Head(c.order) = c.order[1]
    BY <1>1, <2>1
  <2>4. c.order[1] \in Keys(c)
    BY <2>1 DEF Shape, ToSet
  <2> QED  BY <2>1, <2>2, <2>3, <2>4
<1>4. CASE ~ (Len(c.order) > maxEntries)
  BY <1>1, <1>2, <1>4 DEF Evict
<1> QED  BY <1>3, <1>4

LEMMA GetProperties ==
  ASSUME NEW c, NEW maxEntries \in Nat \ {0}, c \in Cache, Coherent(c, maxEntries),
         NEW id \in Ids, NEW time \in Nat
  PROVE  /\ Get(c, id, time) \in Cache
         /\ Coherent(Get(c, id, time), maxEntries)
         /\ Hit(c, id, time) => c.resp[id] \in Status
<1>1. Shape(c) /\ Len(c.order) <= maxEntries /\ Len(c.order) \in Nat
  BY DEF Shape, Coherent, Cache
<1>2. CASE c.resp[id] = NoEntry
  BY <1>2 DEF Get, Hit
<1>3. CASE Hit(c, id, time)
  <2>1. id \in Keys(c) /\ Get(c, id, time) = Refresh(c, id)
    BY <1>3 DEF Keys, Hit, Get
  <2>2. c.resp[id] \in Status
    BY <1>3 DEF Hit, Cache
  <2> QED  BY <1>1, <2>1, <2>2, RefreshProperties DEF Shape, Coherent
<1>4. CASE c.resp[id] # NoEntry /\ ~ Hit(c, id, time)
  <2>1. Get(c, id, time) = Delete(c, id)
    BY <1>4 DEF Get
  <2>2. Shape(Delete(c, id)) /\ Len(Delete(c, id).order) <= Len(c.order)
    BY <1>1, DeleteProperties
  <2>3. Len(Delete(c, id).order) \in Nat
    BY <2>2 DEF Shape, Cache
  <2>4. Len(Delete(c, id).order) <= maxEntries
    BY <1>1, <2>2, <2>3
  <2> QED  BY <1>4, <2>1, <2>2, <2>4 DEF Shape, Coherent
<1> QED  BY <1>2, <1>3, <1>4

LEMMA SetProperties ==
  ASSUME NEW c, NEW maxEntries \in Nat \ {0}, c \in Cache, Coherent(c, maxEntries),
         NEW id \in Ids, NEW resp \in Status, NEW ttl \in Int, NEW time \in Nat
  PROVE  /\ Set(c, id, resp, ttl, time, maxEntries) \in Cache
         /\ Coherent(Set(c, id, resp, ttl, time, maxEntries), maxEntries)
<1> DEFINE expiry == time + (IF ttl > 0 THEN ttl ELSE 0)
           p == Put(c, id, resp, expiry)
<1>1. Shape(c) /\ Len(c.order) <= maxEntries /\ Len(c.order) \in Nat
  BY DEF Shape, Coherent, Cache
<1>2. expiry \in Nat
  OBVIOUS
<1> HIDE DEF expiry
<1>3. Shape(p) /\ Len(p.order) <= Len(c.order) + 1
  BY <1>1, <1>2, PutProperties
<1>4. Set(c, id, resp, ttl, time, maxEntries) = Evict(p, maxEntries)
  BY DEF Set, expiry
<1> HIDE DEF p
<1>5. Len(p.order) \in Nat /\ Len(p.order) <= maxEntries + 1
  BY <1>1, <1>3 DEF Shape, Cache
<1>6. CASE Evict(p, maxEntries) = p /\ Len(p.order) <= maxEntries
  BY <1>3, <1>4, <1>6 DEF Shape, Coherent
<1>7. CASE /\ Evict(p, maxEntries) = Delete(p, p.order[1])
           /\ Len(p.order) = maxEntries + 1
           /\ p.order[1] \in Keys(p)
  <2>1. p.order[1] \in Ids
    BY <1>7 DEF Keys
  <2>2. /\ Shape(Delete(p, p.order[1]))
        /\ Len(Delete(p, p.order[1]).order) = Len(p.order) - 1
    BY <1>3, <1>7, <2>1, DeleteProperties
  <2>3. Len(Delete(p, p.order[1]).order) <= maxEntries
    BY <1>7, <2>2
  <2> QED  BY <1>4, <1>7, <2>2, <2>3 DEF Shape, Coherent
<1> QED  BY <1>3, <1>5, <1>6, <1>7, EvictProperties

-----------------------------------------------------------------------------
(* Type correctness, together with the shape of the two caches.            *)

Typed == TypeOK /\ CachesCoherent

LEMMA EmptyCacheProperties ==
  ASSUME NEW maxEntries \in Nat \ {0}
  PROVE  EmptyCache \in Cache /\ Coherent(EmptyCache, maxEntries) /\ Keys(EmptyCache) = {}
<1>1. /\ EmptyCache.order = <<>>
      /\ EmptyCache.resp = [id \in Ids |-> NoEntry]
      /\ EmptyCache.expiresAt = [id \in Ids |-> 0]
  BY DEF EmptyCache
<1>2. EmptyCache \in Cache
  BY DEF EmptyCache, Cache
<1>3. Keys(EmptyCache) = {}
  BY <1>1 DEF Keys
<1>4. ToSet(<<>>) = {} /\ IsInjective(<<>>) /\ Len(<<>>) = 0
  BY DEF ToSet, IsInjective
<1> QED  BY <1>1, <1>2, <1>3, <1>4 DEF Coherent

LEMMA UsedType ==
  ASSUME NEW id \in Ids, since \in [Ids -> SUBSET Ids], Used(id)
  PROVE  since' \in [Ids -> SUBSET Ids]
BY DEF Used

(* A record that waits or is answered keeps the delivery table well typed. *)
LEMMA RecordType ==
  ASSUME NEW d \in Deliveries, NEW r \in Delivery, r.id \in Ids,
         delivery \in [Deliveries -> Delivery],
         \A e \in Deliveries : delivery[e].phase \in Awaits => delivery[e].id \in Ids,
         \/ \E phase \in Awaits : Await(d, r, phase)
         \/ \E answer \in Status : Answer(d, r, answer)
  PROVE  /\ delivery' \in [Deliveries -> Delivery]
         /\ \A e \in Deliveries : delivery'[e].phase \in Awaits => delivery'[e].id \in Ids
         /\ delivery'[d].id = r.id
         /\ \A e \in Deliveries \ {d} : delivery'[e] = delivery[e]
<1>1. PICK q : q \in Delivery /\ q.id = r.id /\ delivery' = [delivery EXCEPT ![d] = q]
  <2>1. ASSUME NEW phase \in Awaits, Await(d, r, phase)
        PROVE  \E q : q \in Delivery /\ q.id = r.id /\ delivery' = [delivery EXCEPT ![d] = q]
    <3>1. [r EXCEPT !.phase = phase] \in Delivery /\ [r EXCEPT !.phase = phase].id = r.id
      BY DEF Delivery
    <3> QED  BY <2>1, <3>1 DEF Await
  <2>2. ASSUME NEW answer \in Status, Answer(d, r, answer)
        PROVE  \E q : q \in Delivery /\ q.id = r.id /\ delivery' = [delivery EXCEPT ![d] = q]
    <3> DEFINE q == [r EXCEPT !.phase = "answered", !.answer = answer]
    <3>1. q \in Delivery /\ q.id = r.id
      BY DEF Delivery
    <3> QED  BY <2>2, <3>1 DEF Answer
  <2> QED  BY <2>1, <2>2
<1> QED  BY <1>1

LEMMA DeliverType ==
  ASSUME Typed, NEW d \in Deliveries, NEW r \in Delivery, r.id \in Ids,
         NEW answer \in Status, Deliver(d, r, answer)
  PROVE  /\ http' \in Cache /\ Coherent(http', HttpMaxEntries)
         /\ delivery' \in [Deliveries -> Delivery]
         /\ \A e \in Deliveries : delivery'[e].phase \in Awaits => delivery'[e].id \in Ids
<1>1. Deadline[r.id] - now \in Int /\ now \in Nat /\ HttpMaxEntries \in Nat \ {0}
  BY DispatchParameters DEF Typed, TypeOK
<1>2. http' \in Cache /\ Coherent(http', HttpMaxEntries)
  BY <1>1, SetProperties DEF Deliver, Typed, TypeOK, CachesCoherent
<1>3. Answer(d, r, answer)
  BY DEF Deliver
<1>4. /\ delivery \in [Deliveries -> Delivery]
      /\ \A e \in Deliveries : delivery[e].phase \in Awaits => delivery[e].id \in Ids
  BY DEF Typed, TypeOK
<1> QED  BY <1>2, <1>3, <1>4, RecordType

LEMMA DispatchType ==
  ASSUME Typed, NEW d \in Deliveries, NEW r \in Delivery, r.id \in Ids, Dispatch(d, r)
  PROVE  /\ cross' \in Cache /\ Coherent(cross', CrossMaxEntries)
         /\ http' \in Cache /\ Coherent(http', HttpMaxEntries)
         /\ delivery' \in [Deliveries -> Delivery]
         /\ \A e \in Deliveries : delivery'[e].phase \in Awaits => delivery'[e].id \in Ids
         /\ since' \in [Ids -> SUBSET Ids]
<1>1. now \in Nat /\ CrossMaxEntries \in Nat \ {0}
  BY DispatchParameters DEF Typed, TypeOK
<1>2. /\ cross' \in Cache /\ Coherent(cross', CrossMaxEntries)
      /\ Hit(cross, r.id, now) => cross.resp[r.id] \in Status
  BY <1>1, GetProperties DEF Dispatch, Typed, TypeOK, CachesCoherent
<1>3. CASE Hit(cross, r.id, now)
  <2>1. Deliver(d, r, cross.resp[r.id]) /\ Used(r.id)
    BY <1>3 DEF Dispatch
  <2> QED  BY <1>2, <1>3, <2>1, DeliverType, UsedType DEF Typed, TypeOK
<1>4. CASE ~ Hit(cross, r.id, now)
  <2>1. Await(d, r, "capability") /\ "capability" \in Awaits /\ UNCHANGED <<http, since>>
    BY <1>4 DEF Dispatch, Awaits
  <2>2. /\ delivery \in [Deliveries -> Delivery]
        /\ \A e \in Deliveries : delivery[e].phase \in Awaits => delivery[e].id \in Ids
    BY DEF Typed, TypeOK
  <2> QED  BY <1>2, <2>1, <2>2, RecordType DEF Typed, TypeOK, CachesCoherent
<1> QED  BY <1>3, <1>4

LEMMA SettleType ==
  ASSUME Typed, NEW d \in Deliveries, delivery[d].phase \in Awaits,
         NEW answer \in Status, Settle(d, answer)
  PROVE  /\ cross' \in Cache /\ Coherent(cross', CrossMaxEntries)
         /\ http' \in Cache /\ Coherent(http', HttpMaxEntries)
         /\ delivery' \in [Deliveries -> Delivery]
         /\ \A e \in Deliveries : delivery'[e].phase \in Awaits => delivery'[e].id \in Ids
         /\ settled' \in [Ids -> SUBSET Status]
         /\ since' \in [Ids -> SUBSET Ids]
<1> DEFINE r == delivery[d]
<1>1. r \in Delivery /\ r.id \in Ids /\ now \in Nat /\ Deadline[r.id] - now \in Int
      /\ CrossMaxEntries \in Nat \ {0}
  BY DispatchParameters DEF Typed, TypeOK
<1>2. /\ cross' = Set(cross, r.id, answer, Deadline[r.id] - now, now, CrossMaxEntries)
      /\ settled' = [settled EXCEPT ![r.id] = @ \union {answer}]
      /\ Used(r.id)
      /\ Deliver(d, r, answer)
  BY DEF Settle
<1> HIDE DEF r
<1>3. cross' \in Cache /\ Coherent(cross', CrossMaxEntries)
  BY <1>1, <1>2, SetProperties DEF Typed, TypeOK, CachesCoherent
<1>4. settled' \in [Ids -> SUBSET Status]
  BY <1>1, <1>2 DEF Typed, TypeOK
<1> QED  BY <1>1, <1>2, <1>3, <1>4, DeliverType, UsedType DEF Typed, TypeOK

LEMMA TypedInit == Init => Typed
<1> SUFFICES ASSUME Init PROVE Typed
  OBVIOUS
<1>1. HttpMaxEntries \in Nat \ {0} /\ CrossMaxEntries \in Nat \ {0}
  BY DispatchParameters
<1>2. CachesCoherent /\ http \in Cache /\ cross \in Cache
  BY <1>1, EmptyCacheProperties DEF Init, CachesCoherent
<1>3. NoDelivery \in Delivery /\ NoDelivery.phase \notin Awaits
  BY DEF NoDelivery, Delivery, Awaits
<1> QED  BY <1>2, <1>3 DEF Init, Typed, TypeOK

LEMMA TypedNext == Typed /\ [Next]_vars => Typed'
<1> SUFFICES ASSUME Typed, [Next]_vars PROVE Typed'
  OBVIOUS
<1> USE DEF Typed
<1>0. /\ now \in Nat /\ http \in Cache /\ cross \in Cache
      /\ delivery \in [Deliveries -> Delivery]
      /\ \A e \in Deliveries : delivery[e].phase \in Awaits => delivery[e].id \in Ids
      /\ settled \in [Ids -> SUBSET Status] /\ started \subseteq Ids
      /\ since \in [Ids -> SUBSET Ids]
      /\ Coherent(http, HttpMaxEntries) /\ Coherent(cross, CrossMaxEntries)
      /\ HttpMaxEntries \in Nat \ {0} /\ CrossMaxEntries \in Nat \ {0}
      /\ {"ok", "denied", "error", "timeout"} \subseteq Status
  BY DispatchParameters DEF TypeOK, CachesCoherent
<1>1. ASSUME NEW d \in Deliveries, NEW id \in Ids, ArriveLibp2p(d, id)
      PROVE  Typed'
  <2> DEFINE r == [phase |-> "idle", id |-> id, via |-> "libp2p", answer |-> NoEntry]
  <2>1. r \in Delivery /\ r.id \in Ids
    BY DEF Delivery
  <2>2. Dispatch(d, r) /\ UNCHANGED <<now, settled, started>>
    BY <1>1 DEF ArriveLibp2p
  <2> HIDE DEF r
  <2> QED  BY <1>0, <2>1, <2>2, DispatchType DEF TypeOK, CachesCoherent
<1>2. ASSUME NEW d \in Deliveries, NEW id \in Ids, ArriveHttp(d, id)
      PROVE  Typed'
  <2> DEFINE r == [phase |-> "idle", id |-> id, via |-> "http", answer |-> NoEntry]
  <2>1. r \in Delivery /\ r.id \in Ids
    BY DEF Delivery
  <2>2. /\ http' = Get(http, id, now)
        /\ IF Hit(http, id, now) THEN Answer(d, r, http.resp[id]) ELSE Await(d, r, "signature")
        /\ UNCHANGED <<now, cross, settled, started, since>>
    BY <1>2 DEF ArriveHttp
  <2> HIDE DEF r
  <2>3. /\ http' \in Cache /\ Coherent(http', HttpMaxEntries)
        /\ Hit(http, id, now) => http.resp[id] \in Status
    BY <1>0, <2>2, GetProperties
  <2>4. \/ \E phase \in Awaits : Await(d, r, phase)
        \/ \E answer \in Status : Answer(d, r, answer)
    BY <2>2, <2>3 DEF Awaits
  <2>5. /\ delivery' \in [Deliveries -> Delivery]
        /\ \A e \in Deliveries : delivery'[e].phase \in Awaits => delivery'[e].id \in Ids
    BY <1>0, <2>1, <2>4, RecordType
  <2> QED  BY <1>0, <2>2, <2>3, <2>5 DEF TypeOK, CachesCoherent
<1>3. ASSUME NEW d \in Deliveries, NEW identityOk \in BOOLEAN, SignatureChecked(d, identityOk)
      PROVE  Typed'
  <2> DEFINE r == delivery[d]
  <2>1. r \in Delivery /\ r.id \in Ids /\ UNCHANGED <<now, settled, started>>
    BY <1>0, <1>3 DEF SignatureChecked, Awaits
  <2>2. CASE Dispatch(d, r)
    BY <1>0, <2>1, <2>2, DispatchType DEF TypeOK, CachesCoherent
  <2>3. CASE ~ Dispatch(d, r)
    <3>1. /\ \E answer \in Status : Answer(d, r, answer)
          /\ UNCHANGED <<http, cross, since>>
      BY <1>0, <1>3, <2>3 DEF SignatureChecked
    <3>2. /\ delivery' \in [Deliveries -> Delivery]
          /\ \A e \in Deliveries : delivery'[e].phase \in Awaits => delivery'[e].id \in Ids
      BY <1>0, <2>1, <3>1, RecordType
    <3> QED  BY <1>0, <2>1, <3>1, <3>2 DEF TypeOK, CachesCoherent
  <2> QED  BY <2>2, <2>3
<1>4. ASSUME NEW d \in Deliveries, CapabilityGranted(d)
      PROVE  Typed'
  <2> DEFINE r == delivery[d]
  <2>1. /\ r \in Delivery /\ r.id \in Ids
        /\ \E phase \in Awaits : Await(d, r, phase)
        /\ started' = started \union {r.id}
        /\ UNCHANGED <<now, http, cross, settled, since>>
    BY <1>0, <1>4 DEF CapabilityGranted, Awaits
  <2>2. /\ delivery' \in [Deliveries -> Delivery]
        /\ \A e \in Deliveries : delivery'[e].phase \in Awaits => delivery'[e].id \in Ids
    BY <1>0, <2>1, RecordType
  <2> QED  BY <1>0, <2>1, <2>2 DEF TypeOK, CachesCoherent
<1>5. ASSUME NEW d \in Deliveries, CapabilityRefused(d)
      PROVE  Typed'
  <2>1. /\ delivery[d].phase \in Awaits /\ Settle(d, "denied") /\ "denied" \in Status
        /\ UNCHANGED <<now, started>>
    BY <1>0, <1>5 DEF CapabilityRefused, Awaits
  <2> QED  BY <1>0, <2>1, SettleType DEF TypeOK, CachesCoherent
<1>6. ASSUME NEW d \in Deliveries, CapabilityThrew(d)
      PROVE  Typed'
  <2>1. /\ delivery[d] \in Delivery /\ delivery[d].id \in Ids
        /\ Deliver(d, delivery[d], "denied") /\ "denied" \in Status
        /\ UNCHANGED <<now, cross, settled, started, since>>
    BY <1>0, <1>6 DEF CapabilityThrew, Awaits
  <2> QED  BY <1>0, <2>1, DeliverType DEF TypeOK, CachesCoherent
<1>7. ASSUME NEW d \in Deliveries, NEW answer \in HandlerAnswers, HandlerReturned(d, answer)
      PROVE  Typed'
  <2>1. /\ delivery[d].phase \in Awaits /\ Settle(d, answer) /\ answer \in Status
        /\ UNCHANGED <<now, started>>
    BY <1>0, <1>7, DispatchParameters DEF HandlerReturned, Awaits
  <2> QED  BY <1>0, <2>1, SettleType DEF TypeOK, CachesCoherent
<1>8. CASE Tick
  BY <1>0, <1>8 DEF Tick, TypeOK, CachesCoherent
<1>9. CASE UNCHANGED vars
  BY <1>0, <1>9 DEF vars, TypeOK, CachesCoherent
<1> QED  BY <1>1, <1>2, <1>3, <1>4, <1>5, <1>6, <1>7, <1>8, <1>9 DEF Next, Resume

(* Every reachable state is well typed, for any set of requests, any       *)
(* number of deliveries and any cache sizes.                               *)
THEOREM TypeCorrect == Spec => []TypeOK
<1>1. Typed => TypeOK
  BY DEF Typed
<1> QED  BY <1>1, TypedInit, TypedNext, PTL DEF Spec

(* The two caches keep their bounds and their keys in order.               *)
THEOREM CachesStayCoherent == Spec => []CachesCoherent
<1>1. Typed => CachesCoherent
  BY DEF Typed
<1> QED  BY <1>1, TypedInit, TypedNext, PTL DEF Spec

-----------------------------------------------------------------------------
(* What the two caches hold after a set, whatever was evicted.             *)

LEMMA SetEntries ==
  ASSUME NEW c, NEW maxEntries \in Nat \ {0}, c \in Cache, Coherent(c, maxEntries),
         NEW id \in Ids, NEW resp \in Status, NEW ttl \in Int, NEW time \in Nat,
         NEW x \in Keys(Set(c, id, resp, ttl, time, maxEntries))
  PROVE  LET s == Set(c, id, resp, ttl, time, maxEntries)
         IN  IF x = id THEN /\ s.resp[x] = resp
                            /\ s.expiresAt[x] = time + (IF ttl > 0 THEN ttl ELSE 0)
                       ELSE x \in Keys(c) /\ s.resp[x] = c.resp[x]
                                          /\ s.expiresAt[x] = c.expiresAt[x]
<1> DEFINE expiry == time + (IF ttl > 0 THEN ttl ELSE 0)
           p == Put(c, id, resp, expiry)
           s == Set(c, id, resp, ttl, time, maxEntries)
<1>1. Shape(c) /\ Len(c.order) <= maxEntries /\ Len(c.order) \in Nat
  BY DEF Shape, Coherent, Cache
<1>2. expiry \in Nat
  OBVIOUS
<1>3. s = Evict(p, maxEntries) /\ x \in Keys(s) /\ x \in Ids
  BY DEF Set, Keys
<1> SUFFICES IF x = id THEN s.resp[x] = resp /\ s.expiresAt[x] = expiry
                       ELSE x \in Keys(c) /\ s.resp[x] = c.resp[x]
                                          /\ s.expiresAt[x] = c.expiresAt[x]
  OBVIOUS
<1> HIDE DEF expiry, s
<1>4. /\ Shape(p) /\ Len(p.order) <= Len(c.order) + 1
      /\ p.resp = [c.resp EXCEPT ![id] = resp]
      /\ p.expiresAt = [c.expiresAt EXCEPT ![id] = expiry]
      /\ Keys(p) = Keys(c) \union {id}
  <2>1. p = Put(c, id, resp, expiry)
    OBVIOUS
  <2> HIDE DEF p
  <2>2. Shape(p) /\ Len(p.order) <= Len(c.order) + 1
    BY <1>1, <1>2, <2>1, PutProperties
  <2>3. /\ p.resp = [c.resp EXCEPT ![id] = resp]
        /\ p.expiresAt = [c.expiresAt EXCEPT ![id] = expiry]
    BY <2>1 DEF Put
  <2>4. Keys(p) = Keys(c) \union {id}
    BY ZenonT(40), <1>1, <1>2, <2>1, PutProperties
  <2> QED  BY <2>2, <2>3, <2>4
<1> HIDE DEF p
<1>5. Len(p.order) \in Nat /\ Len(p.order) <= maxEntries + 1
  BY <1>1, <1>4 DEF Shape, Cache
<1>6. x \in Keys(p) /\ s.resp[x] = p.resp[x] /\ s.expiresAt[x] = p.expiresAt[x]
  <2>1. CASE s = p
    BY <1>3, <2>1
  <2>2. CASE s = Delete(p, p.order[1]) /\ p.order[1] \in Keys(p)
    <3>1. p.order[1] \in Ids
      BY <2>2 DEF Keys
    <3>2. PICK h \in Ids : h = p.order[1]
      BY <3>1
    <3>3. Shape(p)
      BY <1>4
    <3>4. /\ Keys(Delete(p, h)) = Keys(p) \ {h}
          /\ \A y \in Ids \ {h} : /\ Delete(p, h).resp[y] = p.resp[y]
                                 /\ Delete(p, h).expiresAt[y] = p.expiresAt[y]
      BY <3>3, DeleteProperties
    <3> QED  BY <1>3, <2>2, <3>2, <3>4
  <2> QED  BY <1>3, <1>4, <1>5, <2>1, <2>2, EvictProperties
<1>7. c.resp \in [Ids -> Status \union {NoEntry}] /\ c.expiresAt \in [Ids -> Nat]
  BY DEF Cache
<1> QED  BY <1>3, <1>4, <1>6, <1>7

LEMMA GetEntries ==
  ASSUME NEW c, NEW maxEntries \in Nat \ {0}, c \in Cache, Coherent(c, maxEntries),
         NEW id \in Ids, NEW time \in Nat, NEW x \in Ids
  PROVE  LET g == Get(c, id, time)
         IN  \/ x \in Keys(g) /\ x \in Keys(c)
                  /\ g.resp[x] = c.resp[x] /\ g.expiresAt[x] = c.expiresAt[x]
             \/ x \notin Keys(g) /\ x \notin Keys(c)
             \/ x \notin Keys(g) /\ x = id /\ x \in Keys(c) /\ time >= c.expiresAt[x]
                  /\ ~ Hit(c, id, time)
<1> DEFINE g == Get(c, id, time)
<1>1. Shape(c)
  BY DEF Shape, Coherent
<1>2. CASE c.resp[id] = NoEntry
  <2>1. g = c
    BY <1>2 DEF Get, Hit
  <2> QED  BY <2>1
<1>3. CASE Hit(c, id, time)
  <2>1. id \in Keys(c) /\ g = Refresh(c, id)
    BY <1>3 DEF Keys, Hit, Get
  <2>2. g.resp = c.resp /\ g.expiresAt = c.expiresAt
    BY <1>1, <2>1, RefreshProperties
  <2>3. Keys(g) = Keys(c)
    BY <2>2 DEF Keys
  <2> HIDE DEF g
  <2> QED  BY <2>2, <2>3 DEF g
<1>4. CASE c.resp[id] # NoEntry /\ ~ Hit(c, id, time)
  <2>1. g = Delete(c, id)
    BY <1>4 DEF Get
  <2>2. /\ Keys(g) = Keys(c) \ {id}
        /\ \A y \in Ids \ {id} : g.resp[y] = c.resp[y] /\ g.expiresAt[y] = c.expiresAt[y]
    BY <1>1, <2>1, DeleteProperties
  <2>3. id \in Keys(c) /\ time >= c.expiresAt[id]
    BY <1>4 DEF Keys, Hit, Cache
  <2> HIDE DEF g
  <2> QED  BY <1>4, <2>2, <2>3 DEF g
<1> QED  BY <1>2, <1>3, <1>4

-----------------------------------------------------------------------------
(* Answers come from the handler.                                          *)

Given(id, answer) ==
  answer \in {"ok", "error"} => id \in started /\ answer \in settled[id]

CrossGiven == \A id \in Keys(cross) : Given(id, cross.resp[id])
HttpGiven  == \A id \in Keys(http) : Given(id, http.resp[id])
RunStarted == \A d \in Deliveries : delivery[d].phase = "handler" => delivery[d].id \in started

(* The caches hold only answers the handler gave, and a run in progress    *)
(* was started.                                                            *)
Provenance == AnswersComeFromHandler /\ CrossGiven /\ HttpGiven /\ RunStarted

HistoryGrows == started \subseteq started' /\ \A id \in Ids : settled[id] \subseteq settled'[id]

LEMMA GivenStays ==
  ASSUME HistoryGrows, NEW id \in Ids, NEW answer, Given(id, answer)
  PROVE  Given(id, answer)'
BY DEF HistoryGrows, Given

LEMMA RecordProvenance ==
  ASSUME TypeOK, Provenance, HistoryGrows, NEW d \in Deliveries, NEW q \in Delivery,
         delivery' = [delivery EXCEPT ![d] = q],
         Given(q.id, q.answer)', q.phase = "handler" => q.id \in started'
  PROVE  AnswersComeFromHandler' /\ RunStarted'
<1>1. \A e \in Deliveries : delivery'[e] = IF e = d THEN q ELSE delivery[e]
  BY DEF TypeOK
<1>2. ASSUME NEW e \in Deliveries, delivery'[e].answer \in {"ok", "error"}
      PROVE  delivery'[e].id \in started' /\ delivery'[e].answer \in settled'[delivery'[e].id]
  <2>1. CASE e = d
    BY <1>1, <1>2, <2>1 DEF Given
  <2>2. CASE e # d
    <3>1. /\ delivery'[e] = delivery[e]
          /\ delivery[e].id \in started /\ delivery[e].answer \in settled[delivery[e].id]
          /\ delivery[e].id \in Ids
      BY <1>1, <1>2, <2>2 DEF Provenance, AnswersComeFromHandler, TypeOK
    <3> QED  BY <3>1 DEF HistoryGrows
  <2> QED  BY <2>1, <2>2
<1>3. ASSUME NEW e \in Deliveries, delivery'[e].phase = "handler"
      PROVE  delivery'[e].id \in started'
  BY <1>1, <1>3 DEF Provenance, RunStarted, HistoryGrows
<1> QED  BY <1>2, <1>3 DEF AnswersComeFromHandler, RunStarted

LEMMA CacheProvenance ==
  ASSUME Typed, Provenance, HistoryGrows
  PROVE  /\ cross' = cross => CrossGiven'
         /\ http' = http => HttpGiven'
         /\ \A id \in Ids : cross' = Get(cross, id, now) => CrossGiven'
         /\ \A id \in Ids : http' = Get(http, id, now) => HttpGiven'
<1>1. /\ now \in Nat /\ CrossMaxEntries \in Nat \ {0} /\ HttpMaxEntries \in Nat \ {0}
      /\ cross \in Cache /\ Coherent(cross, CrossMaxEntries)
      /\ http \in Cache /\ Coherent(http, HttpMaxEntries)
  BY DispatchParameters DEF Typed, TypeOK, CachesCoherent
<1>3. \A x \in Ids : \A answer : Given(x, answer) =>
        (answer \in {"ok", "error"} => x \in started' /\ answer \in settled'[x])
  BY DEF Given, HistoryGrows
<1>4. ASSUME cross' = cross
      PROVE  CrossGiven'
  BY <1>3, <1>4 DEF Provenance, CrossGiven, Given, Keys
<1>5. ASSUME http' = http
      PROVE  HttpGiven'
  BY <1>3, <1>5 DEF Provenance, HttpGiven, Given, Keys
<1>6. ASSUME NEW id \in Ids, cross' = Get(cross, id, now)
      PROVE  CrossGiven'
  <2>1. ASSUME NEW x \in Ids, x \in Keys(cross')
        PROVE  x \in Keys(cross) /\ cross'.resp[x] = cross.resp[x]
    BY <1>1, <1>6, <2>1, GetEntries
  <2>2. Keys(cross') \subseteq Ids
    BY DEF Keys
  <2> QED  BY <1>3, <2>1, <2>2 DEF Provenance, CrossGiven, Given
<1>7. ASSUME NEW id \in Ids, http' = Get(http, id, now)
      PROVE  HttpGiven'
  <2>1. ASSUME NEW x \in Ids, x \in Keys(http')
        PROVE  x \in Keys(http) /\ http'.resp[x] = http.resp[x]
    BY <1>1, <1>7, <2>1, GetEntries
  <2>2. Keys(http') \subseteq Ids
    BY DEF Keys
  <2> QED  BY <1>3, <2>1, <2>2 DEF Provenance, HttpGiven, Given
<1> QED  BY <1>4, <1>5, <1>6, <1>7

LEMMA DeliverProvenance ==
  ASSUME Typed, Provenance, HistoryGrows, NEW d \in Deliveries,
         NEW r \in Delivery, r.id \in Ids, NEW answer \in Status,
         Deliver(d, r, answer), Given(r.id, answer)'
  PROVE  AnswersComeFromHandler' /\ RunStarted' /\ HttpGiven'
<1> DEFINE q == [r EXCEPT !.phase = "answered", !.answer = answer]
<1>1. q \in Delivery /\ q.id = r.id /\ q.answer = answer /\ q.phase = "answered"
  BY DEF Delivery
<1>2. delivery' = [delivery EXCEPT ![d] = q]
  BY DEF Deliver, Answer
<1> HIDE DEF q
<1>3. AnswersComeFromHandler' /\ RunStarted'
  <2>1. Given(q.id, q.answer)'
    BY <1>1
  <2> QED  BY <1>1, <1>2, <2>1, RecordProvenance DEF Typed
<1>4. HttpGiven'
  <2>1. CASE http' = http
    BY <2>1, CacheProvenance
  <2>2. CASE http' = Set(http, r.id, answer, Deadline[r.id] - now, now, HttpMaxEntries)
    <3>1. /\ Deadline[r.id] - now \in Int /\ now \in Nat /\ HttpMaxEntries \in Nat \ {0}
          /\ http \in Cache /\ Coherent(http, HttpMaxEntries)
      BY DispatchParameters DEF Typed, TypeOK, CachesCoherent
    <3>2. ASSUME NEW x \in Keys(http')
          PROVE  IF x = r.id THEN http'.resp[x] = answer
                             ELSE x \in Keys(http) /\ http'.resp[x] = http.resp[x]
      BY <2>2, <3>1, SetEntries
    <3>4. ASSUME NEW x \in Keys(http'), http'.resp[x] \in {"ok", "error"}
          PROVE  x \in started' /\ http'.resp[x] \in settled'[x]
      <4>1. CASE x = r.id
        BY <3>2, <3>4, <4>1 DEF Given
      <4>2. CASE x # r.id
        <5>1. x \in Keys(http) /\ http'.resp[x] = http.resp[x] /\ x \in Ids
          BY <3>2, <4>2 DEF Keys
        <5>2. x \in started /\ http.resp[x] \in settled[x]
          BY <3>4, <5>1 DEF Provenance, HttpGiven, Given
        <5> QED  BY <5>1, <5>2 DEF HistoryGrows
      <4> QED  BY <4>1, <4>2
    <3> QED  BY <3>4 DEF HttpGiven, Given
  <2> QED  BY <2>1, <2>2 DEF Deliver
<1> QED  BY <1>3, <1>4

LEMMA AwaitProvenance ==
  ASSUME Typed, Provenance, HistoryGrows, NEW d \in Deliveries, NEW r \in Delivery, r.id \in Ids,
         NEW phase \in Awaits, Await(d, r, phase),
         Given(r.id, r.answer), phase = "handler" => r.id \in started'
  PROVE  AnswersComeFromHandler' /\ RunStarted'
<1> DEFINE q == [r EXCEPT !.phase = phase]
<1>1. q \in Delivery /\ q.id = r.id /\ q.answer = r.answer /\ q.phase = phase
  BY DEF Delivery
<1>2. delivery' = [delivery EXCEPT ![d] = q]
  BY DEF Await
<1> HIDE DEF q
<1>3. Given(q.id, q.answer)'
  BY <1>1, GivenStays
<1> QED  BY <1>1, <1>2, <1>3, RecordProvenance DEF Typed

LEMMA DispatchProvenance ==
  ASSUME Typed, Provenance, HistoryGrows, NEW d \in Deliveries, NEW r \in Delivery, r.id \in Ids,
         Dispatch(d, r), Given(r.id, r.answer)
  PROVE  Provenance'
<1>1. CrossGiven'
  BY CacheProvenance DEF Dispatch
<1>2. CASE Hit(cross, r.id, now)
  <2>1. Deliver(d, r, cross.resp[r.id])
    BY <1>2 DEF Dispatch
  <2>2. r.id \in Keys(cross) /\ cross.resp[r.id] \in Status
    BY <1>2 DEF Hit, Keys, Typed, TypeOK, Cache
  <2>3. Given(r.id, cross.resp[r.id])
    BY <2>2 DEF Provenance, CrossGiven
  <2>4. Given(r.id, cross.resp[r.id]) => (cross.resp[r.id] \in {"ok", "error"} =>
          r.id \in started' /\ cross.resp[r.id] \in settled'[r.id])
    BY DEF Given, HistoryGrows
  <2>5. PICK answer \in Status : answer = cross.resp[r.id]
    BY <2>2
  <2>6. Given(r.id, answer)'
    BY <2>3, <2>4, <2>5 DEF Given
  <2> QED  BY <1>1, <2>1, <2>5, <2>6, DeliverProvenance DEF Provenance
<1>3. CASE ~ Hit(cross, r.id, now)
  <2>1. Await(d, r, "capability") /\ "capability" \in Awaits /\ http' = http
    BY <1>3 DEF Dispatch, Awaits
  <2>2. HttpGiven'
    BY <2>1, CacheProvenance
  <2>3. AnswersComeFromHandler' /\ RunStarted'
    BY <2>1, AwaitProvenance
  <2> QED  BY <1>1, <2>2, <2>3 DEF Provenance
<1> QED  BY <1>2, <1>3

LEMMA SettleProvenance ==
  ASSUME Typed, Provenance, HistoryGrows, NEW d \in Deliveries, delivery[d].phase \in Awaits,
         NEW answer \in Status, Settle(d, answer),
         answer \in {"ok", "error"} => delivery[d].id \in started'
  PROVE  Provenance'
<1>0. PICK r : r = delivery[d]
  OBVIOUS
<1>1. /\ r \in Delivery /\ r.id \in Ids /\ now \in Nat /\ Deadline[r.id] - now \in Int
      /\ CrossMaxEntries \in Nat \ {0} /\ cross \in Cache /\ Coherent(cross, CrossMaxEntries)
  BY <1>0, DispatchParameters DEF Typed, TypeOK, CachesCoherent
<1>2. /\ cross' = Set(cross, r.id, answer, Deadline[r.id] - now, now, CrossMaxEntries)
      /\ settled' = [settled EXCEPT ![r.id] = @ \union {answer}]
      /\ Deliver(d, r, answer)
      /\ answer \in {"ok", "error"} => r.id \in started'
  BY <1>0 DEF Settle
<1>3. Given(r.id, answer)'
  BY <1>1, <1>2 DEF Given, Typed, TypeOK
<1>4. AnswersComeFromHandler' /\ RunStarted' /\ HttpGiven'
  BY <1>1, <1>2, <1>3, DeliverProvenance
<1>5. CrossGiven'
  <2>1. ASSUME NEW x \in Keys(cross')
        PROVE  IF x = r.id THEN cross'.resp[x] = answer
                           ELSE x \in Keys(cross) /\ cross'.resp[x] = cross.resp[x]
    BY <1>1, <1>2, SetEntries
  <2>2. ASSUME NEW x \in Keys(cross'), cross'.resp[x] \in {"ok", "error"}
        PROVE  x \in started' /\ cross'.resp[x] \in settled'[x]
    <3>1. CASE x = r.id
      BY <1>3, <2>1, <2>2, <3>1 DEF Given
    <3>2. CASE x # r.id
      <4>1. x \in Keys(cross) /\ cross'.resp[x] = cross.resp[x] /\ x \in Ids
        BY <2>1, <3>2 DEF Keys
      <4>2. x \in started /\ cross.resp[x] \in settled[x]
        BY <2>2, <4>1 DEF Provenance, CrossGiven, Given
      <4> QED  BY <4>1, <4>2 DEF HistoryGrows
    <3> QED  BY <3>1, <3>2
  <2> QED  BY <2>2 DEF CrossGiven, Given
<1> QED  BY <1>4, <1>5 DEF Provenance

LEMMA ProvenanceNext == Typed /\ Provenance /\ [Next]_vars => Provenance'
<1> SUFFICES ASSUME Typed, Provenance, [Next]_vars PROVE Provenance'
  OBVIOUS
<1>0. /\ \A d \in Deliveries : delivery[d] \in Delivery
      /\ \A d \in Deliveries : delivery[d].phase \in Awaits => delivery[d].id \in Ids
      /\ settled \in [Ids -> SUBSET Status]
      /\ {"ok", "denied", "error", "timeout"} \subseteq Status
      /\ "ok" # NoEntry /\ "error" # NoEntry
  BY DispatchParameters, CacheParameters DEF Typed, TypeOK
<1>1. \A d \in Deliveries : Given(delivery[d].id, delivery[d].answer)
  BY DEF Provenance, AnswersComeFromHandler, Given
<1>2. ASSUME UNCHANGED <<settled, started>>
      PROVE  HistoryGrows
  BY <1>2 DEF HistoryGrows
<1>3. ASSUME NEW d \in Deliveries, NEW id \in Ids, ArriveLibp2p(d, id)
      PROVE  Provenance'
  <2> DEFINE r == [phase |-> "idle", id |-> id, via |-> "libp2p", answer |-> NoEntry]
  <2>1. r \in Delivery /\ r.id \in Ids /\ Given(r.id, r.answer)
    BY <1>0 DEF Delivery, Given
  <2>2. Dispatch(d, r) /\ HistoryGrows
    BY <1>2, <1>3 DEF ArriveLibp2p
  <2> HIDE DEF r
  <2> QED  BY <2>1, <2>2, DispatchProvenance
<1>4. ASSUME NEW d \in Deliveries, NEW id \in Ids, ArriveHttp(d, id)
      PROVE  Provenance'
  <2> DEFINE r == [phase |-> "idle", id |-> id, via |-> "http", answer |-> NoEntry]
             q == [r EXCEPT !.phase = "answered", !.answer = http.resp[id]]
  <2>1. r \in Delivery /\ r.id \in Ids /\ r.id = id /\ Given(r.id, r.answer)
    BY <1>0 DEF Delivery, Given
  <2>2. /\ http' = Get(http, id, now)
        /\ IF Hit(http, id, now) THEN Answer(d, r, http.resp[id]) ELSE Await(d, r, "signature")
        /\ cross' = cross /\ HistoryGrows
    BY <1>2, <1>4 DEF ArriveHttp
  <2>3. CrossGiven' /\ HttpGiven'
    BY <2>2, CacheProvenance
  <2>4. CASE Hit(http, id, now)
    <3>1. id \in Keys(http) /\ http.resp[id] \in Status /\ Given(id, http.resp[id])
      BY <2>4 DEF Hit, Keys, Typed, TypeOK, Cache, Provenance, HttpGiven
    <3>2. q \in Delivery /\ q.id = id /\ q.answer = http.resp[id] /\ q.phase = "answered"
      BY <2>1, <3>1 DEF Delivery
    <3>3. delivery' = [delivery EXCEPT ![d] = q]
      BY <2>2, <2>4 DEF Answer
    <3> HIDE DEF q, r
    <3>4. Given(q.id, q.answer)
      BY <3>1, <3>2
    <3>5. Given(q.id, q.answer) => (q.answer \in {"ok", "error"} =>
            q.id \in started' /\ q.answer \in settled'[q.id])
      BY <2>2, <3>2 DEF Given, HistoryGrows
    <3>6. PICK p \in Delivery : p = q
      BY <3>2
    <3>7. Given(p.id, p.answer)'
      BY <3>4, <3>5, <3>6 DEF Given
    <3>8. AnswersComeFromHandler' /\ RunStarted'
      BY <2>2, <3>2, <3>3, <3>6, <3>7, RecordProvenance DEF Typed
    <3> QED  BY <2>3, <3>8 DEF Provenance
  <2>5. CASE ~ Hit(http, id, now)
    <3> HIDE DEF r
    <3>1. Await(d, r, "signature") /\ "signature" \in Awaits
      BY <2>2, <2>5 DEF Awaits
    <3>2. AnswersComeFromHandler' /\ RunStarted'
      BY <2>1, <2>2, <3>1, AwaitProvenance
    <3> QED  BY <2>3, <3>2 DEF Provenance
  <2> QED  BY <2>4, <2>5
<1>5. ASSUME NEW d \in Deliveries, NEW identityOk \in BOOLEAN, SignatureChecked(d, identityOk)
      PROVE  Provenance'
  <2>0. PICK r : r = delivery[d]
    OBVIOUS
  <2>1. r \in Delivery /\ r.id \in Ids /\ Given(r.id, r.answer) /\ HistoryGrows
    BY <1>0, <1>1, <1>2, <1>5, <2>0 DEF SignatureChecked, Awaits
  <2>2. CASE Dispatch(d, r)
    BY <2>1, <2>2, DispatchProvenance
  <2>3. CASE ~ Dispatch(d, r)
    <3>1. /\ Answer(d, r, "denied") \/ Answer(d, r, "timeout")
          /\ http' = http /\ cross' = cross
      BY <1>5, <2>0, <2>3 DEF SignatureChecked
    <3>2. PICK answer \in {"denied", "timeout"} :
            delivery' = [delivery EXCEPT ![d] = [r EXCEPT !.phase = "answered", !.answer = answer]]
      BY <3>1 DEF Answer
    <3> DEFINE q == [r EXCEPT !.phase = "answered", !.answer = answer]
    <3>3. q \in Delivery /\ q.answer = answer /\ q.phase = "answered"
      BY <1>0, <2>1 DEF Delivery
    <3>4. delivery' = [delivery EXCEPT ![d] = q]
      BY <3>2
    <3> HIDE DEF q
    <3>5. Given(q.id, q.answer)'
      BY <3>3 DEF Given
    <3>6. AnswersComeFromHandler' /\ RunStarted'
      BY <2>1, <3>3, <3>4, <3>5, RecordProvenance DEF Typed
    <3> QED  BY <2>1, <3>1, <3>6, CacheProvenance DEF Provenance
  <2> QED  BY <2>2, <2>3
<1>6. ASSUME NEW d \in Deliveries, CapabilityGranted(d)
      PROVE  Provenance'
  <2>0. PICK r : r = delivery[d]
    OBVIOUS
  <2>1. /\ r \in Delivery /\ r.id \in Ids /\ Given(r.id, r.answer)
        /\ Await(d, r, "handler") /\ "handler" \in Awaits
        /\ r.id \in started'
        /\ http' = http /\ cross' = cross /\ HistoryGrows
    BY <1>0, <1>1, <1>6, <2>0 DEF CapabilityGranted, Awaits, HistoryGrows
  <2>2. AnswersComeFromHandler' /\ RunStarted'
    BY <2>1, AwaitProvenance
  <2> QED  BY <2>1, <2>2, CacheProvenance DEF Provenance
<1>7. ASSUME NEW d \in Deliveries, CapabilityRefused(d)
      PROVE  Provenance'
  <2>1. delivery[d].phase \in Awaits /\ delivery[d].id \in Ids /\ Settle(d, "denied")
        /\ started' = started
    BY <1>0, <1>7 DEF CapabilityRefused, Awaits
  <2>2. HistoryGrows
    BY <1>0, <2>1 DEF Settle, HistoryGrows
  <2> QED  BY <1>0, <2>1, <2>2, SettleProvenance
<1>8. ASSUME NEW d \in Deliveries, CapabilityThrew(d)
      PROVE  Provenance'
  <2>0. PICK r : r = delivery[d]
    OBVIOUS
  <2>1. /\ r \in Delivery /\ r.id \in Ids
        /\ Deliver(d, r, "denied") /\ cross' = cross /\ HistoryGrows
    BY <1>0, <1>2, <1>8, <2>0 DEF CapabilityThrew, Awaits
  <2>2. Given(r.id, "denied")' /\ "denied" \in Status
    BY <1>0 DEF Given
  <2>3. AnswersComeFromHandler' /\ RunStarted' /\ HttpGiven'
    BY <2>1, <2>2, DeliverProvenance
  <2> QED  BY <2>1, <2>3, CacheProvenance DEF Provenance
<1>9. ASSUME NEW d \in Deliveries, NEW answer \in HandlerAnswers, HandlerReturned(d, answer)
      PROVE  Provenance'
  <2>1. /\ delivery[d].phase \in Awaits /\ delivery[d].id \in Ids /\ Settle(d, answer)
        /\ started' = started /\ answer \in Status /\ delivery[d].id \in started
    BY <1>0, <1>9, DispatchParameters DEF HandlerReturned, Awaits, Provenance, RunStarted
  <2>2. HistoryGrows
    BY <1>0, <2>1 DEF Settle, HistoryGrows
  <2> QED  BY <2>1, <2>2, SettleProvenance
<1>10. CASE Tick \/ UNCHANGED vars
  <2>1. HistoryGrows /\ cross' = cross /\ http' = http /\ delivery' = delivery
        /\ UNCHANGED <<settled, started>>
    BY <1>2, <1>10 DEF Tick, vars
  <2>2. AnswersComeFromHandler' /\ RunStarted'
    BY <2>1 DEF Provenance, AnswersComeFromHandler, RunStarted
  <2> QED  BY <2>1, <2>2, CacheProvenance DEF Provenance
<1> QED  BY <1>3, <1>4, <1>5, <1>6, <1>7, <1>8, <1>9, <1>10 DEF Next, Resume

LEMMA ProvenanceInit == Init => Provenance
<1> SUFFICES ASSUME Init PROVE Provenance
  OBVIOUS
<1>1. Keys(cross) = {} /\ Keys(http) = {}
  BY DispatchParameters, EmptyCacheProperties DEF Init
<1>2. \A d \in Deliveries : delivery[d].answer = NoEntry /\ delivery[d].phase = "idle"
  BY DEF Init, NoDelivery
<1>3. "ok" # NoEntry /\ "error" # NoEntry
  BY DispatchParameters, CacheParameters
<1> QED  BY <1>1, <1>2, <1>3
         DEF Provenance, AnswersComeFromHandler, CrossGiven, HttpGiven, RunStarted

(* Whatever is evicted, and however deliveries of one request overlap, an  *)
(* answer "ok" or "error" was given by the handler to this request         *)
(* (inbound.ts dispatch, http handleInbound).                              *)
THEOREM AnswersAreTheHandlers == Spec => []AnswersComeFromHandler
<1>1. Provenance => AnswersComeFromHandler
  BY DEF Provenance
<1> QED  BY <1>1, TypedInit, TypedNext, ProvenanceInit, ProvenanceNext, PTL DEF Spec

-----------------------------------------------------------------------------
(* What dispatch remembers.                                                *)

(* Every key has seen the use of all newer ones.                           *)
Recent(s, used) == \A i, j \in 1..Len(s) : i < j => s[j] \in used[s[i]]

Lasting == \A x \in Keys(cross) : cross.expiresAt[x] >= Deadline[x]

Pressed(x) == Cardinality(since[x]) >= CrossMaxEntries

(* An answer that is still due is remembered or was pressed out.           *)
Remembered ==
  \A x \in Ids : settled[x] # {} /\ now < Deadline[x] => x \in Keys(cross) \/ Pressed(x)

Memory == Recent(cross.order, since) /\ Lasting /\ Remembered

LEMMA UsedGrows ==
  ASSUME Typed, NEW id \in Ids, Used(id), NEW x \in Ids, x # id, Pressed(x)
  PROVE  Pressed(x)'
<1>1. since[x] \subseteq since'[x] /\ since'[x] \subseteq Ids /\ IsFiniteSet(Ids)
  BY CacheParameters DEF Used, Typed, TypeOK
<1>2. IsFiniteSet(since'[x])
  BY <1>1, FS_Subset
<1>3. /\ Cardinality(since[x]) <= Cardinality(since'[x])
      /\ Cardinality(since[x]) \in Nat /\ Cardinality(since'[x]) \in Nat
  BY <1>1, <1>2, FS_Subset, FS_CardinalityType
<1>4. CrossMaxEntries \in Nat
  BY DispatchParameters
<1> QED  BY <1>3, <1>4 DEF Pressed

LEMMA UsedRecent ==
  ASSUME Typed, Recent(cross.order, since), NEW id \in Ids, Used(id)
  PROVE  Recent(Append(Without(cross.order, id), id), since')
<1> DEFINE s == cross.order
           t == Append(Without(s, id), id)
<1>1. s \in Seq(Ids) /\ IsInjective(s) /\ since \in [Ids -> SUBSET Ids]
  BY DEF Typed, TypeOK, CachesCoherent, Coherent, Cache
<1>2. since' = [i \in Ids |-> IF i = id THEN {} ELSE since[i] \union {id}]
  BY DEF Used
<1>3. \A i, j \in 1..Len(s) : i < j => s[j] \in since[s[i]]
  BY DEF Recent
<1> HIDE DEF s
<1>4. /\ t \in Seq(Ids)
      /\ \A i, j \in 1..Len(t) : i < j =>
           \/ t[j] = id /\ t[i] # id
           \/ /\ t[i] # id /\ t[j] # id
              /\ \E k, l \in 1..Len(s) : k < l /\ s[k] = t[i] /\ s[l] = t[j]
  BY <1>1, RenewedOrder
<1> HIDE DEF t
<1>5. ASSUME NEW i \in 1..Len(t), NEW j \in 1..Len(t), i < j
      PROVE  t[j] \in since'[t[i]]
  <2>1. t[i] \in Ids
    BY <1>4
  <2>2. CASE t[j] = id /\ t[i] # id
    BY <1>2, <2>1, <2>2
  <2>3. CASE /\ t[i] # id /\ t[j] # id
             /\ \E k, l \in 1..Len(s) : k < l /\ s[k] = t[i] /\ s[l] = t[j]
    <3>1. t[j] \in since[t[i]]
      BY <1>3, <2>3
    <3> QED  BY <1>2, <2>1, <2>3, <3>1
  <2> QED  BY <1>4, <1>5, <2>2, <2>3
<1>6. Recent(t, since')
  BY <1>5 DEF Recent
<1> QED  BY <1>6 DEF t, s

LEMMA RecentKept ==
  ASSUME NEW s, NEW t, NEW used, OrderKept(s, t), Recent(s, used)
  PROVE  Recent(t, used)
<1> SUFFICES ASSUME NEW i \in 1..Len(t), NEW j \in 1..Len(t), i < j
             PROVE  t[j] \in used[t[i]]
  BY DEF Recent
<1>1. PICK k \in 1..Len(s), l \in 1..Len(s) : k < l /\ s[k] = t[i] /\ s[l] = t[j]
  BY DEF OrderKept
<1> QED  BY <1>1 DEF Recent

(* The oldest key of an overfull cache has seen all the others used.       *)
LEMMA OldestPressed ==
  ASSUME NEW s \in Seq(Ids), IsInjective(s), NEW used \in [Ids -> SUBSET Ids],
         Recent(s, used), Len(s) = CrossMaxEntries + 1
  PROVE  Cardinality(used[s[1]]) >= CrossMaxEntries
<1>1. CrossMaxEntries \in Nat \ {0} /\ IsFiniteSet(Ids)
  BY DispatchParameters, CacheParameters
<1>2. 1 \in 1..Len(s) /\ DOMAIN s = 1..Len(s) /\ s[1] \in Ids
  BY <1>1
<1>3. ToSet(s) \ {s[1]} \subseteq used[s[1]]
  <2> SUFFICES ASSUME NEW x \in ToSet(s), x # s[1]
               PROVE  x \in used[s[1]]
    OBVIOUS
  <2>1. PICK j \in 1..Len(s) : x = s[j]
    BY <1>2 DEF ToSet
  <2>2. 1 < j
    BY <2>1, <1>2
  <2> QED  BY <1>2, <2>1, <2>2 DEF Recent
<1>4. IsFiniteSet(ToSet(s)) /\ Cardinality(ToSet(s)) = CrossMaxEntries + 1
  BY InjectiveLength
<1>5. s[1] \in ToSet(s)
  BY <1>2 DEF ToSet
<1>6. Cardinality(ToSet(s) \ {s[1]}) = CrossMaxEntries
  <2>1. Cardinality(ToSet(s) \ {s[1]}) = Cardinality(ToSet(s)) - 1
    BY <1>4, <1>5, FS_RemoveElement
  <2> QED  BY <1>1, <1>4, <2>1
<1>7. IsFiniteSet(used[s[1]])
  BY <1>1, <1>2, FS_Subset
<1>8. /\ Cardinality(ToSet(s) \ {s[1]}) <= Cardinality(used[s[1]])
      /\ Cardinality(used[s[1]]) \in Nat
  BY <1>3, <1>7, FS_Subset, FS_CardinalityType
<1> QED  BY <1>1, <1>6, <1>8

LEMMA DispatchMemory ==
  ASSUME Typed, Memory, NEW d \in Deliveries, NEW r, r.id \in Ids, Dispatch(d, r),
         UNCHANGED <<now, settled>>
  PROVE  /\ Memory'
         /\ Hit(cross, r.id, now)
              \/ settled[r.id] = {} \/ now >= Deadline[r.id] \/ Pressed(r.id)
<1>1. /\ now \in Nat /\ Deadline \in [Ids -> Nat] /\ CrossMaxEntries \in Nat \ {0}
      /\ cross \in Cache /\ Coherent(cross, CrossMaxEntries) /\ Shape(cross)
  BY DispatchParameters DEF Typed, TypeOK, CachesCoherent, Shape, Coherent
<1>2. cross' = Get(cross, r.id, now)
  BY DEF Dispatch
<1>3. CASE Hit(cross, r.id, now)
  <2>1. r.id \in Keys(cross) /\ cross' = Refresh(cross, r.id) /\ Used(r.id)
    BY <1>2, <1>3 DEF Get, Hit, Keys, Dispatch
  <2>2. /\ cross'.order = Append(Without(cross.order, r.id), r.id)
        /\ cross'.resp = cross.resp
        /\ cross'.expiresAt = cross.expiresAt
    BY <1>1, <2>1, RefreshProperties
  <2>3. Recent(cross'.order, since')
    BY <2>1, <2>2, UsedRecent DEF Memory
  <2>4. Keys(cross') = Keys(cross)
    BY <2>2 DEF Keys
  <2>5. Lasting'
    BY <2>2, <2>4 DEF Memory, Lasting
  <2>6. Remembered'
    <3> SUFFICES ASSUME NEW x \in Ids, settled'[x] # {} /\ now' < Deadline[x], x \notin Keys(cross')
                 PROVE  Pressed(x)'
      BY DEF Remembered
    <3>1. Pressed(x) /\ x # r.id
      BY <2>1, <2>4 DEF Memory, Remembered
    <3> QED  BY <2>1, <3>1, UsedGrows
  <2> QED  BY <1>3, <2>3, <2>5, <2>6 DEF Memory
<1>4. CASE ~ Hit(cross, r.id, now)
  <2>1. since' = since
    BY <1>4 DEF Dispatch
  <2>2. \A x \in Ids :
          \/ x \in Keys(cross') /\ x \in Keys(cross) /\ cross'.expiresAt[x] = cross.expiresAt[x]
          \/ x \notin Keys(cross') /\ x \notin Keys(cross)
          \/ x \notin Keys(cross') /\ x \in Keys(cross) /\ now >= cross.expiresAt[x]
    BY <1>1, <1>2, GetEntries
  <2>3. Keys(cross) \subseteq Ids /\ Keys(cross') \subseteq Ids
    BY DEF Keys
  <2>4. \A x \in Keys(cross) : cross.expiresAt[x] \in Nat /\ cross.expiresAt[x] >= Deadline[x]
    BY <1>1, <2>3 DEF Memory, Lasting, Cache
  <2>5. Recent(cross'.order, since')
    <3>1. CASE cross' = cross
      BY <2>1, <3>1 DEF Memory
    <3>2. CASE cross' = Delete(cross, r.id)
      <4>1. OrderKept(cross.order, cross'.order)
        BY <1>1, <3>2, DeleteProperties
      <4> QED  BY <2>1, <4>1, RecentKept DEF Memory
    <3> QED  BY <1>2, <1>4, <3>1, <3>2 DEF Get, Hit
  <2>6. Lasting'
    BY <2>2, <2>3, <2>4 DEF Lasting
  <2>7. Remembered'
    <3> SUFFICES ASSUME NEW x \in Ids, settled[x] # {}, now < Deadline[x], x \notin Keys(cross')
                 PROVE  Pressed(x)
      BY <2>1 DEF Remembered, Pressed
    <3>1. x \notin Keys(cross)
      BY <1>1, <2>2, <2>4
    <3> QED  BY <3>1 DEF Memory, Remembered
  <2>8. settled[r.id] = {} \/ now >= Deadline[r.id] \/ Pressed(r.id)
    <3> SUFFICES ASSUME settled[r.id] # {}, now < Deadline[r.id]
                 PROVE  Pressed(r.id)
      BY <1>1
    <3>1. ASSUME r.id \in Keys(cross)
          PROVE  Hit(cross, r.id, now)
      <4>1. cross.expiresAt[r.id] \in Nat /\ cross.expiresAt[r.id] >= Deadline[r.id]
        BY <2>4, <3>1
      <4>2. cross.resp[r.id] # NoEntry
        BY <3>1 DEF Keys
      <4> QED  BY <1>1, <4>1, <4>2 DEF Hit
    <3> QED  BY <1>4, <3>1 DEF Memory, Remembered
  <2> QED  BY <2>5, <2>6, <2>7, <2>8 DEF Memory
<1> QED  BY <1>3, <1>4

LEMMA SettleMemory ==
  ASSUME Typed, Memory, NEW d \in Deliveries, NEW id \in Ids, delivery[d].id = id,
         NEW answer \in Status, Settle(d, answer), now' = now
  PROVE  Memory'
<1> DEFINE expiry == now + (IF Deadline[id] - now > 0 THEN Deadline[id] - now ELSE 0)
<1>1. /\ now \in Nat /\ Deadline \in [Ids -> Nat] /\ CrossMaxEntries \in Nat \ {0}
      /\ cross \in Cache /\ Coherent(cross, CrossMaxEntries) /\ Shape(cross)
      /\ Len(cross.order) <= CrossMaxEntries /\ Len(cross.order) \in Nat
      /\ settled \in [Ids -> SUBSET Status] /\ since \in [Ids -> SUBSET Ids]
  BY DispatchParameters DEF Typed, TypeOK, CachesCoherent, Shape, Coherent, Cache
<1>2. expiry \in Nat /\ expiry >= Deadline[id] /\ Deadline[id] - now \in Int
  BY <1>1
<1>3. /\ cross' = Set(cross, id, answer, Deadline[id] - now, now, CrossMaxEntries)
      /\ settled' = [settled EXCEPT ![id] = @ \union {answer}]
      /\ Used(id)
  BY DEF Settle
<1>p. PICK p : p = Put(cross, id, answer, expiry)
  OBVIOUS
<1>4. cross' = Evict(p, CrossMaxEntries)
  BY <1>3, <1>p DEF Set
<1> HIDE DEF expiry
<1>5. /\ Shape(p) /\ p.order = Append(Without(cross.order, id), id)
      /\ Keys(p) = Keys(cross) \union {id} /\ Len(p.order) <= Len(cross.order) + 1
  <2>1. PICK c, e : c = cross /\ e = expiry /\ e \in Nat
    BY <1>2
  <2>2. Shape(c)
    BY <1>1, <2>1
  <2>3. p = Put(c, id, answer, e)
    BY <1>p, <2>1
  <2>4. p.order = Append(Without(c.order, id), id)
    BY <2>3 DEF Put
  <2>5. Shape(p) /\ Len(p.order) <= Len(c.order) + 1
    BY <2>1, <2>2, <2>3, PutProperties
  <2>6. Keys(p) = Keys(c) \union {id}
    <3>1. c.resp \in [Ids -> Status \union {NoEntry}]
      BY <2>2 DEF Shape, Cache
    <3>2. p.resp = [c.resp EXCEPT ![id] = answer]
      BY <2>3 DEF Put
    <3> QED  BY <3>1, <3>2, CacheParameters DEF Keys
  <2> QED  BY <2>1, <2>4, <2>5, <2>6
<1>6. p.order \in Seq(Ids) /\ IsInjective(p.order) /\ Len(p.order) \in Nat
  <2>1. p.order \in Seq(Ids) /\ IsInjective(p.order)
    BY <1>5 DEF Shape, Cache
  <2> QED  BY <2>1
<1>7. p.order[Len(p.order)] = id
  <2>1. cross.order \in Seq(Ids) /\ IsInjective(cross.order)
    BY <1>1 DEF Shape, Cache
  <2> QED  BY <1>5, <2>1, RenewedOrder
<1>8. Recent(p.order, since')
  BY <1>3, <1>5, UsedRecent DEF Memory
<1>9. Lasting'
  <2> SUFFICES ASSUME NEW x \in Keys(cross')
               PROVE  cross'.expiresAt[x] >= Deadline[x]
    BY DEF Lasting
  <2>1. IF x = id THEN cross'.expiresAt[x] = expiry
                  ELSE x \in Keys(cross) /\ cross'.expiresAt[x] = cross.expiresAt[x]
    BY <1>1, <1>2, <1>3, SetEntries DEF expiry
  <2> QED  BY <1>2, <2>1 DEF Memory, Lasting
<1>10. ASSUME NEW x \in Ids, settled'[x] # {}, now < Deadline[x], x # id, x \notin Keys(cross)
       PROVE  Pressed(x)'
  <2>1. Pressed(x)
    BY <1>1, <1>3, <1>10 DEF Memory, Remembered
  <2> QED  BY <1>3, <1>10, <2>1, UsedGrows
<1>11. CASE cross' = p
  <2>1. Recent(cross'.order, since')
    BY <1>8, <1>11
  <2>2. Remembered'
    BY <1>5, <1>10, <1>11 DEF Remembered
  <2> QED  BY <1>9, <2>1, <2>2 DEF Memory
<1>12. CASE /\ cross' = Delete(p, p.order[1])
            /\ Len(p.order) = CrossMaxEntries + 1 /\ p.order[1] \in Keys(p)
  <2>1. PICK h \in Ids : h = p.order[1]
    BY <1>12 DEF Keys
  <2>2. /\ Keys(cross') = Keys(p) \ {h}
        /\ OrderKept(p.order, cross'.order)
    BY <1>5, <1>12, <2>1, DeleteProperties
  <2>3. Recent(cross'.order, since')
    BY <1>8, <2>2, RecentKept
  <2>4. h # id
    <3>1. 1 \in DOMAIN p.order /\ Len(p.order) \in DOMAIN p.order /\ Len(p.order) # 1
      BY <1>1, <1>6, <1>12
    <3> QED  BY <1>6, <1>7, <2>1, <3>1 DEF IsInjective
  <2>5. Pressed(h)'
    <3>1. since' \in [Ids -> SUBSET Ids]
      BY <1>1, <1>3 DEF Used
    <3>2. Cardinality(since'[p.order[1]]) >= CrossMaxEntries
      BY <1>6, <1>8, <1>12, <3>1, OldestPressed
    <3> QED  BY <2>1, <3>2 DEF Pressed
  <2>6. Remembered'
    <3> SUFFICES ASSUME NEW x \in Ids, settled'[x] # {}, now < Deadline[x], x \notin Keys(cross')
                 PROVE  Pressed(x)'
      BY DEF Remembered
    <3>1. x = h \/ (x # id /\ x \notin Keys(cross))
      BY <1>5, <2>2, <2>4
    <3> QED  BY <1>10, <2>5, <3>1
  <2> QED  BY <1>9, <2>3, <2>6 DEF Memory
<1>13. Len(p.order) <= CrossMaxEntries + 1
  BY <1>1, <1>5, <1>6
<1> QED  BY <1>1, <1>4, <1>5, <1>11, <1>12, <1>13, EvictProperties

(* The steps that leave cross and its history alone. *)
LEMMA MemoryKept ==
  ASSUME Typed, Memory, UNCHANGED <<cross, settled, since>>, now' \in Nat, now' >= now
  PROVE  Memory'
<1>1. now \in Nat /\ Deadline \in [Ids -> Nat]
  BY DispatchParameters DEF Typed, TypeOK
<1>2. Recent(cross.order, since)' /\ Lasting'
  BY DEF Memory, Recent, Lasting, Keys
<1>3. Remembered'
  <2> SUFFICES ASSUME NEW x \in Ids, settled[x] # {}, now' < Deadline[x]
               PROVE  x \in Keys(cross) \/ Pressed(x)
    BY DEF Remembered, Pressed, Keys
  <2>1. now < Deadline[x]
    BY <1>1
  <2> QED  BY <2>1 DEF Memory, Remembered
<1> QED  BY <1>2, <1>3 DEF Memory

(* What a step into "capability" shows of its request. *)
Unanswered(id) == settled[id] = {} \/ now >= Deadline[id] \/ Pressed(id)

Entered(d) == delivery[d].phase # "capability" /\ delivery'[d].phase = "capability"

LEMMA MemoryNext ==
  ASSUME Typed, Memory, [Next]_vars
  PROVE  Memory' /\ \A d \in Deliveries : Entered(d) => Unanswered(delivery'[d].id)
<1> DEFINE Shown == \A e \in Deliveries : Entered(e) => Unanswered(delivery'[e].id)
<1> SUFFICES Memory' /\ Shown
  OBVIOUS
<1>0. /\ \A e \in Deliveries : delivery[e] \in Delivery
      /\ \A e \in Deliveries : delivery[e].phase \in Awaits => delivery[e].id \in Ids
      /\ delivery \in [Deliveries -> Delivery] /\ now \in Nat
      /\ {"ok", "denied", "error", "timeout"} \subseteq Status
  BY DispatchParameters DEF Typed, TypeOK
(* A step that does not dispatch enters "capability" for nobody.           *)
<1>1. ASSUME NEW d \in Deliveries, NEW q, q.phase # "capability",
             delivery' = [delivery EXCEPT ![d] = q]
      PROVE  Shown
  BY <1>0, <1>1 DEF Entered
<1>2. ASSUME NEW d \in Deliveries, NEW r, r \in Delivery, r.id \in Ids, Dispatch(d, r),
             UNCHANGED <<now, settled>>
      PROVE  Memory' /\ Shown
  <2>1. /\ Memory'
        /\ Hit(cross, r.id, now) \/ Unanswered(r.id)
    BY <1>2, DispatchMemory DEF Unanswered
  <2>2. CASE Hit(cross, r.id, now)
    <3> DEFINE q == [r EXCEPT !.phase = "answered", !.answer = cross.resp[r.id]]
    <3>1. q.phase = "answered" /\ delivery' = [delivery EXCEPT ![d] = q]
      BY <1>2, <2>2 DEF Dispatch, Deliver, Answer, Delivery
    <3> HIDE DEF q
    <3> QED  BY <1>1, <2>1, <3>1
  <2>3. CASE ~ Hit(cross, r.id, now)
    <3> DEFINE q == [r EXCEPT !.phase = "capability"]
    <3>1. q.id = r.id /\ delivery' = [delivery EXCEPT ![d] = q]
      BY <1>2, <2>3 DEF Dispatch, Await, Delivery
    <3> HIDE DEF q
    <3>2. \A e \in Deliveries : Entered(e) => delivery'[e].id = r.id
      BY <1>0, <3>1 DEF Entered
    <3> QED  BY <2>1, <2>3, <3>2
  <2> QED  BY <2>2, <2>3
<1>3. ASSUME NEW d \in Deliveries, NEW answer \in Status, delivery[d].phase \in Awaits,
             Settle(d, answer), now' = now
      PROVE  Memory' /\ Shown
  <2>0. PICK r : r = delivery[d]
    OBVIOUS
  <2> DEFINE q == [r EXCEPT !.phase = "answered", !.answer = answer]
  <2>1. q.phase = "answered" /\ delivery' = [delivery EXCEPT ![d] = q]
    BY <1>0, <1>3, <2>0 DEF Settle, Deliver, Answer, Delivery
  <2> HIDE DEF q
  <2>2. r.id \in Ids
    BY <1>0, <1>3, <2>0
  <2>3. Memory'
    BY <1>3, <2>0, <2>2, SettleMemory
  <2> QED  BY <1>1, <2>1, <2>3
<1>4. ASSUME NEW d \in Deliveries, NEW id \in Ids, ArriveLibp2p(d, id)
      PROVE  Memory' /\ Shown
  <2> DEFINE r == [phase |-> "idle", id |-> id, via |-> "libp2p", answer |-> NoEntry]
  <2>1. r \in Delivery /\ r.id \in Ids
    BY DEF Delivery
  <2>2. Dispatch(d, r) /\ UNCHANGED <<now, settled>>
    BY <1>4 DEF ArriveLibp2p
  <2> HIDE DEF r
  <2> QED  BY <1>2, <2>1, <2>2
<1>5. ASSUME NEW d \in Deliveries, NEW id \in Ids, ArriveHttp(d, id)
      PROVE  Memory' /\ Shown
  <2> DEFINE r == [phase |-> "idle", id |-> id, via |-> "http", answer |-> NoEntry]
             q == [r EXCEPT !.phase = "answered", !.answer = http.resp[id]]
             w == [r EXCEPT !.phase = "signature"]
  <2>1. Memory'
    BY <1>0, <1>5, MemoryKept DEF ArriveHttp
  <2>2. delivery' = [delivery EXCEPT ![d] = q] \/ delivery' = [delivery EXCEPT ![d] = w]
    BY <1>5 DEF ArriveHttp, Answer, Await
  <2>3. q.phase = "answered" /\ w.phase = "signature"
    OBVIOUS
  <2> HIDE DEF q, w
  <2> QED  BY <1>1, <2>1, <2>2, <2>3
<1>6. ASSUME NEW d \in Deliveries, NEW identityOk \in BOOLEAN, SignatureChecked(d, identityOk)
      PROVE  Memory' /\ Shown
  <2>0. PICK r : r = delivery[d]
    OBVIOUS
  <2>1. r \in Delivery /\ r.id \in Ids /\ UNCHANGED <<now, settled>>
    BY <1>0, <1>6, <2>0 DEF SignatureChecked, Awaits
  <2>2. CASE Dispatch(d, r)
    BY <1>2, <2>1, <2>2
  <2>3. CASE ~ Dispatch(d, r)
    <3>1. /\ Answer(d, r, "denied") \/ Answer(d, r, "timeout")
          /\ UNCHANGED <<cross, since>>
      BY <1>6, <2>0, <2>3 DEF SignatureChecked
    <3>2. PICK answer : delivery' = [delivery EXCEPT ![d] =
                                       [r EXCEPT !.phase = "answered", !.answer = answer]]
      BY <3>1 DEF Answer
    <3> DEFINE q == [r EXCEPT !.phase = "answered", !.answer = answer]
    <3>3. q.phase = "answered" /\ delivery' = [delivery EXCEPT ![d] = q]
      BY <2>1, <3>2 DEF Delivery
    <3> HIDE DEF q
    <3>4. Memory'
      BY <1>0, <2>1, <3>1, MemoryKept
    <3>5. PICK z : z = q
      OBVIOUS
    <3> QED  BY <1>1, <3>3, <3>4, <3>5
  <2> QED  BY <2>2, <2>3
<1>7. ASSUME NEW d \in Deliveries, CapabilityGranted(d)
      PROVE  Memory' /\ Shown
  <2> DEFINE q == [delivery[d] EXCEPT !.phase = "handler"]
  <2>1. q.phase = "handler" /\ delivery' = [delivery EXCEPT ![d] = q]
    BY <1>0, <1>7 DEF CapabilityGranted, Await, Delivery
  <2>2. Memory'
    BY <1>0, <1>7, MemoryKept DEF CapabilityGranted
  <2>3. PICK z : z = q
    OBVIOUS
  <2> HIDE DEF q
  <2> QED  BY <1>1, <2>1, <2>2, <2>3
<1>8. ASSUME NEW d \in Deliveries, CapabilityRefused(d)
      PROVE  Memory' /\ Shown
  BY <1>0, <1>3, <1>8 DEF CapabilityRefused, Awaits
<1>9. ASSUME NEW d \in Deliveries, CapabilityThrew(d)
      PROVE  Memory' /\ Shown
  <2> DEFINE q == [delivery[d] EXCEPT !.phase = "answered", !.answer = "denied"]
  <2>1. q.phase = "answered" /\ delivery' = [delivery EXCEPT ![d] = q]
    BY <1>0, <1>9 DEF CapabilityThrew, Deliver, Answer, Delivery
  <2>2. Memory'
    BY <1>0, <1>9, MemoryKept DEF CapabilityThrew
  <2>3. PICK z : z = q
    OBVIOUS
  <2> HIDE DEF q
  <2> QED  BY <1>1, <2>1, <2>2, <2>3
<1>10. ASSUME NEW d \in Deliveries, NEW answer \in HandlerAnswers, HandlerReturned(d, answer)
       PROVE  Memory' /\ Shown
  <2>1. answer \in Status
    BY DispatchParameters
  <2> QED  BY <1>0, <1>3, <1>10, <2>1 DEF HandlerReturned, Awaits
<1>11. CASE Tick
  BY <1>0, <1>11, MemoryKept DEF Tick, Entered
<1>12. CASE UNCHANGED vars
  BY <1>0, <1>12, MemoryKept DEF vars, Entered
<1> QED  BY <1>4, <1>5, <1>6, <1>7, <1>8, <1>9, <1>10, <1>11, <1>12 DEF Next, Resume

(* However many duplicates arrive, over either transport: until its        *)
(* deadline a request is verified and handled again after it was answered  *)
(* only if CrossMaxEntries other requests were used in between             *)
(* (packages/mesh-router/src/dedup.ts, inbound.ts).                        *)
THEOREM ForgetsUnderPressure == Spec => ForgetsOnlyUnderPressure
<1>1. Init => Memory
  <2> SUFFICES ASSUME Init PROVE Memory
    OBVIOUS
  <2>1. Keys(cross) = {} /\ cross.order = <<>> /\ \A x \in Ids : settled[x] = {}
    BY DispatchParameters, EmptyCacheProperties DEF Init, EmptyCache
  <2> QED  BY <2>1 DEF Memory, Recent, Lasting, Remembered
<1>2. Typed /\ Memory /\ [Next]_vars => Memory'
  BY MemoryNext
<1>3. Typed /\ Memory /\ [Next]_vars =>
        [\A d \in Deliveries :
           (delivery[d].phase # "capability" /\ delivery'[d].phase = "capability")
             => LET id == delivery'[d].id
                IN  settled[id] = {} \/ now >= Deadline[id]
                      \/ Cardinality(since[id]) >= CrossMaxEntries]_vars
  BY MemoryNext DEF Entered, Unanswered, Pressed
<1> QED  BY <1>1, <1>2, <1>3, TypedInit, TypedNext, PTL DEF Spec, ForgetsOnlyUnderPressure

(* dispatchInbound and the two caches it consults: types, coherent caches  *)
(* and answers that the handler gave, in every reachable state.            *)
THEOREM DispatchIsSound == Spec => []DispatchSound
<1>1. TypeOK /\ CachesCoherent /\ AnswersComeFromHandler => DispatchSound
  BY DEF DispatchSound
<1> QED BY <1>1, TypeCorrect, CachesStayCoherent, AnswersAreTheHandlers, PTL

-----------------------------------------------------------------------------
(* The calls over http.                                                    *)

(* A call that waits has a timer that is due neither in the past nor after *)
(* its deadline; a pause is followed by a try only while tries are left.   *)
TimersSet ==
  \A c \in Calls :
    /\ call[c].phase = "idle" => call[c].tries = 0
    /\ call[c].phase = "pausing" => call[c].tries <= MaxRetries
    /\ call[c].phase \in {"trying", "pausing"} =>
         now <= call[c].until /\ call[c].until <= Deadline[c]

(* What the loop remembers of earlier tries it was told by the node.       *)
Told(c, response) ==
  response \in settled[c] \union {"denied", "timeout", NoEntry}

Heard == \A c \in Calls : Told(c, call[c].last)

RpcInv == Typed /\ Provenance /\ RpcTypeOK /\ TimersSet /\ Heard

-----------------------------------------------------------------------------
(* Every step of the composition is a step of the node or leaves it alone. *)
LEMMA NodeSteps == RpcTypeOK /\ [RpcNext]_allVars => [Next]_vars
<1> SUFFICES ASSUME RpcTypeOK, [RpcNext]_allVars PROVE [Next]_vars
  OBVIOUS
<1>1. CASE UNCHANGED inboundVars
  BY <1>1 DEF inboundVars, vars
<1>2. ASSUME NEW p \in posts, NEW d \in Deliveries, PostArrives(p[1], p[2], d)
      PROVE  Next
  <2>1. p[1] \in Ids
    BY RpcParameters DEF RpcTypeOK
  <2> QED BY <1>2, <2>1 DEF PostArrives, Next
<1>3. ASSUME NEW d \in Deliveries, NEW c \in Calls, OtherArrives(d, c)
      PROVE  Next
  <2>1. c \in Ids
    BY RpcParameters
  <2> QED BY <1>3, <2>1 DEF OtherArrives, Next
<1>4. ASSUME NEW d \in Deliveries, RpcResume(d)
      PROVE  Next
  BY <1>4 DEF RpcResume, Next
<1>5. CASE RpcTick
  BY <1>5 DEF RpcTick, Next
<1>6. ASSUME NEW c \in Calls, TryAgain(c) \/ TryFails(c) \/ TryLater(c)
      PROVE  UNCHANGED inboundVars
  BY <1>6 DEF TryAgain, TryFails, TryLater
<1>7. ASSUME NEW p \in posts, PostLost(p[1], p[2])
      PROVE  UNCHANGED inboundVars
  BY <1>7 DEF PostLost
<1>8. ASSUME NEW d \in Deliveries, NEW c \in Calls, ResponseRead(c, d)
      PROVE  UNCHANGED inboundVars
  BY <1>8 DEF ResponseRead
<1>9. CASE UNCHANGED allVars
  BY <1>9 DEF allVars
<1> QED BY <1>1, <1>2, <1>3, <1>4, <1>5, <1>6, <1>7, <1>8, <1>9 DEF RpcNext

(* dispatch forgets nothing it has answered.                               *)
LEMMA SettledGrows ==
  ASSUME Typed, [Next]_vars
  PROVE  \A id \in Ids : settled[id] \subseteq settled'[id]
<1>1. settled \in [Ids -> SUBSET Status]
  BY DEF Typed, TypeOK
<1>2. ASSUME NEW d \in Deliveries, NEW answer, Settle(d, answer)
      PROVE  \A id \in Ids : settled[id] \subseteq settled'[id]
  BY <1>1, <1>2 DEF Settle
<1>3. CASE settled' = settled
  BY <1>3
<1>4. ASSUME NEW d \in Deliveries, Resume(d)
      PROVE  settled' = settled \/ \E answer : Settle(d, answer)
  BY <1>4 DEF Resume, SignatureChecked, CapabilityGranted, CapabilityRefused,
              CapabilityThrew, HandlerReturned
<1>5. ASSUME NEW d \in Deliveries, NEW id \in Ids, ArriveLibp2p(d, id) \/ ArriveHttp(d, id)
      PROVE  settled' = settled
  BY <1>5 DEF ArriveLibp2p, ArriveHttp
<1>6. CASE Tick
  BY <1>6 DEF Tick
<1>7. CASE UNCHANGED vars
  BY <1>7 DEF vars
<1> QED BY <1>2, <1>3, <1>4, <1>5, <1>6, <1>7 DEF Next
-----------------------------------------------------------------------------
(* One call takes a step of its loop: types, timers and what it has heard. *)
LEMMA LoopStep ==
  ASSUME RpcInv, NEW c \in Calls, NEW r \in Call, call' = [call EXCEPT ![c] = r],
         UNCHANGED <<now, settled>>,
         r.phase = "returned" <=> r.result # NoEntry,
         r.phase = "idle" => r.tries = 0,
         r.phase = "pausing" => r.tries <= MaxRetries,
         r.phase \in {"trying", "pausing"} => now <= r.until /\ r.until <= Deadline[c],
         Told(c, r.last)
  PROVE  /\ call' \in [Calls -> Call]
         /\ \A k \in Calls : call'[k].phase = "returned" <=> call'[k].result # NoEntry
         /\ TimersSet'
         /\ Heard'
<1>1. /\ call \in [Calls -> Call]
      /\ \A k \in Calls : call'[k] = IF k = c THEN r ELSE call[k]
  BY DEF RpcInv, RpcTypeOK
<1>2. call' \in [Calls -> Call]
  BY <1>1 DEF RpcInv, RpcTypeOK
<1>3. \A k \in Calls : call'[k].phase = "returned" <=> call'[k].result # NoEntry
  BY <1>1 DEF RpcInv, RpcTypeOK
<1>4. TimersSet'
  BY <1>1 DEF RpcInv, TimersSet
<1>5. Heard'
  BY <1>1 DEF RpcInv, Heard, Told
<1> QED BY <1>2, <1>3, <1>4, <1>5

(* What PauseOrReturn makes of the record of a call that has tried.        *)
LEMMA PauseOrReturnStep ==
  ASSUME RpcInv, NEW c \in Calls, call[c].phase = "trying",
         NEW last \in Status \union {NoEntry}, Told(c, last),
         PauseOrReturn(c, [call[c] EXCEPT !.last = last]), UNCHANGED <<now, settled>>
  PROVE  /\ call' \in [Calls -> Call]
         /\ \A k \in Calls : call'[k].phase = "returned" <=> call'[k].result # NoEntry
         /\ TimersSet'
         /\ Heard'
<1> DEFINE r == [call[c] EXCEPT !.last = last]
<1>1. /\ now \in Nat /\ Deadline[c] \in Nat /\ MaxRetries \in Nat
      /\ call[c] \in Call /\ call[c].result = NoEntry /\ NoEntry \notin Status
      /\ "timeout" \in Status
  BY RpcParameters, DispatchParameters, CacheParameters
     DEF RpcInv, Typed, TypeOK, RpcTypeOK
<1>2. /\ r \in Call /\ r.last = last /\ r.tries = call[c].tries
      /\ r.phase = "trying" /\ r.result = NoEntry
  BY <1>1 DEF Call
<1> HIDE DEF r
<1>3. CASE call' = [call EXCEPT ![c] = Returned(r, r.last)]
  <2> DEFINE q == Returned(r, r.last)
  <2>1. q \in Call /\ q.phase = "returned" /\ q.result # NoEntry /\ q.last = last
    BY <1>1, <1>2 DEF Returned, Call
  <2> HIDE DEF q
  <2> QED BY <1>3, <2>1, LoopStep DEF q
<1>4. ASSUME NEW delay \in Delays, call' = [call EXCEPT ![c] = Pause(r, c, delay)],
             r.tries <= MaxRetries, now < Deadline[c]
      PROVE  /\ call' \in [Calls -> Call]
             /\ \A k \in Calls : call'[k].phase = "returned" <=> call'[k].result # NoEntry
             /\ TimersSet'
             /\ Heard'
  <2> DEFINE q == Pause(r, c, delay)
             u == now + Earlier(delay, Deadline[c] - now)
  <2>1. u \in Nat /\ now <= u /\ u <= Deadline[c]
    BY <1>1, <1>4, RpcParameters DEF Earlier
  <2>2. q = [r EXCEPT !.phase = "pausing", !.until = u]
    BY DEF Pause
  <2> HIDE DEF u, q
  <2>3. /\ q \in Call /\ q.phase = "pausing" /\ q.result = NoEntry /\ q.last = last
        /\ q.tries <= MaxRetries /\ now <= q.until /\ q.until <= Deadline[c]
    BY <1>2, <1>4, <2>1, <2>2 DEF Call
  <2> QED BY <1>4, <2>3, LoopStep DEF q
<1>5. PauseOrReturn(c, r)
  BY DEF r
<1>6. r.tries \in Nat
  BY <1>2 DEF Call
<1> QED BY <1>1, <1>3, <1>4, <1>5, <1>6 DEF PauseOrReturn

LEMMA TryAgainStep ==
  ASSUME RpcInv, NEW c \in Calls, TryAgain(c)
  PROVE  RpcTypeOK' /\ TimersSet' /\ Heard'
<1> DEFINE r == call[c]
<1>1. /\ now \in Nat /\ Deadline[c] \in Nat /\ MaxRetries \in Nat /\ AttemptTimeout \in Nat
      /\ r \in Call /\ NoEntry \notin Status /\ "timeout" \in Status
      /\ r.phase \in {"idle", "pausing"} /\ r.result = NoEntry
      /\ r.tries \in Nat /\ r.tries <= MaxRetries
      /\ UNCHANGED <<now, settled, serving>>
  <2>1. r \in Call
    BY DEF RpcInv, RpcTypeOK
  <2>2. /\ now \in Nat /\ Deadline[c] \in Nat /\ MaxRetries \in Nat /\ AttemptTimeout \in Nat
        /\ NoEntry \notin Status /\ "timeout" \in Status
    BY RpcParameters, DispatchParameters, CacheParameters DEF RpcInv, Typed, TypeOK
  <2>3. /\ r.phase \in {"idle", "pausing"}
        /\ UNCHANGED <<now, settled, serving>>
    BY DEF TryAgain, inboundVars
  <2>4. r.result = NoEntry
    BY <2>3 DEF RpcInv, RpcTypeOK
  <2>5. r.tries \in Nat /\ r.tries <= MaxRetries
    BY <2>1, <2>2, <2>3 DEF RpcInv, TimersSet, Call
  <2> QED BY <2>1, <2>2, <2>3, <2>4, <2>5
<1>2. Told(c, r.last)
  BY DEF RpcInv, Heard
<1> DEFINE CallsTyped == /\ call' \in [Calls -> Call]
                         /\ \A k \in Calls :
                              call'[k].phase = "returned" <=> call'[k].result # NoEntry
                         /\ TimersSet'
                         /\ Heard'
<1>3. CASE now >= Deadline[c]
  <2> DEFINE q == Returned(r, r.last)
  <2>1. call' = [call EXCEPT ![c] = q] /\ posts' = posts
    BY <1>3 DEF TryAgain
  <2>2. q \in Call /\ q.phase = "returned" /\ q.result # NoEntry /\ q.last = r.last
    BY <1>1 DEF Returned, Call
  <2> HIDE DEF q
  <2>3. CallsTyped
    BY <1>1, <1>2, <2>1, <2>2, LoopStep
  <2> QED BY <1>1, <2>1, <2>3 DEF RpcInv, RpcTypeOK
<1>4. CASE ~ (now >= Deadline[c])
  <2> DEFINE u == now + Earlier(Deadline[c] - now, AttemptTimeout)
             q == [r EXCEPT !.phase = "trying", !.tries = @ + 1, !.until = u]
  <2>1. u \in Nat /\ now <= u /\ u <= Deadline[c]
    BY <1>1, <1>4 DEF Earlier
  <2>2. /\ call' = [call EXCEPT ![c] = q]
        /\ posts' = posts \union {<<c, r.tries + 1>>}
    BY <1>1, <1>4 DEF TryAgain, RpcInv, RpcTypeOK, Call
  <2> HIDE DEF u, r
  <2>3. /\ q \in Call /\ q.phase = "trying" /\ q.result = NoEntry /\ q.last = r.last
        /\ now <= q.until /\ q.until <= Deadline[c]
    <3>1. r.tries + 1 \in Nat
      BY <1>1
    <3>2. q = [r EXCEPT !.phase = "trying", !.tries = r.tries + 1, !.until = u]
      BY <1>1 DEF Call
    <3> HIDE DEF q
    <3> QED BY <1>1, <2>1, <3>1, <3>2 DEF Call
  <2> HIDE DEF q
  <2>4. CallsTyped
    BY <1>1, <1>2, <2>2, <2>3, LoopStep
  <2>5. posts' \subseteq Calls \X (1 .. MaxRetries + 1)
    BY <1>1, <2>2 DEF RpcInv, RpcTypeOK
  <2>6. serving' \in [Deliveries -> 0 .. MaxRetries + 1]
    BY <1>1 DEF RpcInv, RpcTypeOK
  <2> QED BY <2>4, <2>5, <2>6 DEF RpcTypeOK
<1> QED BY <1>3, <1>4

(* A try of c has an outcome, whichever: the three actions after a try.    *)
LEMMA OutcomeStep ==
  ASSUME RpcInv, NEW c \in Calls, call[c].phase = "trying",
         UNCHANGED <<now, settled, posts, serving>>,
         \/ PauseOrReturn(c, call[c])
         \/ \E response \in Status \union {NoEntry} :
              Told(c, response) /\ Conclude(c, response)
  PROVE  RpcTypeOK' /\ TimersSet' /\ Heard'
<1> DEFINE CallsTyped == /\ call' \in [Calls -> Call]
                         /\ \A k \in Calls :
                              call'[k].phase = "returned" <=> call'[k].result # NoEntry
                         /\ TimersSet'
                         /\ Heard'
<1>1. /\ call[c] \in Call /\ call[c].last \in Status \union {NoEntry}
      /\ Told(c, call[c].last) /\ NoEntry \notin Status
  BY CacheParameters DEF RpcInv, RpcTypeOK, Heard, Call
<1>2. ASSUME PauseOrReturn(c, call[c]) PROVE CallsTyped
  <2>1. [call[c] EXCEPT !.last = call[c].last] = call[c]
    BY <1>1 DEF Call
  <2> QED BY <1>1, <1>2, <2>1, PauseOrReturnStep
<1>3. ASSUME NEW response \in Status \union {NoEntry}, Told(c, response),
             Conclude(c, response)
      PROVE  CallsTyped
  <2>1. CASE response \in {"ok", "denied"}
    <3> DEFINE q == Returned(call[c], response)
    <3>1. call' = [call EXCEPT ![c] = q]
      BY <1>3, <2>1 DEF Conclude
    <3>2. q \in Call /\ q.phase = "returned" /\ q.result # NoEntry /\ q.last = call[c].last
      BY <1>1, <2>1, RpcParameters DEF Returned, Call
    <3> HIDE DEF q
    <3> QED BY <1>1, <3>1, <3>2, LoopStep
  <2>2. CASE response \notin {"ok", "denied"}
    <3>1. PauseOrReturn(c, [call[c] EXCEPT !.last = response])
      BY <1>3, <2>2 DEF Conclude
    <3> QED BY <1>3, <3>1, PauseOrReturnStep
  <2> QED BY <2>1, <2>2
<1> QED BY <1>2, <1>3 DEF RpcInv, RpcTypeOK

(* The response of a delivery is one that the node has told its request.   *)
LEMMA AnswerTold ==
  ASSUME RpcInv, NEW c \in Calls, NEW d \in Deliveries, delivery[d].id = c
  PROVE  /\ delivery[d].answer \in Status \union {NoEntry}
         /\ Told(c, delivery[d].answer)
<1>1. delivery[d].answer \in Status \union {NoEntry}
  BY DEF RpcInv, Typed, TypeOK, Delivery
<1>2. Told(c, delivery[d].answer)
  BY <1>1, RpcParameters DEF RpcInv, Provenance, AnswersComeFromHandler, Told
<1> QED BY <1>1, <1>2

LEMMA RpcInvInit == RpcInit => RpcInv
<1> SUFFICES ASSUME RpcInit PROVE RpcInv
  OBVIOUS
<1>1. Typed /\ Provenance
  BY TypedInit, ProvenanceInit DEF RpcInit
<1>2. MaxRetries \in Nat /\ NoEntry \notin Status
  BY RpcParameters, CacheParameters
<1>3. RpcTypeOK /\ TimersSet /\ Heard
  BY <1>2 DEF RpcInit, RpcTypeOK, TimersSet, Heard, Told, Call
<1> QED BY <1>1, <1>3 DEF RpcInv

LEMMA RpcInvNext == RpcInv /\ [RpcNext]_allVars => RpcInv'
<1> SUFFICES ASSUME RpcInv, [RpcNext]_allVars PROVE RpcInv'
  OBVIOUS
<1>0. [Next]_vars
  BY NodeSteps DEF RpcInv
<1>1. Typed' /\ Provenance'
  BY <1>0, TypedNext, ProvenanceNext DEF RpcInv
<1> SUFFICES RpcTypeOK' /\ TimersSet' /\ Heard'
  BY <1>1 DEF RpcInv
<1>2. /\ now \in Nat /\ MaxRetries \in Nat /\ posts \subseteq Calls \X (1 .. MaxRetries + 1)
      /\ serving \in [Deliveries -> 0 .. MaxRetries + 1]
  BY RpcParameters DEF RpcInv, Typed, TypeOK, RpcTypeOK
<1>3. call' = call => Heard'
  <2>1. \A id \in Ids : settled[id] \subseteq settled'[id]
    BY <1>0, SettledGrows DEF RpcInv
  <2> QED BY <2>1, RpcParameters DEF RpcInv, Heard, Told
<1>4. ASSUME NEW c \in Calls, TryAgain(c)
      PROVE  RpcTypeOK' /\ TimersSet' /\ Heard'
  BY <1>4, TryAgainStep
<1>5. ASSUME NEW c \in Calls, TryFails(c)
      PROVE  RpcTypeOK' /\ TimersSet' /\ Heard'
  <2>1. "timeout" \in Status /\ Told(c, "timeout")
    BY RpcParameters DEF Told
  <2> QED BY <1>5, <2>1, OutcomeStep DEF TryFails, inboundVars
<1>6. ASSUME NEW c \in Calls, TryLater(c)
      PROVE  RpcTypeOK' /\ TimersSet' /\ Heard'
  BY <1>6, OutcomeStep DEF TryLater, inboundVars
<1>7. ASSUME NEW p \in posts, NEW d \in Deliveries, PostArrives(p[1], p[2], d)
      PROVE  RpcTypeOK' /\ TimersSet' /\ Heard'
  <2>1. p[2] \in 0 .. MaxRetries + 1
    BY <1>2
  <2>2. call' = call /\ now' = now /\ posts' \subseteq posts
        /\ serving' = [serving EXCEPT ![d] = p[2]]
    BY <1>7 DEF PostArrives, ArriveHttp
  <2>3. RpcTypeOK' /\ TimersSet'
    BY <1>2, <2>1, <2>2 DEF RpcInv, RpcTypeOK, TimersSet
  <2> QED BY <1>3, <2>2, <2>3
<1>8. ASSUME NEW p \in posts, PostLost(p[1], p[2])
      PROVE  RpcTypeOK' /\ TimersSet' /\ Heard'
  <2>1. call' = call /\ now' = now /\ serving' = serving /\ posts' \subseteq posts
    BY <1>8 DEF PostLost, inboundVars
  <2>2. RpcTypeOK' /\ TimersSet'
    BY <2>1 DEF RpcInv, RpcTypeOK, TimersSet
  <2> QED BY <1>3, <2>1, <2>2
<1>9. ASSUME NEW d \in Deliveries, NEW c \in Calls, OtherArrives(d, c)
      PROVE  RpcTypeOK' /\ TimersSet' /\ Heard'
  <2>1. /\ call' = call /\ now' = now /\ posts' = posts
        /\ serving' = [serving EXCEPT ![d] = 0]
    BY <1>9 DEF OtherArrives, ArriveLibp2p
  <2>2. RpcTypeOK' /\ TimersSet'
    BY <1>2, <2>1 DEF RpcInv, RpcTypeOK, TimersSet
  <2> QED BY <1>3, <2>1, <2>2
<1>10. ASSUME NEW d \in Deliveries, NEW c \in Calls, ResponseRead(c, d)
       PROVE  RpcTypeOK' /\ TimersSet' /\ Heard'
  <2>1. /\ delivery[d].answer \in Status \union {NoEntry}
        /\ Told(c, delivery[d].answer)
    BY <1>10, AnswerTold DEF ResponseRead
  <2> QED BY <1>10, <2>1, OutcomeStep DEF ResponseRead, inboundVars
<1>11. ASSUME NEW d \in Deliveries, RpcResume(d)
       PROVE  RpcTypeOK' /\ TimersSet' /\ Heard'
  <2>1. UNCHANGED <<call, posts, serving, now>>
    BY <1>11 DEF RpcResume, rpcVars, Resume, SignatureChecked, CapabilityGranted,
                 CapabilityRefused, CapabilityThrew, HandlerReturned
  <2>2. RpcTypeOK' /\ TimersSet'
    BY <2>1 DEF RpcInv, RpcTypeOK, TimersSet
  <2> QED BY <1>3, <2>1, <2>2
<1>12. CASE RpcTick
  <2>1. /\ UNCHANGED <<call, posts, serving>> /\ now' = now + 1
        /\ \A c \in Calls : call[c].phase \in {"trying", "pausing"} => now < call[c].until
    BY <1>12 DEF RpcTick, rpcVars, Tick
  <2>2. RpcTypeOK'
    BY <2>1 DEF RpcInv, RpcTypeOK
  <2>3. TimersSet'
    <3>1. \A c \in Calls : call[c].until \in Nat
      BY DEF RpcInv, RpcTypeOK, Call
    <3> QED BY <1>2, <2>1, <3>1 DEF RpcInv, TimersSet
  <2> QED BY <1>3, <2>1, <2>2, <2>3
<1>13. CASE UNCHANGED allVars
  BY <1>3, <1>13 DEF allVars, vars, RpcInv, RpcTypeOK, TimersSet
<1> QED BY <1>4, <1>5, <1>6, <1>7, <1>8, <1>9, <1>10, <1>11, <1>12, <1>13 DEF RpcNext

(* HttpMeshTransport.send and runWithRetry: whatever is lost, refused or   *)
(* answered late, a call has one result when it returns, and it has        *)
(* returned by its deadline.                                               *)
THEOREM CallsEnd == RpcSpec => []CallsEndInTime
<1>1. RpcInv => CallsEndInTime
  <2> SUFFICES ASSUME RpcInv PROVE CallsKeepTheirDeadline
    BY DEF CallsEndInTime, RpcInv
  <2>1. /\ now \in Nat /\ \A c \in Calls : Deadline[c] \in Nat /\ call[c].until \in Nat
    BY RpcParameters, DispatchParameters DEF RpcInv, Typed, TypeOK, RpcTypeOK, Call
  <2> QED BY <2>1 DEF RpcInv, TimersSet, CallsKeepTheirDeadline
<1> QED BY <1>1, RpcInvInit, RpcInvNext, PTL DEF RpcSpec
-----------------------------------------------------------------------------
(* RequestReply is implemented: what a step does is seen there as a run, a *)
(* given response, a return, or nothing.                                   *)

Results == [c \in Calls |-> call[c].result]

(* A step that leaves the history of the node alone returns from a call or *)
(* changes no result.                                                      *)
LEMMA ReturnsOrNot ==
  ASSUME RpcInv, NEW c \in Calls, NEW r \in Call, call' = [call EXCEPT ![c] = r],
         UNCHANGED <<started, settled>>, call[c].result = NoEntry,
         r.result = NoEntry \/ (r.result # NoEntry /\ Told(c, r.result))
  PROVE  [Promise!Next]_(Promise!vars)
<1>1. /\ Results \in [Calls -> Status \union {NoEntry}]
      /\ Results' = [Results EXCEPT ![c] = r.result]
  <2>1. call \in [Calls -> Call]
    BY DEF RpcInv, RpcTypeOK
  <2> QED BY <2>1 DEF Results, Call
<1>2. CASE r.result = NoEntry
  <2>1. Results' = Results
    BY <1>1, <1>2 DEF Results
  <2> QED BY <2>1 DEF Promise!vars, Results
<1>3. CASE r.result # NoEntry /\ Told(c, r.result)
  <2>1. r.result \in Status /\ r.result \in settled[c] \union {"denied", "timeout"}
    BY <1>3 DEF Call, Told
  <2>2. Results[c] = NoEntry
    BY DEF Results
  <2>3. Promise!Return(c, r.result)
    BY <1>1, <2>1, <2>2 DEF Promise!Return, Results
  <2> QED BY <2>1, <2>3 DEF Promise!Next
<1> QED BY <1>2, <1>3

LEMMA PauseOrReturnPromise ==
  ASSUME RpcInv, NEW c \in Calls, call[c].phase = "trying",
         NEW last \in Status \union {NoEntry}, Told(c, last),
         PauseOrReturn(c, [call[c] EXCEPT !.last = last]),
         UNCHANGED <<now, started, settled>>
  PROVE  [Promise!Next]_(Promise!vars)
<1> DEFINE r == [call[c] EXCEPT !.last = last]
<1>0. call' \in [Calls -> Call]
  BY PauseOrReturnStep
<1>1. /\ call \in [Calls -> Call] /\ call[c].result = NoEntry
      /\ r \in Call /\ r.last = last /\ r.result = NoEntry
  BY DEF RpcInv, RpcTypeOK, Call
<1> HIDE DEF r
<1>2. ASSUME NEW q, call' = [call EXCEPT ![c] = q]
      PROVE  q \in Call
  <2>1. q = call'[c]
    BY <1>1, <1>2
  <2> QED BY <1>0, <2>1
<1>3. CASE call' = [call EXCEPT ![c] = Returned(r, r.last)]
  <2> DEFINE q == Returned(r, r.last)
  <2>1. q.result = IF last = NoEntry THEN "timeout" ELSE last
    BY <1>1 DEF Returned, Call
  <2>2. q \in Call
    BY <1>2, <1>3
  <2> HIDE DEF q
  <2>3. q.result # NoEntry /\ Told(c, q.result)
    BY <2>1, RpcParameters, CacheParameters DEF Told
  <2> QED BY <1>1, <1>3, <2>2, <2>3, ReturnsOrNot DEF q
<1>4. ASSUME NEW delay \in Delays, call' = [call EXCEPT ![c] = Pause(r, c, delay)]
      PROVE  [Promise!Next]_(Promise!vars)
  <2> DEFINE q == Pause(r, c, delay)
  <2>1. q.result = NoEntry
    BY <1>1 DEF Pause, Call
  <2>2. q \in Call
    BY <1>2, <1>4
  <2> HIDE DEF q
  <2> QED BY <1>1, <1>4, <2>1, <2>2, ReturnsOrNot DEF q
<1>5. PauseOrReturn(c, r)
  BY DEF r
<1> QED BY <1>3, <1>4, <1>5 DEF PauseOrReturn

LEMMA OutcomePromise ==
  ASSUME RpcInv, NEW c \in Calls, call[c].phase = "trying",
         UNCHANGED <<now, started, settled, posts, serving>>,
         \/ PauseOrReturn(c, call[c])
         \/ \E response \in Status \union {NoEntry} :
              Told(c, response) /\ Conclude(c, response)
  PROVE  [Promise!Next]_(Promise!vars)
<1>1. /\ call[c] \in Call /\ call[c].last \in Status \union {NoEntry}
      /\ Told(c, call[c].last) /\ call[c].result = NoEntry
  BY DEF RpcInv, RpcTypeOK, Heard, Call
<1>2. CASE PauseOrReturn(c, call[c])
  <2>1. [call[c] EXCEPT !.last = call[c].last] = call[c]
    BY <1>1 DEF Call
  <2> QED BY <1>1, <1>2, <2>1, PauseOrReturnPromise
<1>3. ASSUME NEW response \in Status \union {NoEntry}, Told(c, response),
             Conclude(c, response)
      PROVE  [Promise!Next]_(Promise!vars)
  <2>1. CASE response \in {"ok", "denied"}
    <3> DEFINE q == Returned(call[c], response)
    <3>1. call' = [call EXCEPT ![c] = q]
      BY <1>3, <2>1 DEF Conclude
    <3>2. q \in Call /\ q.result = response /\ response # NoEntry
      BY <1>1, <2>1, RpcParameters, CacheParameters DEF Returned, Call
    <3> HIDE DEF q
    <3> QED BY <1>1, <1>3, <3>1, <3>2, ReturnsOrNot
  <2>2. CASE response \notin {"ok", "denied"}
    <3>1. PauseOrReturn(c, [call[c] EXCEPT !.last = response])
      BY <1>3, <2>2 DEF Conclude
    <3> QED BY <1>3, <3>1, PauseOrReturnPromise
  <2> QED BY <2>1, <2>2
<1> QED BY <1>2, <1>3

(* The node runs a handler, gives a response to a request that it ran or   *)
(* denies, or does neither.                                                *)
LEMMA ResumePromise ==
  ASSUME RpcInv, NEW d \in Deliveries, Resume(d), UNCHANGED call
  PROVE  [Promise!Next]_(Promise!vars)
<1>0. Results' = Results
  BY DEF Results
<1>1. /\ delivery[d].phase \in Awaits => delivery[d].id \in Ids
      /\ settled \in [Ids -> SUBSET Status]
  BY DEF RpcInv, Typed, TypeOK
<1>2. CASE UNCHANGED <<started, settled>>
  BY <1>0, <1>2 DEF Promise!vars, Results
<1>3. CASE CapabilityGranted(d)
  <2>1. delivery[d].id \in Ids
    BY <1>1, <1>3 DEF CapabilityGranted, Awaits
  <2>2. Promise!Run(delivery[d].id)
    BY <1>0, <1>3 DEF CapabilityGranted, Promise!Run, Results
  <2> QED BY <2>1, <2>2 DEF Promise!Next
<1>4. ASSUME NEW answer \in Status, Settle(d, answer), UNCHANGED started,
             delivery[d].phase \in Awaits,
             answer = "denied" \/ delivery[d].id \in started
      PROVE  [Promise!Next]_(Promise!vars)
  <2>1. delivery[d].id \in Ids
    BY <1>1, <1>4
  <2>2. Promise!Give(delivery[d].id, answer)
    BY <1>0, <1>4 DEF Settle, Promise!Give, Results
  <2> QED BY <2>1, <2>2 DEF Promise!Next
<1>5. CASE CapabilityRefused(d)
  BY <1>4, <1>5, DispatchParameters DEF CapabilityRefused, Awaits
<1>6. ASSUME NEW answer \in HandlerAnswers, HandlerReturned(d, answer)
      PROVE  [Promise!Next]_(Promise!vars)
  <2>1. answer \in Status
    BY <1>6, DispatchParameters
  <2>2. delivery[d].id \in started
    BY <1>6 DEF HandlerReturned, RpcInv, Provenance, RunStarted
  <2> QED BY <1>4, <1>6, <2>1, <2>2 DEF HandlerReturned, Awaits
<1>7. ASSUME NEW identityOk \in BOOLEAN, SignatureChecked(d, identityOk)
      PROVE  UNCHANGED <<started, settled>>
  BY <1>7 DEF SignatureChecked
<1>8. CASE CapabilityThrew(d)
  BY <1>2, <1>8 DEF CapabilityThrew
<1> QED BY <1>2, <1>3, <1>5, <1>6, <1>7, <1>8 DEF Resume

LEMMA PromiseNext ==
  RpcInv /\ [RpcNext]_allVars => [Promise!Next]_(Promise!vars)
<1> SUFFICES ASSUME RpcInv, [RpcNext]_allVars PROVE [Promise!Next]_(Promise!vars)
  OBVIOUS
<1>1. CASE UNCHANGED <<call, started, settled>>
  BY <1>1 DEF Promise!vars
<1>2. ASSUME NEW c \in Calls, TryAgain(c)
      PROVE  [Promise!Next]_(Promise!vars)
  <2> DEFINE r == call[c]
             u == now + Earlier(Deadline[c] - now, AttemptTimeout)
             q == IF now >= Deadline[c] THEN Returned(r, r.last)
                  ELSE [r EXCEPT !.phase = "trying", !.tries = @ + 1, !.until = u]
  <2>1. /\ call \in [Calls -> Call] /\ call' \in [Calls -> Call] /\ r \in Call
        /\ r.result = NoEntry /\ UNCHANGED <<started, settled>>
    <3>1. call' \in [Calls -> Call]
      BY <1>2, TryAgainStep DEF RpcTypeOK
    <3>2. call \in [Calls -> Call] /\ r.result = NoEntry
      BY <1>2 DEF TryAgain, RpcInv, RpcTypeOK
    <3>3. UNCHANGED <<started, settled>>
      BY <1>2 DEF TryAgain, inboundVars
    <3> QED BY <3>1, <3>2, <3>3
  <2>2. call' = [call EXCEPT ![c] = q]
    BY <1>2, <2>1 DEF TryAgain
  <2>3. q \in Call
    <3> HIDE DEF q
    <3>1. q = call'[c]
      BY <2>1, <2>2
    <3> QED BY <2>1, <3>1
  <2>4. Told(c, r.last) /\ "timeout" # NoEntry
    BY RpcParameters, CacheParameters DEF RpcInv, Heard
  <2>5. q.result = NoEntry \/ (q.result # NoEntry /\ Told(c, q.result))
    BY <2>1, <2>4 DEF Returned, Call, Told
  <2> HIDE DEF q
  <2> QED BY <2>1, <2>2, <2>3, <2>5, ReturnsOrNot
<1>3. ASSUME NEW c \in Calls, TryFails(c)
      PROVE  [Promise!Next]_(Promise!vars)
  <2>1. "timeout" \in Status /\ Told(c, "timeout")
    BY RpcParameters DEF Told
  <2> QED BY <1>3, <2>1, OutcomePromise DEF TryFails, inboundVars
<1>4. ASSUME NEW c \in Calls, TryLater(c)
      PROVE  [Promise!Next]_(Promise!vars)
  BY <1>4, OutcomePromise DEF TryLater, inboundVars
<1>5. ASSUME NEW p \in posts, NEW d \in Deliveries, PostArrives(p[1], p[2], d)
      PROVE  UNCHANGED <<call, started, settled>>
  BY <1>5 DEF PostArrives, ArriveHttp
<1>6. ASSUME NEW p \in posts, PostLost(p[1], p[2])
      PROVE  UNCHANGED <<call, started, settled>>
  BY <1>6 DEF PostLost, inboundVars
<1>7. ASSUME NEW d \in Deliveries, NEW c \in Calls, OtherArrives(d, c)
      PROVE  UNCHANGED <<call, started, settled>>
  BY <1>7 DEF OtherArrives, ArriveLibp2p
<1>8. ASSUME NEW d \in Deliveries, NEW c \in Calls, ResponseRead(c, d)
      PROVE  [Promise!Next]_(Promise!vars)
  <2>1. /\ delivery[d].answer \in Status \union {NoEntry}
        /\ Told(c, delivery[d].answer)
    BY <1>8, AnswerTold DEF ResponseRead
  <2> QED BY <1>8, <2>1, OutcomePromise DEF ResponseRead, inboundVars
<1>9. ASSUME NEW d \in Deliveries, RpcResume(d)
      PROVE  [Promise!Next]_(Promise!vars)
  BY <1>9, ResumePromise DEF RpcResume, rpcVars
<1>10. CASE RpcTick
  BY <1>1, <1>10 DEF RpcTick, rpcVars, Tick
<1>11. CASE UNCHANGED allVars
  BY <1>1, <1>11 DEF allVars, vars
<1> QED BY <1>1, <1>2, <1>3, <1>4, <1>5, <1>6, <1>7, <1>8, <1>9, <1>10, <1>11 DEF RpcNext

(* What a caller may rely on (mesh-transport-core types.ts): send over     *)
(* http, with its retries, over a network that loses and delays, to a node *)
(* that may answer from its caches, implements RequestReply.               *)
THEOREM PromiseKept == RpcSpec => KeepsPromise
<1>1. RpcInit => Promise!Init
  <2> SUFFICES ASSUME RpcInit PROVE Promise!Init
    OBVIOUS
  <2>1. [c \in Calls |-> call[c].result] = [c \in Calls |-> NoEntry]
    BY DEF RpcInit
  <2> QED BY <2>1 DEF RpcInit, Init, Promise!Init
<1> QED BY <1>1, RpcInvInit, RpcInvNext, PromiseNext, PTL
        DEF RpcSpec, KeepsPromise, Promise!Spec
=============================================================================
