------------------------------ MODULE LazyLoader ------------------------------
(***************************************************************************)
(* The content cache of the lazy loader: LazyContentLoader                 *)
(* (packages/plugin-ecosystem/src/lazy-loader.ts).  A load awaits the read *)
(* of the file; other loads, edits of files and clear come in between.     *)
(***************************************************************************)
EXTENDS Integers, Sequences, FiniteSets

CONSTANTS
  Paths, Loads,
  SizeOf,   (* SizeOf[v]: length of the content of version v               *)
  CacheMaxBytes,
  MaxEdits  (* bound of the model: versions of a file                      *)

ASSUME SizesArePositive ==
  /\ MaxEdits \in Nat /\ CacheMaxBytes \in Nat
  /\ SizeOf \in [0 .. MaxEdits -> Nat \ {0}]

VARIABLES
  onDisk,      (* onDisk[p]: the version p's file has                      *)
  held,        (* the cached entries, least recently accessed first        *)
  totalBytes,
  loads,       (* loads[l]: handle of the load awaiting its read           *)
  returned,    (* history: handle and content of the last load             *)
  overwritten  (* history: bytes of entries replaced, not evicted          *)

lazyVars == <<onDisk, held, totalBytes, loads, returned, overwritten>>

NoLoad == [path |-> "none", hash |-> 0, since |-> 0]

(* What a set of entries holds, byte by byte.                              *)
Bytes(e) == {e} \X (1 .. SizeOf[e.version])
SizesOf(entries) == Cardinality(UNION {Bytes(e) : e \in entries})

EntriesOf(s) == {s[i] : i \in DOMAIN s}

LazyInit ==
  /\ onDisk = [p \in Paths |-> 0]
  /\ held = << >> /\ totalBytes = 0
  /\ loads = [l \in Loads |-> NoLoad]
  /\ returned = [hash |-> 0, content |-> 0]
  /\ overwritten = 0

Edit(p) ==
  /\ onDisk[p] < MaxEdits
  /\ onDisk' = [onDisk EXCEPT ![p] = @ + 1]
  /\ UNCHANGED <<held, totalBytes, loads, returned, overwritten>>

RemoveEntry(s, i) == SubSeq(s, 1, i - 1) \o SubSeq(s, i + 1, Len(s))

(* The cache has one entry per path.                                       *)
WithoutPath(s, p) ==
  IF \E i \in DOMAIN s : s[i].path = p
  THEN RemoveEntry(s, CHOOSE i \in DOMAIN s : s[i].path = p)
  ELSE s

(* The handle was created when the file had the version it names; an entry *)
(* cached for another is not a hit.                                        *)
LoadHits(p, version) ==
  /\ \E i \in DOMAIN held :
       /\ held[i].path = p /\ held[i].hash = version
       /\ held' = Append(RemoveEntry(held, i), held[i])
       /\ returned' = [hash |-> version, content |-> held[i].version]
  /\ UNCHANGED <<onDisk, totalBytes, loads, overwritten>>

LoadMisses(l, p, version) ==
  /\ loads[l] = NoLoad
  /\ \A i \in DOMAIN held : ~ (held[i].path = p /\ held[i].hash = version)
  /\ loads' = [loads EXCEPT ![l] = [path |-> p, hash |-> version, since |-> onDisk[p]]]
  /\ UNCHANGED <<onDisk, held, totalBytes, returned, overwritten>>

HashChecked(load, content) == content = load.hash

LoadThrows(l) ==
  /\ loads[l] # NoLoad
  /\ \E content \in loads[l].since .. onDisk[loads[l].path] : ~ HashChecked(loads[l], content)
  /\ loads' = [loads EXCEPT ![l] = NoLoad]
  /\ UNCHANGED <<onDisk, held, totalBytes, returned, overwritten>>

(* evictIfNeeded: the oldest go until the total and what comes in fit, or  *)
(* nothing is left.                                                        *)
Oldest(k) == {held[i] : i \in 1 .. k}
Fits(k, incoming) == totalBytes - SizesOf(Oldest(k)) + incoming <= CacheMaxBytes
Evicts(k, incoming) ==
  /\ Fits(k, incoming) \/ k = Len(held)
  /\ \A fewer \in 0 .. k - 1 : ~ Fits(fewer, incoming)

(* Mutant: an evicted entry is still counted.                              *)
TotalAfterEviction(k, incoming) == totalBytes + incoming

TotalAfter(k, incoming) == totalBytes - SizesOf(Oldest(k)) + incoming

LoadStores(l) ==
  /\ loads[l] # NoLoad
  /\ \E content \in loads[l].since .. onDisk[loads[l].path], k \in 0 .. Len(held) :
       LET left == SubSeq(held, k + 1, Len(held))
           entry == [path |-> loads[l].path, hash |-> loads[l].hash, version |-> content]
       IN  /\ HashChecked(loads[l], content)
           /\ Evicts(k, SizeOf[content])
           /\ held' = Append(WithoutPath(left, entry.path), entry)
           /\ totalBytes' = TotalAfter(k, SizeOf[content])
           /\ overwritten' = overwritten + SizesOf({e \in EntriesOf(left) : e.path = entry.path})
           /\ returned' = [hash |-> entry.hash, content |-> content]
  /\ loads' = [loads EXCEPT ![l] = NoLoad]
  /\ UNCHANGED onDisk

Clear ==
  /\ held' = << >> /\ totalBytes' = 0 /\ overwritten' = 0
  /\ UNCHANGED <<onDisk, loads, returned>>

LazyNext ==
  \/ Clear
  \/ \E l \in Loads : LoadThrows(l) \/ LoadStores(l)
  \/ \E p \in Paths :
       \/ Edit(p)
       \/ \E version \in 0 .. onDisk[p] : LoadHits(p, version) \/ \E l \in Loads : LoadMisses(l, p, version)

LazySpec == LazyInit /\ [][LazyNext]_lazyVars
-----------------------------------------------------------------------------
LazyTypeOK ==
  /\ onDisk \in [Paths -> 0 .. MaxEdits]
  /\ \A i \in DOMAIN held : held[i].path \in Paths /\ held[i].version \in 0 .. MaxEdits
  /\ \A i, j \in DOMAIN held : held[i].path = held[j].path => i = j
  /\ totalBytes \in Nat /\ overwritten \in Nat
  /\ \A l \in Loads : loads[l] = NoLoad \/ loads[l].path \in Paths

(* Whatever is edited, cached or loaded at the same time, a load returns   *)
(* the content its handle names, or throws.                                *)
ReturnsWhatIsNamed == returned.hash = returned.content

(* The total counts what is held and, besides, only the entries that a     *)
(* second load of the same file replaced.                                  *)
TotalCountsHeld == totalBytes = SizesOf(EntriesOf(held)) + overwritten

(* More is held than the limit only by a file that alone exceeds it.       *)
HeldWithinLimit == SizesOf(EntriesOf(held)) <= CacheMaxBytes \/ Len(held) = 1

(* The cache keeps to its limit, its total to what it holds, and its       *)
(* answers to the handles, whatever loads overlap with edits and clears.   *)
CacheAccounted ==
  /\ LazyTypeOK
  /\ ReturnsWhatIsNamed
  /\ TotalCountsHeld
  /\ HeldWithinLimit
=============================================================================
