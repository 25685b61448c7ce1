------------------------------- MODULE ChatChain -------------------------------
(***************************************************************************)
(* A session of the chat knowledge base and its hash chain: ChatStore      *)
(* (packages/kb-chat/src/store.ts).  The hash of an entry is that of its   *)
(* role and content alone; each entry repeats the hash of the one before.  *)
(* Several processes may append over the same database.                    *)
(***************************************************************************)
EXTENDS Naturals, Sequences

CONSTANTS
  Messages,
  Appenders,    (* the calls of appendEntry in progress                    *)
  VerifyLimit,  (* listEntries returns at most 1000 entries                *)
  MaxEntries    (* bound of the model                                      *)

(* Hashes of contents are abstracted to the contents; Null is SQL's NULL.  *)
Null == "null"

ASSUME ChatParameters == Null \notin Messages /\ VerifyLimit \in Nat /\ MaxEntries \in Nat

VARIABLES
  chatRows,    (* the rows in their order: content and prev                *)
  entryCount,  (* chat_sessions.entry_count                                *)
  appending,   (* appending[a]: a call and the hash it has read            *)
  forked       (* history: a row repeats a hash another had followed       *)

chatVars == <<chatRows, entryCount, appending, forked>>

NotAppending == [content |-> Null, at |-> "idle", prev |-> Null, length |-> 0]

ChatInit ==
  /\ chatRows = << >> /\ entryCount = 0
  /\ appending = [a \in Appenders |-> NotAppending]
  /\ forked = FALSE

(* Mutant: the rows come in the other order.                               *)
LastHashFirst == IF chatRows = << >> THEN Null ELSE chatRows[1].content

LastHash == IF chatRows = << >> THEN Null ELSE chatRows[Len(chatRows)].content

(* The token is verified first, which is awaited. *)
AppendBegins(a) ==
  /\ appending[a] = NotAppending
  /\ \E c \in Messages :
       appending' = [appending EXCEPT ![a] = [content |-> c, at |-> "verify", prev |-> Null, length |-> 0]]
  /\ UNCHANGED <<chatRows, entryCount, forked>>

AppendRefused(a) ==
  /\ appending[a].at = "verify"
  /\ appending' = [appending EXCEPT ![a] = NotAppending]
  /\ UNCHANGED <<chatRows, entryCount, forked>>

ReadsPrevious(a) ==
  /\ appending[a].at = "verify"
  /\ appending' = [appending EXCEPT ![a].at = "insert", ![a].prev = LastHash, ![a].length = Len(chatRows)]
  /\ UNCHANGED <<chatRows, entryCount, forked>>

(* One transaction for the row and the session's count. *)
Inserts(a) ==
  /\ appending[a].at = "insert" /\ Len(chatRows) < MaxEntries
  /\ chatRows' = Append(chatRows, [content |-> appending[a].content, prev |-> appending[a].prev])
  /\ entryCount' = entryCount + 1
  /\ forked' = (forked \/ Len(chatRows) # appending[a].length)
  /\ appending' = [appending EXCEPT ![a] = NotAppending]

ChatNext == \E a \in Appenders : AppendBegins(a) \/ AppendRefused(a) \/ ReadsPrevious(a) \/ Inserts(a)

ChatSpec == ChatInit /\ [][ChatNext]_chatVars

Previous(rows, i) == IF i = 1 THEN Null ELSE rows[i - 1].content

(* verifyHashChain, of the entries listEntries gives it. *)
Verifies(rows) == \A i \in DOMAIN rows : i <= VerifyLimit => rows[i].prev = Previous(rows, i)
-----------------------------------------------------------------------------
ChatTypeOK ==
  /\ \A i \in DOMAIN chatRows : chatRows[i].content \in Messages /\ chatRows[i].prev \in Messages \union {Null}
  /\ entryCount = Len(chatRows) /\ entryCount <= MaxEntries
  /\ \A a \in Appenders : appending[a].at \in {"idle", "verify", "insert"}

(* The chain verifies, however calls of one process and of several         *)
(* interleave, unless a process appended between another's look at the     *)
(* last row and its transaction.                                           *)
ChainVerifies == forked \/ Verifies(chatRows)

Removed(rows, i) == SubSeq(rows, 1, i - 1) \o SubSeq(rows, i + 1, Len(rows))

(* What verification notices of a removed row: all of them but the last    *)
(* one, one with the content of the row before it, and those too far back  *)
(* to be listed.                                                           *)
RemovalNoticed ==
  ~ forked => \A i \in DOMAIN chatRows :
    ~ Verifies(Removed(chatRows, i)) <=>
      (i < Len(chatRows) /\ i <= VerifyLimit /\ Previous(chatRows, i) # chatRows[i].content)

(* The chain of a session verifies as long as no append overtakes          *)
(* another between its read and its insertion, and its verification        *)
(* notices the removal of a row exactly where it can.                      *)
ChainTellsTheSession == ChatTypeOK /\ ChainVerifies /\ RemovalNoticed
=============================================================================
