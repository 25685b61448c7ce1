---------------------------- MODULE MemoryStore ----------------------------
(***************************************************************************)
(* The memory engine of a project (packages/memory-engine/src): entries,   *)
(* content-addressed blobs and the audit chain in one SQLite file, which   *)
(* several processes may have open (WAL, busy timeout).                    *)
(*                                                                         *)
(* write, promote and invokeSubagent are sequences of statements, each a   *)
(* transaction of its own: between two of them another process may run,    *)
(* and any of them may fail (busy, crash) and leave the rest undone.  Only *)
(* createBranch copies its rows in one transaction.  An action is one      *)
(* statement.  Nothing calls BlobStore.release: blobs stay.                *)
(***************************************************************************)
EXTENDS Integers, SequencesExt

CONSTANTS
  Engines,  (* the processes that have the file open                       *)
  Contents,
  Large,    (* the contents that go to the blob table                      *)
  Branches,
  Root,     (* the branch there is at the beginning                        *)
  Tiers,    (* T1, T2 of subagent returns among them                       *)
  MaxRows,  (* bounds of the model: rows, and operations                   *)
  MaxOperations

ASSUME StoreParameters ==
  /\ IsFiniteSet(Engines)
  /\ Large \subseteq Contents
  /\ Root \in Branches
  /\ {"T1", "T2"} \subseteq Tiers
  /\ MaxRows \in Nat /\ MaxOperations \in Nat

VARIABLES
  rows,        (* the KB tables; the id of a row is its place              *)
  refs,        (* blobs.ref_count; 0 for a blob that is not there          *)
  branches,    (* the branches table                                       *)
  auditChain,  (* audit_entries: [prev, rows], by its seq the entry whose  *)
               (* hash it has as prev_hash, and the rows it is about       *)
  op,          (* op[e]: the operation engine e is in                      *)
  operations,  (* the operations begun                                     *)
  leaked,      (* history: the references taken for rows never inserted    *)
  unrecorded,  (* history: the rows of operations that failed              *)
  overlapped   (* history: two appends to the chain have overlapped        *)

tables == <<rows, refs, branches, auditChain>>
storeVars == <<tables, op, operations, leaked, unrecorded, overlapped>>

MemoryLevels == {"session", "branch", "project"}

Row == [content : Contents, branch : Branches, level : MemoryLevels, tier : Tiers,
        protected : BOOLEAN]

(* at: the next statement.  todo: the rows still to be inserted; inserted: *)
(* those that were, on which the operation is audited.  absorb: what the   *)
(* subagent's return will be.  exists, prev: what a SELECT has found.      *)
Going(at, todo, absorb, inserted) ==
  [at |-> at, todo |-> todo, absorb |-> absorb, inserted |-> inserted, exists |-> FALSE, prev |-> 0]

NoOp == Going("idle", <<>>, <<>>, {})

StoreInit ==
  /\ rows = <<>>
  /\ refs = [c \in Large |-> 0]
  /\ branches = {Root}
  /\ auditChain = <<>>
  /\ op = [e \in Engines |-> NoOp]
  /\ operations = 0
  /\ leaked = [c \in Large |-> 0]
  /\ unrecorded = {}
  /\ overlapped = FALSE

EngineGoes(e, r) == op' = [op EXCEPT ![e] = r]

(* The first statement of what is left to do: blobs.put of a large content *)
(* or the INSERT of a small one, and the SELECT of audit.append at the end.*)
FirstOf(todo) ==
  IF todo = <<>> THEN "last" ELSE IF Head(todo).content \in Large THEN "put" ELSE "row"

Planned == MapThenSumSet(LAMBDA e : Len(op[e].todo) + Len(op[e].absorb), Engines)

Begin(e, at, todo, absorb) ==
  /\ op[e].at = "idle"
  /\ operations < MaxOperations /\ operations' = operations + 1
  /\ Len(rows) + Planned + Len(todo) + Len(absorb) <= MaxRows
  /\ EngineGoes(e, Going(at, todo, absorb, {}))
  /\ UNCHANGED <<tables, leaked, unrecorded, overlapped>>

Write(e, r) == Begin(e, FirstOf(<<r>>), <<r>>, <<>>)

(* The source is a row of any level; its protection is not copied.         *)
Promote(e, r, to, branch) ==
  LET copy == [content |-> r.content, branch |-> IF to = "branch" THEN branch ELSE r.branch,
               level |-> to, tier |-> r.tier, protected |-> FALSE]
  IN  Begin(e, FirstOf(<<copy>>), <<copy>>, <<>>)

(* The spawn is audited first; the return is absorbed into T1 and T2.      *)
InvokeSubagent(e, c, branch) ==
  LET Return(tier) == [content |-> c, branch |-> branch, level |-> "session",
                       tier |-> tier, protected |-> TRUE]
  IN  Begin(e, "last", <<>>, <<Return("T1"), Return("T2")>>)

RunnerReturns(e) ==
  /\ op[e].at = "run"
  /\ EngineGoes(e, Going(FirstOf(op[e].absorb), op[e].absorb, <<>>, {}))
  /\ UNCHANGED <<tables, operations, leaked, unrecorded, overlapped>>

(* blobs.put, the SELECT. *)
LooksForBlob(e) ==
  /\ op[e].at = "put"
  /\ EngineGoes(e, [Going("ref", op[e].todo, op[e].absorb, op[e].inserted) EXCEPT
                     !.exists = refs[Head(op[e].todo).content] > 0])
  /\ UNCHANGED <<tables, operations, leaked, unrecorded, overlapped>>

(* blobs.put, the UPDATE or the INSERT; the latter throws when the blob    *)
(* has come to be there since the SELECT (see StoreFails).                 *)
TakesReference(e) ==
  LET c == Head(op[e].todo).content
  IN  /\ op[e].at = "ref"
      /\ op[e].exists \/ refs[c] = 0
      /\ refs' = [refs EXCEPT ![c] = @ + 1]
      /\ EngineGoes(e, Going("row", op[e].todo, op[e].absorb, op[e].inserted))
      /\ UNCHANGED <<rows, branches, auditChain, operations, leaked, unrecorded, overlapped>>

InsertsRowAlone(e) ==                   \* mutant: the entry is about the last row only
  LET rest == Tail(op[e].todo)
  IN  /\ op[e].at = "row"
      /\ rows' = Append(rows, Head(op[e].todo))
      /\ EngineGoes(e, Going(FirstOf(rest), rest, op[e].absorb, {Len(rows) + 1}))
      /\ UNCHANGED <<refs, branches, auditChain, operations, leaked, unrecorded, overlapped>>

InsertsRow(e) ==
  LET rest == Tail(op[e].todo)
  IN  /\ op[e].at = "row"
      /\ rows' = Append(rows, Head(op[e].todo))
      /\ EngineGoes(e, Going(FirstOf(rest), rest, op[e].absorb, op[e].inserted \union {Len(rows) + 1}))
      /\ UNCHANGED <<refs, branches, auditChain, operations, leaked, unrecorded, overlapped>>

Copied(parent, tiers) ==
  {i \in DOMAIN rows : rows[i].branch = parent /\ rows[i].level # "session" /\ rows[i].tier \in tiers}

Of(c, ids) == {i \in ids : rows[i].content = c}

(* The rows above session level, their references and the branch, in one   *)
(* transaction: a branch that exists makes all of it roll back.            *)
CreateBranch(e, parent, b, tiers) ==
  LET copied == SetToSeq(Copied(parent, tiers))
      clones == [n \in DOMAIN copied |-> [rows[copied[n]] EXCEPT !.branch = b]]
      ids == Len(rows) + 1 .. Len(rows) + Len(clones)
  IN  /\ op[e].at = "idle"
      /\ b \notin branches
      /\ operations < MaxOperations /\ operations' = operations + 1
      /\ Len(rows) + Len(clones) + Planned <= MaxRows
      /\ rows' = rows \o clones
      /\ refs' = [c \in Large |-> refs[c] + Cardinality(Of(c, Copied(parent, tiers)))]
      /\ branches' = branches \union {b}
      /\ EngineGoes(e, Going("last", <<>>, <<>>, ids))
      /\ UNCHANGED <<auditChain, leaked, unrecorded, overlapped>>

(* audit.append, the SELECT of the last hash. *)
ReadsLast(e) ==
  /\ op[e].at = "last"
  /\ EngineGoes(e, [Going("append", op[e].todo, op[e].absorb, op[e].inserted) EXCEPT
                     !.prev = Len(auditChain)])
  /\ overlapped' = (overlapped \/ \E x \in Engines : op[x].at = "append")
  /\ UNCHANGED <<tables, operations, leaked, unrecorded>>

(* audit.append, the INSERT.  That of a spawn is followed by the runner.   *)
Appends(e) ==
  /\ op[e].at = "append"
  /\ auditChain' = Append(auditChain, [prev |-> op[e].prev, rows |-> op[e].inserted])
  /\ EngineGoes(e, IF op[e].absorb = <<>> THEN NoOp ELSE Going("run", <<>>, op[e].absorb, {}))
  /\ UNCHANGED <<rows, refs, branches, operations, leaked, unrecorded, overlapped>>

(* A statement throws, the process dies or the subagent times out, and     *)
(* nothing is undone.                                                      *)
StoreFails(e) ==
  /\ op[e].at # "idle"
  /\ EngineGoes(e, NoOp)
  /\ leaked' = [c \in Large |->
                  leaked[c] + (IF op[e].at = "row" /\ Head(op[e].todo).content = c THEN 1 ELSE 0)]
  /\ unrecorded' = unrecorded \union op[e].inserted
  /\ UNCHANGED <<tables, operations, overlapped>>

(* write: the inputs are of the default tier and have no flags.            *)
StoreNext ==
  \E e \in Engines :
    \/ \E r \in Row : r.tier = "T1" /\ ~ r.protected /\ Write(e, r)
    \/ \E i \in DOMAIN rows, to \in {"branch", "project"}, b \in Branches : Promote(e, rows[i], to, b)
    \/ \E c \in Contents, b \in Branches : InvokeSubagent(e, c, b)
    \/ RunnerReturns(e)
    \/ LooksForBlob(e)
    \/ TakesReference(e)
    \/ InsertsRow(e)
    \/ \E p, b \in Branches, tiers \in {{"T1"}, Tiers} : CreateBranch(e, p, b, tiers)
    \/ ReadsLast(e)
    \/ Appends(e)
    \/ StoreFails(e)

StoreSpec == StoreInit /\ [][StoreNext]_storeVars
-----------------------------------------------------------------------------
(* audit.verify: every entry is linked to the one before it.  Hashes of    *)
(* different entries differ, for their ids do.                             *)
ChainValid == \A i \in DOMAIN auditChain : auditChain[i].prev = i - 1

Operation ==
  [at : {"idle", "put", "ref", "row", "last", "append", "run"}, todo : Seq(Row), absorb : Seq(Row),
   inserted : SUBSET Nat, exists : BOOLEAN, prev : Nat]

StoreTypeOK ==
  /\ rows \in Seq(Row)
  /\ refs \in [Large -> Nat] /\ leaked \in [Large -> Nat]
  /\ Root \in branches /\ branches \subseteq Branches
  /\ auditChain \in Seq([prev : Nat, rows : SUBSET Nat])
  /\ op \in [Engines -> Operation]
  /\ \A e \in Engines : op[e].at \in {"put", "ref", "row"} => op[e].todo # <<>>
  /\ operations \in 0 .. MaxOperations /\ unrecorded \subseteq Nat /\ overlapped \in BOOLEAN

Inserting(c) == {e \in Engines : op[e].at = "row" /\ Head(op[e].todo).content = c}

(* A blob has one reference for every row that is stored by it, however    *)
(* writers race for a new blob and branches are copied meanwhile, and one  *)
(* too many only for an INSERT that failed after put.  So a count never is *)
(* too small, and no row is without its content.                           *)
BlobsCounted ==
  \A c \in Large :
    refs[c] = Cardinality(Of(c, DOMAIN rows)) + leaked[c] + Cardinality(Inserting(c))

(* The chain of a project verifies unless two processes have appended to   *)
(* it at once: failures and operations in between do not break it.         *)
ChainForksOnlyByOverlap == ~ overlapped => ChainValid

(* Every row is in the audit entry of the operation that inserted it, or   *)
(* that operation is still going on or has failed on its way; no row is in *)
(* two of these places, so none is audited twice.                          *)
RowsAudited ==
  LET entries == DOMAIN auditChain
      Entered(i) == auditChain[i].rows
  IN  /\ DOMAIN rows = unrecorded \union (UNION {Entered(i) : i \in entries})
                               \union (UNION {op[e].inserted : e \in Engines})
      /\ \A i, j \in entries : i # j => Entered(i) \intersect Entered(j) = {}
      /\ \A d, e \in Engines : d # e => op[d].inserted \intersect op[e].inserted = {}
      /\ \A i \in entries, e \in Engines : Entered(i) \intersect op[e].inserted = {}
      /\ \A i \in entries : Entered(i) \intersect unrecorded = {}
      /\ \A e \in Engines : op[e].inserted \intersect unrecorded = {}

(* Rows, the references of their blobs and the audit chain account for     *)
(* each other, whichever statements of two processes interleave or fail.   *)
StoreAccounted ==
  /\ StoreTypeOK
  /\ BlobsCounted
  /\ ChainForksOnlyByOverlap
  /\ RowsAudited
=============================================================================
