------------------------------ MODULE Workspaces ------------------------------
(***************************************************************************)
(* A workspace and its members: WorkspaceStore                             *)
(* (packages/workspace/src/store.ts), used by several processes over one   *)
(* database.  Within a process an operation is synchronous; between the    *)
(* rows it reads and the statement, or transaction, that writes, another   *)
(* process may write.                                                      *)
(***************************************************************************)
EXTENDS Naturals, Sequences, FiniteSetsExt

CONSTANTS
  Scopes,
  Writers,   (* the processes that use the database                        *)
  MaxWrites  (* bound of the model                                         *)

ASSUME WorkspaceParameters == "none" \notin Scopes /\ MaxWrites \in Nat

VARIABLES
  owner,    (* workspaces.owner_scope_id, "none" without a row             *)
  members,  (* members[s]: the role of s, or "none"                        *)
  writer,   (* what each process has read for its operation                *)
  writes,
  raced,    (* history: a write relied on rows another had changed         *)
  invited   (* history: scopes that addMember made an owner                *)

wsVars == <<owner, members, writer, writes, raced, invited>>

Roles == {"owner", "contributor", "observer"}
NoChange == [op |-> "none", scope |-> "none", role |-> "none", owner |-> "none", stale |-> FALSE]

WsInit ==
  /\ owner = "none"
  /\ members = [s \in Scopes |-> "none"]
  /\ writer = [p \in Writers |-> NoChange]
  /\ writes = 0
  /\ raced = FALSE
  /\ invited = {}

(* What has been read of the rows is old once they change.                 *)
OldReads == [q \in Writers |-> IF writer[q] = NoChange THEN NoChange ELSE [writer[q] EXCEPT !.stale = TRUE]]

(* p writes, or finds it cannot.                                           *)
WrittenBy(p) ==
  /\ writes < MaxWrites
  /\ writes' = writes + 1
  /\ raced' = (raced \/ writer[p].stale)
  /\ writer' = [OldReads EXCEPT ![p] = NoChange]

CreateWorkspace(p) ==
  /\ owner = "none" /\ writer[p] = NoChange
  /\ \E s \in Scopes : owner' = s /\ members' = [members EXCEPT ![s] = "owner"]
  /\ invited' = {}
  /\ WrittenBy(p)

(* The memberships go with the row. *)
DeletedWorkspace ==
  /\ owner' = "none"
  /\ members' = [s \in Scopes |-> "none"]
  /\ invited' = {}

DeleteWorkspace(p) ==
  /\ owner # "none" /\ writer[p] = NoChange
  /\ DeletedWorkspace
  /\ WrittenBy(p)

(* Mutant: the owner can be removed.                                       *)
MayChangeOwner(op, s, role) ==
  CASE op \in {"add", "remove"} -> TRUE
    [] op = "change"   -> /\ members[s] # "none"
                          /\ members[s] = "owner" => role = "owner"
                          /\ role = "owner" => owner = s
    [] op = "transfer" -> owner # s /\ members[s] # "none"

(* The rows an operation reads, and the checks it makes of them.           *)
MayChange(op, s, role) ==
  CASE op = "add"      -> TRUE
    [] op = "remove"   -> owner # s
    [] op = "change"   -> /\ members[s] # "none"
                          /\ members[s] = "owner" => role = "owner"
                          /\ role = "owner" => owner = s
    [] op = "transfer" -> owner # s /\ members[s] # "none"

ReadsWorkspace(p) ==
  /\ writer[p] = NoChange
  /\ owner # "none"
  /\ \E op \in {"add", "remove", "change", "transfer"}, s \in Scopes, role \in Roles :
       /\ MayChange(op, s, role)
       /\ writer' = [writer EXCEPT ![p] =
                       [op |-> op, scope |-> s, role |-> role, owner |-> owner, stale |-> FALSE]]
  /\ UNCHANGED <<owner, members, writes, raced, invited>>

(* An UPDATE finds only the rows that are there. *)
WithRole(roles, s, role) == IF roles[s] = "none" THEN roles ELSE [roles EXCEPT ![s] = role]

AddMember(p) ==
  /\ writer[p].op = "add"
  /\ WrittenBy(p)
  /\ IF owner = "none" \/ members[writer[p].scope] # "none"
       THEN UNCHANGED <<members, invited>>
       ELSE /\ members' = [members EXCEPT ![writer[p].scope] = writer[p].role]
            /\ invited' = IF writer[p].role = "owner" THEN invited \union {writer[p].scope}
                                                      ELSE invited
  /\ UNCHANGED owner

RemoveMember(p) ==
  /\ writer[p].op = "remove"
  /\ WrittenBy(p)
  /\ members' = [members EXCEPT ![writer[p].scope] = "none"]
  /\ invited' = invited \ {writer[p].scope}
  /\ UNCHANGED owner

ChangeRole(p) ==
  /\ writer[p].op = "change"
  /\ WrittenBy(p)
  /\ members' = WithRole(members, writer[p].scope, writer[p].role)
  /\ UNCHANGED <<owner, invited>>

(* One transaction: the owner it has read steps down, the new one steps up. *)
TransferOwnership(p) ==
  /\ writer[p].op = "transfer"
  /\ WrittenBy(p)
  /\ members' = WithRole(WithRole(members, writer[p].owner, "contributor"), writer[p].scope, "owner")
  /\ owner' = IF owner = "none" THEN "none" ELSE writer[p].scope
  /\ invited' = invited \ {writer[p].owner}

WsStep(p) ==
  \/ CreateWorkspace(p) \/ DeleteWorkspace(p) \/ ReadsWorkspace(p)
  \/ AddMember(p) \/ RemoveMember(p) \/ ChangeRole(p) \/ TransferOwnership(p)

WsNext == \E p \in Writers : WsStep(p)
WsSpec == WsInit /\ [][WsNext]_wsVars
-----------------------------------------------------------------------------
WsTypeOK ==
  /\ owner \in Scopes \union {"none"}
  /\ members \in [Scopes -> Roles \union {"none"}]
  /\ owner = "none" => \A s \in Scopes : members[s] = "none"
  /\ \A p \in Writers : writer[p].op \in {"none", "add", "remove", "change", "transfer"}
  /\ writes \in 0 .. MaxWrites
  /\ raced \in BOOLEAN /\ invited \subseteq Scopes

(* Through any sequence of members added, removed, demoted and promoted,   *)
(* and of ownership handed on, the owner of record is a member with the    *)
(* role of owner, and no one else has it but a scope that addMember gave   *)
(* it to; unless a process wrote over rows another had changed.            *)
OneOwnerOfRecord ==
  (~ raced /\ owner # "none") =>
    /\ members[owner] = "owner"
    /\ \A s \in Scopes \ (invited \union {owner}) : members[s] # "owner"

(* A workspace that exists has its owner among its members, one that is    *)
(* gone has no members, and roles come by the operations that give them.   *)
OwnershipHolds == WsTypeOK /\ OneOwnerOfRecord
=============================================================================
