-------------------------- MODULE CapabilityTokens --------------------------
(***************************************************************************)
(* Issuing, delegating, revoking and verifying capability tokens           *)
(* (packages/capability-tokens/src/issuer.ts, revocation.ts, verifier.ts). *)
(* A token is its payload: its jti is a hash of the payload, so that two   *)
(* tokens with the same content are the same token to the revocations.     *)
(*                                                                         *)
(* A verification yields while it looks for the issuer's key and again     *)
(* while it asks the revocation directory; revocations and the clock go on *)
(* in between.                                                             *)
(***************************************************************************)
EXTENDS CapabilityGlobs, FiniteSets

CONSTANTS
  TokenScopes,
  RootCaps,       (* the sets of capabilities tokens are issued with       *)
  Required,       (* the capabilities asked for                            *)
  Ttls, Depths,   (* the times to live and the delegation depths asked for *)
  Skew,           (* clockSkewSeconds                                      *)
  Verifications,  (* verifications in progress at a time                   *)
  NoToken,
  MaxTokens,      (* bounds of the model                                   *)
  MaxTokenTime

ASSUME TokenParameters ==
  /\ RootCaps \subseteq SUBSET Capability /\ Required \subseteq Capability
  /\ Ttls \subseteq Nat \ {0}
  /\ Depths \subseteq 0 .. 10
  /\ {Skew, MaxTokens, MaxTokenTime} \subseteq Nat

VARIABLES
  tokenTime,
  tokens,       (* the tokens issued                                       *)
  revocations,  (* .orqenix/revocations                                    *)
  check,        (* check[v]: an invocation of verify                       *)
  lineage       (* history: [root, token, length] of every delegation      *)

tokenVars == <<tokenTime, tokens, revocations, check, lineage>>

NoCheck == [phase |-> "idle", token |-> NoToken, before |-> {}, at |-> 0]

TokenInit ==
  /\ tokenTime = 0
  /\ tokens = {}
  /\ revocations = {}
  /\ check = [v \in Verifications |-> NoCheck]
  /\ lineage = {}

TokenOf(iss, sub, caps, ttl, depth) ==
  [iss |-> iss, sub |-> sub, iat |-> tokenTime, nbf |-> tokenTime,
   exp |-> tokenTime + ttl, caps |-> caps, depth |-> depth]

IssueToken(iss, sub, caps, ttl, depth) ==
  LET t == TokenOf(iss, sub, caps, ttl, depth)
  IN  /\ Cardinality(tokens) < MaxTokens
      /\ tokens' = tokens \union {t}
      /\ lineage' = lineage \union {[root |-> t, token |-> t, length |-> 0]}
      /\ UNCHANGED <<tokenTime, revocations, check>>

CanDelegate(t) == t.depth > 0 /\ \E c \in t.caps : c.action = "delegate"

CappedTtlForgotten(ttl, exp) == ttl     \* mutant: the child may outlive its parent

CappedTtl(ttl, exp) == IF ttl <= exp - tokenTime THEN ttl ELSE exp - tokenTime

(* The holder of p delegates: what it grants must have been granted to it, *)
(* the time is capped, and one level of delegation is used up.             *)
DelegateToken(p, sub, caps, ttl) ==
  LET t == TokenOf(p.sub, sub, caps, CappedTtl(ttl, p.exp), p.depth - 1)
  IN  /\ CanDelegate(p)
      /\ \A c \in caps : Grants(p.caps, c)
      /\ CappedTtl(ttl, p.exp) > 0
      /\ Cardinality(tokens) < MaxTokens
      /\ tokens' = tokens \union {t}
      /\ lineage' = lineage \union
           {[root |-> l.root, token |-> t, length |-> l.length + 1] :
              l \in {m \in lineage : m.token = p}}
      /\ UNCHANGED <<tokenTime, revocations, check>>

(* revoke: the record is written beside its place and renamed into it.     *)
Revoke(t) ==
  /\ revocations' = revocations \union {t}
  /\ UNCHANGED <<tokenTime, tokens, check, lineage>>

Step(v, phase) ==
  check' = [check EXCEPT ![v] =
    [phase |-> phase, token |-> @.token, before |-> @.before, at |-> tokenTime]]

(* verify(encoded): a decoded token, and the key of its issuer is awaited. *)
VerifyToken(v, t) ==
  /\ check[v].phase \in {"idle", "accepted", "refused"}
  /\ check' = [check EXCEPT ![v] =
       [phase |-> "key", token |-> t, before |-> revocations, at |-> tokenTime]]
  /\ UNCHANGED <<tokenTime, tokens, revocations, lineage>>

WithinWindow(t) == tokenTime + Skew >= t.nbf /\ tokenTime <= t.exp + Skew

(* The issuer's key has been found and the signature is good: the window   *)
(* is checked and the revocations are asked.                               *)
KeyFound(v) ==
  /\ check[v].phase = "key"
  /\ IF WithinWindow(check[v].token) THEN Step(v, "revocation") ELSE Step(v, "refused")
  /\ UNCHANGED <<tokenTime, tokens, revocations, lineage>>

(* No key for this issuer, or a signature that is not by it.               *)
KeyRefused(v) ==
  /\ check[v].phase = "key"
  /\ Step(v, "refused")
  /\ UNCHANGED <<tokenTime, tokens, revocations, lineage>>

RevocationAnswered(v, required) ==
  /\ check[v].phase = "revocation"
  /\ check' = [check EXCEPT ![v].phase =
       IF check[v].token \notin revocations /\ Grants(check[v].token.caps, required)
         THEN "accepted" ELSE "refused"]
  /\ UNCHANGED <<tokenTime, tokens, revocations, lineage>>

TokenTick ==
  /\ tokenTime < MaxTokenTime
  /\ tokenTime' = tokenTime + 1
  /\ UNCHANGED <<tokens, revocations, check, lineage>>

TokenNext ==
  \/ \E iss, sub \in TokenScopes, caps \in RootCaps, ttl \in Ttls, depth \in Depths :
       IssueToken(iss, sub, caps, ttl, depth)
  \/ \E p \in tokens, sub \in TokenScopes, caps \in RootCaps, ttl \in Ttls :
       DelegateToken(p, sub, caps, ttl)
  \/ \E t \in tokens : Revoke(t)
  \/ \E v \in Verifications, t \in tokens : VerifyToken(v, t)
  \/ \E v \in Verifications : KeyFound(v)
  \/ \E v \in Verifications : KeyRefused(v)
  \/ \E v \in Verifications, r \in Required : RevocationAnswered(v, r)
  \/ TokenTick

TokenSpec == TokenInit /\ [][TokenNext]_tokenVars
-----------------------------------------------------------------------------
TokenType ==
  [iss : TokenScopes, sub : TokenScopes, iat : Nat, nbf : Nat, exp : Nat,
   caps : RootCaps, depth : Nat]

TokenTypeOK ==
  /\ tokenTime \in Nat
  /\ tokens \subseteq TokenType
  /\ revocations \subseteq tokens
  /\ \A v \in Verifications :
       /\ check[v].phase \in {"idle", "key", "revocation", "accepted", "refused"}
       /\ check[v].token \in tokens \union {NoToken}
       /\ check[v].before \subseteq revocations
  /\ \A l \in lineage : {l.root, l.token} \subseteq tokens

(* A request that names no scope, as one for the scope *.                  *)
AnyScope(r) == [r EXCEPT !.scope = <<"*">>]

(* Whatever chain of delegations leads to a token, its holder can do       *)
(* nothing that the first token of the chain does not grant, and not       *)
(* longer; and the chain is no longer than the first token allows.  One    *)
(* request may be added, that without a scope to a first token that has    *)
(* any scope written otherwise than as one *.                              *)
AuthorityShrinks ==
  \A l \in lineage :
    /\ l.token.exp <= l.root.exp
    /\ l.length + l.token.depth <= l.root.depth
    /\ \A r \in Required : Grants(l.token.caps, r) =>
         \/ Grants(l.root.caps, r)
         \/ r.scope = <<>> /\ Grants(l.root.caps, AnyScope(r))

(* A token is accepted only if no revocation of it was complete when its   *)
(* verification began and the clock was in its window, give or take the    *)
(* skew, when its key was found.                                           *)
AcceptsOnlyCurrent ==
  \A v \in Verifications : check[v].phase = "accepted" =>
    /\ check[v].token \notin check[v].before
    /\ check[v].at <= check[v].token.exp + Skew
    /\ check[v].at + Skew >= check[v].token.nbf

(* Tokens, from their issue to their verification: no chain of             *)
(* delegations adds to what its first token grants, and what is accepted   *)
(* was current and not revoked.                                            *)
AuthorityHolds == TokenTypeOK /\ AuthorityShrinks /\ AcceptsOnlyCurrent
=============================================================================
