--------------------------- MODULE CapabilityGlobs ---------------------------
(***************************************************************************)
(* The two pattern languages of capabilities:                              *)
(*  - "action:resource:scope" of packages/capability-tokens/src/           *)
(*    permissions.ts, where * in the scope stands for any text;            *)
(*  - method globs of packages/transport-security/src/glob.ts, whose       *)
(*    segments are literals, * (one segment) or ** (any number of them).   *)
(* Scopes are sequences of letters (<<>> when absent: a scope that is      *)
(* present is not empty), methods and method globs of segments.            *)
(***************************************************************************)
EXTENDS Integers, SequencesExt

CONSTANTS
  Letters,      (* the characters of scopes                                    *)
  Segments,     (* the literal segments of methods and their globs             *)
  GlobLength    (* bound of the model: the segments compared                   *)

ASSUME GlobParameters == "*" \in Letters /\ GlobLength \in Nat

VARIABLE
  compared      (* a method glob, and the method it is asked about             *)

Comparisons ==
  [glob : BoundedSeq(Segments \union {"*", "**"}, GlobLength), method : BoundedSeq(Segments, GlobLength)]

(* A capability: its scope is empty when the string has only two parts.    *)
Capability == [action : STRING, resource : STRING, scope : Seq(Letters)]

(* The regular expression of globToRegExp: s is cut into one letter for    *)
(* every letter of p and any text for every *.                             *)
TextMatches(p, s) ==
  \E cut \in [0 .. Len(p) -> 0 .. Len(s)] :
    /\ cut[0] = 0 /\ cut[Len(p)] = Len(s)
    /\ \A i, j \in 0 .. Len(p) : i <= j => cut[i] <= cut[j]
    /\ \A i \in 1 .. Len(p) : p[i] # "*" => cut[i] = cut[i - 1] + 1 /\ s[cut[i]] = p[i]

MatchesCapability(g, r) ==
  /\ g.action = r.action
  /\ g.resource \in {"*", r.resource}
  /\ \/ g.scope = <<>>
     \/ r.scope = <<>> /\ g.scope = <<"*">>
     \/ r.scope # <<>> /\ TextMatches(g.scope, r.scope)

Grants(caps, r) == \E g \in caps : MatchesCapability(g, r)

MethodMatchesGreedy(p, m) ==            \* mutant: ** is tried with all that is left, and no less
  LET from[i \in 1 .. Len(p) + 1] ==
        IF i > Len(p) THEN {Len(m) + 1}
        ELSE IF p[i] = "**" THEN {j \in 1 .. Len(m) + 1 : i = Len(p) \/ Len(m) + 1 \in from[i + 1]}
        ELSE {j \in 1 .. Len(m) : j + 1 \in from[i + 1] /\ (IF p[i] = "*" THEN m[j] # "" ELSE m[j] = p[i])}
  IN  1 \in from[1]

(* matchHelper: the places of m from which on its segments are matched by  *)
(* those of p from i on.                                                   *)
MethodMatches(p, m) ==
  LET from[i \in 1 .. Len(p) + 1] ==
        IF i > Len(p) THEN {Len(m) + 1}
        ELSE IF p[i] = "**" THEN {j \in 1 .. Len(m) + 1 : i = Len(p) \/ \E k \in from[i + 1] : j <= k}
        ELSE {j \in 1 .. Len(m) : j + 1 \in from[i + 1] /\ (IF p[i] = "*" THEN m[j] # "" ELSE m[j] = p[i])}
  IN  1 \in from[1]

(* What a method glob means: the method is cut into pieces, one for each   *)
(* segment of the pattern.                                                 *)
Piece(seg, s) ==
  CASE seg = "**" -> TRUE
    [] seg = "*"  -> Len(s) = 1 /\ s[1] # ""
    [] OTHER      -> s = <<seg>>

MeansMethod(p, m) ==
  \E cut \in [0 .. Len(p) -> 0 .. Len(m)] :
    /\ cut[0] = 0 /\ cut[Len(p)] = Len(m)
    /\ \A i \in 1 .. Len(p) :
         cut[i - 1] <= cut[i] /\ Piece(p[i], SubSeq(m, cut[i - 1] + 1, cut[i]))

(* matchHelper accepts exactly the methods a glob means, whatever the      *)
(* number and the places of its ** segments.                               *)
MethodGlobsExact ==
  MethodMatches(compared.glob, compared.method) <=> MeansMethod(compared.glob, compared.method)
=============================================================================
