------------------------------ MODULE MCServices ------------------------------
(***************************************************************************)
(* A behaviour is one of MeshRouter or one of the services that share      *)
(* nothing with it or with each other: capability tokens, the lazy loader, *)
(* the learning loop, the plugins' life cycle, the migration of phase 7,   *)
(* the chat, the marketplace and the workbench's server; or the comparison *)
(* of one glob with one method.                                            *)
(***************************************************************************)
EXTENDS MeshRouter, CapabilityTokens, LazyLoader, LearningLoop,
        PluginLifecycle, PhaseMigration, ChatChain, Marketplace, Workbench, TLC

CONSTANTS libp2p, http

DefaultRank == [k \in Kinds |-> IF k = libp2p THEN 0 ELSE 1]

(* Every transport honours timeoutMs. *)
Guarded == [k \in Kinds |-> "attempt"]

(* The two sends, reviews, calls, appenders and requests are one pair of   *)
(* values, so that one permutation is a symmetry of all.                   *)
Symmetry == Permutations(Senders)

Cap(a, s) == [action |-> a, resource |-> "kb", scope |-> s]

CapSets ==
  {{Cap("delegate", <<>>), Cap("read", <<"*">>)}, {Cap("delegate", <<>>), Cap("read", <<"*", "*">>)},
   {Cap("delegate", <<"a", "*">>), Cap("read", <<"a", "*">>)}}

Asked == {Cap("read", <<>>), Cap("read", <<"a", "b">>)}

(* The files have 1, 2 or 3 bytes more than fits the version before.       *)
Sizes == [v \in 0 .. MaxEdits |-> IF v = 2 THEN 4 ELSE v + 1]

TwoParts == <<"observer", "promoter">>

VARIABLE focus

Rest(x) ==
  /\ focus = x /\ UNCHANGED <<focus, compared>>
  /\ x # "router" => UNCHANGED vars
  /\ x # "tokens" => UNCHANGED tokenVars
  /\ x # "loader" => UNCHANGED lazyVars
  /\ x # "learning" => UNCHANGED learnVars
  /\ x # "plugins" => UNCHANGED pluginVars
  /\ x # "migration" => UNCHANGED migVars
  /\ x # "chat" => UNCHANGED chatVars
  /\ x # "market" => UNCHANGED marketVars
  /\ x # "workbench" => UNCHANGED wbVars

MCInit ==
  /\ Init /\ TokenInit /\ LazyInit /\ LearnInit
  /\ PluginInit /\ MigInit /\ ChatInit /\ MarketInit /\ WbInit
  /\ focus \in {"router", "tokens", "loader", "learning", "plugins",
                "migration", "chat", "market", "workbench", "globs"}
  /\ focus # "workbench" => ~ strict
  /\ compared \in IF focus = "globs" THEN Comparisons ELSE {[glob |-> << >>, method |-> << >>]}

MCNext ==
  \/ Rest("router") /\ Next
  \/ Rest("tokens") /\ TokenNext
  \/ Rest("loader") /\ LazyNext /\ overwritten' <= 4
  \/ Rest("learning") /\ LearnNext
  \/ Rest("plugins") /\ PluginNext
  \/ Rest("migration") /\ MigNext
  \/ Rest("chat") /\ ChatNext
  \/ Rest("market") /\ MarketNext
  \/ Rest("workbench") /\ WbNext

MCSpec ==
  MCInit /\ [][MCNext]_<<vars, tokenVars, lazyVars, learnVars, pluginVars, migVars,
                         chatVars, marketVars, wbVars, compared, focus>>
=============================================================================
