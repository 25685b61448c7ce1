----------------------------- MODULE MCBackground -----------------------------
(***************************************************************************)
(* What runs in the background: a behaviour is one of SandboxManager, or   *)
(* one of Distillation, with promotions of what one loop has distilled or  *)
(* without any.  No action that is fair is enabled at first, so the        *)
(* fairness of one says nothing of the other's behaviours.                 *)
(***************************************************************************)
EXTENDS SandboxManager, Distillation

CONSTANTS w1, w2

(* An entry yields nothing, or two memories. *)
NothingOrAll == {{}, Memories}

AllEpisodic == [m \in Memories |-> "episodic"]

VARIABLE focus

Rest(x) ==
  /\ focus = x /\ UNCHANGED focus
  /\ IF x = "sandbox" THEN UNCHANGED distillVars ELSE UNCHANGED vars

MCInit ==
  /\ Init /\ DistillInit
  /\ focus \in {"sandbox", "distill", "tiers"}
  /\ heard[w1] /\ ~ heard[w2]

MCNext ==
  \/ Rest("sandbox") /\ Next
  \/ Rest("distill") /\ DistillNext /\ promotions' = 0
  \/ Rest("tiers") /\ DistillNext /\ starts' <= 1 /\ Len(chatLog') <= 1

MCSpec ==
  /\ MCInit /\ [][MCNext]_<<vars, distillVars, focus>>
  /\ Fairness /\ DistillFairness
=============================================================================
