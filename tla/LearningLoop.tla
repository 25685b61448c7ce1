----------------------------- MODULE LearningLoop -----------------------------
(***************************************************************************)
(* From what an agent did to a verified skill, for one pattern of one      *)
(* project: Observer.capture (packages/self-learning-observer), detection  *)
(* and CandidateStore.upsert (self-learning-detection),                    *)
(* PromoterService.review (instinct-promoter),                             *)
(* SkillGenesis.generateFromCandidate (skill-genesis) and                  *)
(* VerificationLoop.verify (verification-loop).                            *)
(*                                                                         *)
(* Observations are numbered in the order of their timestamps; a query of  *)
(* the project returns the oldest of them, up to its limit.  Nothing in    *)
(* the store refuses a review of a candidate that was already reviewed.    *)
(***************************************************************************)
EXTENDS Integers, FiniteSetsExt

CONSTANTS
  Reviews,                                       (* in progress at a time         *)
  CooldownHours, GenerationCap, QueryLimit,
  SamplesMin, HoldoutPct, ThresholdPct,
  MaxObserved, MaxSamples, MaxHours, MaxReviews  (* bounds of the model           *)

ASSUME LearningParameters ==
  {GenerationCap, MaxObserved, MaxHours, MaxReviews} \subseteq Nat

VARIABLES
  observed,         (* observation_events                                  *)
  candidate,        (* its row in instinct_candidates                      *)
  review, reviews,  (* the reviews in progress, and how many there were    *)
  skill,            (* the samples of the generated skill, if any          *)
  generated,        (* generationCount                                     *)
  verifying,        (* the verification in progress                        *)
  verdict,          (* its last result, and what it rests on               *)
  hour,
  lapsed            (* history: the hours from the last review to the      *)
                    (* candidate's return, or -1                           *)

learnVars == <<observed, candidate, review, reviews, skill, generated,
               verifying, verdict, hour, lapsed>>

NoCandidate == [status |-> "none", at |-> 0, samples |-> {}]
NoReview == [at |-> "idle", action |-> "none"]
NotVerifying ==
  [at |-> "idle", left |-> {}, holdout |-> {}, matched |-> 0, total |-> 0, replayed |-> 0]
NoVerdict == [status |-> "unverified", replayed |-> 0, crossed |-> 0]

LearnInit ==
  /\ observed = 0
  /\ candidate = NoCandidate
  /\ review = [r \in Reviews |-> NoReview] /\ reviews = 0
  /\ skill = {} /\ generated = 0
  /\ verifying = NotVerifying /\ verdict = NoVerdict
  /\ hour = 0
  /\ lapsed = 0 - 1
-----------------------------------------------------------------------------
(* A captured event; one that any level has opted out of leaves no trace.  *)
Capture ==
  /\ observed < MaxObserved
  /\ observed' = observed + 1
  /\ UNCHANGED <<candidate, review, reviews, skill, generated, verifying, verdict, hour, lapsed>>

LearnTick ==
  /\ hour < MaxHours
  /\ hour' = hour + 1
  /\ UNCHANGED <<observed, candidate, review, reviews, skill, generated, verifying, verdict, lapsed>>

SetAside == {"rejected", "deferred"}

(* upsert: set aside for a while, then detected anew; a candidate that was *)
(* promoted, or is being customised, keeps its status.                     *)
Upsert(samples) ==
  /\ candidate.status \in SetAside => hour - candidate.at >= CooldownHours
  /\ candidate' = [candidate EXCEPT !.samples = samples,
                     !.status = IF @ \in SetAside \union {"none"} THEN "detected" ELSE @]
  /\ lapsed' = IF candidate.status \in SetAside THEN hour - candidate.at ELSE lapsed

(* A run over the events of a session, or of the project.                  *)
DetectPattern ==
  /\ \E samples \in SUBSET (1 .. observed) :
       /\ Cardinality(samples) \in 1 .. MaxSamples
       /\ Upsert(samples)
  /\ UNCHANGED <<observed, review, reviews, skill, generated, verifying, verdict, hour>>

Actions == {"reject", "defer", "promote_customize", "promote"}

(* The candidate is looked up, then the audit is awaited. *)
ReviewBegins(r) ==
  /\ review[r] = NoReview
  /\ reviews < MaxReviews
  /\ candidate.status # "none"
  /\ \E a \in Actions : review' = [review EXCEPT ![r] = [at |-> "decide", action |-> a]]
  /\ reviews' = reviews + 1
  /\ UNCHANGED <<observed, candidate, skill, generated, verifying, verdict, hour, lapsed>>

SetReviewStatus(status) == candidate' = [candidate EXCEPT !.status = status, !.at = hour]

Decided == [a \in Actions |-> CASE a = "reject" -> "rejected"
                                [] a = "defer" -> "deferred"
                                [] a = "promote_customize" -> "reviewed"
                                [] a = "promote" -> "promoted"]

ReviewDecides(r) ==
  /\ review[r].at = "decide" /\ review[r].action # "promote"
  /\ SetReviewStatus(Decided[review[r].action])
  /\ review' = [review EXCEPT ![r] = NoReview]
  /\ UNCHANGED <<observed, reviews, skill, generated, verifying, verdict, hour, lapsed>>

(* generateFromCandidate awaits nothing between the check of its cap and   *)
(* the count; a skill of that name is replaced.                            *)
GeneratesSkill(r) ==
  /\ review[r] = [at |-> "decide", action |-> "promote"]
  /\ IF generated >= GenerationCap
       THEN review' = [review EXCEPT ![r] = NoReview] /\ UNCHANGED <<skill, generated>>
       ELSE /\ skill' = candidate.samples
            /\ generated' = generated + 1
            /\ review' = [review EXCEPT ![r].at = "mark"]
  /\ UNCHANGED <<observed, candidate, reviews, verifying, verdict, hour, lapsed>>

MarksPromoted(r) ==
  /\ review[r].at = "mark"
  /\ SetReviewStatus("promoted")
  /\ review' = [review EXCEPT ![r] = NoReview]
  /\ UNCHANGED <<observed, reviews, skill, generated, verifying, verdict, hour, lapsed>>
-----------------------------------------------------------------------------
(* The first of the samples, in their order: held out of the replay (but   *)
(* not of what the skill was generated from).                              *)
Holdout(samples) ==
  LET count == IF Cardinality(samples) * HoldoutPct < 100 THEN 1
               ELSE (Cardinality(samples) * HoldoutPct) \div 100
  IN  {s \in samples : Cardinality({x \in samples : x <= s}) <= count}

(* What a query of the project still finds of them. *)
Found(samples) == {s \in samples : s <= QueryLimit}

VerifyBegins ==
  /\ verifying = NotVerifying
  /\ skill # {}
  /\ IF Cardinality(skill) < SamplesMin
       THEN verdict' = NoVerdict /\ UNCHANGED verifying
       ELSE /\ verifying' = [NotVerifying EXCEPT !.at = "replay", !.holdout = Holdout(skill),
                                                 !.left = Found(skill \ Holdout(skill))]
            /\ UNCHANGED verdict
  /\ UNCHANGED <<observed, candidate, review, reviews, skill, generated, hour, lapsed>>

(* The executor runs the skill on one observation. *)
Replays ==
  /\ verifying.left # {}
  /\ \E matched \in {0, 1} :
       verifying' = [verifying EXCEPT !.left = @ \ {Min(@)}, !.total = @ + 1,
                                      !.matched = @ + matched]
  /\ UNCHANGED <<observed, candidate, review, reviews, skill, generated, verdict, hour, lapsed>>

(* Mutant: no failure among none counts as a pass.                         *)
PassedEmpty(matched, total) == matched * 100 >= ThresholdPct * total

(* A part of which nothing was found has a success rate of 0.              *)
Passed(matched, total) == total > 0 /\ matched * 100 >= ThresholdPct * total

PartEnds ==
  /\ verifying.at # "idle" /\ verifying.left = {}
  /\ LET v == verifying  passed == Passed(v.matched, v.total)
     IN  IF v.at = "replay" /\ passed
           THEN /\ verifying' = [NotVerifying EXCEPT !.at = "cross", !.left = Found(v.holdout),
                                                     !.replayed = v.total]
                /\ UNCHANGED verdict
           ELSE /\ verifying' = NotVerifying
                /\ verdict' = [replayed |-> v.replayed, crossed |-> v.total,
                               status |-> IF v.at = "replay" THEN "unverified"
                                          ELSE IF passed THEN "verified" ELSE "replay_tested"]
  /\ UNCHANGED <<observed, candidate, review, reviews, skill, generated, hour, lapsed>>

LearnNext ==
  \/ Capture \/ LearnTick \/ DetectPattern
  \/ \E r \in Reviews :
       ReviewBegins(r) \/ ReviewDecides(r) \/ GeneratesSkill(r) \/ MarksPromoted(r)
  \/ VerifyBegins \/ Replays \/ PartEnds

LearnSpec == LearnInit /\ [][LearnNext]_learnVars
-----------------------------------------------------------------------------
LearnTypeOK ==
  /\ observed \in 0 .. MaxObserved /\ hour \in 0 .. MaxHours
  /\ candidate.status \in {"none", "detected", "reviewed", "promoted"} \union SetAside
  /\ candidate.samples \subseteq 1 .. MaxObserved /\ skill \subseteq 1 .. MaxObserved
  /\ generated \in 0 .. GenerationCap /\ reviews \in 0 .. MaxReviews
  /\ verdict.status \in {"unverified", "replay_tested", "verified"}

(* However many reviews promote the candidate at a time, no more skills    *)
(* are generated than the cap, and a candidate marked promoted has a skill *)
(* behind it, although the mark is set an await after the generation.      *)
PromotedWithinCap ==
  /\ generated <= GenerationCap
  /\ candidate.status = "promoted" => skill # {}
  /\ \A r \in Reviews : review[r].at = "mark" => skill # {}

(* A candidate set aside stays away for its whole cooldown, counted from   *)
(* the last of its reviews, however its reviews and detections interleave. *)
SetAsideForItsCooldown == lapsed = 0 - 1 \/ lapsed >= CooldownHours

(* A verified skill passed on at least one observation of either part,     *)
(* even when a query no longer returns them all.                           *)
VerifiedOnBothParts ==
  verdict.status = "verified" => verdict.replayed > 0 /\ verdict.crossed > 0

(* The limits of learning hold together: the cap of generations, the       *)
(* cooldown of candidates, both parts of a verification.                   *)
LearnsWithinLimits ==
  /\ LearnTypeOK
  /\ PromotedWithinCap
  /\ SetAsideForItsCooldown
  /\ VerifiedOnBothParts
=============================================================================
