--------------------------- MODULE DeliberationRun --------------------------
(***************************************************************************)
(* DeliberationRuntime: rounds of contributions, peer reviews and the      *)
(* leader's consolidation, then the final document.  Contributions and     *)
(* reviews are supervised and only a RESTART is honoured; the leader's     *)
(* calls are not supervised.  A timeout under "continue" gives None, which *)
(* skips a contribution or review, makes a consolidation insufficient and  *)
(* a document late.                                                        *)
(***************************************************************************)
EXTENDS Flow

CONSTANTS MaxRounds
ASSUME RoundsAssumption == MaxRounds \in Nat \ {0}

VARIABLES round,          \* rounds begun
          who,            \* participant at hand
          about,          \* index of the contribution under review
          contributions,  \* of this round, by participant, in order
          reviews,        \* of this round: <<reviewer, reviewed>>
          sufficient      \* state.is_sufficient

talkVars == <<round, who, about, contributions, reviews, sufficient>>

TalkTypeOK ==
  /\ round \in 0..MaxRounds
  /\ who \in 1..(N + 1)
  /\ about \in 1..(N + 1)
  /\ contributions \in Seq(Step)
  /\ reviews \subseteq Step \X Step
  /\ sufficient \in BOOLEAN

TalkInit ==
  /\ round = 0 /\ who = 1 /\ about = 1
  /\ contributions = <<>> /\ reviews = {}
  /\ sufficient = FALSE

StartDeliberation ==
  /\ Announce("deliberation", "DELIBERATION_STARTED", "contribute")
  /\ round' = 1
  /\ UNCHANGED <<superVars, who, about, contributions, reviews, sufficient>>

\* Whether the call at hand may come back without an answer.
Skippable == onTimeout = "continue"

Talking == mode = "deliberation" /\ phase \in {"contribute", "review"}

Target == contributions[about]

\* There is a contribution at hand, and it is not the reviewer's own.
ToReview == about <= Len(contributions) /\ Target # who

AskContribution ==
  /\ phase = "contribute" /\ who <= N
  /\ Begin(Main, <<"contribute", who, who>>)
  /\ UNCHANGED <<flowVars, talkVars>>

Contribute ==
  /\ phase = "contribute"
  /\ call[Main].at = "calling"
  /\ Reset(Main)
  /\ \/ Skippable /\ UNCHANGED contributions
     \/ \E form \in Form :
           Contributes(form) /\ contributions' = Append(contributions, who)
  /\ who' = who + 1
  /\ UNCHANGED <<flowVars, round, about, reviews, sufficient>>

ReviewsBegin ==
  /\ phase = "contribute" /\ who > N
  /\ Proceed("review")
  /\ who' = 1 /\ about' = 1
  /\ UNCHANGED <<superVars, round, contributions, reviews, sufficient>>

\* Variant: the last contribution is not reviewed.
NextReviewShort ==
  IF about < Len(contributions) - 1 THEN about' = about + 1 /\ UNCHANGED who
                                    ELSE about' = 1 /\ who' = who + 1

NextReview ==
  IF about < Len(contributions) THEN about' = about + 1 /\ UNCHANGED who
                                ELSE about' = 1 /\ who' = who + 1

Reviewing == phase = "review" /\ who <= N /\ call[Main].at = "free"

SkipReview ==
  /\ Reviewing /\ ~ToReview
  /\ NextReview
  /\ UNCHANGED <<flowVars, superVars, round, contributions, reviews, sufficient>>

AskReview ==
  /\ Reviewing /\ ToReview
  /\ Begin(Main, <<"review", who, Target>>)
  /\ UNCHANGED <<flowVars, talkVars>>

Review ==
  /\ phase = "review"
  /\ call[Main].at = "calling"
  /\ Reset(Main)
  /\ \/ Skippable /\ UNCHANGED reviews
     \/ \E form \in Form :
           Reviews(form) /\ reviews' = reviews \cup {<<who, Target>>}
  /\ NextReview
  /\ UNCHANGED <<flowVars, round, contributions, sufficient>>

\* Under "continue" a timeout is no exception.
TalkFails ==
  /\ Talking
  /\ \E e \in Error : (e = "timeout" => ~Skippable) /\ Raise(Main, e)
  /\ UNCHANGED <<flowVars, talkVars>>

TalkMisread ==
  /\ Talking
  /\ \E form \in Form :
        /\ ~(IF phase = "contribute" THEN Contributes(form) ELSE Reviews(form))
        /\ Raise(Main, Misreading)
  /\ UNCHANGED <<flowVars, talkVars>>

JudgeTalk ==
  /\ Talking
  /\ Judge(Main, {"restart"})
  /\ UNCHANGED <<flowVars, talkVars>>

RetryTalk ==
  /\ Talking
  /\ Retry(Main)
  /\ UNCHANGED <<flowVars, talkVars>>

TalkRefused ==
  /\ Talking
  /\ call[Main].at = "refused"
  /\ Conclude("DELIBERATION_FAILED", "failed")
  /\ UNCHANGED <<superVars, talkVars>>

ReviewsOver ==
  /\ phase = "review" /\ who > N
  /\ Proceed("consolidate")
  /\ UNCHANGED <<superVars, talkVars>>

\* Variant: the last round is only the last if it is sufficient.
ConsolidateAgain(verdict) ==
  IF verdict
  THEN Proceed("document") /\ UNCHANGED <<round, who, contributions, reviews>>
  ELSE /\ Proceed("contribute")
       /\ round' = round /\ who' = 1
       /\ contributions' = <<>> /\ reviews' = {}

\* A sufficient state or the last round leads to the document; else the next
\* round starts from nothing.
Consolidated(verdict) ==
  IF verdict \/ round = MaxRounds
  THEN Proceed("document") /\ UNCHANGED <<round, who, contributions, reviews>>
  ELSE /\ Proceed("contribute")
       /\ round' = round + 1 /\ who' = 1
       /\ contributions' = <<>> /\ reviews' = {}

\* A timeout under "continue" leaves the leader without a verdict.
Consolidate ==
  /\ phase = "consolidate"
  /\ \E verdict \in UNION {Judges(form) : form \in Form}
                    \cup (IF Skippable THEN {FALSE} ELSE {}) :
        sufficient' = verdict /\ Consolidated(verdict)
  /\ UNCHANGED <<superVars, about>>

ProduceDocument ==
  /\ phase = "document"
  /\ \/ \E form \in Form : Documents(form) /\ Conclude("DELIBERATION_FINISHED", "finished")
     \/ Skippable /\ Conclude("DELIBERATION_FAILED", "timed_out")
  /\ UNCHANGED <<superVars, talkVars>>

\* The leader's call raises, for whatever reason, an answer that cannot be read
\* among them.
LeaderFails ==
  /\ phase \in {"consolidate", "document"}
  /\ Conclude("DELIBERATION_FAILED", "failed")
  /\ UNCHANGED <<superVars, talkVars>>

TalkNext ==
  \/ StartDeliberation \/ AskContribution \/ Contribute \/ ReviewsBegin
  \/ SkipReview \/ AskReview \/ Review \/ TalkFails \/ TalkMisread \/ JudgeTalk \/ RetryTalk \/ TalkRefused
  \/ ReviewsOver \/ Consolidate \/ ProduceDocument \/ LeaderFails
=============================================================================
