------------------------------ MODULE Followup ------------------------------
(***************************************************************************)
(* Follow-up rounds on one open pull request (sthapathi/pr-followup*.ts,   *)
(* merge.ts, gh.ts): a reconcile pass compares the reviews, the required   *)
(* check and the head with the task's watermark and reopens the task; a    *)
(* worker reads the pull request again, runs bounded rounds of agents on   *)
(* it, pushes, replies, and moves the watermark, while people review and   *)
(* push.                                                                   *)
(***************************************************************************)
EXTENDS Naturals, FiniteSets, Sequences, FiniteSetsExt

CONSTANTS
  Reviews,       \* the CHANGES_REQUESTED reviews people submit
  MaxRounds,     \* repo.prFollowupMaxRounds
  SelfKnown,     \* whether repo.prFollowupSelfLogins is declared
  MaxTime, MaxPushes, MaxLost,   \* bounds: the clock, which rounds move; people's pushes;
                                 \* passes cut short
  None

VARIABLES
  now,
  sent,          \* the time of each review submitted; 0 is a review not yet submitted
  tip,           \* the commits on the head branch, by whether people pushed them
  check,         \* the required check on the head
  pr, task,
  at,            \* where the follow-up pass is
  seen,          \* the reviews the pass found unaddressed
  round, local,  \* its round, and how many commits its branch has of the pull request's
  mark,          \* the watermark on the attempt's evidence
  handed,        \* the reviews an agent was given in a pass that moved the watermark
  spent,         \* rounds since a pass last began with a review
  lost           \* passes cut short after their first round

vars == <<now, sent, tip, check, pr, task, at, seen, round, local, mark, handed, spent, lost>>
people == <<sent, tip, check, pr>>
pass == <<at, seen, round, local>>

TypeOK ==
  /\ now \in 1..MaxTime /\ sent \in [Reviews -> 0..MaxTime] /\ tip \in Seq(BOOLEAN)
  /\ check \in {"pending", "red", "green"} /\ pr \in {"OPEN", "MERGED", "CLOSED"}
  /\ task \in {"waiting", "open", "claimed", "blocked", "done"}
  /\ at \in {"none", "read", "loop", "push", "reply", "mark", "resubmit", "handoff"}
  /\ seen \subseteq Reviews /\ handed \subseteq Reviews /\ round \in 0..MaxRounds /\ local \in Nat
  /\ mark.round \in 0..MaxRounds

NoWatermark == [head |-> 0, round |-> 0, at |-> 0]

Init ==
  /\ now = 1 /\ sent = [r \in Reviews |-> 0] /\ tip = <<FALSE>> /\ check = "pending" /\ pr = "OPEN"
  /\ task = "waiting" /\ at = "none" /\ seen = {} /\ round = 0 /\ local = 0
  /\ mark = NoWatermark /\ handed = {} /\ spent = 0 /\ lost = 0

----------------------------------------------------------------------------
\* People review, push onto the branch, merge or close; checks report on the head.
Submit(r) == sent[r] = 0 /\ sent' = [sent EXCEPT ![r] = now] /\ UNCHANGED <<tip, check, pr>>
Pushes == Len(SelectSeq(tip, LAMBDA foreign : foreign))
ForeignPush ==
  /\ Pushes < MaxPushes
  /\ tip' = Append(tip, TRUE) /\ check' = "pending" /\ UNCHANGED <<sent, pr>>
CheckReports == check = "pending" /\ check' \in {"red", "green"} /\ UNCHANGED <<sent, tip, pr>>
Settled == pr' \in {"MERGED", "CLOSED"} /\ UNCHANGED <<sent, tip, check>>

People ==
  /\ pr = "OPEN" /\ (ForeignPush \/ CheckReports \/ Settled \/ \E r \in Reviews : Submit(r))
  /\ UNCHANGED <<now, pass, task, mark, handed, spent, lost>>

----------------------------------------------------------------------------
\* detectPrFeedback: reviews newer than the watermark, the required check red on the head,
\* and a head that people moved.
\* isNewer compares texts: GitHub's times have no fraction, the watermark's does, so one of
\* the same second counts as newer.
IsNewer(r) == sent[r] >= mark.at
ChangesRequested == {r \in Reviews : sent[r] # 0 /\ IsNewer(r)}
HeadIsForeign == tip[Len(tip)]
ForeignTip == SelfKnown /\ HeadIsForeign /\ Len(tip) # mark.head
FailingCheck == check = "red"          \* a check still running, or advisory, is not failing
Feedback == ChangesRequested # {} \/ FailingCheck \/ ForeignTip
\* A new review has the whole budget, anything else what is left of it.
StartRound == IF ChangesRequested # {} THEN 0 ELSE mark.round

\* reconcileOne: merged, closed, or reopened if it has unaddressed feedback.
Reconcile ==
  /\ task = "waiting"
  /\ task' = CASE pr = "MERGED" -> "done" [] pr = "CLOSED" -> "blocked"
               [] pr = "OPEN" /\ Feedback -> "open" [] OTHER -> "waiting"
  /\ UNCHANGED <<now, people, pass, mark, handed, spent, lost>>

\* A worker claims it and brings its branch to the pull request's head.
Claim ==
  /\ task = "open" /\ task' = "claimed" /\ at' = "read" /\ local' = Len(tip)
  /\ UNCHANGED <<now, people, seen, round, mark, handed, spent, lost>>

\* runPrFollowupTask reads the pull request again; the budget may be spent.
StatusOpen == pr = "OPEN"              \* prStatus: it answers, and the pull request is open
ReadStatus ==
  /\ at = "read"
  /\ IF ~StatusOpen \/ ~Feedback
     THEN at' = "resubmit" /\ UNCHANGED <<seen, round, spent>>
     ELSE /\ seen' = ChangesRequested /\ round' = StartRound
          /\ spent' = IF ChangesRequested # {} THEN 0 ELSE spent
          /\ at' = IF StartRound >= MaxRounds THEN "handoff" ELSE "loop"
  /\ UNCHANGED <<now, people, task, local, mark, handed, lost>>

\* runPrFollowupLoop: one round, which takes a while.  Approved, escalated, or rejected and tried again until
\* the budget is spent.
Round ==
  /\ at = "loop" /\ now < MaxTime /\ now' = now + 1
  /\ round' = round + 1 /\ spent' = spent + 1
  /\ \/ at' \in {"push", "handoff"}
     \/ at' = IF round' < MaxRounds THEN "loop" ELSE "handoff"
  /\ UNCHANGED <<people, task, seen, local, mark, handed, lost>>

----------------------------------------------------------------------------
\* finalize: a push, refused if the head has moved, comes before the replies and they
\* before the watermark.  A round of replies alone has nothing to push.
Push ==
  /\ at = "push"
  /\ \/ /\ local = Len(tip) /\ at' = "reply"
        /\ \/ tip' = Append(tip, FALSE) /\ check' = "pending" /\ local' = local + 1
           \/ UNCHANGED <<tip, check, local>>
        /\ UNCHANGED lost
     \/ lost < MaxLost /\ lost' = lost + 1 /\ at' = "resubmit" /\ UNCHANGED <<tip, check, local>>
  /\ UNCHANGED <<now, sent, pr, task, seen, round, mark, handed, spent>>

\* reviewFor: the agent was given the newest of the reviews found.
GivenReview == {r \in seen : \A q \in seen : sent[q] <= sent[r]}
Reply ==
  /\ at = "reply" /\ at' = "mark"
  /\ UNCHANGED <<now, people, task, seen, round, local, mark, handed, spent, lost>>

\* writeWatermark: the head it pushed, or none if git does not say; its rounds; the time.
Unstamped(head) == [head |-> head, round |-> round, at |-> mark.at]
Unspent(head) == [head |-> head, round |-> 0, at |-> now]
Stamped(head) == [head |-> head, round |-> round, at |-> now]
WriteWatermark ==
  /\ at = "mark" /\ at' = "resubmit"
  /\ \E head \in {local, 0} : mark' = Stamped(head)
  /\ \E r \in GivenReview \cup (IF seen = {} THEN {None} ELSE {}) : handed' = handed \cup ({r} \ {None})
  /\ UNCHANGED <<now, people, task, seen, round, local, spent, lost>>

Resubmit ==
  /\ at = "resubmit" /\ task' = "waiting" /\ at' = "none" /\ seen' = {} /\ round' = 0 /\ local' = 0
  /\ UNCHANGED <<now, people, mark, handed, spent, lost>>
Handoff ==
  /\ at = "handoff" /\ task' = "blocked" /\ at' = "none" /\ seen' = {} /\ round' = 0 /\ local' = 0
  /\ UNCHANGED <<now, people, mark, handed, spent, lost>>

\* The worker dies or an agent fails: the task is to be claimed again, still boosted, or
\* is handed over.
CutShort ==
  /\ at \in {"read", "loop", "push", "reply", "mark"} /\ lost < MaxLost /\ lost' = lost + 1
  /\ task' \in {"open", "blocked"} /\ at' = "none" /\ seen' = {} /\ round' = 0 /\ local' = 0
  /\ UNCHANGED <<now, people, mark, handed, spent>>

Next ==
  \/ People \/ Reconcile \/ Claim \/ ReadStatus \/ Round
  \/ Push \/ Reply \/ WriteWatermark \/ Resubmit \/ Handoff \/ CutShort

Spec == Init /\ [][Next]_vars

----------------------------------------------------------------------------
\* README.md, "measured against a per-task watermark so the same feedback never
\* re-triggers": once a pass that answered a review has moved the watermark, no later pass
\* is started for that review, whatever people do meanwhile.
ReviewOnce == \A r \in handed : task = "waiting" => r \notin ChangesRequested

\* prFollowupMaxRounds: between two new reviews the agents run at most the budget's rounds,
\* over any number of passes for red checks and people's pushes, if no pass was cut short
\* (a failed push records none of its rounds).
BudgetHolds == lost = 0 => spent <= MaxRounds

\* README.md, "An open PR is not left to rot when it draws feedback": a review that no
\* agent was given is still found by the next reconcile pass.
NoReviewLost ==
  task = "waiting" /\ pr = "OPEN" =>
    \A r \in Reviews \ handed : sent[r] # 0 => r \in ChangesRequested

=============================================================================
