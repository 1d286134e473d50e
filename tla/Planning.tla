------------------------------ MODULE Planning ------------------------------
(***************************************************************************)
(* Planning sessions (cli/suthradhara.ts, suthradhara/lifecycle.ts,        *)
(* worktree.ts, policy/suthradhara/filing.ts): a launcher makes a plan, a  *)
(* worktree and an interactive session that files tasks into the plan;     *)
(* when the session ends the developer approves, revises, discards or      *)
(* leaves the plan, and goes on or ends.  Launchers, `shreni plan` of a    *)
(* session, and the developer's other shells run side by side.             *)
(***************************************************************************)
EXTENDS Naturals, FiniteSets

CONSTANTS
  Launcher,      \* invocations of shreni suthradhara start and resume
  Plan, Task,
  None

VARIABLES
  pidfile,       \* suthradhara.pid: the launcher whose session it names, or None
  alive,         \* launchers whose session runs
  trees,         \* launchers whose session worktree exists
  plan,          \* each plan: unmade, open, approved, discarded
  in,            \* the plan each task is in, or None
  ln             \* each launcher: [pc, resume, plan, fresh, keep, outcome, seen, late]

vars == <<pidfile, alive, trees, plan, in, ln>>

\* fresh: the plan was made for this launch; keep: the worktree is reused; seen: the tasks
\* the developer was shown; late: the ones filed after approve compared the two.
Fresh(resume) ==
  [pc |-> "idle", resume |-> resume, plan |-> None, fresh |-> FALSE, keep |-> FALSE,
   outcome |-> "none", seen |-> {}, late |-> {}]

TypeOK ==
  /\ pidfile \in Launcher \cup {None} /\ alive \subseteq Launcher /\ trees \subseteq Launcher
  /\ plan \in [Plan -> {"unmade", "open", "approved", "discarded"}]
  /\ in \in [Task -> Plan \cup {None}]
  /\ \A l \in Launcher :
       /\ ln[l].pc \in {"idle", "plan", "guard", "tree", "spawn", "live", "decide", "asked", "check",
                        "approve", "menu", "done"}
       /\ ln[l].outcome \in {"none", "approved", "discarded", "later", "empty"}

Init ==
  /\ pidfile = None /\ alive = {} /\ trees = {}
  /\ plan = [q \in Plan |-> "unmade"] /\ in = [x \in Task |-> None]
  /\ \E resumes \in SUBSET Launcher : ln = [l \in Launcher |-> Fresh(l \in resumes)]

Running == pidfile # None /\ pidfile \in alive
Tasks(q) == {x \in Task : in[x] = q}
Open(q) == q # None /\ plan[q] = "open"
Goto(l, pc) == ln' = [ln EXCEPT ![l].pc = pc]
Ends(l) == ln' = [ln EXCEPT ![l] = [Fresh(FALSE) EXCEPT !.pc = "done", !.plan = ln[l].plan]]
\* dropIfEmpty.
Dropped(q) == [plan EXCEPT ![q] = IF @ = "open" /\ Tasks(q) = {} THEN "discarded" ELSE @]

----------------------------------------------------------------------------
\* gateFirstLaunch and the base branch: refused, or on.  A start goes no further while
\* a session runs, a resume does.
Gate(l) ==
  /\ ln[l].pc = "idle"
  /\ \/ (~Running \/ ~ln[l].resume) /\ Ends(l)
     \/ (~Running \/ ln[l].resume) /\ Goto(l, "plan")
  /\ UNCHANGED <<pidfile, alive, trees, plan, in>>

\* newPlan, or for a resume the plan on record while it is still open; the database may
\* be away.
MakePlan(l) ==
  /\ ln[l].pc = "plan"
  /\ \/ \E q \in Plan :
          /\ plan[q] = "unmade" /\ plan' = [plan EXCEPT ![q] = "open"]
          /\ ln' = [ln EXCEPT ![l].pc = "guard", ![l].plan = q, ![l].fresh = TRUE, ![l].keep = FALSE]
     \/ \E q \in Plan :
          /\ ln[l].resume /\ Open(q) /\ UNCHANGED plan
          /\ ln' = [ln EXCEPT ![l].pc = "guard", ![l].plan = q, ![l].fresh = FALSE]
     \/ Ends(l) /\ UNCHANGED plan
  /\ UNCHANGED <<pidfile, alive, trees, in>>

\* A launch that does not happen: the plan made for it is dropped, by start and by the
\* loop; runResume leaves it.
GivesUp(l) ==
  /\ plan' = IF ln[l].fresh /\ ~ln[l].resume THEN Dropped(ln[l].plan) ELSE plan
  /\ Ends(l)

\* guardRunning; a relaunch into the same worktree spawns at once.
Spawned(l) ==
  /\ alive' = alive \cup {l} /\ pidfile' = l
  /\ ln' = [ln EXCEPT ![l].pc = "live", ![l].resume = FALSE, ![l].outcome = "none"]
Guard(l) ==
  /\ ln[l].pc = "guard"
  /\ \/ Running /\ GivesUp(l) /\ UNCHANGED <<pidfile, alive>>
     \/ ~Running /\ ln[l].keep /\ l \in trees /\ Spawned(l) /\ UNCHANGED plan
     \/ ~Running /\ ln[l].keep /\ l \notin trees /\ GivesUp(l) /\ UNCHANGED <<pidfile, alive>>
     \/ ~Running /\ ~ln[l].keep /\ Goto(l, "tree") /\ UNCHANGED <<plan, pidfile, alive>>
  /\ UNCHANGED <<trees, in>>

\* reapSessionWorktrees, for a start, and createSessionWorktree; git may fail.
Tree(l) ==
  /\ ln[l].pc = "tree"
  /\ \/ /\ trees' = (IF ln[l].resume THEN trees ELSE {}) \cup {l}
        /\ Goto(l, "spawn") /\ UNCHANGED plan
     \/ GivesUp(l) /\ trees' = (IF ln[l].resume THEN trees ELSE {})
  /\ UNCHANGED <<pidfile, alive, in>>
Spawn(l) ==
  /\ ln[l].pc = "spawn" /\ Spawned(l)
  /\ UNCHANGED <<trees, plan, in>>

\* The session ends: the pid file is cleared if it still names it, and its usage is
\* metered.
ChildExits(l) ==
  /\ l \in alive /\ alive' = alive \ {l}
  /\ pidfile' = IF pidfile = l THEN None ELSE pidfile
  /\ Goto(l, "decide")
  /\ UNCHANGED <<trees, plan, in>>

\* stopSession; the session ends of the signal, later.
Stop ==
  /\ \E l \in Launcher : ln[l].pc \notin {"idle", "done"}
  /\ pidfile' = None /\ trees' = {}
  /\ UNCHANGED <<alive, plan, in, ln>>

----------------------------------------------------------------------------
\* shreni plan: the session, or a shell it left, files into its plan and removes from it.
\* A task whose checks do not land is taken back.
Filing(q) == Open(q) /\ \E l \in Launcher : ln[l].plan = q /\ ln[l].pc \notin {"idle", "plan"}
File(x, q) ==
  /\ in[x] = None /\ Filing(q) /\ in' = [in EXCEPT ![x] = q]
  /\ ln' = [l \in Launcher |-> IF ln[l].pc = "approve" /\ ln[l].plan = q
                               THEN [ln[l] EXCEPT !.late = @ \cup {x}] ELSE ln[l]]
  /\ UNCHANGED <<pidfile, alive, trees, plan>>
Remove(x) ==
  /\ in[x] # None /\ Filing(in[x]) /\ in' = [in EXCEPT ![x] = None]
  /\ UNCHANGED <<pidfile, alive, trees, plan, ln>>
\* shreni task approve and discard, from another shell.
DecideElsewhere(q) ==
  /\ Open(q) /\ Tasks(q) # {}
  /\ \E d \in {"approved", "discarded"} : plan' = [plan EXCEPT ![q] = d]
  /\ UNCHANGED <<pidfile, alive, trees, in, ln>>

----------------------------------------------------------------------------
Again(l) == [ln EXCEPT ![l].pc = "decide", ![l].seen = {}, ![l].late = {}]
ToMenu(l, outcome) == ln' = [Again(l) EXCEPT ![l].pc = "menu", ![l].outcome = outcome]

\* decidePlan: the summary, which may not be readable.
Summary(l) ==
  LET q == ln[l].plan IN
  /\ ln[l].pc = "decide"
  /\ \/ ToMenu(l, "later")
     \/ ~Open(q) /\ ToMenu(l, plan[q])
     \/ Open(q) /\ Tasks(q) = {} /\ ToMenu(l, "empty")
     \/ /\ Open(q) /\ Tasks(q) # {}
        /\ ln' = [ln EXCEPT ![l].pc = "asked", ![l].seen = Tasks(q), ![l].late = {}]
  /\ UNCHANGED <<pidfile, alive, trees, plan, in>>

\* The developer's answer; a revision needs the budget.  A discard may be refused.
Answer(l) ==
  LET q == ln[l].plan IN
  /\ ln[l].pc = "asked"
  /\ \/ ln' = Again(l) /\ UNCHANGED <<trees, plan>>
     \/ ToMenu(l, "later") /\ UNCHANGED <<trees, plan>>
     \/ Goto(l, "check") /\ UNCHANGED <<trees, plan>>
     \/ /\ Open(q) /\ plan' = [plan EXCEPT ![q] = "discarded"]
        /\ ToMenu(l, "discarded") /\ UNCHANGED trees
     \/ /\ ln' = [Again(l) EXCEPT ![l].pc = "guard", ![l].keep = TRUE, ![l].fresh = FALSE]
        /\ UNCHANGED <<trees, plan>>
     \/ Ends(l) /\ trees' = {} /\ UNCHANGED plan
  /\ UNCHANGED <<pidfile, alive, in>>

\* approve: its tasks must be the ones shown; then the engine approves the plan as it is.
AnyTasks(l) == TRUE
AsShown(l) == Tasks(ln[l].plan) = ln[l].seen
Check(l) ==
  /\ ln[l].pc = "check"
  /\ \/ AsShown(l) /\ Goto(l, "approve")
     \/ ~AsShown(l) /\ ln' = Again(l)
  /\ UNCHANGED <<pidfile, alive, trees, plan, in>>
Approve(l) ==
  LET q == ln[l].plan IN
  /\ ln[l].pc = "approve"
  /\ \/ Open(q) /\ plan' = [plan EXCEPT ![q] = "approved"] /\ ToMenu(l, "approved")
     \/ ln' = Again(l) /\ UNCHANGED plan
  /\ UNCHANGED <<pidfile, alive, trees, in>>

\* The menu: the end, which drops an empty plan; a budget or a base branch in the way; or
\* another session, in the plan if that is empty, or left for later and extended, and in
\* the worktree if the topic is extended.
Menu(l) ==
  LET q == ln[l].plan
      Reuse(extend) == ln[l].outcome = "empty" \/ (ln[l].outcome = "later" /\ extend) IN
  /\ ln[l].pc = "menu"
  /\ \/ /\ plan' = IF ln[l].outcome = "empty" THEN Dropped(q) ELSE plan
        /\ trees' = {} /\ Ends(l)
     \/ trees' = {} /\ Ends(l) /\ UNCHANGED plan
     \/ \E extend \in BOOLEAN :
          /\ trees' = IF extend THEN trees ELSE {}
          /\ \/ /\ Reuse(extend) /\ UNCHANGED plan
                /\ ln' = [ln EXCEPT ![l].pc = "guard", ![l].keep = extend, ![l].fresh = FALSE]
             \/ /\ ~Reuse(extend)
                /\ \E new \in Plan :
                     /\ plan[new] = "unmade" /\ plan' = [plan EXCEPT ![new] = "open"]
                     /\ ln' = [ln EXCEPT ![l].pc = "guard", ![l].keep = extend, ![l].plan = new,
                                         ![l].fresh = TRUE]
  /\ UNCHANGED <<pidfile, alive, in>>

Next ==
  \/ \E l \in Launcher :
       \/ Gate(l) \/ MakePlan(l) \/ Guard(l) \/ Tree(l) \/ Spawn(l) \/ ChildExits(l)
       \/ Summary(l) \/ Answer(l) \/ Check(l) \/ Approve(l) \/ Menu(l)
  \/ \E x \in Task : Remove(x) \/ \E q \in Plan : File(x, q)
  \/ \E q \in Plan : DecideElsewhere(q)
  \/ Stop

Spec == Init /\ [][Next]_vars

----------------------------------------------------------------------------
\* A plan the menu approves holds what the developer was shown, though the session, a
\* shell it left or another launcher's session files into it meanwhile: only a task filed
\* in the instant between the comparison and the engine's approval gets in unseen.
ApprovedWasSeen ==
  [][\A l \in Launcher : (ln[l].pc = "approve" /\ ln'[l].outcome = "approved") =>
       Tasks(ln[l].plan) \subseteq ln[l].seen \cup ln[l].late]_vars

=============================================================================
