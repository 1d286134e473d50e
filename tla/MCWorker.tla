------------------------------ MODULE MCWorker ------------------------------
(* Instances of Worker for TLC, by the circumstances of each. *)
EXTENDS Worker

CONSTANTS t1, t2, p1, p2

AllPush == [t \in Task |-> "push"]
AllPr == [t \in Task |-> "pr"]
\* Feature work by pull request, and a repair task, which is pushed.
RepairPushed == [t \in Task |-> IF t = t2 THEN "push" ELSE "pr"]

Where(manual, policy, happens, n) ==
  [manual |-> manual, policy |-> policy, happens |-> happens, attempts |-> n,
   started |-> {p1}, within |-> Task]

\* A lease or the worker lock goes while its holder lands, and a second worker takes over.
Takeover == [Where({}, AllPush, {"lapse", "lock"}, 3) EXCEPT !.started = {p1, p2}, !.within = {t1}]
\* The process, the database and git fail; and people, the watchdog and self-heal intervene.
Faults == {Where({t1}, AllPush, {"crash", "outage", "lapse", "resume", "unblock"}, 2),
           Where({t1}, AllPush, {"crash", "git", "lapse", "resume", "unblock"}, 2),
           Where({}, RepairPushed, {"api", "hang", "pause", "resume", "decline", "feedback", "git"}, 3),
           Takeover}
\* Pull requests merged, declined and reviewed, with a worker that crashes or loses the database.
Reviews == {Where({t1}, AllPr, {"crash", "lapse", "resume", "feedback"}, 2),
            Where({t1}, AllPr, {"outage", "lapse", "resume", "git", "feedback", "decline"}, 2)}
\* Nothing fails but a lease.
Lapsing == {Where({}, AllPr, {"lapse"}, 2)}
\* Runs that hang and an API that fails.
Hanging == {Where({}, AllPush, {"hang", "api"}, 2)}

=============================================================================
