----------------------------- MODULE Lifecycle -----------------------------
(***************************************************************************)
(* A task lifecycle as the engine sees it (src/src/taskgraph/lifecycle.ts): *)
(* states with flags, the declared moves, the create rule, the permissions  *)
(* of the calls that are not moves, and the hooks.  The engine names no     *)
(* state and only one role; everything else is a parameter.  The rules that *)
(* defineLifecycle checks at registration are the module's assumptions, so  *)
(* what is proved about the engine holds for every lifecycle that may       *)
(* register, and not only for Shreni's own.                                 *)
(***************************************************************************)
EXTENDS Naturals

CONSTANTS
  State,            \* the declared states
  Terminal,         \* the states flagged terminal
  Satisfying,       \* the states flagged satisfiesDeps
  Claimable,        \* the state flagged claimable
  Leased,           \* the state flagged leased
  Role,             \* the roles an actor may have
  System,           \* SYSTEM_ROLE, the role the expiry hooks act as
  CreateState,      \* create.state
  CreateByRole,     \* create.byRole, total: roles not listed map to CreateState
  Move,             \* the names of the declared moves
  MoveDef,          \* a move's from, to, by, guard, boost and clearsBoost
  Permission,       \* call -> role -> the states the call is allowed in
  OnApprove, OnClaim, OnDiscard, OnLeaseExpiry,   \* hooks: names of moves
  OnRepeatedExpiry, \* the move of hooks.onRepeatedExpiry, or OnLeaseExpiry
  RepeatAfter,      \* hooks.onRepeatedExpiry.after
  None              \* SQL null: no parent, no plan, no lease, no guard, no state

\* The calls whose permission is looked up (permissions.ts); a role listed with
\* `true` is allowed in every state and also where no task is concerned (None).
Call == {"tasks.create", "tasks.update", "tasks.delete", "deps.add", "deps.remove",
         "plans.create"}

\* checkPermission
MayCall(call, role, s) == s \in Permission[call][role]

MoveRecord == [from : SUBSET State, to : State, by : SUBSET Role,
               guarded : BOOLEAN, boost : BOOLEAN, clearsBoost : BOOLEAN]

---------------------------------------------------------------------------
\* The rules of lifecycleViolations.

\* one-claimable-state, one-leased-state, flags-consistent
FlagsConsistent ==
  /\ Terminal \subseteq State /\ Satisfying \subseteq State
  /\ Claimable \in State \ Terminal
  /\ Leased \in State \ Terminal
  /\ Claimable # Leased
  /\ None \notin State
ASSUME FlagRules == FlagsConsistent

\* deps-satisfiable
DepsSatisfiable == Satisfying # {}
ASSUME SatisfiableRule == DepsSatisfiable

\* known-states, unique-move-names (moves are keyed by name)
NamesKnown ==
  /\ MoveDef \in [Move -> MoveRecord]
  /\ Permission \in [Call -> [Role -> SUBSET (State \cup {None})]]
  /\ System \in Role
  /\ CreateState \in State
  /\ CreateByRole \in [Role -> {CreateState, Claimable}]
ASSUME KnownNames == NamesKnown

\* terminal-final: no move leaves a terminal state
NothingLeavesTerminal == \A m \in Move : MoveDef[m].from \cap Terminal = {}
ASSUME TerminalFinal == NothingLeavesTerminal

\* leased-by-claim: only the onClaim move lands in the leased state
OnlyClaimLeases == \A m \in Move \ {OnClaim} : MoveDef[m].to # Leased
ASSUME LeasedByClaim == OnlyClaimLeases

\* approve-hook, create-rules
ApproveHookFits ==
  /\ OnApprove \in Move
  /\ MoveDef[OnApprove].to = Claimable
  /\ CreateState \in MoveDef[OnApprove].from
  /\ CreateState # Leased
ASSUME ApproveHook == ApproveHookFits

\* claim-hook
ClaimHookFits ==
  /\ OnClaim \in Move
  /\ Claimable \in MoveDef[OnClaim].from
  /\ MoveDef[OnClaim].to = Leased
  /\ ~MoveDef[OnClaim].guarded
ASSUME ClaimHook == ClaimHookFits

\* discard-hook
DiscardHookFits ==
  /\ OnDiscard \in Move
  /\ MoveDef[OnDiscard].to \in Terminal
  /\ CreateState \in MoveDef[OnDiscard].from
ASSUME DiscardHook == DiscardHookFits

\* expiry-hooks
ExpiryHooksFit ==
  /\ RepeatAfter \in Nat \ {0}
  /\ \A m \in {OnLeaseExpiry, OnRepeatedExpiry} :
       /\ m \in Move
       /\ Leased \in MoveDef[m].from
       /\ System \in MoveDef[m].by
       /\ ~MoveDef[m].guarded
       /\ MoveDef[m].to \notin Terminal
ASSUME ExpiryHooks == ExpiryHooksFit

\* What the rules leave open: an expiry hook may be the claim move itself.  Where a
\* result needs that excluded, it says so.
ExpiryIsNotClaim == OnClaim \notin {OnLeaseExpiry, OnRepeatedExpiry}

\* They also allow a move back into create.state, and create.state to be the claimable
\* one, so that approving changes nothing.
NothingReturnsToCreate == \A m \in Move : MoveDef[m].to # CreateState

---------------------------------------------------------------------------
\* A move that ends in a terminal state which satisfies no dependency strands
\* the tasks waiting on its task (moves.ts, `strands`).
ToTerminal(m) == MoveDef[m].to \in Terminal
\* Faulty variant: the flag is read the wrong way round.
StrandsSatisfied(m) == ToTerminal(m) /\ MoveDef[m].to \in Satisfying
Strands(m) == ToTerminal(m) /\ MoveDef[m].to \notin Satisfying

\* The boosted column after move m (boostAfter).
BoostAfter(m, boost) == MoveDef[m].boost \/ (~MoveDef[m].clearsBoost /\ boost)

=============================================================================
