------------------------------ MODULE OneAgent ------------------------------
(***************************************************************************)
(* What the supervisor promises of each work group: an agent is launched   *)
(* only into a worktree that has none, and between two fresh starts of a   *)
(* group at most MaxNudges agents are revived.                             *)
(***************************************************************************)
EXTENDS Naturals

CONSTANTS Groups, Runs, MaxNudges

VARIABLES live,  (* live[g]: the agents at work in the worktree of g *)
          used   (* used[g]: revivals since the last fresh start     *)

absVars == <<live, used>>

Init ==
  /\ live = [g \in Groups |-> {}]
  /\ used = [g \in Groups |-> 0]

Launch(g, r) ==
  /\ live[g] = {}
  /\ live' = [live EXCEPT ![g] = {r}]

\* A nudge: the budget must still allow it.
Revive(g, r) ==
  /\ Launch(g, r)
  /\ used[g] < MaxNudges
  /\ used' = [used EXCEPT ![g] = @ + 1]

\* A spawn starts a group afresh.
Refresh(g, r) ==
  /\ Launch(g, r)
  /\ used' = [used EXCEPT ![g] = 0]

\* Agents end, by themselves, retired by a pass or by a reboot.
End ==
  /\ \A g \in Groups : live'[g] \subseteq live[g]
  /\ live' \in [Groups -> SUBSET Runs]
  /\ UNCHANGED used

\* The whole team starts over with fresh budgets; agents may end with it.
Reset ==
  /\ \A g \in Groups : live'[g] \subseteq live[g]
  /\ live' \in [Groups -> SUBSET Runs]
  /\ used' = [g \in Groups |-> 0]

Next ==
  \/ \E g \in Groups, r \in Runs : Revive(g, r) \/ Refresh(g, r)
  \/ End
  \/ Reset

Spec == Init /\ [][Next]_absVars
=============================================================================
