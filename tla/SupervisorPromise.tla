------------------------- MODULE SupervisorPromise -------------------------
(***************************************************************************)
(* Supervisor implements OneAgent, as long as one pass runs at a time, is  *)
(* not killed half way and nobody tells the team to stop.                  *)
(***************************************************************************)
EXTENDS Supervisor

\* A spawn records the fresh budget of a group after the launch; the launch is
\* where the group starts afresh.
Refreshed(g) ==
  \E i \in Invokers : pc[i] = "record" /\ op[i] = "spawn" /\ cur[i] = g

\* A nudge writes its count before the launch that spends it.
Counted(g) ==
  \E i \in Invokers : pc[i] = "launch" /\ op[i] # "spawn" /\ cur[i] = g

Live == [g \in Groups |-> LiveRuns(g)]
Used == [g \in Groups |-> IF Refreshed(g) THEN 0
                          ELSE IF Counted(g) THEN nudges[g] - 1 ELSE nudges[g]]

Promise == INSTANCE OneAgent WITH live <- Live, used <- Used

\* Every step of the supervisor is a step its promise allows, or none at all:
\* agents are launched into empty worktrees only, and nudges within budget.
OneAgentPromise == Promise!Spec

-----------------------------------------------------------------------------
(* The invariant behind the promise.                                       *)

\* Where a pass stands inside one group, it has that group and that process, and
\* only a nudge writes a count before it launches.
PassShape ==
  \A i \in Invokers :
    /\ pc[i] \in {"nudge", "retire", "start", "count", "launch", "record"}
         => cur[i] \in Groups
    /\ pc[i] \in {"retire", "record"} => hold[i] \in Runs
    /\ pc[i] = "count" => op[i] # "spawn"

\* Passes never overlap.
OneInvoker == \A i, j \in Invokers : i = j

\* The pass that retires has the recorded process in hand, a group about to
\* get an agent has none, and a launched agent is alone until it is recorded.
LaunchAlone ==
  \A i \in Invokers :
    /\ pc[i] = "retire" => hold[i] = pid[cur[i]]
    /\ pc[i] \in {"start", "count", "launch"} => LiveRuns(cur[i]) = {}
    /\ pc[i] = "record" => LiveRuns(cur[i]) \subseteq {hold[i]}

\* The count a nudge has read is still the one on disk when it writes the next,
\* that one is still there when the agent is launched, and no count is cut.
BudgetFresh ==
  /\ \A i \in Invokers :
       op[i] # "spawn" =>
         /\ pc[i] \in {"retire", "start", "count"} => budget[i] = nudges[cur[i]]
         /\ pc[i] = "launch" => /\ budget[i] < MaxNudges
                               /\ nudges[cur[i]] = budget[i] + 1
  /\ \A g \in Groups : nudges[g] # Garbled

SerialInv == TypeOK /\ PassShape /\ NudgesCapped /\ AgentsRecorded /\ LaunchAlone
               /\ BudgetFresh
=============================================================================
