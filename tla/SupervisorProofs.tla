-------------------------- MODULE SupervisorProofs --------------------------
(***************************************************************************)
(* Proofs about Supervisor for every set of groups, pids and invokers and  *)
(* every MAX_NUDGES.                                                       *)
(***************************************************************************)
EXTENDS SupervisorHistory, TLAPS

TypeInv == TypeOK /\ PassShape

-----------------------------------------------------------------------------
(* Facts about the state verdict and about the end of a pass.              *)

\* state() returns one of its six verdicts.
LEMMA StatusType ==
  ASSUME TypeOK, NEW g \in Groups
  PROVE  Status(g) \in Statuses
<1>1. log[g] \in LogView
  BY DEF TypeOK
<1>2. IfAlive[log[g]] \in Statuses /\ IfGone[log[g]] \in Statuses
  BY <1>1 DEF LogView, IfAlive, IfGone, Statuses
<1>3. QED
  BY <1>2 DEF Status, Statuses

\* However a pass ends, it leaves well-typed state behind.
LEMMA AbortType ==
  ASSUME TypeInv, NEW i \in Invokers, Abort(i)
  PROVE  /\ runs'    \in [Groups -> [Runs -> Phases]]
         /\ caged'   \subseteq Groups \X Runs
         /\ op'      \in [Invokers -> Commands]
         /\ pc'      \in [Invokers -> Places]
         /\ seen'    \in [Invokers -> [Groups -> Statuses]]
         /\ todo'    \in [Invokers -> SUBSET Groups]
         /\ cur'     \in [Invokers -> Groups \cup {None}]
         /\ budget'  \in [Invokers -> Nat]
         /\ hold'    \in [Invokers -> Runs \cup {None}]
         /\ retried' \in [Invokers -> SUBSET Groups]
         /\ PassShape'
<1>1. UnitStops(i) /\ Drop(i)
  BY DEF Abort
<1>2. runs' \in [Groups -> [Runs -> Phases]] /\ caged' \subseteq Groups \X Runs
  <2>1. CASE i \in Units
    <3>1. \A g \in Groups, r \in Runs :
            (IF <<g, r>> \in caged THEN "free" ELSE runs[g][r]) \in Phases
      BY DEF TypeInv, TypeOK, Phases
    <3>2. QED
      BY <1>1, <2>1, <3>1 DEF UnitStops
  <2>2. CASE i \notin Units
    BY <1>1, <2>2 DEF UnitStops, TypeInv, TypeOK
  <2>3. QED
    BY <2>1, <2>2
<1>3. /\ op' \in [Invokers -> Commands]
      /\ pc' \in [Invokers -> Places]
      /\ todo' \in [Invokers -> SUBSET Groups]
      /\ cur' \in [Invokers -> Groups \cup {None}]
      /\ budget' \in [Invokers -> Nat]
      /\ hold' \in [Invokers -> Runs \cup {None}]
      /\ retried' \in [Invokers -> SUBSET Groups]
  BY <1>1 DEF Drop, TypeInv, TypeOK, Commands, Places
<1>4. seen' \in [Invokers -> [Groups -> Statuses]]
  BY <1>1 DEF Drop, TypeInv, TypeOK, Statuses
<1>5. PassShape'
  BY <1>1 DEF Drop, TypeInv, TypeOK, PassShape
<1>6. QED
  BY <1>2, <1>3, <1>4, <1>5

-----------------------------------------------------------------------------
(* Type correctness.                                                       *)

LEMMA InitType == Init => TypeInv
BY DEF Init, TypeInv, TypeOK, PassShape, LogView, Phases, Statuses, Commands, Places

LEMMA AgentsType ==
  ASSUME TypeInv, Agents
  PROVE  TypeInv'
<1> USE DEF TypeInv, TypeOK, fileVars, passVars
<1>1. PassShape'
  BY DEF PassShape, Agents, GoIdle, AgentStart, AgentEvent, AgentError,
         AgentFinish, AgentExit
<1>2. ASSUME NEW g \in Groups, GoIdle(g)
      PROVE  TypeOK'
  BY <1>2 DEF GoIdle, LogView
<1>3. ASSUME NEW g \in Groups, NEW r \in Runs, AgentStart(g, r)
      PROVE  TypeOK'
  BY <1>3 DEF AgentStart, LogView, Phases
<1>4. ASSUME NEW g \in Groups, NEW r \in Runs, AgentEvent(g, r)
      PROVE  TypeOK'
  <2>1. AfterEvent[log[g]] \in LogView
    BY DEF AfterEvent, LogView
  <2>2. QED
    BY <1>4, <2>1 DEF AgentEvent
<1>5. ASSUME NEW g \in Groups, NEW r \in Runs, AgentError(g, r)
      PROVE  TypeOK'
  <2>1. AfterError[log[g]] \in LogView
    BY DEF AfterError, LogView
  <2>2. QED
    BY <1>5, <2>1 DEF AgentError
<1>6. ASSUME NEW g \in Groups, NEW r \in Runs, NEW v \in {"ok", "bad"},
             AgentFinish(g, r, v)
      PROVE  TypeOK'
  BY <1>6 DEF AgentFinish, LogView, Phases
<1>7. ASSUME NEW g \in Groups, NEW r \in Runs, AgentExit(g, r)
      PROVE  TypeOK'
  BY <1>7 DEF AgentExit, Phases
<1>8. TypeOK'
  BY <1>2, <1>3, <1>4, <1>5, <1>6, <1>7 DEF Agents
<1>9. QED
  BY <1>1, <1>8

\* Every pass begins alike: a command, a place to begin at, groups to treat.
LEMMA BeginForm ==
  ASSUME NEW i \in Invokers, BeginPass(i) \/ BeginStop(i) \/ BeginButton(i)
  PROVE  \E command \in Commands, place \in {"read", "each"}, G \in SUBSET Groups :
           Begin(i, command, place, G)
BY DEF BeginPass, BeginGuard, BeginWatch, BeginSpawn, BeginStop, BeginButton,
       BeginNudge, Commands

LEMMA BeginType ==
  ASSUME TypeInv, NEW i \in Invokers, BeginPass(i) \/ BeginStop(i) \/ BeginButton(i)
  PROVE  TypeInv'
<1>1. PICK command \in Commands, place \in {"read", "each"}, G \in SUBSET Groups :
        Begin(i, command, place, G)
  BY BeginForm
<1>2. TypeOK'
  BY <1>1 DEF Begin, TypeInv, TypeOK, Places, agentVars, fileVars
<1>3. PassShape'
  BY <1>1 DEF Begin, TypeInv, TypeOK, PassShape, agentVars, fileVars
<1>4. QED
  BY <1>2, <1>3 DEF TypeInv

LEMMA PassType ==
  ASSUME TypeInv, NEW i \in Invokers, PassStep(i)
  PROVE  TypeInv'
<1> USE DEF TypeInv, agentVars, fileVars
<1>1. ASSUME NEW g \in Groups, ReadState(i, g)
      PROVE  TypeInv'
  <2>1. CASE Abort(i) /\ UNCHANGED <<log, fileVars>>
    BY <2>1, AbortType DEF TypeOK
  <2>2. CASE pid[g] # Garbled
    <3>1. Status(g) \in Statuses
      BY StatusType
    <3> /\ seen' = [seen EXCEPT ![i][g] = Status(g)]
        /\ todo' = [todo EXCEPT ![i] = @ \ {g}]
        /\ pc'   = [pc EXCEPT ![i] = IF todo[i] = {g} THEN "decide" ELSE "read"]
        /\ UNCHANGED <<agentVars, fileVars, op, cur, budget, hold, retried>>
      BY <1>1, <2>2 DEF ReadState
    <3>2. TypeOK'
      BY <3>1 DEF TypeOK, Places
    <3>3. PassShape'
      BY DEF TypeOK, PassShape
    <3>4. QED
      BY <3>2, <3>3
  <2>3. QED
    BY <1>1, <2>1, <2>2 DEF ReadState
<1>2. CASE GuardRespawns(i)
  BY <1>2 DEF GuardRespawns, TypeOK, PassShape, Places, Commands, Statuses
<1>3. CASE GuardRecovers(i)
  BY <1>3 DEF GuardRecovers, TypeOK, PassShape, Places
<1>4. CASE WatchDecides(i)
  BY <1>4 DEF WatchDecides, TypeOK, PassShape, Places
<1>5. CASE FinishPass(i)
  BY <1>5, AbortType DEF FinishPass, TypeOK
<1>6. CASE WatchAgain(i)
  BY <1>6 DEF WatchAgain, TypeOK, PassShape, Places
<1>7. ASSUME NEW g \in Groups, GuardPick(i, g)
      PROVE  TypeInv'
  <2>1. CASE Take(i, g, "nudge")
    BY <1>7, <2>1 DEF GuardPick, Take, TypeOK, PassShape, Places
  <2>2. CASE Skip(i, g)
    BY <1>7, <2>2 DEF GuardPick, Skip, TypeOK, PassShape
  <2>3. QED
    BY <1>7, <2>1, <2>2 DEF GuardPick
<1>8. ASSUME NEW g \in Groups, WatchPick(i, g)
      PROVE  TypeInv'
  BY <1>8 DEF WatchPick, Take, TypeOK, PassShape, Places
<1>9. ASSUME NEW g \in Groups, NudgePick(i, g)
      PROVE  TypeInv'
  BY <1>9 DEF NudgePick, Take, TypeOK, PassShape, Places
<1>10. ASSUME NEW g \in Groups, SpawnPick(i, g)
       PROVE  TypeInv'
  <2>1. CASE Abort(i) /\ UNCHANGED <<log, fileVars>>
    BY <2>1, AbortType DEF TypeOK
  <2>2. CASE pid[g] # Garbled
    <3> /\ g \in todo[i] /\ (Skip(i, g) \/ Take(i, g, "start"))
        /\ UNCHANGED <<agentVars, fileVars, op, seen, budget, hold, retried>>
      BY <1>10, <2>2 DEF SpawnPick
    <3>1. TypeOK'
      <4>1. CASE Skip(i, g)
        BY <4>1 DEF Skip, TypeOK
      <4>2. CASE Take(i, g, "start")
        BY <4>2 DEF Take, TypeOK, Places
      <4>3. QED
        BY <4>1, <4>2
    <3>2. PassShape'
      BY DEF Take, Skip, TypeOK, PassShape
    <3>3. QED
      BY <3>1, <3>2
  <2>3. QED
    BY <1>10, <2>1, <2>2 DEF SpawnPick
<1>11. CASE NudgeLimit(i)
  BY <1>11 DEF NudgeLimit, Resume, TypeOK, PassShape, Places
<1>12. CASE NudgeBegin(i)
  <2>1. cur[i] \in Groups /\ nudges[cur[i]] \in Nat
    BY <1>12 DEF NudgeBegin, MayNudge, TypeOK, PassShape
  <2>2. TypeOK'
    BY <1>12, <2>1 DEF NudgeBegin, PidAlive, LiveRuns, TypeOK, Places
  <2>3. PassShape'
    BY <1>12 DEF NudgeBegin, PidAlive, LiveRuns, TypeOK, PassShape
  <2>4. QED
    BY <2>2, <2>3
<1>13. CASE Retire(i)
  <2>1. cur[i] \in Groups /\ hold[i] \in Runs
    BY <1>13 DEF Retire, PassShape
  <2>2. TypeOK'
    BY <1>13, <2>1 DEF Retire, TypeOK, Places, Phases
  <2>3. PassShape'
    BY <1>13 DEF Retire, TypeOK, PassShape
  <2>4. QED
    BY <2>2, <2>3
<1>14. CASE RetireRefused(i)
  BY <1>14 DEF RetireRefused, Resume, TypeOK, PassShape, Places
<1>15. ASSUME NEW r \in Runs, StartAgent(i, r)
       PROVE  TypeInv'
  <2>1. cur[i] \in Groups
    BY <1>15 DEF StartAgent, PassShape
  <2>2. TypeOK'
    BY <1>15, <2>1 DEF StartAgent, TypeOK, Places, Phases
  <2>3. PassShape'
    BY <1>15, <2>1 DEF StartAgent, TypeOK, PassShape
  <2>4. QED
    BY <2>2, <2>3
<1>16. CASE StartFails(i)
  BY <1>16, AbortType DEF StartFails, TypeOK
<1>17. CASE RecordPid(i)
  <2>1. cur[i] \in Groups /\ hold[i] \in Runs
    BY <1>17 DEF RecordPid, PassShape
  <2>2. TypeOK'
    BY <1>17, <2>1 DEF RecordPid, Resume, TypeOK, Places
  <2>3. PassShape'
    BY <1>17 DEF RecordPid, Resume, TypeOK, PassShape
  <2>4. QED
    BY <2>2, <2>3
<1>18. CASE MakeWorktree(i)
  BY <1>18 DEF MakeWorktree, TypeOK, PassShape, Places
<1>19. CASE WriteCount(i)
  BY <1>19 DEF WriteCount, TypeOK, PassShape, Places
<1>20. QED
  BY <1>1, <1>2, <1>3, <1>4, <1>5, <1>6, <1>7, <1>8, <1>9, <1>10, <1>11, <1>12,
     <1>13, <1>14, <1>15, <1>16, <1>17, <1>18, <1>19 DEF PassStep

LEMMA FaultType ==
  ASSUME TypeInv, NEW i \in Invokers,
         FaultStep(i) \/ \E g \in Groups : StopPick(i, g) \/ ButtonPick(i, g)
  PROVE  TypeInv'
<1> USE DEF TypeInv, agentVars, fileVars
<1>1. CASE Crash(i) \/ NudgeGarbled(i)
  BY <1>1, AbortType DEF Crash, NudgeGarbled, TypeOK
<1>2. ASSUME pid' \in [Groups -> Runs \cup {NoFile, Garbled}],
             nudges' \in [Groups -> Nat \cup {Garbled}],
             Abort(i), UNCHANGED <<log, wt>>
      PROVE  TypeInv'
  BY <1>2, AbortType DEF TypeOK
<1>a. CASE RecordFails(i)
  <2>1. cur[i] \in Groups /\ hold[i] \in Runs
    BY <1>a DEF RecordFails, PassShape
  <2>2. pid' \in [Groups -> Runs \cup {NoFile, Garbled}]
    BY <1>a, <2>1 DEF RecordFails, TypeOK
  <2>3. nudges' \in [Groups -> Nat \cup {Garbled}]
    BY <1>a, <2>1 DEF RecordFails, TypeOK
  <2>4. QED
    BY <1>2, <1>a, <2>2, <2>3 DEF RecordFails
<1>b. CASE CountFails(i)
  <2>1. nudges' \in [Groups -> Nat \cup {Garbled}]
    BY <1>b DEF CountFails, TypeOK
  <2>2. QED
    BY <1>2, <1>b, <2>1 DEF CountFails, TypeOK
<1>c. ASSUME NEW g \in Groups, RespawnFails(i, g)
      PROVE  TypeInv'
  <2>1. nudges' \in [Groups -> Nat \cup {Garbled}]
    BY <1>c DEF RespawnFails, TypeOK
  <2>2. QED
    BY <1>2, <1>c, <2>1 DEF RespawnFails, TypeOK
<1>3. ASSUME NEW g \in Groups, StopPick(i, g)
      PROVE  TypeInv'
  <2>1. CASE Abort(i) /\ UNCHANGED <<log, fileVars>>
    BY <2>1, AbortType DEF TypeOK
  <2>2. CASE pid[g] # Garbled
    <3> /\ g \in todo[i] /\ Skip(i, g)
        /\ pid' = [pid EXCEPT ![g] = NoFile]
        /\ UNCHANGED <<agentVars, nudges, wt, op, seen, budget, hold, retried>>
      BY <1>3, <2>2 DEF StopPick
    <3>1. TypeOK'
      BY DEF Skip, TypeOK
    <3>2. PassShape'
      BY DEF Skip, TypeOK, PassShape
    <3>3. QED
      BY <3>1, <3>2
  <2>3. QED
    BY <1>3, <2>1, <2>2 DEF StopPick
<1>4. ASSUME NEW g \in Groups, ButtonPick(i, g)
      PROVE  TypeInv'
  <2>1. TypeOK'
    BY <1>4 DEF ButtonPick, Skip, TypeOK
  <2>2. PassShape'
    BY <1>4 DEF ButtonPick, Skip, TypeOK, PassShape
  <2>3. QED
    BY <2>1, <2>2
<1>5. QED
  BY <1>1, <1>a, <1>b, <1>c, <1>3, <1>4 DEF FaultStep

LEMMA RebootType == Reboot => TypeInv'
BY DEF Reboot, TypeInv, TypeOK, PassShape, LogView, Phases, Statuses, Commands,
       Places

LEMMA NextType ==
  ASSUME TypeInv, [Next]_vars
  PROVE  TypeInv'
<1>1. CASE UNCHANGED vars
  BY <1>1 DEF vars, agentVars, fileVars, passVars, TypeInv, TypeOK, PassShape
<1>2. CASE Next
  <2>1. ASSUME NEW g \in Groups, CleanTmp(g)
        PROVE  TypeInv'
    BY <2>1 DEF CleanTmp, agentVars, passVars, TypeInv, TypeOK, PassShape
  <2>2. QED
    BY <1>2, <2>1, AgentsType, BeginType, PassType, FaultType, RebootType
       DEF Next, QuietNext, SteadyNext, StopStep
<1>3. QED
  BY <1>1, <1>2

\* Every variable keeps its type, whatever passes overlap, crash or are told
\* to stop.
THEOREM TypeCorrect == Spec => []TypeOK
<1>1. Spec => []TypeInv
  BY InitType, NextType, PTL DEF Spec
<1>2. TypeInv => TypeOK
  BY DEF TypeInv
<1>3. QED
  BY <1>1, <1>2, PTL

-----------------------------------------------------------------------------
(* The cap on nudges.                                                      *)

\* A pass that ends keeps the agents of a group within those it had, and
\* writes no count.
LEMMA AbortEffects ==
  ASSUME TypeInv, NEW i \in Invokers, Abort(i)
  PROVE  /\ \A g \in Groups : LiveRuns(g)' \subseteq LiveRuns(g)
         /\ pc' = [pc EXCEPT ![i] = "idle"]
         /\ op' = [op EXCEPT ![i] = "idle"]
         /\ cur' = [cur EXCEPT ![i] = None]
         /\ budget' = [budget EXCEPT ![i] = 0]
         /\ hold' = [hold EXCEPT ![i] = None]
<1>1. \A g \in Groups : LiveRuns(g)' \subseteq LiveRuns(g)
  BY DEF Abort, UnitStops, LiveRuns
<1>2. QED
  BY <1>1 DEF Abort, Drop

\* Agents start nobody and write none of the supervisor's files.
LEMMA AgentsEffects ==
  ASSUME TypeInv, Agents
  PROVE  /\ \A g \in Groups : LiveRuns(g)' \subseteq LiveRuns(g)
         /\ UNCHANGED <<fileVars, passVars>>
<1> USE DEF LiveRuns, TypeInv, TypeOK
<1>1. ASSUME NEW g \in Groups, GoIdle(g)
      PROVE  UNCHANGED <<runs, fileVars, passVars>>
  BY <1>1 DEF GoIdle
<1>2. ASSUME NEW g \in Groups, NEW r \in Runs, AgentEvent(g, r) \/ AgentError(g, r)
      PROVE  UNCHANGED <<runs, fileVars, passVars>>
  BY <1>2 DEF AgentEvent, AgentError
<1>3. ASSUME NEW g \in Groups, NEW r \in Runs, AgentStart(g, r)
      PROVE  /\ \A h \in Groups : LiveRuns(h)' \subseteq LiveRuns(h)
             /\ UNCHANGED <<fileVars, passVars>>
  BY <1>3 DEF AgentStart
<1>4. ASSUME NEW g \in Groups, NEW r \in Runs, NEW v \in {"ok", "bad"},
             AgentFinish(g, r, v)
      PROVE  /\ \A h \in Groups : LiveRuns(h)' \subseteq LiveRuns(h)
             /\ UNCHANGED <<fileVars, passVars>>
  BY <1>4 DEF AgentFinish
<1>5. ASSUME NEW g \in Groups, NEW r \in Runs, AgentExit(g, r)
      PROVE  /\ \A h \in Groups : LiveRuns(h)' \subseteq LiveRuns(h)
             /\ UNCHANGED <<fileVars, passVars>>
  BY <1>5 DEF AgentExit
<1>6. QED
  BY <1>1, <1>2, <1>3, <1>4, <1>5 DEF Agents

LEMMA CapStep ==
  ASSUME TypeInv, NudgesCapped, [Next]_vars
  PROVE  NudgesCapped'
<1> USE ConstantsAssumption DEF agentVars, fileVars
<1>1. ASSUME NEW i \in Invokers, Abort(i), UNCHANGED nudges
      PROVE  NudgesCapped'
  BY <1>1, AbortEffects DEF NudgesCapped, TypeInv, TypeOK
<1>2. CASE UNCHANGED vars
  BY <1>2 DEF vars, passVars, NudgesCapped
<1>3. CASE Agents
  BY <1>3, AgentsEffects DEF passVars, NudgesCapped
<1>4. CASE Reboot
  BY <1>4 DEF Reboot, NudgesCapped
<1>5. ASSUME NEW i \in Invokers, BeginPass(i) \/ StopStep(i)
      PROVE  NudgesCapped'
  <2>1. ASSUME NEW command \in Commands, NEW place \in {"read", "each"},
               NEW G \in SUBSET Groups, Begin(i, command, place, G)
        PROVE  NudgesCapped'
    BY <2>1 DEF Begin, NudgesCapped, TypeInv, TypeOK
  <2>2. ASSUME NEW g \in Groups, StopPick(i, g)
        PROVE  NudgesCapped'
    BY <2>2, <1>1 DEF StopPick, Skip, NudgesCapped, TypeInv, TypeOK
  <2>3. ASSUME NEW g \in Groups, ButtonPick(i, g)
        PROVE  NudgesCapped'
    BY <2>3, ConstantsAssumption DEF ButtonPick, Skip, NudgesCapped, TypeInv, TypeOK
  <2>4. QED
    <3>1. CASE \E g \in Groups : StopPick(i, g) \/ ButtonPick(i, g)
      BY <3>1, <2>2, <2>3
    <3>2. CASE BeginPass(i) \/ BeginStop(i) \/ BeginButton(i)
      BY <3>2, <2>1, BeginForm
    <3>3. QED
      BY <1>5, <3>1, <3>2 DEF StopStep
<1>6. ASSUME NEW i \in Invokers, FaultStep(i)
      PROVE  NudgesCapped'
  <2>1. ASSUME Abort(i),
               \A h \in Groups : nudges'[h] \in {nudges[h], 0, Garbled}
        PROVE  NudgesCapped'
    <3>1. \A h \in Groups : nudges'[h] # Garbled => nudges'[h] <= MaxNudges
      <4>1. ASSUME NEW h \in Groups, nudges'[h] # Garbled
            PROVE  nudges'[h] <= MaxNudges
        <5>1. CASE nudges'[h] = 0
          BY <5>1
        <5>2. CASE nudges'[h] = nudges[h]
          BY <4>1, <5>2 DEF NudgesCapped
        <5>3. QED
          BY <2>1, <4>1, <5>1, <5>2
      <4>2. QED
        BY <4>1
    <3>2. pc' = [pc EXCEPT ![i] = "idle"] /\ op' = [op EXCEPT ![i] = "idle"]
          /\ budget' = [budget EXCEPT ![i] = 0]
      BY <2>1, AbortEffects
    <3>3. QED
      BY <3>1, <3>2 DEF NudgesCapped, TypeInv, TypeOK
  <2>2. CASE Crash(i) \/ NudgeGarbled(i)
    BY <1>1, <2>2 DEF Crash, NudgeGarbled
  <2>3. CASE RecordFails(i)
    <3>1. \A h \in Groups : nudges'[h] \in {nudges[h], 0, Garbled}
      BY <2>3 DEF RecordFails, TypeInv, TypeOK
    <3>2. QED
      BY <2>1, <2>3, <3>1 DEF RecordFails
  <2>4. CASE CountFails(i)
    <3>1. \A h \in Groups : nudges'[h] \in {nudges[h], 0, Garbled}
      BY <2>4 DEF CountFails, TypeInv, TypeOK
    <3>2. QED
      BY <2>1, <2>4, <3>1 DEF CountFails
  <2>5. ASSUME NEW g \in Groups, RespawnFails(i, g)
        PROVE  NudgesCapped'
    <3>1. \A h \in Groups : nudges'[h] \in {nudges[h], 0, Garbled}
      BY <2>5 DEF RespawnFails
    <3>2. QED
      BY <2>1, <2>5, <3>1 DEF RespawnFails
  <2>6. QED
    BY <1>6, <2>2, <2>3, <2>4, <2>5 DEF FaultStep
<1>7. ASSUME NEW i \in Invokers, PassStep(i)
      PROVE  NudgesCapped'
  <2> USE DEF NudgesCapped, TypeInv, TypeOK, Take, Skip, Resume
  <2>1. ASSUME NEW g \in Groups,
               ReadState(i, g) \/ GuardPick(i, g) \/ WatchPick(i, g)
                 \/ NudgePick(i, g) \/ SpawnPick(i, g)
        PROVE  NudgesCapped'
    <3>1. CASE ReadState(i, g)
      BY <3>1, <1>1 DEF ReadState
    <3>2. CASE GuardPick(i, g)
      BY <3>2 DEF GuardPick
    <3>3. CASE WatchPick(i, g)
      BY <3>3 DEF WatchPick
    <3>4. CASE NudgePick(i, g)
      BY <3>4 DEF NudgePick
    <3>5. CASE SpawnPick(i, g)
      BY <3>5, <1>1 DEF SpawnPick
    <3>6. QED
      BY <2>1, <3>1, <3>2, <3>3, <3>4, <3>5
  <2>2. CASE GuardRespawns(i)
    BY <2>2 DEF GuardRespawns
  <2>3. CASE GuardRecovers(i) \/ WatchDecides(i) \/ WatchAgain(i)
    BY <2>3 DEF GuardRecovers, WatchDecides, WatchAgain
  <2>4. CASE FinishPass(i) \/ StartFails(i)
    BY <2>4, <1>1 DEF FinishPass, StartFails
  <2>5. CASE NudgeLimit(i) \/ RetireRefused(i)
    BY <2>5 DEF NudgeLimit, RetireRefused
  <2>6. CASE NudgeBegin(i)
    <3>1. cur[i] \in Groups
      BY <2>6 DEF NudgeBegin, PassShape
    <3>2. QED
      BY <2>6, <3>1 DEF NudgeBegin, MayNudge
  <2>7. CASE Retire(i)
    BY <2>7 DEF Retire
  <2>8. ASSUME NEW r \in Runs, StartAgent(i, r)
        PROVE  NudgesCapped'
    BY <2>8 DEF StartAgent
  <2>9. CASE RecordPid(i)
    <3>1. cur[i] \in Groups
      BY <2>9 DEF RecordPid, PassShape
    <3>2. QED
      BY <2>9, <3>1 DEF RecordPid
  <2>10. CASE MakeWorktree(i)
    BY <2>10 DEF MakeWorktree
  <2>11. CASE WriteCount(i)
    <3>1. cur[i] \in Groups /\ op[i] # "spawn"
      BY <2>11 DEF WriteCount, PassShape
    <3>2. QED
      BY <2>11, <3>1 DEF WriteCount
  <2>12. QED
    BY <1>7, <2>1, <2>2, <2>3, <2>4, <2>5, <2>6, <2>7, <2>8, <2>9, <2>10, <2>11
       DEF PassStep
<1>8. ASSUME NEW g \in Groups, CleanTmp(g)
      PROVE  NudgesCapped'
  BY <1>8 DEF CleanTmp, passVars, NudgesCapped
<1>9. QED
  BY <1>2, <1>3, <1>4, <1>5, <1>6, <1>7, <1>8 DEF Next, QuietNext, SteadyNext

\* However passes overlap, crash or are stopped, no group's nudge count passes
\* MAX_NUDGES.
THEOREM CapHolds == Spec => []NudgesCapped
<1>1. Init => TypeInv /\ NudgesCapped
  BY InitType, ConstantsAssumption DEF Init, NudgesCapped
<1>2. TypeInv /\ NudgesCapped /\ [Next]_vars => (TypeInv /\ NudgesCapped)'
  BY NextType, CapStep
<1>3. QED
  BY <1>1, <1>2, PTL DEF Spec

-----------------------------------------------------------------------------
(* One pass at a time, run to its end: one agent per worktree.             *)

SerialShape == AgentsRecorded /\ LaunchAlone

\* A step that starts nobody, keeps the pid files and leaves the pass outside
\* the steps that retire, start or record an agent.
LEMMA BenignStep ==
  ASSUME OneInvoker, SerialShape, NEW i \in Invokers,
         \A g \in Groups : LiveRuns(g)' \subseteq LiveRuns(g),
         pid' = pid,
         pc[i] # "record",
         pc'[i] \notin {"retire", "start", "count", "launch", "record"}
  PROVE  SerialShape'
BY DEF OneInvoker, SerialShape, AgentsRecorded, LaunchAlone

\* Outside the step that records it, the only live agent is the recorded one.
LEMMA OnlyRecorded ==
  ASSUME OneInvoker, SerialShape, NEW i \in Invokers, pc[i] # "record",
         NEW g \in Groups
  PROVE  LiveRuns(g) \subseteq {pid[g]}
BY DEF OneInvoker, SerialShape, AgentsRecorded

LEMMA SerialStep ==
  ASSUME OneInvoker, TypeInv, SerialShape, [QuietNext]_vars
  PROVE  SerialShape'
<1> USE DEF agentVars, fileVars
<1>1. CASE UNCHANGED vars
  BY <1>1 DEF vars, passVars, SerialShape, AgentsRecorded, LaunchAlone, LiveRuns
<1>2. CASE Agents
  <2>1. \A g \in Groups : LiveRuns(g)' \subseteq LiveRuns(g)
    BY <1>2, AgentsEffects
  <2>2. UNCHANGED <<pid, pc, cur, hold>>
    BY <1>2, AgentsEffects DEF passVars
  <2>3. \A i \in Invokers :
          pc[i] \in {"start", "count", "launch", "record"} => cur[i] \in Groups
    BY DEF TypeInv, PassShape
  <2>4. QED
    BY <2>1, <2>2, <2>3 DEF SerialShape, AgentsRecorded, LaunchAlone
<1>3. CASE Reboot
  BY <1>3 DEF Reboot, SerialShape, AgentsRecorded, LaunchAlone, LiveRuns
<1>4. ASSUME NEW i \in Invokers, BeginPass(i)
      PROVE  SerialShape'
  <2>1. pc[i] = "idle" /\ UNCHANGED <<runs, pid>> /\ pc'[i] \in {"read", "each"}
    BY <1>4, BeginForm DEF Begin, TypeInv, TypeOK
  <2>2. QED
    BY <2>1, BenignStep DEF LiveRuns
<1>5. ASSUME NEW i \in Invokers, Abort(i), UNCHANGED pid, pc[i] # "record"
      PROVE  SerialShape'
  <2>1. pc'[i] = "idle"
    BY <1>5, AbortEffects DEF TypeInv, TypeOK
  <2>2. QED
    BY <1>5, <2>1, AbortEffects, BenignStep
<1>6. ASSUME NEW i \in Invokers, PassStep(i)
      PROVE  SerialShape'
  <2> USE DEF TypeInv, TypeOK
  <2>1. ASSUME UNCHANGED <<runs, pid>>, pc[i] # "record",
               pc'[i] \notin {"retire", "start", "count", "launch", "record"}
        PROVE  SerialShape'
    BY <2>1, BenignStep DEF LiveRuns
  <2>2. ASSUME NEW g \in Groups, ReadState(i, g)
        PROVE  SerialShape'
    BY <2>1, <2>2, <1>5 DEF ReadState
  <2>3. ASSUME NEW g \in Groups,
               GuardPick(i, g) \/ WatchPick(i, g) \/ NudgePick(i, g)
        PROVE  SerialShape'
    BY <2>1, <2>3 DEF GuardPick, WatchPick, NudgePick, Take, Skip
  <2>4. ASSUME NEW g \in Groups, SpawnPick(i, g)
        PROVE  SerialShape'
    <3>1. CASE pid[g] = Garbled
      BY <2>4, <3>1, <1>5 DEF SpawnPick
    <3>2. CASE pid[g] # Garbled /\ PidAlive(g)
      BY <2>1, <2>4, <3>2 DEF SpawnPick, Skip
    <3>3. CASE pid[g] # Garbled /\ ~PidAlive(g)
      <4>1. /\ pc[i] = "each"
            /\ pc' = [pc EXCEPT ![i] = "start"]
            /\ cur' = [cur EXCEPT ![i] = g]
            /\ UNCHANGED <<runs, pid>>
        BY <2>4, <3>3 DEF SpawnPick, Take
      <4>2. LiveRuns(g) = {}
        BY <3>3, <4>1, OnlyRecorded DEF PidAlive
      <4>3. QED
        BY <4>1, <4>2 DEF OneInvoker, SerialShape, AgentsRecorded, LaunchAlone,
                          LiveRuns
    <3>4. QED
      BY <3>1, <3>2, <3>3
  <2>5. CASE GuardRespawns(i) \/ GuardRecovers(i) \/ WatchDecides(i)
               \/ WatchAgain(i) \/ NudgeLimit(i) \/ RetireRefused(i)
    BY <2>1, <2>5 DEF GuardRespawns, GuardRecovers, WatchDecides, WatchAgain,
                      NudgeLimit, RetireRefused, Resume
  <2>6. CASE FinishPass(i) \/ StartFails(i)
    BY <2>6, <1>5 DEF FinishPass, StartFails
  <2>7. CASE NudgeBegin(i)
    <3>1. cur[i] \in Groups /\ pc[i] = "nudge" /\ UNCHANGED <<runs, pid, cur>>
      BY <2>7 DEF NudgeBegin, PassShape
    <3>2. CASE PidAlive(cur[i])
      <4>1. /\ pc' = [pc EXCEPT ![i] = "retire"]
            /\ hold' = [hold EXCEPT ![i] = pid[cur[i]]]
        BY <2>7, <3>2 DEF NudgeBegin
      <4>2. QED
        BY <3>1, <4>1 DEF OneInvoker, SerialShape, AgentsRecorded, LaunchAlone,
                          LiveRuns
    <3>3. CASE ~PidAlive(cur[i])
      <4>1. pc' = [pc EXCEPT ![i] = "start"]
        BY <2>7, <3>3 DEF NudgeBegin
      <4>2. LiveRuns(cur[i]) = {}
        BY <3>1, <3>3, OnlyRecorded DEF PidAlive
      <4>3. QED
        BY <3>1, <4>1, <4>2 DEF OneInvoker, SerialShape, AgentsRecorded,
                                LaunchAlone, LiveRuns
    <3>4. QED
      BY <3>2, <3>3
  <2>8. CASE Retire(i)
    <3>1. /\ cur[i] \in Groups /\ pc[i] = "retire" /\ UNCHANGED <<pid, cur>>
          /\ pc' = [pc EXCEPT ![i] = "start"]
          /\ runs' = [runs EXCEPT ![cur[i]][hold[i]] = "free"]
      BY <2>8 DEF Retire, PassShape
    <3>2. hold[i] = pid[cur[i]]
      BY <3>1 DEF SerialShape, LaunchAlone
    <3>3. LiveRuns(cur[i])' = {}
      BY <3>1, <3>2, OnlyRecorded DEF LiveRuns
    <3>4. \A g \in Groups : LiveRuns(g)' \subseteq LiveRuns(g)
      BY <3>1 DEF LiveRuns
    <3>5. QED
      BY <3>1, <3>3, <3>4 DEF OneInvoker, SerialShape, AgentsRecorded, LaunchAlone
  <2>9. ASSUME NEW r \in Runs, StartAgent(i, r)
        PROVE  SerialShape'
    <3>1. /\ cur[i] \in Groups /\ pc[i] = "launch" /\ UNCHANGED <<pid, cur>>
          /\ pc' = [pc EXCEPT ![i] = "record"]
          /\ hold' = [hold EXCEPT ![i] = r]
          /\ runs' = [runs EXCEPT ![cur[i]][r] = "booting"]
      BY <2>9 DEF StartAgent, PassShape
    <3>2. LiveRuns(cur[i]) = {}
      BY <3>1 DEF SerialShape, LaunchAlone
    <3>3. LiveRuns(cur[i])' \subseteq {r}
      BY <3>1, <3>2 DEF LiveRuns
    <3>4. \A g \in Groups : g # cur[i] => LiveRuns(g)' \subseteq {pid[g]}
      BY <3>1, OnlyRecorded DEF LiveRuns
    <3>5. pc'[i] = "record" /\ hold'[i] = r /\ \A j \in Invokers : j = i
      BY <3>1 DEF OneInvoker
    <3>6. AgentsRecorded'
      BY <3>1, <3>3, <3>4, <3>5 DEF AgentsRecorded
    <3>7. LaunchAlone'
      BY <3>1, <3>3, <3>5 DEF LaunchAlone
    <3>8. QED
      BY <3>6, <3>7 DEF SerialShape
  <2>10. CASE RecordPid(i)
    <3>1. /\ cur[i] \in Groups /\ pc[i] = "record" /\ UNCHANGED runs
          /\ pc' = [pc EXCEPT ![i] = "each"]
          /\ pid' = [pid EXCEPT ![cur[i]] = hold[i]]
      BY <2>10 DEF RecordPid, Resume, PassShape
    <3>2. \A g \in Groups : LiveRuns(g)' = LiveRuns(g)
      BY <3>1 DEF LiveRuns
    <3>3. LiveRuns(cur[i]) \subseteq {hold[i]}
      BY <3>1 DEF SerialShape, LaunchAlone
    <3>4. QED
      BY <3>1, <3>2, <3>3 DEF OneInvoker, SerialShape, AgentsRecorded, LaunchAlone
  <2>11. CASE MakeWorktree(i) \/ WriteCount(i)
    <3>1. /\ cur[i] \in Groups /\ pc[i] \in {"start", "count"}
          /\ UNCHANGED <<runs, pid, cur>>
          /\ pc'[i] \in {"count", "launch"}
      BY <2>11 DEF MakeWorktree, WriteCount, PassShape
    <3>2. \A g \in Groups : LiveRuns(g)' = LiveRuns(g)
      BY <3>1 DEF LiveRuns
    <3>3. QED
      BY <3>1, <3>2 DEF OneInvoker, SerialShape, AgentsRecorded, LaunchAlone
  <2>12. QED
    BY <1>6, <2>2, <2>3, <2>4, <2>5, <2>6, <2>7, <2>8, <2>9, <2>10, <2>11
       DEF PassStep
<1>7. QED
  BY <1>1, <1>2, <1>3, <1>4, <1>6 DEF QuietNext, SteadyNext

LEMMA QuietIsNext == [QuietNext]_vars => [Next]_vars
BY DEF Next

LEMMA SerialInvariant ==
  ASSUME OneInvoker
  PROVE  QuietSpec => [](TypeInv /\ NudgesCapped /\ SerialShape)
<1>1. Init => TypeInv /\ NudgesCapped /\ SerialShape
  BY InitType, ConstantsAssumption
     DEF Init, NudgesCapped, SerialShape, AgentsRecorded, LaunchAlone, LiveRuns
<1>2. TypeInv /\ NudgesCapped /\ SerialShape /\ [QuietNext]_vars
        => (TypeInv /\ NudgesCapped /\ SerialShape)'
  BY NextType, CapStep, SerialStep, QuietIsNext
<1>3. QED
  BY <1>1, <1>2, PTL DEF QuietSpec

\* If passes never overlap, are not killed and nobody stops the team, then two
\* agents never share a worktree, whatever the agents and reboots do.
THEOREM OneAgentPerWorktree ==
  ASSUME OneInvoker
  PROVE  QuietSpec => []AtMostOneAgent
<1>1. TypeInv /\ SerialShape => AtMostOneAgent
  BY DEF OneInvoker, SerialShape, AgentsRecorded, LaunchAlone, AtMostOneAgent
<1>2. QED
  BY <1>1, SerialInvariant, PTL

\* Under the same conditions no live agent escapes its pid file.
THEOREM NoAgentUnrecorded ==
  ASSUME OneInvoker
  PROVE  QuietSpec => []AgentsRecorded
<1>1. SerialShape => AgentsRecorded
  BY DEF SerialShape
<1>2. QED
  BY <1>1, SerialInvariant, PTL

-----------------------------------------------------------------------------
(* The count on disk, and the promise of OneAgent.                         *)

\* A step after which the pass is not about to write or spend a count.
LEMMA BudgetElsewhere ==
  ASSUME OneInvoker, BudgetFresh, NEW i \in Invokers,
         pc'[i] \notin {"retire", "start", "count", "launch"}, nudges' = nudges
  PROVE  BudgetFresh'
BY DEF OneInvoker, BudgetFresh

LEMMA BudgetStep ==
  ASSUME OneInvoker, TypeInv, NudgesCapped, BudgetFresh, [QuietNext]_vars
  PROVE  BudgetFresh'
<1> USE ConstantsAssumption DEF TypeInv, TypeOK
<1>1. CASE UNCHANGED vars
  BY <1>1 DEF vars, fileVars, passVars, BudgetFresh
<1>2. CASE Agents
  BY <1>2, AgentsEffects DEF fileVars, passVars, BudgetFresh
<1>3. CASE Reboot
  BY <1>3 DEF Reboot, BudgetFresh
<1>4. ASSUME NEW i \in Invokers, BeginPass(i)
      PROVE  BudgetFresh'
  <2>1. pc'[i] \in {"read", "each"} /\ nudges' = nudges
    BY <1>4, BeginForm DEF Begin, fileVars
  <2>2. QED
    BY <2>1, BudgetElsewhere
<1>5. ASSUME NEW i \in Invokers, Abort(i), nudges' = nudges
      PROVE  BudgetFresh'
  <2>1. pc'[i] = "idle"
    BY <1>5, AbortEffects
  <2>2. QED
    BY <1>5, <2>1, BudgetElsewhere
<1>6. ASSUME NEW i \in Invokers, PassStep(i)
      PROVE  BudgetFresh'
  <2>1. ASSUME NEW g \in Groups, ReadState(i, g)
        PROVE  BudgetFresh'
    BY <2>1, <1>5, BudgetElsewhere DEF ReadState, fileVars
  <2>2. ASSUME NEW g \in Groups,
               GuardPick(i, g) \/ WatchPick(i, g) \/ NudgePick(i, g)
        PROVE  BudgetFresh'
    BY <2>2, BudgetElsewhere DEF GuardPick, WatchPick, NudgePick, Take, Skip, fileVars
  <2>3. ASSUME NEW g \in Groups, SpawnPick(i, g)
        PROVE  BudgetFresh'
    <3>1. CASE pid[g] = Garbled
      BY <2>3, <3>1, <1>5 DEF SpawnPick, fileVars
    <3>2. CASE pid[g] # Garbled
      <4>1. op[i] = "spawn" /\ UNCHANGED <<op, nudges>>
        BY <2>3, <3>2 DEF SpawnPick, fileVars
      <4>2. QED
        BY <4>1 DEF OneInvoker, BudgetFresh
    <3>3. QED
      BY <3>1, <3>2
  <2>4. CASE GuardRecovers(i) \/ WatchDecides(i)
               \/ WatchAgain(i) \/ NudgeLimit(i) \/ RetireRefused(i)
    BY <2>4, BudgetElsewhere DEF GuardRecovers, WatchDecides,
       WatchAgain, NudgeLimit, RetireRefused, Resume, fileVars
  <2>5. CASE FinishPass(i) \/ StartFails(i)
    BY <2>5, <1>5 DEF FinishPass, StartFails, fileVars
  <2>6. CASE NudgeBegin(i)
    <3>1. /\ budget' = [budget EXCEPT ![i] = nudges[cur[i]]]
          /\ UNCHANGED <<nudges, cur>>
          /\ pc'[i] \in {"retire", "start"}
      BY <2>6 DEF NudgeBegin, fileVars
    <3>2. QED
      BY <3>1 DEF OneInvoker, BudgetFresh
  <2>7. CASE Retire(i)
    <3>1. /\ pc[i] = "retire" /\ pc'[i] = "start"
          /\ UNCHANGED <<nudges, op, cur, budget>>
      BY <2>7 DEF Retire, fileVars
    <3>2. QED
      BY <3>1 DEF OneInvoker, BudgetFresh
  <2>8. ASSUME NEW r \in Runs, StartAgent(i, r)
        PROVE  BudgetFresh'
    BY <2>8, BudgetElsewhere DEF StartAgent, fileVars
  <2>9. CASE GuardRespawns(i)
    <3>1. pc'[i] = "each" /\ nudges' = [g \in Groups |-> 0]
      BY <2>9 DEF GuardRespawns
    <3>2. QED
      BY <3>1 DEF OneInvoker, BudgetFresh
  <2>10. CASE RecordPid(i)
    <3>1. /\ pc'[i] = "each"
          /\ \A g \in Groups : nudges'[g] \in {nudges[g], 0}
      BY <2>10 DEF RecordPid, Resume
    <3>2. QED
      BY <3>1 DEF OneInvoker, BudgetFresh
  <2>11. CASE MakeWorktree(i)
    <3>1. /\ pc[i] = "start" /\ UNCHANGED <<nudges, op, cur, budget>>
          /\ pc'[i] = IF op[i] = "spawn" THEN "launch" ELSE "count"
      BY <2>11 DEF MakeWorktree
    <3>2. QED
      BY <3>1 DEF OneInvoker, BudgetFresh
  <2>12. CASE WriteCount(i)
    <3>1. /\ pc[i] = "count" /\ cur[i] \in Groups /\ op[i] # "spawn"
          /\ UNCHANGED <<op, cur, budget>> /\ pc'[i] = "launch"
          /\ nudges' = [nudges EXCEPT ![cur[i]] = budget[i] + 1]
          /\ budget[i] < MaxNudges /\ budget[i] + 1 \in Nat
      BY <2>12 DEF WriteCount, PassShape, NudgesCapped
    <3>2. \A g \in Groups : nudges'[g] # Garbled
      BY <3>1 DEF BudgetFresh
    <3>3. nudges'[cur[i]] = budget[i] + 1
      BY <3>1
    <3>4. QED
      BY <3>1, <3>2, <3>3 DEF OneInvoker, BudgetFresh
  <2>13. QED
    BY <1>6, <2>1, <2>2, <2>3, <2>4, <2>5, <2>6, <2>7, <2>8, <2>9, <2>10, <2>11,
       <2>12 DEF PassStep
<1>7. QED
  BY <1>1, <1>2, <1>3, <1>4, <1>6 DEF QuietNext, SteadyNext

PromiseInv == TypeInv /\ NudgesCapped /\ SerialShape /\ BudgetFresh

LEMMA PromiseInvariant ==
  ASSUME OneInvoker
  PROVE  QuietSpec => []PromiseInv
<1>1. Init => PromiseInv
  BY InitType, ConstantsAssumption
     DEF Init, PromiseInv, NudgesCapped, SerialShape, AgentsRecorded, LaunchAlone,
         LiveRuns, BudgetFresh
<1>2. PromiseInv /\ [QuietNext]_vars => PromiseInv'
  BY NextType, CapStep, SerialStep, BudgetStep, QuietIsNext DEF PromiseInv
<1>3. QED
  BY <1>1, <1>2, PTL DEF QuietSpec

\* A step that starts nobody and leaves the counts alone only ends agents.
LEMMA EndStep ==
  ASSUME TypeInv, \A g \in Groups : LiveRuns(g)' \subseteq LiveRuns(g),
         nudges' = nudges,
         \A g \in Groups : Refreshed(g)' <=> Refreshed(g),
         \A g \in Groups : Counted(g)' <=> Counted(g)
  PROVE  Promise!End
<1>1. \A g \in Groups : LiveRuns(g)' \subseteq Runs
  BY DEF LiveRuns
<1>2. Used' = Used
  BY DEF Used
<1>3. QED
  BY <1>1, <1>2 DEF Promise!End, Live

\* Where no group is being started afresh, and where no count waits for its launch.
LEMMA NotRefreshed ==
  ASSUME OneInvoker, NEW i \in Invokers
  PROVE  /\ pc[i] # "record" \/ op[i] # "spawn" => \A g \in Groups : ~Refreshed(g)
         /\ (pc[i] # "record" \/ op[i] # "spawn" => \A g \in Groups : ~Refreshed(g))'
         /\ pc[i] # "launch" \/ op[i] = "spawn" => \A g \in Groups : ~Counted(g)
         /\ (pc[i] # "launch" \/ op[i] = "spawn" => \A g \in Groups : ~Counted(g))'
BY DEF OneInvoker, Refreshed, Counted

LEMMA PassImplements ==
  ASSUME OneInvoker, PromiseInv, NEW i \in Invokers, PassStep(i)
  PROVE  Promise!Next \/ UNCHANGED <<Live, Used>>
<1> USE DEF PromiseInv, TypeInv, TypeOK, agentVars, fileVars
<1>1. ASSUME pc[i] \notin {"record", "launch"}, pc'[i] \notin {"record", "launch"},
             nudges' = nudges, \A g \in Groups : LiveRuns(g)' \subseteq LiveRuns(g)
      PROVE  Promise!Next
  BY <1>1, NotRefreshed, EndStep DEF Promise!Next
<1>2. ASSUME pc[i] \notin {"record", "launch"}, pc'[i] \notin {"record", "launch"},
             UNCHANGED <<runs, nudges>>
      PROVE  Promise!Next
  BY <1>1, <1>2 DEF LiveRuns
<1>3. ASSUME pc[i] \notin {"record", "launch"}, Abort(i), nudges' = nudges
      PROVE  Promise!Next
  BY <1>1, <1>3, AbortEffects
<1>4. ASSUME NEW g \in Groups, ReadState(i, g)
      PROVE  Promise!Next
  BY <1>2, <1>3, <1>4 DEF ReadState
<1>5. ASSUME NEW g \in Groups,
             GuardPick(i, g) \/ WatchPick(i, g) \/ NudgePick(i, g)
      PROVE  Promise!Next
  BY <1>2, <1>5 DEF GuardPick, WatchPick, NudgePick, Take, Skip
<1>6. ASSUME NEW g \in Groups, SpawnPick(i, g)
      PROVE  Promise!Next
  <2>1. CASE pid[g] = Garbled
    BY <1>3, <1>6, <2>1 DEF SpawnPick
  <2>2. CASE pid[g] # Garbled
    BY <1>2, <1>6, <2>2 DEF SpawnPick, Take, Skip
  <2>3. QED
    BY <2>1, <2>2
<1>7. CASE GuardRespawns(i)
  <2>1. \A g \in Groups : LiveRuns(g)' = LiveRuns(g) /\ nudges'[g] = 0
    BY <1>7 DEF GuardRespawns, LiveRuns
  <2>a. \A g \in Groups : ~Counted(g)'
    BY <1>7, NotRefreshed DEF GuardRespawns
  <2>2. Used' = [g \in Groups |-> 0]
    BY <2>1, <2>a DEF Used
  <2>3. \A g \in Groups : LiveRuns(g)' \subseteq Runs
    BY DEF LiveRuns
  <2>4. QED
    BY <2>1, <2>2, <2>3 DEF Promise!Next, Promise!Reset, Live
<1>8. CASE GuardRecovers(i) \/ WatchDecides(i) \/ WatchAgain(i) \/ NudgeLimit(i)
             \/ NudgeBegin(i) \/ RetireRefused(i)
  BY <1>2, <1>8 DEF GuardRecovers, WatchDecides, WatchAgain, NudgeLimit,
                    NudgeBegin, RetireRefused, Resume
<1>9. CASE FinishPass(i) \/ StartFails(i)
  BY <1>3, <1>9 DEF FinishPass, StartFails
<1>10. CASE Retire(i)
  <2>1. \A g \in Groups : LiveRuns(g)' \subseteq LiveRuns(g)
    BY <1>10 DEF Retire, LiveRuns
  <2>2. pc[i] = "retire" /\ pc'[i] = "start" /\ nudges' = nudges
    BY <1>10 DEF Retire
  <2>3. QED
    BY <1>1, <2>1, <2>2
<1>11. ASSUME NEW r \in Runs, StartAgent(i, r)
       PROVE  Promise!Next
  <2> DEFINE g == cur[i]
  <2>1. /\ g \in Groups /\ pc[i] = "launch" /\ UNCHANGED <<op, cur, nudges>>
        /\ pc' = [pc EXCEPT ![i] = "record"]
        /\ runs' = [runs EXCEPT ![g][r] = "booting"]
    BY <1>11 DEF StartAgent, PassShape
  <2>2. LiveRuns(g) = {}
    BY <2>1 DEF SerialShape, LaunchAlone
  <2>3. LiveRuns(g)' = {r} /\ \A h \in Groups \ {g} : LiveRuns(h)' = LiveRuns(h)
    BY <2>1, <2>2 DEF LiveRuns
  <2>4. Promise!Launch(g, r)
    BY <2>1, <2>2, <2>3 DEF Promise!Launch, Live
  <2>5. \A h \in Groups : ~Refreshed(h) /\ ~Counted(h)'
    BY <2>1, NotRefreshed
  <2>6. CASE op[i] = "spawn"
    <3>1. \A h \in Groups : ~Counted(h)
      BY <2>6, NotRefreshed
    <3>2. \A h \in Groups : Refreshed(h)' <=> h = g
      BY <2>1, <2>6 DEF Refreshed, OneInvoker
    <3>3. Used' = [Used EXCEPT ![g] = 0]
      BY <2>1, <2>5, <3>1, <3>2 DEF Used
    <3>4. Promise!Refresh(g, r)
      BY <2>4, <3>3 DEF Promise!Refresh
    <3>5. QED
      BY <2>1, <3>4 DEF Promise!Next
  <2>7. CASE op[i] # "spawn"
    <3>1. /\ nudges[g] = budget[i] + 1 /\ budget[i] \in Nat
          /\ budget[i] < MaxNudges
      BY <2>1, <2>7 DEF BudgetFresh
    <3>2. \A h \in Groups : ~Refreshed(h)'
      BY <2>1, <2>7, NotRefreshed
    <3>3. \A h \in Groups : Counted(h) <=> h = g
      BY <2>1, <2>7 DEF Counted, OneInvoker
    <3>4. Used[g] = budget[i]
      BY <2>1, <2>5, <3>1, <3>3, ConstantsAssumption DEF Used
    <3>5. Used' = [h \in Groups |-> nudges[h]]
      BY <2>1, <2>5, <3>2 DEF Used
    <3>6. \A h \in Groups \ {g} : Used[h] = nudges[h]
      BY <2>5, <3>3 DEF Used
    <3>7. Used' = [Used EXCEPT ![g] = Used[g] + 1]
      <4>1. Used = [h \in Groups |-> Used[h]]
        BY DEF Used
      <4>2. QED
        BY <2>1, <3>1, <3>4, <3>5, <3>6, <4>1
    <3>8. Promise!Revive(g, r)
      BY <2>4, <3>1, <3>4, <3>7 DEF Promise!Revive
    <3>9. QED
      BY <2>1, <3>8 DEF Promise!Next
  <2>8. QED
    BY <2>6, <2>7
<1>14. CASE MakeWorktree(i)
  <2>1. /\ pc[i] = "start" /\ UNCHANGED <<runs, nudges, op>>
        /\ pc'[i] = IF op[i] = "spawn" THEN "launch" ELSE "count"
    BY <1>14 DEF MakeWorktree
  <2>2. \A g \in Groups : /\ ~Refreshed(g) /\ ~Refreshed(g)'
                          /\ ~Counted(g) /\ ~Counted(g)'
    BY <2>1, NotRefreshed
  <2>3. QED
    BY <2>1, <2>2, EndStep DEF Promise!Next, LiveRuns
<1>15. CASE WriteCount(i)
  <2> DEFINE g == cur[i]
  <2>1. /\ g \in Groups /\ pc[i] = "count" /\ op[i] # "spawn"
        /\ UNCHANGED <<runs, op, cur>> /\ pc'[i] = "launch"
        /\ nudges' = [nudges EXCEPT ![g] = budget[i] + 1]
    BY <1>15 DEF WriteCount, PassShape
  <2>2. budget[i] = nudges[g] /\ nudges[g] \in Nat
    BY <2>1 DEF BudgetFresh
  <2>3. \A h \in Groups : ~Refreshed(h) /\ ~Refreshed(h)' /\ ~Counted(h)
    BY <2>1, NotRefreshed
  <2>4. \A h \in Groups : Counted(h)' <=> h = g
    BY <2>1 DEF Counted, OneInvoker
  <2>5. Used = [h \in Groups |-> nudges[h]]
    BY <2>3 DEF Used
  <2>6. \A h \in Groups : (IF Counted(h)' THEN nudges'[h] - 1 ELSE nudges'[h]) = nudges[h]
    <3>1. ASSUME NEW h \in Groups, h = g
          PROVE  nudges'[h] - 1 = nudges[h]
      BY <2>1, <2>2, <3>1
    <3>2. ASSUME NEW h \in Groups, h # g
          PROVE  nudges'[h] = nudges[h]
      BY <2>1, <3>2
    <3>3. QED
      BY <2>4, <3>1, <3>2
  <2>7. Used' = [h \in Groups |-> nudges[h]]
    BY <2>3, <2>6 DEF Used
  <2>8. Live' = Live
    BY <2>1 DEF Live, LiveRuns
  <2>9. QED
    BY <2>5, <2>7, <2>8
<1>12. CASE RecordPid(i)
  <2> DEFINE g == cur[i]
  <2>1. /\ g \in Groups /\ pc[i] = "record" /\ UNCHANGED <<runs, op>>
        /\ pc' = [pc EXCEPT ![i] = "each"]
    BY <1>12 DEF RecordPid, Resume, PassShape
  <2>2. \A h \in Groups : ~Refreshed(h)' /\ ~Counted(h) /\ ~Counted(h)'
    BY <2>1, NotRefreshed
  <2>3. Live' = Live
    BY <2>1 DEF Live, LiveRuns
  <2>4. CASE op[i] = "spawn"
    <3>1. \A h \in Groups : Refreshed(h) <=> h = g
      BY <2>1, <2>4 DEF Refreshed, OneInvoker
    <3>2. nudges' = [nudges EXCEPT ![g] = 0]
      BY <1>12, <2>4 DEF RecordPid
    <3>3. Used' = Used
      BY <2>1, <2>2, <3>1, <3>2 DEF Used
    <3>4. QED
      BY <2>3, <3>3
  <2>5. CASE op[i] # "spawn"
    <3>1. \A h \in Groups : ~Refreshed(h)
      BY <2>5, NotRefreshed
    <3>2. nudges' = nudges
      BY <1>12, <2>5 DEF RecordPid
    <3>3. Used' = Used
      BY <2>2, <3>1, <3>2 DEF Used
    <3>4. QED
      BY <2>3, <3>3
  <2>6. QED
    BY <2>4, <2>5
<1>13. QED
  BY <1>4, <1>5, <1>6, <1>7, <1>8, <1>9, <1>10, <1>11, <1>12, <1>14, <1>15
     DEF PassStep

LEMMA StepImplements ==
  ASSUME OneInvoker, PromiseInv, [QuietNext]_vars
  PROVE  [Promise!Next]_<<Live, Used>>
<1> USE DEF PromiseInv, fileVars, passVars
<1>1. CASE UNCHANGED vars
  BY <1>1 DEF vars, agentVars, Live, LiveRuns, Used, Refreshed, Counted
<1>2. CASE Agents
  BY <1>2, AgentsEffects, EndStep DEF Promise!Next, Refreshed, Counted
<1>3. CASE Reboot
  <2>1. \A g \in Groups : LiveRuns(g)' = {}
    BY <1>3 DEF Reboot, LiveRuns
  <2>2. Used' = [g \in Groups |-> 0]
    BY <1>3 DEF Reboot, Used, Refreshed, Counted
  <2>3. QED
    BY <2>1, <2>2 DEF Promise!Next, Promise!Reset, Live
<1>4. ASSUME NEW i \in Invokers, BeginPass(i)
      PROVE  Promise!Next
  <2>1. /\ pc[i] = "idle" /\ pc'[i] \in {"read", "each"}
        /\ UNCHANGED <<runs, nudges>>
    BY <1>4, BeginForm DEF Begin, agentVars, TypeInv, TypeOK
  <2>2. \A g \in Groups : LiveRuns(g)' = LiveRuns(g)
    BY <2>1 DEF LiveRuns
  <2>3. \A g \in Groups : /\ ~Refreshed(g) /\ ~Refreshed(g)'
                          /\ ~Counted(g) /\ ~Counted(g)'
    BY <2>1, NotRefreshed
  <2>4. QED
    BY <2>1, <2>2, <2>3, EndStep DEF Promise!Next
<1>5. ASSUME NEW i \in Invokers, PassStep(i)
      PROVE  [Promise!Next]_<<Live, Used>>
  BY <1>5, PassImplements
<1>6. QED
  BY <1>1, <1>2, <1>3, <1>4, <1>5 DEF QuietNext, SteadyNext

\* Under the same conditions the supervisor keeps its promise: agents are
\* launched into empty worktrees only, and between two fresh starts of a group
\* at most MAX_NUDGES agents are revived.
THEOREM SupervisorImplements ==
  ASSUME OneInvoker
  PROVE  QuietSpec => OneAgentPromise
<1>1. Init => Promise!Init
  BY DEF Init, Promise!Init, Live, LiveRuns, Used, Refreshed, Counted
<1>2. PromiseInv /\ [QuietNext]_vars => [Promise!Next]_<<Live, Used>>
  BY StepImplements
<1>3. QED
  BY <1>1, <1>2, PromiseInvariant, PTL
     DEF QuietSpec, OneAgentPromise, Promise!Spec, Promise!absVars

-----------------------------------------------------------------------------
(* Passes that overlap, stop and die: who may escape.                      *)

HInv == TypeInv /\ Orderly

\* A step that starts nobody in the group and forgets no stray keeps no new agent.
LEMMA KeptShrinks ==
  ASSUME NEW g \in Groups, LiveRuns(g)' \subseteq LiveRuns(g), StrayStill \subseteq strays'
  PROVE  Kept(g)' \subseteq Kept(g)
<1> SUFFICES ASSUME NEW r \in Kept(g)'
             PROVE  r \in Kept(g)
  OBVIOUS
<1>1. r \in LiveRuns(g)' /\ <<g, r>> \notin strays'
  BY DEF Kept
<1>2. ASSUME <<g, r>> \in strays
      PROVE  FALSE
  BY <1>1, <1>2 DEF StrayStill
<1>3. QED
  BY <1>1, <1>2 DEF Kept

\* What a step leaves alone when one pass moves.
Others(i) == \A j \in Invokers \ {i} : /\ pc'[j] = pc[j] /\ cur'[j] = cur[j]
                                      /\ hold'[j] = hold[j]

\* A pass that does not treat the group after its step, and has not just recorded
\* an agent of it.
LEMMA MoveElsewhere ==
  ASSUME NEW i \in Invokers, NEW g \in Groups, Tidy(g), Others(i),
         Kept(g)' \subseteq Kept(g), pid'[g] = pid[g],
         ~(pc[i] = "record" /\ cur[i] = g), ~Treats(i, g)'
  PROVE  Tidy(g)'
<1>1. \A j \in Invokers : Treats(j, g)' => j # i /\ Treats(j, g)
  BY DEF Others, Treats
<1>2. \A r \in Kept(g)' : Recorded(g, r)'
  BY DEF Tidy, Recorded, Others
<1>3. QED
  BY <1>1, <1>2 DEF Tidy, Others

\* A pass that begins to treat the group is the only one, or crosses another, and
\* then only the recorded agent can be kept.
LEMMA BeginTreating ==
  ASSUME NEW i \in Invokers, NEW g \in Groups, Tidy(g), Others(i), g \notin Crossing',
         ~Treats(i, g), Treats(i, g)'
  PROVE  /\ \A j \in Invokers : Treats(j, g)' => j = i
         /\ Kept(g) \subseteq {pid[g]}
<1>1. \A j \in Invokers : Treats(j, g)' => j = i
  BY DEF Crossing
<1>2. \A j \in Invokers : ~Treats(j, g)
  BY <1>1 DEF Others, Treats
<1>3. Kept(g) \subseteq {pid[g]}
  BY <1>2 DEF Tidy, Recorded, Treats
<1>4. QED
  BY <1>1, <1>3

\* The look at a pid file that names no living process leaves no kept agent.
LEMMA NobodyKept ==
  ASSUME NEW g \in Groups, Kept(g) \subseteq {pid[g]}, ~PidAlive(g)
  PROVE  Kept(g) = {}
BY DEF Kept, PidAlive

\* A group treated by one pass, with that pass in hand of what is kept, is tidy.
LEMMA TidyTreated ==
  ASSUME NEW i \in Invokers, NEW g \in Groups,
         (\A j \in Invokers : Treats(j, g) => j = i)',
         \/ (Kept(g) = {})'
         \/ /\ (pc[i] \in {"retire", "record"} /\ Kept(g) \subseteq {hold[i]})'
            /\ (\A r \in Kept(g) : Recorded(g, r))'
  PROVE  Tidy(g)'
BY DEF Tidy

LEMMA TidyPass ==
  ASSUME TypeInv, NEW i \in Invokers, PassStep(i), NEW g \in Groups, Tidy(g),
         strays' = StrayStill, g \notin Crossing'
  PROVE  Tidy(g)'
<1> USE DEF TypeInv, TypeOK, agentVars, fileVars
<1>1. ASSUME LiveRuns(g)' \subseteq LiveRuns(g), pid'[g] = pid[g], Others(i),
             ~(pc[i] = "record" /\ cur[i] = g), ~Treats(i, g)'
      PROVE  Tidy(g)'
  BY <1>1, KeptShrinks, MoveElsewhere
<1>2. ASSUME UNCHANGED <<runs, pid>>, Others(i), pc[i] # "record",
             pc'[i] \notin {"retire", "start", "count", "launch", "record"}
      PROVE  Tidy(g)'
  BY <1>1, <1>2 DEF LiveRuns, Treats
<1>3. ASSUME Abort(i), pid' = pid, pc[i] # "record"
      PROVE  Tidy(g)'
  <2>1. Others(i) /\ pc'[i] = "idle" /\ LiveRuns(g)' \subseteq LiveRuns(g)
    BY <1>3, AbortEffects DEF Others
  <2>2. QED
    BY <1>1, <1>3, <2>1 DEF Treats
<1>4. ASSUME NEW h \in Groups, ReadState(i, h)
      PROVE  Tidy(g)'
  <2>1. CASE Abort(i) /\ UNCHANGED <<log, fileVars>>
    BY <1>3, <1>4, <2>1 DEF ReadState
  <2>2. CASE pid[h] # Garbled
    BY <1>2, <1>4, <2>2 DEF ReadState, Others
  <2>3. QED
    BY <1>4, <2>1, <2>2 DEF ReadState
<1>5. ASSUME NEW h \in Groups, GuardPick(i, h) \/ WatchPick(i, h) \/ NudgePick(i, h)
      PROVE  Tidy(g)'
  <2>1. /\ UNCHANGED <<runs, pid, hold>> /\ pc[i] = "each"
        /\ pc'[i] \in {"each", "nudge"} /\ Others(i)
    BY <1>5 DEF GuardPick, WatchPick, NudgePick, Take, Skip, Others
  <2>2. QED
    BY <1>2, <2>1
<1>6. ASSUME NEW h \in Groups, SpawnPick(i, h)
      PROVE  Tidy(g)'
  <2>1. CASE pid[h] = Garbled
    BY <1>3, <1>6, <2>1 DEF SpawnPick
  <2>2. CASE pid[h] # Garbled /\ PidAlive(h)
    BY <1>2, <1>6, <2>2 DEF SpawnPick, Skip, Others
  <2>3. CASE pid[h] # Garbled /\ ~PidAlive(h)
    <3>1. /\ pc[i] = "each" /\ pc'[i] = "start" /\ cur'[i] = h
          /\ UNCHANGED <<runs, pid>> /\ Others(i)
      BY <1>6, <2>3 DEF SpawnPick, Take, Others
    <3>2. LiveRuns(g)' \subseteq LiveRuns(g)
      BY <3>1 DEF LiveRuns
    <3>3. CASE g # h
      BY <1>1, <3>1, <3>2, <3>3 DEF Treats
    <3>4. CASE g = h
      <4>1. ~Treats(i, g) /\ Treats(i, g)'
        BY <3>1, <3>4 DEF Treats
      <4>2. (\A j \in Invokers : Treats(j, g)' => j = i) /\ Kept(g) \subseteq {pid[g]}
        BY <3>1, <4>1, BeginTreating
      <4>3. Kept(g)' = {}
        BY <2>3, <3>2, <3>4, <4>2, NobodyKept, KeptShrinks
      <4>4. QED
        BY <4>2, <4>3, TidyTreated
    <3>5. QED
      BY <3>3, <3>4
  <2>4. QED
    BY <2>1, <2>2, <2>3
<1>7. CASE GuardRespawns(i) \/ GuardRecovers(i) \/ WatchDecides(i)
             \/ WatchAgain(i) \/ NudgeLimit(i) \/ RetireRefused(i)
  <2>1. /\ UNCHANGED <<runs, pid>> /\ pc[i] # "record"
        /\ pc'[i] \in {"each", "read"} /\ Others(i)
    BY <1>7 DEF GuardRespawns, GuardRecovers, WatchDecides, WatchAgain, NudgeLimit,
                RetireRefused, Resume, Others
  <2>2. QED
    BY <1>2, <2>1
<1>8. CASE FinishPass(i) \/ StartFails(i)
  BY <1>3, <1>8 DEF FinishPass, StartFails
<1>9. CASE NudgeBegin(i)
  <2>1. /\ pc[i] = "nudge" /\ UNCHANGED <<runs, pid, cur>> /\ Others(i)
        /\ cur[i] \in Groups
    BY <1>9 DEF NudgeBegin, Others, PassShape
  <2>2. /\ PidAlive(cur[i]) => pc'[i] = "retire" /\ hold'[i] = pid[cur[i]]
        /\ ~PidAlive(cur[i]) => pc'[i] = "start"
    BY <1>9 DEF NudgeBegin
  <2>3. LiveRuns(g)' \subseteq LiveRuns(g)
    BY <2>1 DEF LiveRuns
  <2>4. CASE g # cur[i]
    BY <1>1, <2>1, <2>3, <2>4 DEF Treats
  <2>5. CASE g = cur[i]
    <3>1. ~Treats(i, g) /\ Treats(i, g)'
      BY <2>1, <2>2, <2>5 DEF Treats
    <3>2. (\A j \in Invokers : Treats(j, g)' => j = i) /\ Kept(g) \subseteq {pid[g]}
      BY <2>1, <3>1, BeginTreating
    <3>3. Kept(g)' \subseteq Kept(g)
      BY <2>3, KeptShrinks
    <3>4. CASE PidAlive(g)
      <4>1. pc'[i] = "retire" /\ Kept(g)' \subseteq {hold'[i]}
        BY <2>2, <2>5, <3>2, <3>3, <3>4
      <4>2. \A r \in Kept(g)' : Recorded(g, r)'
        BY <2>1, <3>2, <3>3 DEF Recorded
      <4>3. QED
        BY <3>2, <4>1, <4>2, TidyTreated
    <3>5. CASE ~PidAlive(g)
      <4>1. Kept(g)' = {}
        BY <3>2, <3>3, <3>5, NobodyKept
      <4>2. QED
        BY <3>2, <4>1, TidyTreated
    <3>6. QED
      BY <3>4, <3>5
  <2>6. QED
    BY <2>4, <2>5
<1>10. CASE MakeWorktree(i) \/ WriteCount(i)
  <2>1. /\ pc[i] \in {"start", "count"} /\ pc'[i] \in {"count", "launch"}
        /\ UNCHANGED <<runs, pid, cur>> /\ Others(i)
    BY <1>10 DEF MakeWorktree, WriteCount, Others
  <2>2. LiveRuns(g)' \subseteq LiveRuns(g)
    BY <2>1 DEF LiveRuns
  <2>3. CASE g # cur[i]
    BY <1>1, <2>1, <2>2, <2>3 DEF Treats
  <2>4. CASE g = cur[i]
    <3>1. Treats(i, g) /\ Treats(i, g)'
      BY <2>1, <2>4 DEF Treats
    <3>2. \A j \in Invokers : Treats(j, g)' => j = i
      BY <3>1 DEF Crossing
    <3>3. Kept(g) = {}
      BY <2>1, <3>1 DEF Tidy
    <3>4. Kept(g)' = {}
      BY <2>2, <3>3, KeptShrinks
    <3>5. QED
      BY <3>2, <3>4, TidyTreated
  <2>5. QED
    BY <2>3, <2>4
<1>11. CASE Retire(i)
  <2>1. /\ pc[i] = "retire" /\ pc'[i] = "start" /\ UNCHANGED <<pid, cur>>
        /\ cur[i] \in Groups /\ hold[i] \in Runs /\ Others(i)
        /\ runs' = [runs EXCEPT ![cur[i]][hold[i]] = "free"]
    BY <1>11 DEF Retire, Others, PassShape
  <2>2. LiveRuns(g)' \subseteq LiveRuns(g)
    BY <2>1 DEF LiveRuns
  <2>3. CASE g # cur[i]
    BY <1>1, <2>1, <2>2, <2>3 DEF Treats
  <2>4. CASE g = cur[i]
    <3>1. Treats(i, g) /\ Treats(i, g)'
      BY <2>1, <2>4 DEF Treats
    <3>2. \A j \in Invokers : Treats(j, g)' => j = i
      BY <3>1 DEF Crossing
    <3>3. Kept(g) \subseteq {hold[i]}
      BY <2>1, <3>1 DEF Tidy
    <3>4. hold[i] \notin LiveRuns(g)'
      BY <2>1, <2>4 DEF LiveRuns
    <3>5. Kept(g)' = {}
      BY <2>2, <3>3, <3>4, KeptShrinks DEF Kept
    <3>6. QED
      BY <3>2, <3>5, TidyTreated
  <2>5. QED
    BY <2>3, <2>4
<1>12. ASSUME NEW r \in Runs, StartAgent(i, r)
       PROVE  Tidy(g)'
  <2>1. /\ pc[i] = "launch" /\ pc'[i] = "record" /\ hold'[i] = r
        /\ UNCHANGED <<pid, cur>> /\ cur[i] \in Groups /\ Others(i)
        /\ runs' = [runs EXCEPT ![cur[i]][r] = "booting"]
    BY <1>12 DEF StartAgent, Others, PassShape
  <2>2. CASE g # cur[i]
    <3>1. LiveRuns(g)' \subseteq LiveRuns(g)
      BY <2>1, <2>2 DEF LiveRuns
    <3>2. QED
      BY <1>1, <2>1, <2>2, <3>1 DEF Treats
  <2>3. CASE g = cur[i]
    <3>1. Treats(i, g) /\ Treats(i, g)'
      BY <2>1, <2>3 DEF Treats
    <3>2. \A j \in Invokers : Treats(j, g)' => j = i
      BY <3>1 DEF Crossing
    <3>3. Kept(g) = {}
      BY <2>1, <3>1 DEF Tidy
    <3>4. LiveRuns(g)' \subseteq LiveRuns(g) \cup {r}
      BY <2>1, <2>3 DEF LiveRuns
    <3>5. ASSUME NEW s \in Kept(g)', s # r
          PROVE  FALSE
      <4>1. s \in LiveRuns(g)' /\ s \in LiveRuns(g) /\ <<g, s>> \notin strays'
        BY <3>4, <3>5 DEF Kept
      <4>2. <<g, s>> \notin strays
        BY <4>1 DEF StrayStill
      <4>3. QED
        BY <3>3, <4>1, <4>2 DEF Kept
    <3>6. Kept(g)' \subseteq {hold'[i]}
      BY <2>1, <3>5
    <3>7. Recorded(g, r)'
      BY <2>1, <2>3 DEF Recorded
    <3>8. QED
      BY <2>1, <3>2, <3>5, <3>6, <3>7, TidyTreated
  <2>4. QED
    BY <2>2, <2>3
<1>13. CASE RecordPid(i)
  <2>1. /\ pc[i] = "record" /\ pc'[i] = "each" /\ UNCHANGED runs
        /\ cur[i] \in Groups /\ Others(i)
        /\ pid' = [pid EXCEPT ![cur[i]] = hold[i]]
    BY <1>13 DEF RecordPid, Resume, Others, PassShape
  <2>2. LiveRuns(g)' \subseteq LiveRuns(g)
    BY <2>1 DEF LiveRuns
  <2>3. CASE g # cur[i]
    BY <1>1, <2>1, <2>2, <2>3 DEF Treats
  <2>4. CASE g = cur[i]
    <3>1. Treats(i, g) /\ \A j \in Invokers : Treats(j, g) => j = i
      BY <2>1, <2>4 DEF Treats, Tidy
    <3>2. \A j \in Invokers : ~Treats(j, g)'
      BY <2>1, <3>1 DEF Treats, Others
    <3>3. Kept(g)' \subseteq {hold[i]}
      BY <2>1, <2>2, <3>1, KeptShrinks DEF Tidy
    <3>4. \A r \in Kept(g)' : Recorded(g, r)'
      BY <2>1, <2>4, <3>3 DEF Recorded
    <3>5. QED
      BY <3>2, <3>4 DEF Tidy
  <2>5. QED
    BY <2>3, <2>4
<1>14. QED
  BY <1>4, <1>5, <1>6, <1>7, <1>8, <1>9, <1>10, <1>11, <1>12, <1>13 DEF PassStep

\* A stop and a fault move no pass on: what they leave unrecorded becomes a stray.
LEMMA TidyLoss ==
  ASSUME TypeInv, NEW i \in Invokers, StopStep(i) \/ FaultStep(i),
         NEW g \in Groups, Tidy(g), strays' = StrayStill \cup (Unrecorded' \ Unrecorded)
  PROVE  Tidy(g)'
<1> USE DEF TypeInv, TypeOK, agentVars, fileVars
<1>1. /\ LiveRuns(g)' \subseteq LiveRuns(g) /\ Others(i)
      /\ \/ ~Treats(i, g)'
         \/ pc'[i] = pc[i] /\ cur'[i] = cur[i] /\ hold'[i] = hold[i]
  <2>1. ASSUME Abort(i)
        PROVE  LiveRuns(g)' \subseteq LiveRuns(g) /\ Others(i) /\ ~Treats(i, g)'
    BY <2>1, AbortEffects DEF Others, Treats
  <2>2. CASE BeginStop(i) \/ BeginButton(i)
    BY <2>2 DEF BeginStop, BeginButton, Begin, Others, Treats, LiveRuns
  <2>3. ASSUME NEW h \in Groups, StopPick(i, h)
        PROVE  Abort(i) \/ UNCHANGED <<runs, pc, cur, hold>>
    BY <2>3 DEF StopPick, Skip
  <2>4. ASSUME NEW h \in Groups, ButtonPick(i, h)
        PROVE  UNCHANGED <<runs, pc, cur, hold>>
    BY <2>4 DEF ButtonPick, Skip
  <2>5. CASE FaultStep(i)
    <3>1. Abort(i)
      BY <2>5 DEF FaultStep, Crash, NudgeGarbled, RecordFails, CountFails,
                 RespawnFails
    <3>2. QED
      BY <2>1, <3>1
  <2>6. CASE UNCHANGED <<runs, pc, cur, hold>>
    BY <2>6 DEF Others, LiveRuns
  <2>7. QED
    BY <2>1, <2>2, <2>3, <2>4, <2>5, <2>6 DEF StopStep
<1>2. Kept(g)' \subseteq Kept(g)
  BY <1>1, KeptShrinks
<1>3. ASSUME NEW r \in Kept(g)', ~Recorded(g, r)'
      PROVE  FALSE
  <2>1. r \in Runs /\ r \in LiveRuns(g)' /\ r \in LiveRuns(g)
    BY <1>1, <1>3 DEF Kept, LiveRuns
  <2>2. <<g, r>> \in Unrecorded'
    BY <1>3, <2>1 DEF Unrecorded
  <2>3. Recorded(g, r)
    BY <1>2, <1>3 DEF Tidy
  <2>4. <<g, r>> \notin Unrecorded
    BY <2>3 DEF Unrecorded
  <2>5. QED
    BY <1>3, <2>2, <2>4 DEF Kept
<1>4. \A j \in Invokers : Treats(j, g)' =>
        Treats(j, g) /\ pc'[j] = pc[j] /\ hold'[j] = hold[j]
  BY <1>1 DEF Others, Treats
<1>5. QED
  BY <1>2, <1>3, <1>4 DEF Tidy

LEMMA OrderlyStep ==
  ASSUME HInv, [HNext]_hVars
  PROVE  Orderly'
<1> USE DEF HInv
<1>1. CASE UNCHANGED hVars
  <2>1. UNCHANGED <<runs, pid, pc, cur, hold, strays, crossed>>
    BY <1>1 DEF hVars, vars, agentVars, fileVars, passVars
  <2>2. \A g \in Groups : Kept(g)' = Kept(g)
    BY <2>1 DEF Kept, LiveRuns
  <2>3. \A g \in Groups : Tidy(g) => Tidy(g)'
    BY <2>1, <2>2 DEF Tidy, Treats, Recorded
  <2>4. QED
    BY <2>1, <2>3 DEF Orderly
<1>2. CASE HNext
  <2>1. crossed' = CrossedStill
    BY <1>2 DEF HNext, Ordinary, Loses
  <2> SUFFICES ASSUME NEW g \in Groups, g \notin crossed'
               PROVE  Tidy(g)'
    BY DEF Orderly
  <2>2. CASE g \in Deserted'
    BY <2>2 DEF Deserted, Tidy, Kept
  <2>3. CASE g \notin Deserted'
    <3>1. Tidy(g) /\ g \notin Crossing'
      BY <2>1, <2>3 DEF CrossedStill, Orderly
    <3>2. CASE Loses
      BY <3>1, <3>2, TidyLoss DEF Loses
    <3>3. ASSUME strays' = StrayStill, LiveRuns(g)' \subseteq LiveRuns(g),
                 UNCHANGED <<pid, pc, cur, hold>>
          PROVE  Tidy(g)'
      <4>1. Kept(g)' \subseteq Kept(g)
        BY <3>3, KeptShrinks
      <4>2. QED
        BY <3>1, <3>3, <4>1 DEF Tidy, Treats, Recorded
    <3>4. CASE Ordinary
      <4>1. strays' = StrayStill
        BY <3>4 DEF Ordinary
      <4>2. CASE Agents
        BY <3>3, <4>1, <4>2, AgentsEffects DEF fileVars, passVars
      <4>3. ASSUME NEW h \in Groups, CleanTmp(h)
            PROVE  Tidy(g)'
        BY <3>3, <4>1, <4>3 DEF CleanTmp, agentVars, passVars, LiveRuns
      <4>4. CASE Reboot
        BY <4>4 DEF Reboot, Tidy, Kept, LiveRuns, Treats
      <4>5. ASSUME NEW i \in Invokers, BeginPass(i)
            PROVE  Tidy(g)'
        <5>1. /\ pc[i] = "idle" /\ pc'[i] \in {"read", "each"}
              /\ UNCHANGED <<runs, pid>> /\ Others(i)
          BY <4>5, BeginForm DEF Begin, agentVars, fileVars, Others, TypeInv, TypeOK
        <5>2. QED
          BY <3>1, <4>1, <5>1, KeptShrinks, MoveElsewhere DEF LiveRuns, Treats
      <4>6. ASSUME NEW i \in Invokers, PassStep(i)
            PROVE  Tidy(g)'
        BY <3>1, <4>1, <4>6, TidyPass
      <4>7. QED
        BY <3>4, <4>2, <4>3, <4>4, <4>5, <4>6 DEF Ordinary, QuietNext, SteadyNext
    <3>5. QED
      BY <1>2, <3>2, <3>4 DEF HNext
  <2>4. QED
    BY <2>2, <2>3
<1>3. QED
  BY <1>1, <1>2

\* Whatever passes overlap, are killed, stopped or cut short by a full disk: unless
\* two passes have treated its group at one time, an agent that no stop and no fault
\* has made a stray is recorded, and is alone in its worktree.
THEOREM OthersAreKept == HSpec => []OnlyStraysEscape
<1>1. HInit => HInv
  BY InitType DEF HInit, HInv, Orderly, Tidy, Init, Kept, LiveRuns, Treats
<1>2. HInv /\ [HNext]_hVars => HInv'
  <2>1. [HNext]_hVars => [Next]_vars
    BY DEF HNext, Ordinary, Loses, Next, hVars
  <2>2. QED
    BY <2>1, NextType, OrderlyStep DEF HInv
<1>3. HInv => OnlyStraysEscape
  BY DEF HInv, Orderly, OnlyStraysEscape, Tidy, Recorded, Treats
<1>4. QED
  BY <1>1, <1>2, <1>3, PTL DEF HSpec
=============================================================================
