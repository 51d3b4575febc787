----------------------------- MODULE Supervisor -----------------------------
(***************************************************************************)
(* scripts/orchestration/supervise.py: one headless agent session per work *)
(* group, each in its own git worktree, kept alive by short supervisor     *)
(* passes.  A pass is one invocation of the script (guard, spawn, nudge,   *)
(* watch or stop) or of the dashboard's stop button.  Nothing locks two    *)
(* passes against each other: the guard is started by a timer, by the      *)
(* dashboard's other button and by hand.                                   *)
(*                                                                         *)
(* A pass interleaves with agents and with other passes between reading    *)
(* one group's state, deciding, retiring the old agent, making its         *)
(* worktree, writing the nudge count, starting the new agent and recording *)
(* its pid; what lies between two such points neither waits nor forks and  *)
(* is one step.                                                            *)
(***************************************************************************)
EXTENDS Naturals, FiniteSets

CONSTANTS
  Groups,      (* work groups, one worktree each                           *)
  Runs,        (* process identifiers a group's agents can have            *)
  Timers,      (* invokers that only ever start a guard pass               *)
  Operators,   (* invokers that may start any command                      *)
  Units,       (* invokers inside a oneshot unit that kills its cgroup     *)
  MaxNudges,   (* MAX_NUDGES                                               *)
  NoFile,      (* there is no pid file                                     *)
  Garbled,     (* a pid or nudges file that exists and holds no number     *)
  None         (* an invoker's unused group or run                         *)

Invokers == Timers \cup Operators

ASSUME ConstantsAssumption ==
  /\ MaxNudges \in Nat
  /\ Units \subseteq Invokers
  /\ \A u, v \in Units : u = v
  /\ NoFile \notin Runs /\ Garbled \notin Runs /\ NoFile # Garbled
  /\ None \notin Groups /\ None \notin Runs
  /\ None # NoFile /\ None # Garbled
  /\ Garbled \notin Nat

VARIABLES
  runs,     (* runs[g][r]: phase of the agent process r of group g         *)
  caged,    (* processes that live in the cgroup of a oneshot unit         *)
  pid,      (* the pid file                                                *)
  nudges,   (* the nudges file; an absent file reads as 0                  *)
  log,      (* what events() keeps of events.jsonl                         *)
  wt,       (* does the worktree directory exist                           *)
  op,       (* command an invoker runs                                     *)
  pc,       (* where it stands                                             *)
  seen,     (* the states it has read                                      *)
  todo,     (* groups it still has to treat                                *)
  cur,      (* group it is treating                                        *)
  budget,   (* nudge count it read                                         *)
  hold,     (* pid it is retiring, or has started and not yet recorded     *)
  retried   (* groups a watch has nudged already                           *)

agentVars == <<runs, caged, log>>
fileVars  == <<pid, nudges, wt>>
passVars  == <<op, pc, seen, todo, cur, budget, hold, retried>>
vars      == <<agentVars, fileVars, passVars>>

-----------------------------------------------------------------------------
(* Processes and the event log.                                            *)

Phases   == {"free", "booting", "working", "ending"}
Statuses == {"never", "running", "stuck", "done", "error", "dead"}
Commands == {"idle", "guard", "spawn", "nudge", "watch", "stop", "button"}
Places   == {"idle", "read", "decide", "each", "nudge", "retire",
             "start", "count", "launch", "record"}

\* What state() can tell of the events after the last agent_start: "ok" and
\* "bad" once there is a terminal event, whatever surrounds it; else whether
\* there is an event, whether one of them is an error (Err), and whether the
\* newest is younger ("fresh") or older ("stale") than STUCK_MIN.
LogView == {"empty", "fresh", "freshErr", "stale", "staleErr", "ok", "bad"}

\* The log after one more event, and after one more error event.
AfterEvent == [v \in LogView |->
                 CASE v \in {"ok", "bad"}            -> v
                   [] v \in {"freshErr", "staleErr"} -> "freshErr"
                   [] OTHER                          -> "fresh"]
AfterError == [v \in LogView |-> IF v \in {"ok", "bad"} THEN v ELSE "freshErr"]

LiveRuns(g) == {r \in Runs : runs[g][r] # "free"}

\* pid_alive of the recorded pid; a zombie counts as dead.
PidAlive(g) == pid[g] \in LiveRuns(g)

\* state(): the verdict on a group, from its log and its process.
IfAlive == [empty    |-> "running", fresh |-> "running", stale    |-> "stuck",
            freshErr |-> "running", ok    |-> "done",    staleErr |-> "error",
            bad      |-> "error"]
IfGone  == [empty    |-> "dead",    fresh |-> "running", stale    |-> "dead",
            freshErr |-> "error",   ok    |-> "done",    staleErr |-> "error",
            bad      |-> "error"]

Status(g) ==
  IF pid[g] = NoFile THEN "never"
  ELSE IF PidAlive(g) THEN IfAlive[log[g]] ELSE IfGone[log[g]]

\* A pid the kernel may hand out: of no live process, and referred to by
\* neither a pid file nor a pass.
FreshRuns(g) ==
  {r \in Runs : /\ runs[g][r] = "free"
                /\ r # pid[g]
                /\ \A i \in Invokers : ~(cur[i] = g /\ hold[i] = r)}

Init ==
  /\ runs    = [g \in Groups |-> [r \in Runs |-> "free"]]
  /\ caged   = {}
  /\ pid     = [g \in Groups |-> NoFile]
  /\ nudges  = [g \in Groups |-> 0]
  /\ log     = [g \in Groups |-> "empty"]
  /\ wt      = [g \in Groups |-> FALSE]
  /\ op      = [i \in Invokers |-> "idle"]
  /\ pc      = [i \in Invokers |-> "idle"]
  /\ seen    = [i \in Invokers |-> [g \in Groups |-> "never"]]
  /\ todo    = [i \in Invokers |-> {}]
  /\ cur     = [i \in Invokers |-> None]
  /\ budget  = [i \in Invokers |-> 0]
  /\ hold    = [i \in Invokers |-> None]
  /\ retried = [i \in Invokers |-> {}]

-----------------------------------------------------------------------------
(* What an agent process does.  SIGTERM only asks: an agent may exit at    *)
(* any moment, with or without a signal, with or without a last event.     *)

AgentStart(g, r) ==
  /\ runs[g][r] = "booting"
  /\ runs' = [runs EXCEPT ![g][r] = "working"]
  /\ log'  = [log EXCEPT ![g] = "fresh"]
  /\ UNCHANGED <<caged, fileVars, passVars>>

AgentEvent(g, r) ==
  /\ runs[g][r] = "working"
  /\ log' = [log EXCEPT ![g] = AfterEvent[@]]
  /\ UNCHANGED <<runs, caged, fileVars, passVars>>

AgentError(g, r) ==
  /\ runs[g][r] \in {"booting", "working"}
  /\ log' = [log EXCEPT ![g] = AfterError[@]]
  /\ UNCHANGED <<runs, caged, fileVars, passVars>>

\* The last event of a run; its process lingers until it exits.
AgentFinish(g, r, verdict) ==
  /\ runs[g][r] = "working"
  /\ runs' = [runs EXCEPT ![g][r] = "ending"]
  /\ log'  = [log EXCEPT ![g] = verdict]
  /\ UNCHANGED <<caged, fileVars, passVars>>

AgentExit(g, r) ==
  /\ runs[g][r] # "free"
  /\ runs'  = [runs EXCEPT ![g][r] = "free"]
  /\ caged' = caged \ {<<g, r>>}
  /\ UNCHANGED <<log, fileVars, passVars>>

\* STUCK_MIN minutes without an event.
GoIdle(g) ==
  /\ log[g] \in {"fresh", "freshErr"}
  /\ log' = [log EXCEPT ![g] = IF @ = "fresh" THEN "stale" ELSE "staleErr"]
  /\ UNCHANGED <<runs, caged, fileVars, passVars>>

Agents ==
  \E g \in Groups :
    \/ GoIdle(g)
    \/ \E r \in Runs :
         \/ AgentStart(g, r)
         \/ AgentEvent(g, r)
         \/ AgentError(g, r)
         \/ \E verdict \in {"ok", "bad"} : AgentFinish(g, r, verdict)
         \/ AgentExit(g, r)

-----------------------------------------------------------------------------
(* Starting and ending a pass.                                             *)

\* A pass returns to idle, by finishing or by dying on an exception.
Drop(i) ==
  /\ op'      = [op      EXCEPT ![i] = "idle"]
  /\ pc'      = [pc      EXCEPT ![i] = "idle"]
  /\ seen'    = [seen    EXCEPT ![i] = [g \in Groups |-> "never"]]
  /\ todo'    = [todo    EXCEPT ![i] = {}]
  /\ cur'     = [cur     EXCEPT ![i] = None]
  /\ budget'  = [budget  EXCEPT ![i] = 0]
  /\ hold'    = [hold    EXCEPT ![i] = None]
  /\ retried' = [retried EXCEPT ![i] = {}]

\* The unit of a pass goes inactive with it, and systemd then kills what is
\* left in its cgroup; KillMode is not set, so that is every agent it started.
UnitStops(i) ==
  IF i \in Units
    THEN /\ runs'  = [g \in Groups |-> [r \in Runs |->
                        IF <<g, r>> \in caged THEN "free" ELSE runs[g][r]]]
         /\ caged' = {}
    ELSE UNCHANGED <<runs, caged>>

Abort(i) == Drop(i) /\ UnitStops(i)

Begin(i, command, place, G) ==
  /\ pc[i] = "idle"
  /\ op'   = [op   EXCEPT ![i] = command]
  /\ pc'   = [pc   EXCEPT ![i] = place]
  /\ todo' = [todo EXCEPT ![i] = G]
  /\ UNCHANGED <<agentVars, fileVars, seen, cur, budget, hold, retried>>

BeginGuard(i)    == Begin(i, "guard", "read", Groups)
BeginWatch(i)    == i \in Operators /\ Begin(i, "watch", "read", Groups)
BeginSpawn(i, G) == i \in Operators /\ Begin(i, "spawn", "each", G)
BeginStop(i)     == i \in Operators /\ Begin(i, "stop", "each", Groups)
BeginButton(i)   == i \in Operators /\ Begin(i, "button", "each", Groups)
BeginNudge(i, g) == i \in Operators /\ Begin(i, "nudge", "each", {g})

\* One iteration of the loop over GROUPS that snapshots the states.  A pid
\* file with no number in it raises out of state().
ReadState(i, g) ==
  /\ pc[i] = "read" /\ g \in todo[i]
  /\ \/ /\ pid[g] = Garbled
        /\ Abort(i)
        /\ UNCHANGED <<log, fileVars>>
     \/ /\ pid[g] # Garbled
        /\ seen' = [seen EXCEPT ![i][g] = Status(g)]
        /\ todo' = [todo EXCEPT ![i] = @ \ {g}]
        /\ pc'   = [pc EXCEPT ![i] = IF todo[i] = {g} THEN "decide" ELSE "read"]
        /\ UNCHANGED <<agentVars, fileVars, op, cur, budget, hold, retried>>

Alight(i) == {g \in Groups : seen[i][g] \in {"running", "stuck"}}

\* Nothing is live: every budget is reset and the whole team is spawned.  The
\* states read are not looked at again.
GuardRespawns(i) ==
  /\ pc[i] = "decide" /\ op[i] = "guard" /\ Alight(i) = {}
  /\ nudges' = [g \in Groups |-> 0]
  /\ op'     = [op   EXCEPT ![i] = "spawn"]
  /\ pc'     = [pc   EXCEPT ![i] = "each"]
  /\ todo'   = [todo EXCEPT ![i] = Groups]
  /\ seen'   = [seen EXCEPT ![i] = [g \in Groups |-> "never"]]
  /\ UNCHANGED <<agentVars, pid, wt, cur, budget, hold, retried>>

GuardRecovers(i) ==
  /\ pc[i] = "decide" /\ op[i] = "guard" /\ Alight(i) # {}
  /\ pc'   = [pc   EXCEPT ![i] = "each"]
  /\ todo' = [todo EXCEPT ![i] = Groups \ Alight(i)]
  /\ UNCHANGED <<agentVars, fileVars, op, seen, cur, budget, hold, retried>>

WatchDecides(i) ==
  /\ pc[i] = "decide" /\ op[i] = "watch"
  /\ pc'   = [pc EXCEPT ![i] = "each"]
  /\ todo' = [todo EXCEPT ![i] =
               {g \in Groups : seen[i][g] \in {"stuck", "error", "dead"}}
                 \ retried[i]]
  /\ UNCHANGED <<agentVars, fileVars, op, seen, cur, budget, hold, retried>>

\* The loop is over.  A watch polls again unless it saw every group done.
FinishPass(i) ==
  /\ pc[i] = "each" /\ todo[i] = {}
  /\ op[i] = "watch" => \A g \in Groups : seen[i][g] = "done"
  /\ Abort(i)
  /\ UNCHANGED <<log, fileVars>>

WatchAgain(i) ==
  /\ pc[i] = "each" /\ todo[i] = {} /\ op[i] = "watch"
  /\ \E g \in Groups : seen[i][g] # "done"
  /\ pc'   = [pc   EXCEPT ![i] = "read"]
  /\ todo' = [todo EXCEPT ![i] = Groups]
  /\ UNCHANGED <<agentVars, fileVars, op, seen, cur, budget, hold, retried>>

-----------------------------------------------------------------------------
(* Treating one group.                                                     *)

Take(i, g, place) ==
  /\ pc'   = [pc   EXCEPT ![i] = place]
  /\ cur'  = [cur  EXCEPT ![i] = g]
  /\ todo' = [todo EXCEPT ![i] = @ \ {g}]

Skip(i, g) ==
  /\ todo' = [todo EXCEPT ![i] = @ \ {g}]
  /\ UNCHANGED <<pc, cur>>

\* Back to the loop over the groups.
Resume(i) ==
  /\ pc'     = [pc     EXCEPT ![i] = "each"]
  /\ cur'    = [cur    EXCEPT ![i] = None]
  /\ budget' = [budget EXCEPT ![i] = 0]
  /\ hold'   = [hold   EXCEPT ![i] = None]

\* Mutant: the guard recovers only the groups it saw in error.
GuardPickErrorOnly(i, g) ==
  /\ pc[i] = "each" /\ op[i] = "guard" /\ g \in todo[i]
  /\ IF seen[i][g] = "error" THEN Take(i, g, "nudge") ELSE Skip(i, g)
  /\ UNCHANGED <<agentVars, fileVars, op, seen, budget, hold, retried>>

\* The guard leaves a live process alone unless its run was seen completed.
GuardPick(i, g) ==
  /\ pc[i] = "each" /\ op[i] = "guard" /\ g \in todo[i]
  /\ IF ~PidAlive(g) \/ seen[i][g] = "done"
       THEN Take(i, g, "nudge")
       ELSE Skip(i, g)
  /\ UNCHANGED <<agentVars, fileVars, op, seen, budget, hold, retried>>

WatchPick(i, g) ==
  /\ pc[i] = "each" /\ op[i] = "watch" /\ g \in todo[i]
  /\ Take(i, g, "nudge")
  /\ retried' = [retried EXCEPT ![i] = @ \cup {g}]
  /\ UNCHANGED <<agentVars, fileVars, op, seen, budget, hold>>

NudgePick(i, g) ==
  /\ pc[i] = "each" /\ op[i] = "nudge" /\ g \in todo[i]
  /\ Take(i, g, "nudge")
  /\ UNCHANGED <<agentVars, fileVars, op, seen, budget, hold, retried>>

SpawnPick(i, g) ==
  /\ pc[i] = "each" /\ op[i] = "spawn" /\ g \in todo[i]
  /\ \/ /\ pid[g] = Garbled
        /\ Abort(i)
        /\ UNCHANGED <<log, fileVars>>
     \/ /\ pid[g] # Garbled
        /\ IF PidAlive(g) THEN Skip(i, g) ELSE Take(i, g, "start")
        /\ UNCHANGED <<agentVars, fileVars, op, seen, budget, hold, retried>>

\* Signals the recorded agent and forgets it, whether or not it dies.
StopPick(i, g) ==
  /\ pc[i] = "each" /\ op[i] = "stop" /\ g \in todo[i]
  /\ \/ /\ pid[g] = Garbled
        /\ Abort(i)
        /\ UNCHANGED <<log, fileVars>>
     \/ /\ pid[g] # Garbled
        /\ pid' = [pid EXCEPT ![g] = NoFile]
        /\ Skip(i, g)
        /\ UNCHANGED <<agentVars, nudges, wt, op, seen, budget, hold, retried>>

\* The dashboard's stop button: it signals every agent and every watch it finds, each of which
\* dies then or later (AgentExit, Crash), and forgets the pid and the count of every group,
\* whatever they are and whether or not a pass is at work on it.
ButtonPick(i, g) ==
  /\ pc[i] = "each" /\ op[i] = "button" /\ g \in todo[i]
  /\ pid'    = [pid    EXCEPT ![g] = NoFile]
  /\ nudges' = [nudges EXCEPT ![g] = 0]
  /\ Skip(i, g)
  /\ UNCHANGED <<agentVars, wt, op, seen, budget, hold, retried>>

\* nudge() up to the SIGTERM: the limit, then the process to retire, if any.
NudgeLimit(i) ==
  /\ pc[i] = "nudge" /\ nudges[cur[i]] # Garbled /\ nudges[cur[i]] >= MaxNudges
  /\ Resume(i)
  /\ UNCHANGED <<agentVars, fileVars, op, seen, todo, retried>>

\* int('') of a count file that was cut raises out of nudge().
NudgeGarbled(i) ==
  /\ pc[i] = "nudge" /\ nudges[cur[i]] = Garbled
  /\ Abort(i)
  /\ UNCHANGED <<log, fileVars>>

MayNudge(g) == nudges[g] # Garbled /\ nudges[g] < MaxNudges

\* Mutant: the old agent is not retired.
NudgeBeginAlongside(i) ==
  /\ pc[i] = "nudge" /\ MayNudge(cur[i])
  /\ budget' = [budget EXCEPT ![i] = nudges[cur[i]]]
  /\ pc'     = [pc     EXCEPT ![i] = "start"]
  /\ UNCHANGED <<agentVars, fileVars, op, seen, todo, cur, hold, retried>>

\* Mutant: the limit is off by one.
NudgeBeginOnceMore(i) ==
  LET g == cur[i]
  IN /\ pc[i] = "nudge" /\ nudges[g] # Garbled /\ nudges[g] <= MaxNudges
     /\ budget' = [budget EXCEPT ![i] = nudges[g]]
     /\ pc'     = [pc     EXCEPT ![i] = IF PidAlive(g) THEN "retire" ELSE "start"]
     /\ hold'   = [hold   EXCEPT ![i] = IF PidAlive(g) THEN pid[g] ELSE @]
     /\ UNCHANGED <<agentVars, fileVars, op, seen, todo, cur, retried>>

NudgeBegin(i) ==
  LET g == cur[i]
  IN /\ pc[i] = "nudge" /\ MayNudge(g)
     /\ budget' = [budget EXCEPT ![i] = nudges[g]]
     /\ IF PidAlive(g)
          THEN /\ pc'   = [pc   EXCEPT ![i] = "retire"]
               /\ hold' = [hold EXCEPT ![i] = pid[g]]
          ELSE /\ pc'   = [pc   EXCEPT ![i] = "start"]
               /\ UNCHANGED hold
     /\ UNCHANGED <<agentVars, fileVars, op, seen, todo, cur, retried>>

\* SIGTERM, five seconds of grace, SIGKILL: the old process is dead.
Retire(i) ==
  LET g == cur[i]
  IN /\ pc[i] = "retire"
     /\ runs'  = [runs EXCEPT ![g][hold[i]] = "free"]
     /\ caged' = caged \ {<<g, hold[i]>>}
     /\ pc'    = [pc   EXCEPT ![i] = "start"]
     /\ hold'  = [hold EXCEPT ![i] = None]
     /\ UNCHANGED <<log, fileVars, op, seen, todo, cur, budget, retried>>

\* It outlived SIGKILL (uninterruptible sleep): no second agent is started.
RetireRefused(i) ==
  /\ pc[i] = "retire" /\ hold[i] \in LiveRuns(cur[i])
  /\ Resume(i)
  /\ UNCHANGED <<agentVars, fileVars, op, seen, todo, retried>>

\* ensure_worktree: the directory is there already or `git worktree add` makes it.
MakeWorktree(i) ==
  /\ pc[i] = "start"
  /\ wt' = [wt EXCEPT ![cur[i]] = TRUE]
  /\ pc' = [pc EXCEPT ![i] = IF op[i] = "spawn" THEN "launch" ELSE "count"]
  /\ UNCHANGED <<agentVars, pid, nudges, op, seen, todo, cur, budget, hold, retried>>

\* A nudge is spent before its agent is launched.
WriteCount(i) ==
  /\ pc[i] = "count"
  /\ nudges' = [nudges EXCEPT ![cur[i]] = budget[i] + 1]
  /\ pc'     = [pc     EXCEPT ![i] = "launch"]
  /\ UNCHANGED <<agentVars, pid, wt, op, seen, todo, cur, budget, hold, retried>>

\* Popen.
StartAgent(i, r) ==
  LET g == cur[i]
  IN /\ pc[i] = "launch" /\ r \in FreshRuns(g)
     /\ runs'  = [runs EXCEPT ![g][r] = "booting"]
     /\ caged' = IF i \in Units THEN caged \cup {<<g, r>>} ELSE caged
     /\ hold'  = [hold EXCEPT ![i] = r]
     /\ pc'    = [pc   EXCEPT ![i] = "record"]
     /\ UNCHANGED <<log, fileVars, op, seen, todo, cur, budget, retried>>

\* `git worktree add` fails: the exception ends the pass for every group.
StartFails(i) ==
  /\ pc[i] = "start" /\ ~wt[cur[i]]
  /\ Abort(i)
  /\ UNCHANGED <<log, fileVars>>

\* Mutant: the process in hand is forgotten before its pid is written.
RecordPidLate(i) ==
  /\ pc[i] = "record"
  /\ Resume(i)
  /\ pid' = [pid EXCEPT ![cur[i]] = hold'[i]]
  /\ UNCHANGED <<agentVars, nudges, wt, op, seen, todo, retried>>

\* Mutant: only a spawn records the pid.
RecordPidOfSpawn(i) ==
  /\ pc[i] = "record"
  /\ IF op[i] = "spawn"
       THEN /\ pid'    = [pid    EXCEPT ![cur[i]] = hold[i]]
            /\ nudges' = [nudges EXCEPT ![cur[i]] = 0]
       ELSE UNCHANGED <<pid, nudges>>
  /\ Resume(i)
  /\ UNCHANGED <<agentVars, wt, op, seen, todo, retried>>

RecordPid(i) ==
  LET g == cur[i]
  IN /\ pc[i] = "record"
     /\ pid'    = [pid EXCEPT ![g] = hold[i]]
     /\ nudges' = IF op[i] = "spawn" THEN [nudges EXCEPT ![g] = 0] ELSE nudges
     /\ Resume(i)
     /\ UNCHANGED <<agentVars, wt, op, seen, todo, retried>>

-----------------------------------------------------------------------------
(* Faults: a pass that dies between two steps, killed or on an exception   *)
(* (cline is missing); a write that a full /tmp or a kill cuts after the   *)
(* open has emptied the file; a cleaner that removes a worktree directory; *)
(* a reboot that wipes /tmp with everything in it.                         *)

Crash(i) ==
  /\ pc[i] # "idle"
  /\ Abort(i)
  /\ UNCHANGED <<log, fileVars>>

\* The pid file is cut; or, in a spawn, it is whole and the count's write is cut or never begun.
RecordFails(i) ==
  LET g == cur[i]
  IN /\ pc[i] = "record"
     /\ \/ /\ pid' = [pid EXCEPT ![g] = Garbled]
           /\ UNCHANGED nudges
        \/ /\ op[i] = "spawn"
           /\ pid'    = [pid EXCEPT ![g] = hold[i]]
           /\ nudges' \in {nudges, [nudges EXCEPT ![g] = Garbled]}
     /\ Abort(i)
     /\ UNCHANGED <<log, wt>>

CountFails(i) ==
  /\ pc[i] = "count"
  /\ nudges' = [nudges EXCEPT ![cur[i]] = Garbled]
  /\ Abort(i)
  /\ UNCHANGED <<log, pid, wt>>

\* The reset of the budgets breaks off at the write of one group's file.
RespawnFails(i, g) ==
  /\ pc[i] = "decide" /\ op[i] = "guard" /\ Alight(i) = {}
  /\ \E reset \in SUBSET (Groups \ {g}) :
       nudges' = [h \in Groups |-> IF h = g THEN Garbled
                                  ELSE IF h \in reset THEN 0 ELSE nudges[h]]
  /\ Abort(i)
  /\ UNCHANGED <<log, pid, wt>>

CleanTmp(g) ==
  /\ wt[g]
  /\ wt' = [wt EXCEPT ![g] = FALSE]
  /\ UNCHANGED <<agentVars, pid, nudges, passVars>>

Reboot ==
  /\ runs'    = [g \in Groups |-> [r \in Runs |-> "free"]]
  /\ caged'   = {}
  /\ pid'     = [g \in Groups |-> NoFile]
  /\ nudges'  = [g \in Groups |-> 0]
  /\ log'     = [g \in Groups |-> "empty"]
  /\ wt'      = [g \in Groups |-> FALSE]
  /\ op'      = [i \in Invokers |-> "idle"]
  /\ pc'      = [i \in Invokers |-> "idle"]
  /\ seen'    = [i \in Invokers |-> [g \in Groups |-> "never"]]
  /\ todo'    = [i \in Invokers |-> {}]
  /\ cur'     = [i \in Invokers |-> None]
  /\ budget'  = [i \in Invokers |-> 0]
  /\ hold'    = [i \in Invokers |-> None]
  /\ retried' = [i \in Invokers |-> {}]

-----------------------------------------------------------------------------
(* The steps of a pass, of a stop, and what may cut either short.         *)

PassStep(i) ==
  \/ GuardRespawns(i) \/ GuardRecovers(i) \/ WatchDecides(i)
  \/ FinishPass(i) \/ WatchAgain(i)
  \/ NudgeLimit(i) \/ NudgeBegin(i)
  \/ Retire(i) \/ RetireRefused(i)
  \/ MakeWorktree(i) \/ StartFails(i) \/ WriteCount(i) \/ RecordPid(i)
  \/ \E r \in Runs : StartAgent(i, r)
  \/ \E g \in Groups : ReadState(i, g) \/ GuardPick(i, g) \/ WatchPick(i, g)
                       \/ NudgePick(i, g) \/ SpawnPick(i, g)

BeginPass(i) ==
  \/ BeginGuard(i) \/ BeginWatch(i)
  \/ \E G \in SUBSET Groups \ {{}} : BeginSpawn(i, G)
  \/ \E g \in Groups : BeginNudge(i, g)

StopStep(i) ==
  \/ BeginStop(i) \/ BeginButton(i)
  \/ \E g \in Groups : StopPick(i, g) \/ ButtonPick(i, g)

\* Passes that are neither killed nor told to stop, agents and reboots.
SteadyNext == (\E i \in Invokers : BeginPass(i) \/ PassStep(i)) \/ Agents

QuietNext == SteadyNext \/ Reboot

FaultStep(i) ==
  \/ Crash(i) \/ RecordFails(i) \/ CountFails(i) \/ NudgeGarbled(i)
  \/ \E g \in Groups : RespawnFails(i, g)

Next ==
  \/ QuietNext
  \/ \E i \in Invokers : StopStep(i) \/ FaultStep(i)
  \/ \E g \in Groups : CleanTmp(g)

Spec       == Init /\ [][Next]_vars
QuietSpec  == Init /\ [][QuietNext]_vars
SteadySpec == Init /\ [][SteadyNext]_vars

-----------------------------------------------------------------------------
(* Properties.                                                             *)

\* Every variable holds a value of its kind.
TypeOK ==
  /\ runs    \in [Groups -> [Runs -> Phases]]
  /\ caged   \subseteq Groups \X Runs
  /\ pid     \in [Groups -> Runs \cup {NoFile, Garbled}]
  /\ nudges  \in [Groups -> Nat \cup {Garbled}]
  /\ log     \in [Groups -> LogView]
  /\ wt      \in [Groups -> BOOLEAN]
  /\ op      \in [Invokers -> Commands]
  /\ pc      \in [Invokers -> Places]
  /\ seen    \in [Invokers -> [Groups -> Statuses]]
  /\ todo    \in [Invokers -> SUBSET Groups]
  /\ cur     \in [Invokers -> Groups \cup {None}]
  /\ budget  \in [Invokers -> Nat]
  /\ hold    \in [Invokers -> Runs \cup {None}]
  /\ retried \in [Invokers -> SUBSET Groups]

\* Two agents never work in one worktree (cmd_guard: "Never start a second
\* agent in a worktree that already has a live one").
AtMostOneAgent ==
  \A g \in Groups : \A r, s \in LiveRuns(g) : r = s

\* An agent that is alive is the one its pid file names, unless the pass that
\* started it is about to write that file: no agent escapes supervision.
AgentsRecorded ==
  \A g \in Groups : \A r \in LiveRuns(g) :
    \/ pid[g] = r
    \/ \E i \in Invokers : pc[i] = "record" /\ cur[i] = g /\ hold[i] = r

\* However passes overlap, crash, are stopped or run out of disk, the nudge
\* count on disk never passes MAX_NUDGES, and neither does the one a nudge is
\* about to write.
NudgesCapped ==
  /\ \A g \in Groups : nudges[g] # Garbled => nudges[g] <= MaxNudges
  /\ \A i \in Invokers : pc[i] \in {"retire", "start", "count"} /\ op[i] # "spawn"
                          => budget[i] < MaxNudges

\* A guard pass never stops a live session: when it ends, every agent at work
\* is at work still (coordinator-watch.sh: "never stop a live session").
GuardStopsNoSession ==
  [][\A i \in Invokers :
       op[i] \in {"guard", "spawn"} /\ pc[i] = "each" /\ pc'[i] = "idle"
         => \A g \in Groups, r \in Runs :
              runs[g][r] = "working" => runs'[g][r] = "working"]_vars
=============================================================================
