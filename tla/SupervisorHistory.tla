------------------------- MODULE SupervisorHistory -------------------------
(***************************************************************************)
(* Supervisor with two history variables, which remember what may put a    *)
(* second agent into a worktree or leave one unsupervised: a stop, the     *)
(* stop button and a fault, and two passes treating one group at a time.   *)
(* They are read by the property only.                                     *)
(***************************************************************************)
EXTENDS SupervisorPromise

VARIABLES
  strays,   (* agents that a stop, the button or a fault left unrecorded     *)
  crossed   (* groups that two passes have treated at one time               *)

hVars == <<vars, strays, crossed>>

\* A pass treats a group from its look at the pid file to its write of it.
Treats(i, g) ==
  pc[i] \in {"retire", "start", "count", "launch", "record"} /\ cur[i] = g

\* The pid file names the agent, or the pass that started it is about to write it.
Recorded(g, r) ==
  pid[g] = r \/ \E i \in Invokers : pc[i] = "record" /\ cur[i] = g /\ hold[i] = r

Unrecorded ==
  {p \in Groups \X Runs : p[2] \in LiveRuns(p[1]) /\ ~Recorded(p[1], p[2])}

\* Groups treated twice at once, and groups with neither agent nor pass.
Crossing == {g \in Groups : \E i, j \in Invokers : i # j /\ Treats(i, g) /\ Treats(j, g)}
Deserted == {g \in Groups : LiveRuns(g) = {} /\ \A i \in Invokers : ~Treats(i, g)}

HInit == Init /\ strays = {} /\ crossed = {}

\* A stray is one until it ends, a crossed group until it is deserted.
StrayStill   == {p \in strays : p[2] \in LiveRuns(p[1])'}
CrossedStill == (crossed \cup Crossing') \ Deserted'

\* What is meant to run, and a cleaner, make no strays.
Ordinary ==
  /\ QuietNext \/ \E g \in Groups : CleanTmp(g)
  /\ strays'  = StrayStill
  /\ crossed' = CrossedStill

Loses ==
  /\ \E i \in Invokers : StopStep(i) \/ FaultStep(i)
  /\ strays'  = StrayStill \cup (Unrecorded' \ Unrecorded)
  /\ crossed' = CrossedStill

HNext == Ordinary \/ Loses

HSpec == HInit /\ [][HNext]_hVars

-----------------------------------------------------------------------------
(* Properties.                                                             *)

\* The agents of a group that nothing has made strays.
Kept(g) == {r \in LiveRuns(g) : <<g, r>> \notin strays}

\* Supervision loses an agent, and a worktree gets a second one, through those
\* causes only: where no two passes have treated a group at one time, its agents
\* but the strays are at most one, and that one is recorded.
OnlyStraysEscape ==
  \A g \in Groups \ crossed : \A r \in Kept(g) :
    Recorded(g, r) /\ \A s \in Kept(g) : s = r

\* What makes it inductive: one pass at most treats the group, and it has the one
\* kept agent in hand, or has seen that there is none.
Tidy(g) ==
  /\ \A i, j \in Invokers : Treats(i, g) /\ Treats(j, g) => i = j
  /\ \A r \in Kept(g) : Recorded(g, r)
  /\ \A i \in Invokers : Treats(i, g) =>
       /\ pc[i] \in {"retire", "record"} => Kept(g) \subseteq {hold[i]}
       /\ pc[i] \in {"start", "count", "launch"} => Kept(g) = {}

Orderly == \A g \in Groups \ crossed : Tidy(g)
=============================================================================
