-------------------------- MODULE CoordinatorWatch --------------------------
(***************************************************************************)
(* scripts/orchestration/coordinator-watch.sh: a pass every five minutes   *)
(* that runs the guard (module Supervisor), checks that README.md compiles *)
(* to itself, scans the agents' last events for requests of a decision,    *)
(* counts the groups that need a human and shows that it is alive.  Its    *)
(* only voice is a note on the dashboard, and it does not look whether the *)
(* note was posted.  Agents log while it runs.                             *)
(***************************************************************************)
EXTENDS Naturals

CONSTANTS
  Groups,
  MaxEvents,  (* bound on the events a group logs            *)
  Period,     (* passes between two heartbeats (2 h / 5 min) *)
  MaxLost     (* bound on the notes lost in a row            *)

ASSUME WatchAssumption ==
  MaxEvents \in Nat /\ Period \in Nat \ {0} /\ MaxLost \in Nat

VARIABLES
  last,    (* last[g]: timestamp of the last event, 0 if there is none      *)
  asks,    (* groups with decision language among their last 30 events      *)
  waits,   (* groups that log nothing more until the operator decides       *)
  spent,   (* groups whose nudges are spent                                 *)
  limits,  (* groups whose error message speaks of a limit reached          *)
  edited,  (* README.md differs from what the sections compile to           *)
  seen,    (* decision-scan.json                                            *)
  beat,    (* passes since the heartbeat file was written                   *)
  pc,      (* where the pass stands                                         *)
  todo,    (* groups a scan still has to look at                            *)
  draft,   (* the scan's copy of seen                                       *)
  found,   (* groups the scan reports                                       *)
  told,    (* told[g]: last event of g when a note last named it            *)
  alarmed, (* the operator was told of a nudge limit                        *)
  quiet,   (* completed passes since the last note                          *)
  lost,    (* notes lost since then                                         *)
  forgot   (* groups whose alerted point a cut write of seen has wiped out  *)

agentVars == <<last, asks, waits, spent, limits, edited>>
scanVars  == <<todo, draft, found>>
noteVars  == <<told, alarmed, quiet, lost, forgot>>
vars      == <<agentVars, seen, beat, pc, scanVars, noteVars>>

Stages == {"idle", "gate", "scan", "rescan", "note", "human", "beat", "stamp"}

Init ==
  /\ last    = [g \in Groups |-> 0]
  /\ asks    = {}
  /\ waits   = {}
  /\ spent   = {}
  /\ limits  = {}
  /\ edited  = FALSE
  /\ seen    = [g \in Groups |-> 0]
  /\ beat    = Period
  /\ pc      = "idle"
  /\ todo    = {}
  /\ draft   = [g \in Groups |-> 0]
  /\ found   = {}
  /\ told    = [g \in Groups |-> 0]
  /\ alarmed = FALSE
  /\ quiet   = 0
  /\ lost    = 0
  /\ forgot  = {}

-----------------------------------------------------------------------------
(* The agents, the operator and README.md.                                 *)

\* An event; it may speak of a decision, or push such talk out of the window.
Log(g) ==
  /\ g \notin waits /\ last[g] < MaxEvents
  /\ last' = [last EXCEPT ![g] = @ + 1]
  /\ asks' \in {asks \cup {g}, asks \ {g}}
  /\ UNCHANGED <<waits, spent, limits, edited, seen, beat, pc, scanVars, noteVars>>

\* A question the agent waits on.
Ask(g) ==
  /\ g \notin waits /\ last[g] < MaxEvents
  /\ last'  = [last EXCEPT ![g] = @ + 1]
  /\ asks'  = asks \cup {g}
  /\ waits' = waits \cup {g}
  /\ UNCHANGED <<spent, limits, edited, seen, beat, pc, scanVars, noteVars>>

Decide(g) ==
  /\ g \in waits
  /\ waits' = waits \ {g}
  /\ UNCHANGED <<last, asks, spent, limits, edited, seen, beat, pc, scanVars, noteVars>>

\* A group whose agents keep dying, with or without a message on a limit.
Fail(g) ==
  /\ g \notin spent
  /\ spent' = spent \cup {g}
  /\ limits' \in {limits, limits \cup {g}}
  /\ UNCHANGED <<last, asks, waits, edited, seen, beat, pc, scanVars, noteVars>>

EditReadme ==
  /\ edited' = ~edited
  /\ UNCHANGED <<last, asks, waits, spent, limits, seen, beat, pc, scanVars, noteVars>>

-----------------------------------------------------------------------------
(* The pass.                                                               *)

BeginPass ==
  /\ pc = "idle"
  /\ pc'   = "gate"
  /\ beat' = IF beat < Period THEN beat + 1 ELSE beat
  /\ UNCHANGED <<agentVars, seen, scanVars, noteVars>>

\* A scan starts from the state file.
StartScan(place, state) ==
  /\ pc'    = place
  /\ todo'  = Groups
  /\ draft' = state
  /\ found' = {}

\* A note that is posted, or one that is lost: dashboard-note.py fails, and the
\* script goes on as if it had not.
Posted   == quiet' = 0 /\ lost' = 0
NoteLost == lost < MaxLost /\ lost' = lost + 1

\* A note that ends the pass.
LastWord(ok) == IF ok THEN Posted ELSE NoteLost /\ quiet' = quiet + 1

\* README.md was edited by hand: one note, and the pass ends.
GateFails(ok) ==
  /\ pc = "gate" /\ edited
  /\ LastWord(ok)
  /\ pc' = "idle"
  /\ UNCHANGED <<agentVars, seen, beat, scanVars, told, alarmed, forgot>>

GatePasses ==
  /\ pc = "gate" /\ ~edited
  /\ StartScan("scan", seen)
  /\ UNCHANGED <<agentVars, seen, beat, noteVars>>

\* Mutant: what was reported before is not looked up.
ScanGroupAgain(g) ==
  /\ pc \in {"scan", "rescan"} /\ g \in todo
  /\ todo' = todo \ {g}
  /\ IF last[g] # 0 /\ g \in asks
       THEN /\ found' = found \cup {g}
            /\ draft' = [draft EXCEPT ![g] = last[g]]
       ELSE UNCHANGED <<found, draft>>
  /\ UNCHANGED <<agentVars, seen, beat, pc, noteVars>>

ScanGroup(g) ==
  /\ pc \in {"scan", "rescan"} /\ g \in todo
  /\ todo' = todo \ {g}
  /\ IF last[g] # 0 /\ last[g] # draft[g] /\ g \in asks
       THEN /\ found' = found \cup {g}
            /\ draft' = [draft EXCEPT ![g] = last[g]]
       ELSE UNCHANGED <<found, draft>>
  /\ UNCHANGED <<agentVars, seen, beat, pc, noteVars>>

\* decision-scan.json is rewritten only if there is something to report.
SaveScan == seen' = IF found # {} THEN draft ELSE seen

\* The first scan reports to the journal; a second one starts on its state.
EndScan ==
  /\ pc = "scan" /\ todo = {}
  /\ SaveScan
  /\ StartScan("rescan", seen')
  /\ UNCHANGED <<agentVars, beat, noteVars>>

EndRescan ==
  /\ pc = "rescan" /\ todo = {}
  /\ SaveScan
  /\ pc' = "note"
  /\ UNCHANGED <<agentVars, beat, scanVars, noteVars>>

PostBlocked(ok) ==
  /\ pc = "note" /\ found # {}
  /\ IF ok
       THEN /\ Posted
            /\ told'   = [g \in Groups |-> IF g \in found THEN draft[g] ELSE told[g]]
            /\ forgot' = forgot \ found
       ELSE NoteLost /\ UNCHANGED <<told, quiet, forgot>>
  /\ pc' = "human"
  /\ UNCHANGED <<agentVars, seen, beat, scanVars, alarmed>>

NobodyBlocked ==
  /\ pc = "note" /\ found = {}
  /\ pc' = "human"
  /\ UNCHANGED <<agentVars, seen, beat, scanVars, noteVars>>

\* The phrase is looked for in the output of `supervise.py status`, which
\* prints states and error messages; the limit itself is printed by nudge only.
PostLimits(ok) ==
  /\ pc = "human" /\ limits # {}
  /\ LastWord(ok)
  /\ alarmed' = (alarmed \/ ok)
  /\ pc'      = "idle"
  /\ UNCHANGED <<agentVars, seen, beat, scanVars, told, forgot>>

NoLimits ==
  /\ pc = "human" /\ limits = {}
  /\ pc' = "beat"
  /\ UNCHANGED <<agentVars, seen, beat, scanVars, noteVars>>

\* Mutant: the heartbeat file is written by every pass.
NoBeatButStamp ==
  /\ pc = "beat" /\ beat < Period
  /\ quiet' = quiet + 1
  /\ beat'  = 0
  /\ pc'    = "idle"
  /\ UNCHANGED <<agentVars, seen, scanVars, told, alarmed, lost, forgot>>

NoBeat ==
  /\ pc = "beat" /\ beat < Period
  /\ quiet' = quiet + 1
  /\ pc'    = "idle"
  /\ UNCHANGED <<agentVars, seen, beat, scanVars, told, alarmed, lost, forgot>>

\* The heartbeat's file is written whatever became of its note.
PostBeat(ok) ==
  /\ pc = "beat" /\ beat >= Period
  /\ LastWord(ok)
  /\ pc' = "stamp"
  /\ UNCHANGED <<agentVars, seen, beat, scanVars, told, alarmed, forgot>>

\* A stamp that is cut leaves an empty file: the heartbeat is due at once.
Stamp(ok) ==
  /\ pc = "stamp"
  /\ beat' = IF ok THEN 0 ELSE Period
  /\ pc'   = "idle"
  /\ UNCHANGED <<agentVars, seen, scanVars, noteVars>>

\* A full disk or a kill cuts decision-scan.json, which is then read as holding
\* nothing.  The script of the second scan dies before it prints what it found.
Wiped == [g \in Groups |-> 0]

SaveCut ==
  /\ pc \in {"scan", "rescan"} /\ todo = {} /\ found # {}
  /\ seen'   = Wiped
  /\ forgot' = Groups
  /\ \/ pc = "scan" /\ StartScan("rescan", Wiped)
     \/ pc = "rescan" /\ pc' = "note" /\ found' = {} /\ UNCHANGED <<todo, draft>>
     \/ pc' = "idle" /\ UNCHANGED scanVars
  /\ UNCHANGED <<agentVars, beat, told, alarmed, quiet, lost>>

\* TimeoutStartSec ends the pass anywhere.
Killed ==
  /\ pc # "idle"
  /\ pc' = "idle"
  /\ UNCHANGED <<agentVars, seen, beat, scanVars, noteVars>>

Silent ==
  \/ GatePasses
  \/ \E g \in Groups : ScanGroup(g)
  \/ EndScan \/ EndRescan \/ NobodyBlocked \/ NoLimits \/ NoBeat

Speaks(ok) ==
  GateFails(ok) \/ PostBlocked(ok) \/ PostLimits(ok) \/ PostBeat(ok) \/ Stamp(ok)

PassStep == Silent \/ Speaks(TRUE)

Team == EditReadme \/ \E g \in Groups : Log(g) \/ Ask(g) \/ Decide(g) \/ Fail(g)

SteadyNext == BeginPass \/ PassStep \/ Team

Next == SteadyNext \/ Speaks(FALSE) \/ SaveCut \/ Killed

Spec == Init /\ [][Next]_vars

\* The timer fires for ever and a pass that is not killed ends.
FairSpec == Init /\ [][SteadyNext]_vars /\ WF_vars(BeginPass) /\ WF_vars(PassStep)

-----------------------------------------------------------------------------
(* Properties.                                                             *)

\* Every variable holds a value of its kind.
TypeOK ==
  /\ last    \in [Groups -> 0..MaxEvents]
  /\ asks    \subseteq Groups
  /\ waits   \subseteq Groups
  /\ spent   \subseteq Groups
  /\ limits  \subseteq Groups
  /\ edited  \in BOOLEAN
  /\ seen    \in [Groups -> 0..MaxEvents]
  /\ beat    \in 0..Period
  /\ pc      \in Stages
  /\ todo    \subseteq Groups
  /\ draft   \in [Groups -> 0..MaxEvents]
  /\ found   \subseteq Groups
  /\ told    \in [Groups -> 0..MaxEvents]
  /\ alarmed \in BOOLEAN
  /\ quiet   \in Nat
  /\ lost    \in 0..MaxLost
  /\ forgot  \subseteq Groups

\* "A group already alerted is not re-posted until its events advance past the
\* alerted point": a note names a group only at a later event than the last
\* note that named it, whatever the agents log meanwhile and wherever a pass is
\* killed; a cut write of decision-scan.json allows one more note.
NoRepost ==
  [][\A g \in Groups :
       PostBlocked(TRUE) /\ g \in found => draft[g] > told[g] \/ g \in forgot]_vars

\* The dashboard shows the watch is alive: completed passes are silent for no
\* longer than the heartbeat's period, and for one more period for each note
\* that was lost.
NeverSilent == quiet < Period * (lost + 1)

\* "Post ONE action note naming every blocked group so the operator sees it":
\* a group that waits on the operator is named, or goes on, unless the compile
\* gate holds the pass up.
BlockedIsTold ==
  \A g \in Groups :
    g \in waits ~> g \notin waits \/ told[g] = last[g] \/ edited
=============================================================================
