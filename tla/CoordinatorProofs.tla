-------------------------- MODULE CoordinatorProofs --------------------------
(***************************************************************************)
(* The coordinator's decision scan never names a group twice for the same  *)
(* event unless its state file was cut, and its watch is silent for one    *)
(* period more than it has lost notes, for any number of groups and events *)
(* and any period.                                                         *)
(***************************************************************************)
EXTENDS CoordinatorWatch, TLAPS

Scanning == pc \in {"scan", "rescan", "note"}

\* Where no cut write has wiped it out, the state file is not behind the notes, and
\* it is never ahead of the events; a running scan has a copy at least as new, and
\* reports only what is newer than the last note; when it posts, the copy has been
\* saved.
ScanInv ==
  /\ \A g \in Groups : seen[g] <= last[g]
  /\ \A g \in Groups \ forgot : told[g] <= seen[g]
  /\ Scanning => \A g \in Groups : seen[g] <= draft[g] /\ draft[g] <= last[g]
  /\ Scanning => \A g \in found \ forgot : draft[g] > told[g]
  /\ pc = "note" /\ found # {} => seen = draft

Inv == TypeOK /\ ScanInv

\* Every step keeps the type of the variables.
LEMMA TypeStep ==
  ASSUME TypeOK, [Next]_vars
  PROVE  TypeOK'
<1> USE WatchAssumption DEF TypeOK, Stages
<1>1. CASE UNCHANGED vars
  BY <1>1 DEF vars, agentVars, scanVars, noteVars
<1>2. ASSUME NEW g \in Groups, Log(g) \/ Ask(g) PROVE TypeOK'
  BY <1>2 DEF Log, Ask, scanVars, noteVars
<1>3. CASE EditReadme \/ \E g \in Groups : Decide(g) \/ Fail(g)
  BY <1>3 DEF Decide, Fail, EditReadme, scanVars, noteVars
<1>4. CASE BeginPass \/ Killed
  BY <1>4 DEF BeginPass, Killed, agentVars, scanVars, noteVars
<1>5. CASE GatePasses \/ NobodyBlocked \/ NoLimits \/ NoBeat
  BY <1>5 DEF GatePasses, NobodyBlocked, NoLimits, NoBeat, StartScan, agentVars,
     scanVars, noteVars
<1>6. ASSUME NEW ok \in BOOLEAN, LastWord(ok)
      PROVE  quiet' \in Nat /\ lost' \in 0..MaxLost
  BY <1>6 DEF LastWord, Posted, NoteLost
<1>7. ASSUME NEW ok \in BOOLEAN, GateFails(ok) \/ PostBeat(ok)
      PROVE  TypeOK'
  BY <1>6, <1>7 DEF GateFails, PostBeat, agentVars, scanVars
<1>8. ASSUME NEW ok \in BOOLEAN, PostLimits(ok)
      PROVE  TypeOK'
  <2>1. alarmed' \in BOOLEAN
    BY <1>8, Zenon DEF PostLimits
  <2>2. QED
    BY <1>6, <1>8, <2>1 DEF PostLimits, agentVars, scanVars
<1>9. ASSUME NEW ok \in BOOLEAN, Stamp(ok)
      PROVE  TypeOK'
  BY <1>9 DEF Stamp, agentVars, scanVars, noteVars
<1>10. ASSUME NEW ok \in BOOLEAN, PostBlocked(ok)
       PROVE  TypeOK'
  <2>1. quiet' \in Nat /\ lost' \in 0..MaxLost
    BY <1>10 DEF PostBlocked, Posted, NoteLost
  <2>2. told' \in [Groups -> 0..MaxEvents] /\ forgot' \subseteq Groups
    BY <1>10 DEF PostBlocked
  <2>3. QED
    BY <1>10, <2>1, <2>2 DEF PostBlocked, agentVars, scanVars
<1>11. ASSUME NEW g \in Groups, ScanGroup(g) PROVE TypeOK'
  BY <1>11 DEF ScanGroup, agentVars, noteVars
<1>12. CASE EndScan \/ EndRescan
  BY <1>12 DEF EndScan, EndRescan, SaveScan, StartScan, agentVars, scanVars, noteVars
<1>13. CASE SaveCut
  BY <1>13 DEF SaveCut, Wiped, StartScan, agentVars, scanVars
<1>14. QED
  BY <1>1, <1>2, <1>3, <1>4, <1>5, <1>7, <1>8, <1>9, <1>10, <1>11, <1>12, <1>13
     DEF Next, SteadyNext, PassStep, Silent, Speaks, Team

\* Every step keeps the scan ahead of the notes and behind the events.
LEMMA ScanStep ==
  ASSUME Inv, [Next]_vars
  PROVE  ScanInv'
<1> USE DEF Inv, ScanInv, TypeOK, Scanning
<1>1. CASE UNCHANGED vars
  BY <1>1 DEF vars, agentVars, scanVars, noteVars
<1>2. CASE Team
  BY <1>2 DEF Team, Log, Ask, Decide, Fail, EditReadme, scanVars, noteVars
<1>3. CASE BeginPass \/ Killed
  BY <1>3 DEF BeginPass, Killed, agentVars, scanVars, noteVars
<1>4. CASE GatePasses \/ NobodyBlocked \/ NoLimits \/ NoBeat
  BY <1>4 DEF GatePasses, NobodyBlocked, StartScan, NoLimits, NoBeat, agentVars,
     scanVars, noteVars
<1>5. ASSUME NEW ok \in BOOLEAN,
             GateFails(ok) \/ PostLimits(ok) \/ PostBeat(ok) \/ Stamp(ok)
      PROVE  ScanInv'
  BY <1>5 DEF GateFails, PostLimits, PostBeat, Stamp, agentVars, scanVars, noteVars
<1>6. ASSUME NEW g \in Groups, ScanGroup(g) PROVE ScanInv'
  BY <1>6 DEF ScanGroup, agentVars, noteVars
<1>7. CASE EndScan
  BY <1>7 DEF EndScan, SaveScan, StartScan, agentVars, noteVars
<1>8. CASE EndRescan
  BY <1>8 DEF EndRescan, SaveScan, agentVars, scanVars, noteVars
<1>9. ASSUME NEW ok \in BOOLEAN, PostBlocked(ok)
      PROVE  ScanInv'
  BY <1>9 DEF PostBlocked, agentVars, scanVars
<1>10. CASE SaveCut
  <2>1. /\ \A g \in Groups : seen'[g] = 0 /\ last'[g] = last[g] /\ last[g] >= 0
        /\ forgot' = Groups
    BY <1>10, WatchAssumption DEF SaveCut, Wiped, agentVars
  <2>2. Scanning' => \A g \in Groups : 0 <= draft'[g] /\ draft'[g] <= last[g]
    BY <1>10, WatchAssumption DEF SaveCut, StartScan, Wiped
  <2>3. pc' = "note" => found' = {}
    BY <1>10 DEF SaveCut, StartScan
  <2>4. found' \subseteq Groups
    BY <1>10 DEF SaveCut, StartScan, scanVars
  <2>5. QED
    BY <2>1, <2>2, <2>3, <2>4
<1>11. QED
  BY <1>1, <1>2, <1>3, <1>4, <1>5, <1>6, <1>7, <1>8, <1>9, <1>10
     DEF Next, SteadyNext, PassStep, Silent, Speaks

LEMMA ScanInvariant == Spec => []Inv
<1>1. Init => Inv
  <2>1. 0 \in 0..MaxEvents /\ Period \in 0..Period
    BY WatchAssumption
  <2>2. Init => TypeOK
    <3>1. Init => edited \in BOOLEAN /\ alarmed \in BOOLEAN
      BY Zenon DEF Init
    <3>2. 0 \in 0..MaxLost
      BY WatchAssumption
    <3>3. QED
      BY <2>1, <3>1, <3>2 DEF Init, TypeOK, Stages
  <2>3. Init => ScanInv
    BY DEF Init, ScanInv, Scanning
  <2>4. QED
    BY <2>2, <2>3 DEF Inv
<1>2. Inv /\ [Next]_vars => Inv'
  BY TypeStep, ScanStep DEF Inv
<1>3. QED
  BY <1>1, <1>2, PTL DEF Spec

\* A group already alerted is not named again until its events advance, for any
\* groups and events and wherever a pass is killed, but for one note after a cut
\* write of the state file.
THEOREM AlertsAreNews == Spec => NoRepost
<1>1. Inv /\ [Next]_vars
        => [\A g \in Groups :
              PostBlocked(TRUE) /\ g \in found => draft[g] > told[g] \/ g \in forgot]_vars
  BY DEF Inv, ScanInv, Scanning, PostBlocked
<1>2. QED
  BY <1>1, ScanInvariant, PTL DEF Spec, NoRepost

-----------------------------------------------------------------------------
(* How long the operator can go without a word.                            *)

\* The periods that the lost notes stand for.
Allowed == Period * lost

\* Until the heartbeat is due, a completed pass without a note is a pass that
\* brought the heartbeat nearer; one that is running has done so already.
QuietInv ==
  /\ quiet < Allowed + Period
  /\ beat < Period => quiet <= Allowed + beat /\ (pc # "idle" => quiet < Allowed + beat)
  /\ pc = "stamp" => quiet <= Allowed /\ beat = Period
  /\ pc # "idle" => beat > 0

LEMMA AllowedStep ==
  ASSUME TypeOK
  PROVE  /\ Allowed \in Nat
         /\ Period * (lost + 1) = Allowed + Period
         /\ Period * 0 = 0
BY WatchAssumption DEF TypeOK, Allowed

\* A note that ends the pass, posted or lost, leaves the pass within its allowance.
LEMMA LastWordQuiet ==
  ASSUME Inv, QuietInv, NEW ok \in BOOLEAN, LastWord(ok)
  PROVE  quiet' \in Nat /\ Allowed' \in Nat /\ quiet' <= Allowed'
<1>1. quiet \in Nat /\ quiet < Allowed + Period /\ Allowed \in Nat
  BY AllowedStep DEF Inv, TypeOK, QuietInv
<1>2. CASE ok
  <2>1. quiet' = 0 /\ Allowed' = Period * 0
    BY <1>2 DEF LastWord, Posted, Allowed
  <2>2. QED
    BY <2>1, AllowedStep DEF Inv
<1>3. CASE ~ok
  <2>1. quiet' = quiet + 1 /\ Allowed' = Period * (lost + 1)
    BY <1>3 DEF LastWord, NoteLost, Allowed
  <2>2. Allowed' = Allowed + Period
    BY <2>1, AllowedStep DEF Inv
  <2>3. QED
    BY <1>1, <2>1, <2>2, WatchAssumption
<1>4. QED
  BY <1>2, <1>3

\* Every step keeps the silence behind the heartbeat.
LEMMA QuietStep ==
  ASSUME Inv, QuietInv, [Next]_vars
  PROVE  QuietInv'
<1> USE WatchAssumption DEF QuietInv
<1>1. /\ quiet \in Nat /\ beat \in 0..Period /\ Period \in Nat \ {0}
      /\ Allowed \in Nat /\ Allowed + Period = Period * (lost + 1)
  BY AllowedStep DEF Inv, TypeOK
<1>2. ASSUME lost' = lost
      PROVE  Allowed' = Allowed
  BY <1>2 DEF Allowed
<1>3. CASE UNCHANGED vars
  BY <1>2, <1>3 DEF vars, noteVars
<1>4. CASE Team
  BY <1>2, <1>4 DEF Team, Log, Ask, Decide, Fail, EditReadme, noteVars
<1>5. CASE BeginPass
  BY <1>1, <1>2, <1>5 DEF BeginPass, noteVars
<1>6. CASE Killed \/ SaveCut
  <2>1. /\ UNCHANGED <<quiet, lost, beat>> /\ pc # "idle" /\ pc' # "stamp"
    BY <1>6 DEF Killed, SaveCut, StartScan, noteVars
  <2>2. QED
    BY <1>1, <1>2, <2>1
<1>7. CASE GatePasses \/ EndScan \/ EndRescan \/ NoLimits \/ NobodyBlocked
             \/ \E g \in Groups : ScanGroup(g)
  <2>1. UNCHANGED <<quiet, lost, beat>> /\ pc # "idle" /\ pc' # "stamp"
    BY <1>7 DEF GatePasses, EndScan, EndRescan, NoLimits, NobodyBlocked, ScanGroup,
       StartScan, noteVars
  <2>2. QED
    BY <1>1, <1>2, <2>1
<1>8. CASE NoBeat
  BY <1>1, <1>2, <1>8 DEF NoBeat
<1>9. ASSUME NEW ok \in BOOLEAN, GateFails(ok) \/ PostLimits(ok)
      PROVE  QuietInv'
  <2>1. LastWord(ok) /\ pc' = "idle" /\ beat' = beat
    BY <1>9 DEF GateFails, PostLimits
  <2>2. QED
    BY <1>1, <2>1, LastWordQuiet
<1>10. ASSUME NEW ok \in BOOLEAN, PostBeat(ok)
       PROVE  QuietInv'
  <2>1. LastWord(ok) /\ pc' = "stamp" /\ beat' = beat /\ beat >= Period
    BY <1>10 DEF PostBeat
  <2>2. QED
    BY <1>1, <2>1, LastWordQuiet
<1>11. ASSUME NEW ok \in BOOLEAN, Stamp(ok)
       PROVE  QuietInv'
  <2>1. /\ pc = "stamp" /\ pc' = "idle" /\ UNCHANGED <<quiet, lost>>
        /\ beat' \in {0, Period}
    BY <1>11 DEF Stamp, noteVars
  <2>2. Allowed' = Allowed /\ quiet \in Nat /\ quiet' = quiet /\ quiet <= Allowed
    BY <1>1, <1>2, <2>1
  <2>3. CASE beat' = 0
    BY <1>1, <2>1, <2>2, <2>3
  <2>4. CASE beat' = Period
    BY <1>1, <2>1, <2>2, <2>4
  <2>5. QED
    BY <2>1, <2>3, <2>4
<1>12. ASSUME NEW ok \in BOOLEAN, PostBlocked(ok)
       PROVE  QuietInv'
  <2>1. pc = "note" /\ pc' = "human" /\ beat' = beat
    BY <1>12 DEF PostBlocked
  <2>2. CASE ok
    <3>1. quiet' = 0 /\ Allowed' = Period * 0
      BY <1>12, <2>2 DEF PostBlocked, Posted, Allowed
    <3>2. Allowed' = 0
      BY <3>1, AllowedStep DEF Inv
    <3>3. beat < Period => beat > 0
      BY <2>1
    <3>4. QED
      BY <1>1, <2>1, <3>1, <3>2, <3>3
  <2>3. CASE ~ok
    <3>1. quiet' = quiet /\ Allowed' = Allowed + Period
      BY <1>1, <1>12, <2>3 DEF PostBlocked, NoteLost, Allowed
    <3>2. QED
      BY <1>1, <2>1, <3>1
  <2>4. QED
    BY <2>2, <2>3
<1>13. QED
  BY <1>3, <1>4, <1>5, <1>6, <1>7, <1>8, <1>9, <1>10, <1>11, <1>12
     DEF Next, SteadyNext, PassStep, Silent, Speaks

\* However passes are killed, held up at the gate or have something to say, a note
\* is posted within a period of completed passes, and within one more for each note
\* that was lost (coordinator-watch.sh:140-147).
THEOREM WatchIsNeverSilent == Spec => []NeverSilent
<1>1. Init => QuietInv
  <2>1. Init => Allowed = 0
    BY WatchAssumption DEF Init, Allowed
  <2>2. QED
    BY <2>1, WatchAssumption DEF Init, QuietInv
<1>2. Inv /\ QuietInv => NeverSilent
  BY AllowedStep DEF Inv, QuietInv, NeverSilent
<1>3. QED
  BY <1>1, <1>2, ScanInvariant, QuietStep, PTL DEF Spec
=============================================================================
