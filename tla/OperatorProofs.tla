--------------------------- MODULE OperatorProofs ---------------------------
(***************************************************************************)
(* Four programs of the operator: acquisition runs, whose reports last;    *)
(* the ledger of model verdicts, which diverts no group to a model that    *)
(* has not passed; the fabrication collector, whose clean pass has         *)
(* recorded every machine; and the compiler of proposals, which loses no   *)
(* row and tells nothing twice that it noted.                              *)
(***************************************************************************)
EXTENDS Acquisition, ModelLedger, Fabrication, Proposals, FiniteSetTheorems,
        SequenceTheorems, WellFoundedInduction, TLAPS

\* What Min chooses in a finite set of numbers is in it: of the initial parts of the set one
\* has no other inside it.
LEMMA MinIsMember ==
  ASSUME NEW S, S \subseteq Nat, IsFiniteSet(S), NEW T, T \subseteq S, T # {}
  PROVE  Min(T) \in T
<1> DEFINE part(x) == {y \in T : y <= x}
           parts   == {part(x) : x \in T}
<1>1. \A z \in T : z \in Nat
  OBVIOUS
<1>2. FiniteSubsetsOf(S) = SUBSET S
  BY FS_FiniteSubsetsOfFinite
<1>3. parts \subseteq SUBSET S /\ parts # {}
  OBVIOUS
<1>4. IsWellFoundedOn(StrictSubsetOrdering(S), SUBSET S)
  BY <1>2, FS_StrictSubsetOrderingWellFounded
<1>5. PICK p \in parts : \A q \in parts : ~ (<<q, p>> \in StrictSubsetOrdering(S))
  BY <1>3, <1>4, WFMin
<1>6. PICK x \in T : p = part(x)
  OBVIOUS
<1>7. \A y \in T : x <= y
  <2>1. SUFFICES ASSUME NEW y \in T, ~ (x <= y) PROVE FALSE
    OBVIOUS
  <2>2. y < x /\ \A z \in T : z \in Nat
    BY <1>1, <2>1
  <2>3. part(y) \subseteq part(x) /\ x \in part(x) /\ x \notin part(y)
    <3>1. \A z \in T : z <= y => z <= x
      BY <2>2
    <3>2. x <= x /\ ~ (x <= y)
      BY <2>2
    <3>3. QED
      BY <3>1, <3>2
  <2>4. part(y) \in parts /\ part(y) \in SUBSET S /\ p \in SUBSET S
    BY <1>3, <1>6
  <2>5. <<part(y), p>> \in StrictSubsetOrdering(S)
    BY <1>6, <2>3, <2>4 DEF StrictSubsetOrdering
  <2>6. QED
    BY <1>5, <2>4, <2>5
<1>8. QED
  BY <1>7 DEF Min

-----------------------------------------------------------------------------
(* Acquisition.                                                            *)

Phases == {"wait", "check", "audit", "name", "write", "fill", "ended", "died"}

AcquireTypes ==
  /\ second \in 0..MaxSecond /\ started \in 0..NRuns
  /\ phase  \in [RunIds -> Phases]
  /\ began  \in [RunIds -> 0..MaxSecond]
  /\ name   \in [RunIds -> Names]
  /\ report \in [Names -> RunIds \cup {NoRun}] /\ cut \subseteq Names
  /\ audit \subseteq RunIds /\ shared \subseteq RunIds

\* Runs are started one after another, and none begins in a second yet to come.
StartedInTurn ==
  \A r \in RunIds : /\ r <= started <=> phase[r] # "wait"
                    /\ began[r] <= second

\* A run is in the audit log before it chooses its name.
AuditedFirst == \A r \in RunIds : phase[r] \in {"name", "write", "fill", "ended"} => r \in audit

\* Two runs that are at work and began in one second are both shared.
BesideShared ==
  \A r, q \in RunIds : r # q /\ AtWork(r) /\ AtWork(q) /\ began[r] = began[q] => r \in shared

\* A report is of a run that opened it, began in the second it is named by, chose it and was
\* audited; a run holds the file it is writing unless it shares it; and what lies where a run is
\* about to write, and what is cut short, is accounted for.
ReportsSound ==
  /\ \A n \in Names : report[n] # NoRun =>
       /\ phase[report[n]] \in {"fill", "ended", "died"} /\ began[report[n]] = n[1]
       /\ n = name[report[n]] /\ report[n] \in audit
  /\ \A r \in RunIds : phase[r] \in {"write", "fill"} =>
       name[r][1] = began[r] /\ report[name[r]] \in {NoRun, r} \cup shared
  /\ \A r \in RunIds : phase[r] = "write" => report[name[r]] # r
  /\ \A r \in RunIds : phase[r] = "fill" => report[name[r]] = r \/ r \in shared
  /\ \A n \in cut : /\ report[n] # NoRun
                    /\ phase[report[n]] \in {"fill", "died"} \/ report[n] \in shared

AcquireInv == /\ AcquireTypes /\ StartedInTurn /\ AuditedFirst /\ BesideShared /\ ReportsSound
              /\ ReportKept

\* A run without a report finds a name no file has: there are as many names to a second as
\* runs, and no run has two reports.
LEMMA NameIsFree ==
  ASSUME AcquireInv, NEW r \in RunIds, phase[r] = "name"
  PROVE  FreeName(r) \in Names /\ report[FreeName(r)] = NoRun /\ FreeName(r)[1] = began[r]
<1> DEFINE free == {n \in RunIds : report[<<began[r], n>>] = NoRun}
<1>1. began[r] \in 0..MaxSecond /\ \A n \in RunIds : <<began[r], n>> \in Names
  BY DEF AcquireInv, AcquireTypes, Names
<1>2. free # {}
  <2>1. SUFFICES ASSUME free = {} PROVE FALSE
    OBVIOUS
  <2> DEFINE f == [n \in RunIds |-> report[<<began[r], n>>]]
  <2>2. f \in [RunIds -> RunIds \ {r}]
    BY <1>1, <2>1 DEF AcquireInv, AcquireTypes, ReportsSound
  <2>3. IsFiniteSet(RunIds) /\ Cardinality(RunIds) \in Nat
    <3>1. IsFiniteSet(RunIds)
      BY FS_Interval, AcquireAssumption DEF RunIds
    <3>2. QED
      BY <3>1, FS_CardinalityType
  <2>4. /\ IsFiniteSet(RunIds \ {r})
        /\ Cardinality(RunIds \ {r}) = Cardinality(RunIds) - 1
    BY <2>3, FS_RemoveElement
  <2> HIDE DEF f
  <2>5. PICK m, n \in RunIds : m # n /\ f[m] = f[n]
    BY <2>2, <2>3, <2>4, FS_PigeonHole
  <2>6. report[<<began[r], m>>] = report[<<began[r], n>>] /\ report[<<began[r], m>>] # NoRun
    BY <2>1, <2>5 DEF f
  <2>7. <<began[r], m>> = <<began[r], n>>
    BY <1>1, <2>6 DEF AcquireInv, ReportsSound
  <2>8. QED
    BY <2>5, <2>7
<1>3. IsFiniteSet(RunIds) /\ RunIds \subseteq Nat /\ free \subseteq RunIds
  <2>1. NRuns \in Int /\ 1 \in Int
    BY AcquireAssumption
  <2>2. IsFiniteSet(1..NRuns)
    BY <2>1, FS_Interval
  <2>3. 1..NRuns \subseteq Nat
    BY <2>1
  <2>4. QED
    BY <2>2, <2>3 DEF RunIds
<1> HIDE DEF free
<1>4. Min(free) \in free
  BY <1>2, <1>3, MinIsMember
<1>5. FreeName(r) = <<began[r], Min(free)>>
  BY DEF FreeName, free
<1>6. QED
  BY <1>1, <1>4, <1>5 DEF free

LEMMA AcquireInitSound == AcquireInit => AcquireInv
<1>1. ASSUME AcquireInit PROVE AcquireTypes
  BY <1>1, AcquireAssumption DEF AcquireInit, AcquireTypes, Phases, Names, RunIds, NoRun
<1>2. QED
  BY <1>1, AcquireAssumption
  DEF AcquireInit, AcquireInv, StartedInTurn, AuditedFirst, BesideShared, ReportsSound,
      ReportKept, AtWork, RunIds

\* A run begins: nothing was known of it, and those it joins are shared from now on.
LEMMA StartStep ==
  ASSUME AcquireInv, StartAcquire
  PROVE  AcquireInv'
<1>1. PICK r \in RunIds : r = started' /\ r = started + 1 /\ phase[r] = "wait"
  BY AcquireAssumption DEF StartAcquire, AcquireInv, AcquireTypes, StartedInTurn, RunIds
<1>2. /\ began' = [began EXCEPT ![r] = second]
      /\ UNCHANGED <<second, name, audit, report, cut>>
      /\ \/ phase' = [phase EXCEPT ![r] = "died"] /\ UNCHANGED shared
         \/ /\ phase' = [phase EXCEPT ![r] = "check"]
            /\ shared' = shared \cup (IF Beside = {} THEN {} ELSE Beside \cup {r})
  BY <1>1 DEF StartAcquire, Goes
<1>3. /\ phase' \in [RunIds -> Phases] /\ phase'[r] \in {"died", "check"}
      /\ \A q \in RunIds \ {r} : phase'[q] = phase[q] /\ began'[q] = began[q]
      /\ began'[r] = second /\ began' \in [RunIds -> 0..MaxSecond]
      /\ shared \subseteq shared' /\ shared' \subseteq RunIds
  BY <1>1, <1>2 DEF AcquireInv, AcquireTypes, Phases, Beside
<1>4. AcquireTypes'
  <2>1. started' \in 0..NRuns
    BY <1>1, AcquireAssumption DEF RunIds
  <2>2. QED
    BY <1>2, <1>3, <2>1 DEF AcquireInv, AcquireTypes
<1>5. StartedInTurn'
  <2>1. \A q \in RunIds : q <= started' <=> q <= started \/ q = r
    BY <1>1, AcquireAssumption DEF AcquireInv, AcquireTypes, RunIds
  <2>2. second <= second
    BY AcquireAssumption DEF AcquireInv, AcquireTypes
  <2>3. QED
    BY <1>1, <1>2, <1>3, <2>1, <2>2 DEF AcquireInv, StartedInTurn
<1>6. AuditedFirst' /\ ReportKept'
  BY <1>1, <1>2, <1>3 DEF AcquireInv, AuditedFirst, ReportKept
<1>7. BesideShared'
  BY <1>1, <1>2 DEF AcquireInv, AcquireTypes, BesideShared, AtWork, Beside
<1>8. ReportsSound'
  <2>1. \A n \in Names : report[n] # NoRun => report[n] \in RunIds \ {r}
    BY <1>1 DEF AcquireInv, AcquireTypes, ReportsSound
  <2>2. \A n \in Names : report[n] # NoRun =>
          phase'[report[n]] = phase[report[n]] /\ began'[report[n]] = began[report[n]]
    BY <1>3, <2>1
  <2>3. \A q \in RunIds : phase'[q] \in {"write", "fill"} =>
          q # r /\ phase'[q] = phase[q] /\ began'[q] = began[q]
    BY <1>3
  <2>4. QED
    <3>1. \A n \in Names : report[n] # NoRun =>
            /\ phase'[report[n]] \in {"fill", "ended", "died"} /\ began'[report[n]] = n[1]
            /\ n = name[report[n]] /\ report[n] \in audit
      BY <2>2 DEF AcquireInv, ReportsSound
    <3>2. \A q \in RunIds : phase'[q] \in {"write", "fill"} =>
            name[q][1] = began'[q] /\ report[name[q]] \in {NoRun, q} \cup shared'
      BY <1>3, <2>3 DEF AcquireInv, ReportsSound
    <3>3. /\ \A q \in RunIds : phase'[q] = "write" => report[name[q]] # q
          /\ \A q \in RunIds : phase'[q] = "fill" => report[name[q]] = q \/ q \in shared'
      BY <1>3, <2>3 DEF AcquireInv, ReportsSound
    <3>4. \A n \in cut : /\ report[n] # NoRun
                         /\ phase'[report[n]] \in {"fill", "died"} \/ report[n] \in shared'
      BY <1>3, <2>2 DEF AcquireInv, AcquireTypes, ReportsSound
    <3>5. QED
      BY <1>2, <3>1, <3>2, <3>3, <3>4 DEF ReportsSound
<1>9. QED
  BY <1>4, <1>5, <1>6, <1>7, <1>8 DEF AcquireInv

\* A step that moves one run on and touches no name and no report.
LEMMA MoveStep ==
  ASSUME AcquireInv, NEW r \in RunIds, AtWork(r), NEW next \in {"audit", "name", "died"},
         Goes(r, next), next = "name" => r \in audit',
         next # "died" => phase[r] \in {"check", "audit"},
         audit \subseteq audit', audit' \subseteq RunIds,
         UNCHANGED <<second, started, began, name, report, cut, shared>>
  PROVE  AcquireInv'
<1>1. AcquireTypes'
  BY DEF AcquireInv, AcquireTypes, Goes, Phases
<1>2. StartedInTurn' /\ AuditedFirst' /\ BesideShared'
  BY DEF AcquireInv, AcquireTypes, StartedInTurn, AuditedFirst, BesideShared, Goes, AtWork
<1>3. \A q \in RunIds : phase'[q] = IF q = r THEN next ELSE phase[q]
  BY DEF AcquireInv, AcquireTypes, Goes
<1>4. ReportsSound'
  <2>1. \A n \in Names : report[n] # NoRun =>
          /\ phase'[report[n]] \in {"fill", "ended", "died"}
          /\ phase[report[n]] \in {"fill", "died"} => phase'[report[n]] \in {"fill", "died"}
    BY <1>3 DEF AcquireInv, AcquireTypes, ReportsSound, AtWork
  <2>2. \A q \in RunIds : phase'[q] \in {"write", "fill"} => phase'[q] = phase[q]
    BY <1>3
  <2>3. QED
    BY <2>1, <2>2 DEF AcquireInv, AcquireTypes, ReportsSound
<1>5. ReportKept'
  BY <1>3 DEF AcquireInv, ReportKept, AtWork
<1>6. QED
  BY <1>1, <1>2, <1>4, <1>5 DEF AcquireInv

LEMMA NameStep ==
  ASSUME AcquireInv, NEW r \in RunIds, ChooseName(r)
  PROVE  AcquireInv'
<1>1. /\ phase[r] = "name" /\ phase' = [phase EXCEPT ![r] = "write"]
      /\ name' = [name EXCEPT ![r] = FreeName(r)]
      /\ UNCHANGED <<second, started, began, audit, report, cut, shared>>
  BY DEF ChooseName, Goes, NextStage
<1>2. FreeName(r) \in Names /\ report[FreeName(r)] = NoRun /\ FreeName(r)[1] = began[r]
  BY <1>1, NameIsFree
<1>3. AcquireTypes'
  BY <1>1, <1>2 DEF AcquireInv, AcquireTypes, Phases
<1>4. StartedInTurn' /\ AuditedFirst' /\ BesideShared'
  BY <1>1 DEF AcquireInv, AcquireTypes, StartedInTurn, AuditedFirst, BesideShared, AtWork
<1>5. /\ \A q \in RunIds : phase'[q] = IF q = r THEN "write" ELSE phase[q]
      /\ \A q \in RunIds : name'[q] = IF q = r THEN FreeName(r) ELSE name[q]
      /\ \A n \in Names : report[n] # r
  <2>1. r # NoRun
    BY AcquireAssumption DEF RunIds, NoRun
  <2>2. QED
    BY <1>1, <2>1 DEF AcquireInv, AcquireTypes, ReportsSound
<1>6. ReportsSound'
  BY <1>1, <1>2, <1>5 DEF AcquireInv, AcquireTypes, ReportsSound
<1>7. ReportKept'
  BY <1>1, <1>5 DEF AcquireInv, ReportKept
<1>8. QED
  BY <1>3, <1>4, <1>6, <1>7 DEF AcquireInv

\* Runs that have the same name to write to were at work in the second it is named by, and are
\* shared.
LEMMA SameName ==
  ASSUME AcquireInv, NEW r \in RunIds, NEW q \in RunIds, q # r, name[q] = name[r],
         phase[q] \in {"write", "fill"}, phase[r] \in {"write", "fill"}
  PROVE  q \in shared /\ r \in shared
BY DEF AcquireInv, ReportsSound, BesideShared, AtWork

\* The run opens its report, or writes it.  What lay there was its own or of a shared run, and
\* another run that has the name is shared with this one.
LEMMA ReportStep ==
  ASSUME AcquireInv, NEW r \in RunIds, OpenReport(r) \/ WriteReport(r)
  PROVE  AcquireInv'
<1> DEFINE next == IF phase[r] = "write" THEN "fill" ELSE "ended"
<1>1. /\ phase[r] \in {"write", "fill"} /\ phase' = [phase EXCEPT ![r] = next]
      /\ report' = [report EXCEPT ![name[r]] = r]
      /\ UNCHANGED <<second, started, began, name, audit, shared>>
      /\ \/ cut' = cut \ {name[r]}
         \/ /\ cut' = cut \cup {name[r]}
            /\ phase[r] = "fill" => report[name[r]] # r
  BY DEF OpenReport, WriteReport, Goes, NextStage
<1>2. /\ name[r] \in Names /\ name[r][1] = began[r]
      /\ report[name[r]] \in {NoRun, r} \cup shared
      /\ phase[r] = "fill" => report[name[r]] = r \/ r \in shared
      /\ \A n \in Names : report[n] = r => n = name[r]
      /\ r \in audit /\ r # NoRun
  <2>1. r # NoRun
    BY AcquireAssumption DEF RunIds, NoRun
  <2>2. name[r] \in Names /\ r \in audit
    BY <1>1 DEF AcquireInv, AcquireTypes, AuditedFirst
  <2>3. /\ name[r][1] = began[r] /\ report[name[r]] \in {NoRun, r} \cup shared
        /\ phase[r] = "fill" => report[name[r]] = r \/ r \in shared
    BY <1>1 DEF AcquireInv, ReportsSound
  <2>4. \A n \in Names : report[n] = r => n = name[r]
    BY <2>1 DEF AcquireInv, ReportsSound
  <2>5. QED
    BY <2>1, <2>2, <2>3, <2>4
<1>3. next \in {"fill", "ended"}
  OBVIOUS
<1>4. \A n \in Names : report'[n] = IF n = name[r] THEN r ELSE report[n]
  BY <1>1, <1>2 DEF AcquireInv, AcquireTypes
<1>5. \A q \in RunIds : phase'[q] = IF q = r THEN next ELSE phase[q]
  BY <1>1 DEF AcquireInv, AcquireTypes
<1>6. cut' \subseteq cut \cup {name[r]}
      /\ (name[r] \in cut' => next = "fill" \/ r \in shared)
  BY <1>1, <1>2
<1> HIDE DEF next
<1>7. AcquireTypes'
  BY <1>1, <1>2, <1>3, <1>6 DEF AcquireInv, AcquireTypes, Phases
<1>8. StartedInTurn'
  BY <1>1, <1>3, <1>5 DEF AcquireInv, StartedInTurn
<1>9. AuditedFirst'
  BY <1>1, <1>2, <1>5 DEF AcquireInv, AuditedFirst
<1>10. BesideShared'
  BY <1>1, <1>5 DEF AcquireInv, BesideShared, AtWork
<1>11. ReportsSound'
  <2>1. \A n \in Names : report'[n] # NoRun =>
          /\ phase'[report'[n]] \in {"fill", "ended", "died"} /\ began'[report'[n]] = n[1]
          /\ n = name'[report'[n]] /\ report'[n] \in audit'
    <3>1. SUFFICES ASSUME NEW n \in Names, report'[n] # NoRun
                   PROVE  /\ phase'[report'[n]] \in {"fill", "ended", "died"}
                          /\ began[report'[n]] = n[1]
                          /\ n = name[report'[n]] /\ report'[n] \in audit
      BY <1>1
    <3>2. CASE n = name[r]
      BY <1>2, <1>3, <1>4, <1>5, <3>2
    <3>3. CASE n # name[r]
      <4>1. report'[n] = report[n] /\ report[n] \in RunIds /\ report[n] # NoRun
        BY <1>4, <3>1, <3>3 DEF AcquireInv, AcquireTypes
      <4>2. /\ phase[report[n]] \in {"fill", "ended", "died"} /\ began[report[n]] = n[1]
            /\ n = name[report[n]] /\ report[n] \in audit
        BY <4>1 DEF AcquireInv, ReportsSound
      <4>3. report[n] # r
        BY <3>3, <4>2
      <4>4. QED
        BY <1>5, <4>1, <4>2, <4>3
    <3>4. QED
      BY <3>2, <3>3
  <2>2. ASSUME NEW q \in RunIds, phase'[q] \in {"write", "fill"}
        PROVE  /\ name[q][1] = began[q] /\ report'[name[q]] \in {NoRun, q} \cup shared
               /\ phase'[q] = "write" => report'[name[q]] # q
               /\ phase'[q] = "fill" => report'[name[q]] = q \/ q \in shared
    <3>1. phase[q] \in {"write", "fill"} /\ name[q] \in Names
      BY <1>1, <1>5, <2>2 DEF AcquireInv, AcquireTypes
    <3>2. /\ name[q][1] = began[q] /\ report[name[q]] \in {NoRun, q} \cup shared
          /\ phase[q] = "write" => report[name[q]] # q
          /\ phase[q] = "fill" => report[name[q]] = q \/ q \in shared
      BY <3>1 DEF AcquireInv, ReportsSound
    <3>3. CASE q = r
      BY <1>2, <1>3, <1>4, <1>5, <3>2, <3>3
    <3>4. CASE q # r /\ name[q] = name[r]
      <4>1. q \in shared /\ r \in shared
        BY <1>1, <3>1, <3>4, SameName
      <4>2. QED
        BY <1>4, <1>5, <3>1, <3>2, <3>4, <4>1
    <3>5. CASE q # r /\ name[q] # name[r]
      BY <1>4, <1>5, <3>1, <3>2, <3>5
    <3>6. QED
      BY <3>3, <3>4, <3>5
  <2>3. ASSUME NEW n \in cut'
        PROVE  /\ report'[n] # NoRun
               /\ phase'[report'[n]] \in {"fill", "died"} \/ report'[n] \in shared
    <3>1. CASE n = name[r]
      BY <1>2, <1>4, <1>5, <1>6, <2>3, <3>1
    <3>2. CASE n # name[r]
      <4>1. n \in cut /\ n \in Names /\ report'[n] = report[n]
        BY <1>4, <1>6, <2>3, <3>2 DEF AcquireInv, AcquireTypes
      <4>2. /\ report[n] # NoRun /\ report[n] \in RunIds /\ report[n] # r
            /\ phase[report[n]] \in {"fill", "died"} \/ report[n] \in shared
        BY <1>2, <3>2, <4>1 DEF AcquireInv, AcquireTypes, ReportsSound
      <4>3. QED
        BY <1>5, <4>1, <4>2
    <3>3. QED
      BY <3>1, <3>2
  <2>4. QED
    BY <1>1, <2>1, <2>2, <2>3 DEF ReportsSound
<1>12. ReportKept'
  <2>1. SUFFICES ASSUME NEW q \in RunIds, phase'[q] = "ended", q \notin shared
                 PROVE  \E n \in Names \ cut' : report'[n] = q
    BY <1>1 DEF ReportKept
  <2>2. CASE q = r
    BY <1>2, <1>3, <1>4, <1>5, <1>6, <2>1, <2>2
  <2>3. CASE q # r
    <3>1. PICK n \in Names \ cut : report[n] = q
      BY <1>5, <2>1, <2>3 DEF AcquireInv, ReportKept
    <3>2. n # name[r]
      BY <1>2, <2>1, <2>3, <3>1, AcquireAssumption DEF RunIds, NoRun
    <3>3. QED
      BY <1>4, <1>6, <3>1, <3>2
  <2>4. QED
    BY <2>2, <2>3
<1>13. QED
  BY <1>7, <1>8, <1>9, <1>10, <1>11, <1>12 DEF AcquireInv

LEMMA AcquireStepSound == AcquireInv /\ [AcquireNext]_acquireVars => AcquireInv'
<1> SUFFICES ASSUME AcquireInv, [AcquireNext]_acquireVars PROVE AcquireInv'
  OBVIOUS
<1>1. CASE Tick
  BY <1>1, AcquireAssumption
  DEF Tick, AcquireInv, AcquireTypes, StartedInTurn, AuditedFirst, BesideShared, ReportsSound,
      ReportKept, AtWork
<1>2. CASE StartAcquire
  BY <1>2, StartStep
<1>3. ASSUME NEW r \in RunIds, CheckOne(r) PROVE AcquireInv'
  <2>1. CASE Goes(r, "died")
    BY <1>3, <2>1, MoveStep DEF CheckOne, AtWork, AcquireInv, AcquireTypes
  <2>2. CASE UNCHANGED phase
    BY <1>3, <2>2
    DEF CheckOne, AcquireInv, AcquireTypes, StartedInTurn, AuditedFirst, BesideShared,
        ReportsSound, ReportKept, AtWork
  <2>3. QED
    BY <1>3, <2>1, <2>2 DEF CheckOne
<1>4. ASSUME NEW r \in RunIds, Checked(r) PROVE AcquireInv'
  BY <1>4, MoveStep DEF Checked, NextStage, AtWork, AcquireInv, AcquireTypes
<1>5. ASSUME NEW r \in RunIds, WriteAudit(r) PROVE AcquireInv'
  BY <1>5, MoveStep DEF WriteAudit, NextStage, AtWork, AcquireInv, AcquireTypes
<1>6. ASSUME NEW r \in RunIds, ChooseName(r) PROVE AcquireInv'
  BY <1>6, NameStep
<1>7. ASSUME NEW r \in RunIds, OpenReport(r) \/ WriteReport(r) PROVE AcquireInv'
  BY <1>7, ReportStep
<1>8. ASSUME NEW r \in RunIds, Die(r) PROVE AcquireInv'
  BY <1>8, MoveStep DEF Die, AcquireInv, AcquireTypes
<1>9. CASE UNCHANGED acquireVars
  BY <1>9
  DEF acquireVars, AcquireInv, AcquireTypes, StartedInTurn, AuditedFirst, BesideShared,
      ReportsSound, ReportKept, AtWork
<1>10. QED
  BY <1>1, <1>2, <1>3, <1>4, <1>5, <1>6, <1>7, <1>8, <1>9 DEF AcquireNext

LEMMA AcquireSound == AcquireSpec => []AcquireInv
BY AcquireInitSound, AcquireStepSound, PTL DEF AcquireSpec

\* The report of a run that ended stays, and whole, unless another run began in its second
\* beside it (main, :264-274), for any number of runs and seconds.
LEMMA ReportsAreKept == AcquireSpec => []ReportKept
<1>1. AcquireInv => ReportKept
  BY DEF AcquireInv
<1>2. QED
  BY <1>1, AcquireSound, PTL

\* No run leaves a report without having left its record in the audit log, nor half of one
\* unless it died or shared its second (:262-274).
LEMMA ReportsAreAudited == AcquireSpec => []ReportAudited
<1>1. AcquireInv => ReportAudited
  BY DEF AcquireInv, AcquireTypes, AuditedFirst, ReportsSound, ReportAudited
<1>2. QED
  BY <1>1, AcquireSound, PTL
-----------------------------------------------------------------------------
(* The model ledger.                                                       *)

\* Reports and audit lines last, and go together (ao-build-update.py:262-274).
THEOREM RunsAreTraced == AcquireSpec => []RunsTraced
<1>1. ReportKept /\ ReportAudited => RunsTraced
  BY DEF RunsTraced
<1>2. QED
  BY <1>1, ReportsAreKept, ReportsAreAudited, PTL

Verdicts == {"none", "TIMEOUT", "DRY", "ERROR", "FAIL", "PASS", "BILLABLE"}
Ledgers  == [Models -> [verdict : Verdicts, fresh : BOOLEAN]]
RunState == [doing : {"idle", "probe", "open", "write"}, to : Copies, todo : SUBSET Models,
             ledger : Ledgers, shared : BOOLEAN]

LedgerTypes ==
  /\ filed \in [Copies -> Ledgers \cup {Torn}]
  /\ run \in [Runs -> RunState]
  /\ crowded \in BOOLEAN /\ partial \in BOOLEAN

\* Whoever passes in a ledger has earned it, or passed the earlier task.
PassesEarned(l) == \A m \in Models : l[m].verdict = "PASS" => m \in earned \cup legacy

LedgersEarned == /\ \A c \in Copies : filed[c] # Torn => PassesEarned(filed[c])
                 /\ \A r \in Runs : PassesEarned(run[r].ledger)

\* A ledger has a PASS that the model's latest probe has refuted.
Outdated(l, m) == l[m].verdict = "PASS" /\ m \in refuted

\* Whole saves: unless it was found beside another run, a verdict is in the ledger of every
\* run, and in a copy as soon as it is saved there.
VerdictsKept ==
  /\ \A r \in Runs, m \in Models \ overtaken : ~Outdated(run[r].ledger, m)
  /\ \A m \in Models \ overtaken :
       /\ filed["tmp"] # Torn /\ Outdated(filed["tmp"], m) =>
            \E r \in Runs : Saving(r, m) /\ run[r].to = "tmp"
       /\ filed["repo"] # Torn /\ Outdated(filed["repo"], m) => \E r \in Runs : Saving(r, m)

\* One run at a time and whole saves: the copy in the repository is torn only while it is
\* written, and then the other one can be read.
SavesInTurn ==
  crowded \/ partial \/
    /\ \A r, q \in Runs : r # q => Does(r, "idle") \/ Does(q, "idle")
    /\ \A r \in Runs : ~run[r].shared
    /\ filed["repo"] = Torn => \E r \in Runs : Does(r, "write") /\ run[r].to = "repo"
    /\ \A r \in Runs :
         run[r].to = "repo" /\ (Does(r, "open") \/ Does(r, "write")) => filed["tmp"] # Torn

IdleEmpty == \A r \in Runs : Does(r, "idle") => run[r].ledger = NoLedger

LedgerInv == /\ LedgerTypes /\ LedgersEarned /\ IdleEmpty
             /\ partial \/ VerdictsKept
             /\ SavesInTurn

\* A ledger has a model in it, so it is not the empty file.
LEMMA LedgerIsNotTorn ==
  ASSUME NEW l \in Ledgers
  PROVE  l # Torn
<1>1. DOMAIN l = Models /\ 1 \in Models
  BY LedgerAssumption DEF Ledgers, Models
<1>2. DOMAIN Torn = {}
  BY DEF Torn
<1>3. QED
  BY <1>1, <1>2

LEMMA LedgerLoaded ==
  ASSUME LedgerTypes, LedgersEarned
  PROVE  LoadLedger \in Ledgers /\ PassesEarned(LoadLedger)
<1>1. NoLedger \in Ledgers /\ PassesEarned(NoLedger)
  BY DEF NoLedger, NoVerdict, Ledgers, Verdicts, PassesEarned
<1>2. QED
  BY <1>1 DEF LoadLedger, LedgerTypes, LedgersEarned, Copies

\* Who loads the ledger misses at most the verdicts that are being saved.
LEMMA LoadedOutdated ==
  ASSUME VerdictsKept, NEW m \in Models \ overtaken, Outdated(LoadLedger, m)
  PROVE  \E r \in Runs : Saving(r, m)
<1>1. ~Outdated(NoLedger, m)
  BY DEF NoLedger, NoVerdict, Outdated
<1>2. CASE filed["tmp"] # Torn
  BY <1>2 DEF LoadLedger, VerdictsKept
<1>3. CASE filed["tmp"] = Torn /\ filed["repo"] # Torn
  BY <1>3 DEF LoadLedger, VerdictsKept
<1>4. CASE filed["tmp"] = Torn /\ filed["repo"] = Torn
  BY <1>1, <1>4 DEF LoadLedger
<1>5. QED
  BY <1>2, <1>3, <1>4

LEMMA IdleRun ==
  /\ Idle \in RunState /\ Idle.doing = "idle" /\ Idle.ledger = NoLedger /\ Idle.shared = FALSE
  /\ PassesEarned(NoLedger) /\ \A m \in Models : NoLedger[m].verdict = "none"
BY DEF Idle, RunState, Copies, NoLedger, NoVerdict, Ledgers, Verdicts, PassesEarned

LEMMA LedgerInitSound == LedgerInit => LedgerInv
<1> SUFFICES ASSUME LedgerInit PROVE LedgerInv
  OBVIOUS
<1>1. PICK l \in [Models -> {NoVerdict, [verdict |-> "PASS", fresh |-> FALSE],
                            [verdict |-> "DRY", fresh |-> FALSE]}] :
         filed = [c \in Copies |-> l] /\ legacy = {m \in Models : l[m].verdict = "PASS"}
  BY DEF LedgerInit
<1>2. l \in Ledgers /\ l # Torn
  <2>1. l \in Ledgers
    <3>1. {NoVerdict, [verdict |-> "PASS", fresh |-> FALSE],
           [verdict |-> "DRY", fresh |-> FALSE]} \subseteq [verdict : Verdicts, fresh : BOOLEAN]
      BY DEF Verdicts, NoVerdict
    <3>2. QED
      BY <3>1 DEF Ledgers
  <2>2. QED
    BY <2>1, LedgerIsNotTorn
<1>3. /\ run = [r \in Runs |-> Idle] /\ refuted = {} /\ crowded = FALSE /\ partial = FALSE
  BY DEF LedgerInit
<1>4. LedgerTypes
  BY <1>1, <1>2, <1>3, IdleRun DEF LedgerTypes
<1>5. LedgersEarned
  <2>1. PassesEarned(l) /\ \A c \in Copies : filed[c] = l
    BY <1>1 DEF PassesEarned
  <2>2. QED
    BY <1>3, <2>1, IdleRun DEF LedgersEarned
<1>6. VerdictsKept
  BY <1>3 DEF VerdictsKept, Outdated
<1>7. SavesInTurn /\ IdleEmpty
  BY <1>1, <1>2, <1>3, IdleRun DEF SavesInTurn, Does, Copies, IdleEmpty
<1>8. QED
  BY <1>4, <1>5, <1>6, <1>7 DEF LedgerInv

\* Two runs that are not idle have overlapped, and the one that begins misses what the other
\* is saving.
LEMMA BeginStep ==
  ASSUME LedgerInv, NEW r \in Runs, Begin(r)
  PROVE  LedgerInv'
<1>1. LoadLedger \in Ledgers /\ PassesEarned(LoadLedger)
  BY LedgerLoaded DEF LedgerInv
<1>2. Wanted(r, LoadLedger) \subseteq Models
  BY DEF Wanted
<1>3. PICK new : new = [Idle EXCEPT !.doing = "probe", !.todo = Wanted(r, LoadLedger),
                                 !.ledger = LoadLedger]
  OBVIOUS
<1>4. new \in RunState /\ new.doing = "probe" /\ new.ledger = LoadLedger /\ new.shared = FALSE
  BY <1>1, <1>2, <1>3 DEF Idle, Copies, RunState
<1>5. /\ run[r].doing = "idle" /\ run' = [run EXCEPT ![r] = new]
      /\ crowded' = (crowded \/ \E q \in Runs : run[q].doing # "idle")
      /\ overtaken' = overtaken \cup {m \in Models : \E q \in Runs : Saving(q, m)}
      /\ UNCHANGED <<filed, legacy, earned, refuted, partial>>
  BY <1>3 DEF Begin, Does
<1>6. LedgerTypes'
  BY <1>4, <1>5 DEF LedgerInv, LedgerTypes
<1>7. LedgersEarned'
  BY <1>1, <1>4, <1>5 DEF LedgerInv, LedgerTypes, LedgersEarned, PassesEarned
<1>8. ASSUME VerdictsKept PROVE VerdictsKept'
  <2>1. ASSUME NEW m \in Models \ overtaken'
        PROVE  m \in Models \ overtaken /\ ~\E q \in Runs : Saving(q, m)
    BY <1>5, <2>1
  <2>2. \A m \in Models \ overtaken' : ~Outdated(LoadLedger, m)
    BY <1>8, <2>1, LoadedOutdated
  <2>3. \A q \in Runs, m \in Models \ overtaken' : ~Outdated(run'[q].ledger, m)
    <3>1. \A q \in Runs : q = r \/ run'[q] = run[q]
      BY <1>5
    <3>2. run'[r] = new
      BY <1>5 DEF LedgerInv, LedgerTypes
    <3>3. QED
      BY <1>4, <1>8, <2>1, <2>2, <3>1, <3>2 DEF VerdictsKept
  <2>4. \A m \in Models \ overtaken' :
          /\ filed["tmp"] # Torn => ~Outdated(filed["tmp"], m)
          /\ filed["repo"] # Torn => ~Outdated(filed["repo"], m)
    BY <1>8, <2>1 DEF VerdictsKept
  <2>5. QED
    BY <1>5, <2>3, <2>4 DEF VerdictsKept, Outdated
<1>9. SavesInTurn' /\ IdleEmpty'
  BY <1>4, <1>5 DEF LedgerInv, LedgerTypes, SavesInTurn, Does, IdleEmpty
<1>10. QED
  BY <1>5, <1>6, <1>7, <1>8, <1>9 DEF LedgerInv

\* probe_cline_model calls a model passing if and only if the probe deserved it.
LEMMA ProbeStep ==
  ASSUME LedgerInv, NEW r \in Runs, Probe(r)
  PROVE  LedgerInv'
<1>1. PICK o \in Outcomes :
        LET m == Min(run[r].todo)
        IN  /\ ~Raises(o) /\ Does(r, "probe") /\ run[r].todo # {}
            /\ run' = [run EXCEPT ![r].doing = "open", ![r].to = "tmp",
                                 ![r].ledger[m] = [verdict |-> VerdictOf(o), fresh |-> TRUE]]
            /\ earned' = IF Deserves(o) THEN earned \cup {m} ELSE earned
            /\ refuted' = IF Deserves(o) THEN refuted \ {m} ELSE refuted \cup {m}
            /\ overtaken' = IF Alone(r) THEN overtaken \ {m} ELSE overtaken \cup {m}
            /\ UNCHANGED <<filed, wipes, legacy, crowded, partial>>
  BY DEF Probe
<1>2. VerdictOf(o) \in Verdicts /\ (VerdictOf(o) = "PASS" => Deserves(o))
  BY <1>1 DEF VerdictOf, Deserves, Verdicts, Outcomes, Raises
<1>3. /\ run[r].ledger \in Ledgers /\ PassesEarned(run[r].ledger) /\ run[r] \in RunState
  BY DEF LedgerInv, LedgerTypes, LedgersEarned, RunState
<1>4. PICK m : m = Min(run[r].todo)
  OBVIOUS
<1>5. PICK l : l = [run[r].ledger EXCEPT ![m] = [verdict |-> VerdictOf(o), fresh |-> TRUE]]
  OBVIOUS
<1>6. l \in Ledgers /\ earned \subseteq earned'
  BY <1>1, <1>2, <1>3, <1>5 DEF Ledgers
<1>7. /\ earned'    = IF Deserves(o) THEN earned \cup {m} ELSE earned
      /\ refuted'   = IF Deserves(o) THEN refuted \ {m} ELSE refuted \cup {m}
      /\ overtaken' = IF Alone(r) THEN overtaken \ {m} ELSE overtaken \cup {m}
      /\ UNCHANGED <<filed, legacy, crowded, partial>> /\ run[r].doing = "probe"
  BY <1>1, <1>4 DEF Does
<1>8. \A k \in Models : l[k] = IF k = m THEN [verdict |-> VerdictOf(o), fresh |-> TRUE]
                                      ELSE run[r].ledger[k]
  BY <1>3, <1>5 DEF Ledgers
<1>9. \A k \in Models : l[k].verdict = "PASS" => k \in earned' \cup legacy
  BY <1>2, <1>3, <1>7, <1>8 DEF PassesEarned
<1>10. /\ \A q \in Runs \ {r} : run'[q] = run[q]
       /\ run'[r] = [doing |-> "open", to |-> "tmp", todo |-> run[r].todo, ledger |-> l,
                     shared |-> run[r].shared]
       /\ DOMAIN run' = Runs /\ run' = [q \in Runs |-> run'[q]]
  BY <1>1, <1>3, <1>4, <1>5 DEF LedgerInv, LedgerTypes, RunState
<1>11. LedgerTypes'
  BY <1>3, <1>6, <1>7, <1>10 DEF LedgerInv, LedgerTypes, Copies, RunState
<1>12. LedgersEarned'
  BY <1>6, <1>7, <1>9, <1>10 DEF LedgerInv, LedgersEarned, PassesEarned
<1>13. ASSUME VerdictsKept PROVE VerdictsKept'
  <2>1. Saving(r, m)' /\ run'[r].to = "tmp"
    BY <1>4, <1>10 DEF Saving
  <2>2. ASSUME NEW q \in Runs, NEW k PROVE Saving(q, k) => Saving(q, k)' /\ run'[q].to = run[q].to
    BY <1>7, <1>10 DEF Saving
  <2>3. ASSUME NEW k \in Models \ overtaken', k # m
        PROVE  k \in Models \ overtaken /\ (k \in refuted' <=> k \in refuted)
    BY <1>7, <2>3
  <2>4. ASSUME NEW q \in Runs, NEW k \in Models \ overtaken'
        PROVE  ~Outdated(run[q].ledger, k)' 
    <3>1. CASE q = r /\ k = m
      <4>1. run'[q].ledger[k].verdict = VerdictOf(o)
        BY <1>8, <1>10, <3>1
      <4>2. VerdictOf(o) = "PASS" => k \notin refuted'
        BY <1>2, <1>7, <3>1
      <4>3. QED
        BY <4>1, <4>2 DEF Outdated
    <3>2. CASE q # r /\ k = m
      <4>1. Alone(r)
        BY <1>7, <2>4, <3>2
      <4>2. run[q].doing = "idle" /\ run'[q] = run[q]
        BY <1>10, <3>2, <4>1 DEF Alone, Does
      <4>3. run[q].ledger = NoLedger
        BY <4>2 DEF LedgerInv, IdleEmpty, Does
      <4>4. QED
        BY <2>4, <4>2, <4>3, IdleRun DEF Outdated
    <3>3. CASE k # m
      <4>1. run'[q].ledger[k] = run[q].ledger[k]
        BY <1>8, <1>10, <3>3
      <4>2. ~Outdated(run[q].ledger, k) /\ (k \in refuted' <=> k \in refuted)
        BY <1>13, <2>3, <2>4, <3>3 DEF VerdictsKept
      <4>3. QED
        BY <4>1, <4>2 DEF Outdated
    <3>4. QED
      BY <3>1, <3>2, <3>3
  <2>5. ASSUME NEW k \in Models \ overtaken'
        PROVE  /\ filed["tmp"] # Torn /\ Outdated(filed["tmp"], k)' =>
                    \E q \in Runs : Saving(q, k)' /\ run'[q].to = "tmp"
               /\ filed["repo"] # Torn /\ Outdated(filed["repo"], k)' =>
                    \E q \in Runs : Saving(q, k)'
    <3>1. CASE k = m
      BY <2>1, <3>1
    <3>2. CASE k # m
      <4>1. k \in Models \ overtaken /\ (k \in refuted' <=> k \in refuted)
        BY <2>3, <2>5, <3>2
      <4>2. \A c \in Copies : Outdated(filed[c], k)' => Outdated(filed[c], k)
        BY <1>7, <4>1 DEF Outdated
      <4>3. QED
        BY <1>13, <2>2, <4>1, <4>2 DEF VerdictsKept, Copies
    <3>3. QED
      BY <3>1, <3>2
  <2>6. QED
    BY <1>7, <2>4, <2>5 DEF VerdictsKept
<1>14. SavesInTurn' /\ IdleEmpty'
  BY <1>7, <1>10 DEF LedgerInv, SavesInTurn, Does, IdleEmpty
<1>15. QED
  BY <1>7, <1>11, <1>12, <1>13, <1>14 DEF LedgerInv

\* Where a run goes from a copy.
LEMMA NextCopyShape ==
  ASSUME LedgerTypes, NEW r \in Runs, run' = NextCopy(r)
  PROVE  /\ \A q \in Runs \ {r} : run'[q] = run[q]
         /\ run' \in [Runs -> RunState]
         /\ run'[r].ledger = run[r].ledger /\ run'[r].shared = FALSE
         /\ run[r].to = "tmp" => /\ run'[r].doing = "open" /\ run'[r].to = "repo"
                                 /\ run'[r].todo = run[r].todo
         /\ run[r].to = "repo" => run'[r].doing = "probe"
<1>1. run[r] \in RunState
  BY DEF LedgerTypes
<1> DEFINE next == IF run[r].to = "tmp"
                   THEN [run[r] EXCEPT !.doing = "open", !.to = "repo", !.shared = FALSE]
                   ELSE [run[r] EXCEPT !.doing = "probe",
                                       !.todo = run[r].todo \ {Min(run[r].todo)}, !.shared = FALSE]
<1>2. /\ next \in RunState /\ next.ledger = run[r].ledger /\ next.shared = FALSE
      /\ run[r].to = "tmp" => /\ next.doing = "open" /\ next.to = "repo"
                              /\ next.todo = run[r].todo
      /\ run[r].to = "repo" => next.doing = "probe"
  BY <1>1 DEF RunState, Copies
<1>3. run' = [run EXCEPT ![r] = next]
  BY DEF NextCopy
<1> HIDE DEF next
<1>4. run'[r] = next /\ \A q \in Runs \ {r} : run'[q] = run[q]
  BY <1>3 DEF LedgerTypes
<1>5. run' \in [Runs -> RunState]
  BY <1>2, <1>3 DEF LedgerTypes
<1>6. QED
  BY <1>2, <1>4, <1>5

LEMMA OpenStep ==
  ASSUME LedgerInv, NEW r \in Runs, Open(r)
  PROVE  LedgerInv'
<1>1. /\ run[r].doing = "open" /\ UNCHANGED <<legacy, earned, refuted, overtaken, crowded>>
      /\ run[r].to \in Copies /\ Torn \in Ledgers \cup {Torn}
  BY DEF Open, Does, LedgerInv, LedgerTypes, RunState, verdictVars
<1>2. ASSUME run' = [s \in Runs |->
                       IF s = r THEN [run[r] EXCEPT !.doing = "write", !.shared = Sharing(r) # {}]
                       ELSE IF s \in Sharing(r) THEN [run[s] EXCEPT !.shared = TRUE] ELSE run[s]],
             filed' = [filed EXCEPT ![run[r].to] = Torn], UNCHANGED partial
      PROVE  LedgerInv'
  <2>1. ASSUME NEW q \in Runs
        PROVE  /\ run'[q] \in RunState /\ run'[q].ledger = run[q].ledger
               /\ run'[q].to = run[q].to /\ run'[q].todo = run[q].todo
               /\ run'[q].doing = IF q = r THEN "write" ELSE run[q].doing
               /\ Sharing(r) = {} => ~run'[q].shared \/ run[q].shared
    <3>1. run[q] \in RunState /\ (Sharing(r) # {}) \in BOOLEAN
      BY DEF LedgerInv, LedgerTypes
    <3>2. CASE q = r
      <4>1. run'[q] = [run[q] EXCEPT !.doing = "write", !.shared = Sharing(r) # {}]
        BY <1>2, <3>2
      <4>2. QED
        BY <3>1, <3>2, <4>1 DEF RunState
    <3>3. CASE q # r /\ q \in Sharing(r)
      <4>1. run'[q] = [run[q] EXCEPT !.shared = TRUE]
        BY <1>2, <3>3
      <4>2. QED
        BY <3>1, <3>3, <4>1 DEF RunState
    <3>4. CASE q # r /\ q \notin Sharing(r)
      BY <1>2, <3>1, <3>4
    <3>5. QED
      BY <3>2, <3>3, <3>4
  <2>2. run' \in [Runs -> RunState]
    BY <1>2, <2>1
  <2>3. \A c \in Copies : filed'[c] = IF c = run[r].to THEN Torn ELSE filed[c]
    BY <1>2 DEF LedgerInv, LedgerTypes
  <2>4. LedgerTypes'
    BY <1>1, <1>2, <2>2 DEF LedgerInv, LedgerTypes
  <2>5. LedgersEarned'
    BY <1>1, <2>1, <2>3 DEF LedgerInv, LedgersEarned, PassesEarned
  <2>6. IdleEmpty'
    BY <2>1 DEF LedgerInv, IdleEmpty, Does
  <2>7. ASSUME VerdictsKept PROVE VerdictsKept'
    <3>1. \A q \in Runs, m \in Models : Saving(q, m) => Saving(q, m)' /\ run'[q].to = run[q].to
      BY <1>1, <2>1 DEF Saving
    <3>2. \A c \in Copies : filed'[c] # Torn => filed'[c] = filed[c]
      BY <2>3
    <3>3. QED
      BY <1>1, <2>1, <2>7, <3>1, <3>2 DEF VerdictsKept, Outdated, Copies
  <2>8. SavesInTurn'
    <3>1. SUFFICES ASSUME ~crowded, ~partial PROVE SavesInTurn'
      BY <1>1, <1>2 DEF SavesInTurn
    <3>2. /\ \A q, s \in Runs : q # s => Does(q, "idle") \/ Does(s, "idle")
          /\ \A q \in Runs : ~run[q].shared
          /\ filed["repo"] = Torn => \E q \in Runs : Does(q, "write") /\ run[q].to = "repo"
          /\ \A q \in Runs :
               run[q].to = "repo" /\ (Does(q, "open") \/ Does(q, "write")) => filed["tmp"] # Torn
      BY <3>1 DEF LedgerInv, SavesInTurn
    <3>3. \A q \in Runs \ {r} : run[q].doing = "idle"
      BY <1>1, <3>2 DEF Does
    <3>4. Sharing(r) = {}
      BY <3>3 DEF Sharing, Does
    <3>5. QED
      BY <1>1, <2>1, <2>3, <3>2, <3>3, <3>4 DEF SavesInTurn, Does, Copies
  <2>9. QED
    BY <1>2, <2>4, <2>5, <2>6, <2>7, <2>8 DEF LedgerInv
<1>3. CASE run' = NextCopy(r) /\ partial' = TRUE /\ UNCHANGED filed
  <2>1. /\ \A q \in Runs \ {r} : run'[q] = run[q]
        /\ run' \in [Runs -> RunState] /\ run'[r].ledger = run[r].ledger
        /\ run'[r].doing # "idle"
    BY <1>1, <1>3, NextCopyShape DEF LedgerInv, Copies
  <2>2. LedgerTypes' /\ LedgersEarned'
    BY <1>1, <1>3, <2>1 DEF LedgerInv, LedgerTypes, LedgersEarned, PassesEarned
  <2>3. IdleEmpty' /\ SavesInTurn'
    BY <1>3, <2>1 DEF LedgerInv, SavesInTurn, IdleEmpty, Does
  <2>4. QED
    BY <1>3, <2>2, <2>3 DEF LedgerInv
<1>4. QED
  BY <1>2, <1>3 DEF Open, Opened

LEMMA WriteStep ==
  ASSUME LedgerInv, NEW r \in Runs, Write(r)
  PROVE  LedgerInv'
<1>1. /\ run[r].doing = "write" /\ run' = NextCopy(r) /\ run[r].to \in Copies
      /\ UNCHANGED <<legacy, earned, refuted, overtaken, crowded>>
      /\ run[r].ledger \in Ledgers /\ PassesEarned(run[r].ledger) /\ run[r].ledger # Torn
  BY LedgerIsNotTorn
  DEF Write, Does, LedgerInv, LedgerTypes, LedgersEarned, RunState, verdictVars
<1>2. PICK content \in {run[r].ledger, Torn} :
        /\ filed' = [filed EXCEPT ![run[r].to] = content]
        /\ partial' = partial \/ partial' = TRUE
        /\ content = Torn => partial' = TRUE \/ run[r].shared
  <2>1. CASE filed' = [filed EXCEPT ![run[r].to] = run[r].ledger] /\ UNCHANGED partial
    BY <1>1, <2>1
  <2>2. CASE filed' = [filed EXCEPT ![run[r].to] = Torn] /\ partial' = TRUE
    BY <2>2
  <2>3. CASE run[r].shared /\ filed' = [filed EXCEPT ![run[r].to] = Torn] /\ UNCHANGED partial
    BY <2>3
  <2>4. QED
    BY <2>1, <2>2, <2>3 DEF Write
<1>3. /\ \A q \in Runs \ {r} : run'[q] = run[q]
      /\ run' \in [Runs -> RunState]
      /\ run'[r].ledger = run[r].ledger /\ run'[r].shared = FALSE
      /\ run[r].to = "tmp" => /\ run'[r].doing = "open" /\ run'[r].to = "repo"
                              /\ run'[r].todo = run[r].todo
      /\ run[r].to = "repo" => run'[r].doing = "probe"
  BY <1>1, NextCopyShape DEF LedgerInv
<1>4. \A c \in Copies : filed'[c] = IF c = run[r].to THEN content ELSE filed[c]
  BY <1>2 DEF LedgerInv, LedgerTypes
<1>5. LedgerTypes'
  BY <1>1, <1>2, <1>3 DEF LedgerInv, LedgerTypes
<1>6. LedgersEarned'
  BY <1>1, <1>2, <1>3, <1>4 DEF LedgerInv, LedgersEarned, PassesEarned
<1>7. IdleEmpty'
  BY <1>1, <1>3 DEF LedgerInv, IdleEmpty, Does, Copies
<1>8. ASSUME VerdictsKept PROVE VerdictsKept'
  <2>1. \A q \in Runs, m \in Models \ overtaken : ~Outdated(run'[q].ledger, m)
    BY <1>3, <1>8 DEF VerdictsKept
  <2>2. \A m \in Models \ overtaken : content # Torn => ~Outdated(content, m)
    BY <1>2, <1>8 DEF VerdictsKept
  <2>3. \A q \in Runs \ {r}, m \in Models : Saving(q, m) => Saving(q, m)' /\ run'[q].to = run[q].to
    BY <1>3 DEF Saving
  <2>4. run[r].to = "tmp" => \A m \in Models : Saving(r, m) => Saving(r, m)'
    BY <1>3 DEF Saving
  <2>5. ASSUME NEW m \in Models \ overtaken, filed'["tmp"] # Torn, Outdated(filed'["tmp"], m)
        PROVE  \E q \in Runs : Saving(q, m)' /\ run'[q].to = "tmp"
    <3>1. run[r].to # "tmp"
      BY <1>4, <2>2, <2>5 DEF Copies
    <3>2. filed'["tmp"] = filed["tmp"]
      BY <1>4, <3>1 DEF Copies
    <3>3. PICK q \in Runs : Saving(q, m) /\ run[q].to = "tmp"
      BY <1>8, <2>5, <3>2 DEF VerdictsKept
    <3>4. q # r
      BY <3>1, <3>3
    <3>5. QED
      BY <2>3, <3>3, <3>4
  <2>6. ASSUME NEW m \in Models \ overtaken, filed'["repo"] # Torn, Outdated(filed'["repo"], m)
        PROVE  \E q \in Runs : Saving(q, m)'
    <3>1. run[r].to = "tmp"
      BY <1>1, <1>4, <2>2, <2>6 DEF Copies
    <3>2. filed'["repo"] = filed["repo"]
      BY <1>4, <3>1 DEF Copies
    <3>3. PICK q \in Runs : Saving(q, m)
      BY <1>8, <2>6, <3>2 DEF VerdictsKept
    <3>4. QED
      BY <2>3, <2>4, <3>1, <3>3
  <2>7. QED
    BY <1>1, <2>1, <2>5, <2>6 DEF VerdictsKept, Outdated
<1>9. SavesInTurn'
  <2>1. SUFFICES ASSUME ~crowded, ~partial' PROVE SavesInTurn'
    BY <1>1 DEF SavesInTurn
  <2> ~partial /\ ~(partial' = TRUE)
    BY <1>2, <2>1
  <2>2. content = run[r].ledger
    BY <1>2, <2>1 DEF LedgerInv, SavesInTurn
  <2>3. QED
    BY <1>1, <1>3, <1>4, <2>1, <2>2 DEF LedgerInv, LedgerTypes, SavesInTurn, Does, Copies
<1>10. QED
  BY <1>2, <1>5, <1>6, <1>7, <1>8, <1>9 DEF LedgerInv

\* Runs that end, at the end of their work, on a traceback, killed, or with the host, which
\* forgets a copy.
LEMMA EndStep ==
  ASSUME LedgerInv,
         (\E r \in Runs : Finish(r) \/ RaiseOut(r) \/ Kill(r)) \/ Wipe
  PROVE  LedgerInv'
<1>1. ASSUME NEW r \in Runs, Finish(r) \/ RaiseOut(r) \/ Kill(r) PROVE LedgerInv'
  <2>1. /\ run' = [run EXCEPT ![r] = Idle]
        /\ UNCHANGED <<filed, legacy, earned, refuted, overtaken, crowded>>
        /\ partial' = (partial \/ ~(run[r].doing = "probe"))
    BY <1>1 DEF Finish, RaiseOut, Kill, Does, LedgerInv, LedgerTypes, verdictVars
  <2>2. /\ \A q \in Runs \ {r} : run'[q] = run[q]
        /\ run'[r] = Idle
    BY <2>1 DEF LedgerInv, LedgerTypes
  <2>3. LedgerTypes' /\ LedgersEarned' /\ IdleEmpty'
    BY <2>1, <2>2, IdleRun
    DEF LedgerInv, LedgerTypes, LedgersEarned, PassesEarned, IdleEmpty, Does
  <2>4. ASSUME VerdictsKept, run[r].doing = "probe" PROVE VerdictsKept'
    <3>1. \A q \in Runs, m \in Models : Saving(q, m) => Saving(q, m)' /\ run'[q].to = run[q].to
      BY <2>2, <2>4 DEF Saving
    <3>2. \A m \in Models : ~Outdated(run'[r].ledger, m)
      BY <2>2, IdleRun DEF Outdated
    <3>3. QED
      BY <2>1, <2>2, <2>4, <3>1, <3>2 DEF VerdictsKept, Outdated
  <2>5. SavesInTurn'
    BY <2>1, <2>2, IdleRun DEF LedgerInv, SavesInTurn, Does
  <2>6. QED
    BY <2>1, <2>3, <2>4, <2>5 DEF LedgerInv
<1>2. CASE Wipe
  <2>1. /\ filed' = [filed EXCEPT !["tmp"] = Torn] /\ run' = [r \in Runs |-> Idle]
        /\ UNCHANGED <<legacy, earned, refuted, overtaken, crowded>>
        /\ partial' = (partial \/ \E r \in Runs : run[r].doing \notin {"idle", "probe"})
    BY <1>2 DEF Wipe, verdictVars
  <2>2. \A c \in Copies : filed'[c] = IF c = "tmp" THEN Torn ELSE filed[c]
    BY <2>1 DEF LedgerInv, LedgerTypes
  <2>3. LedgerTypes' /\ LedgersEarned' /\ IdleEmpty'
    BY <2>1, <2>2, IdleRun
    DEF LedgerInv, LedgerTypes, LedgersEarned, PassesEarned, IdleEmpty, Does
  <2>4. ASSUME VerdictsKept, \A r \in Runs : run[r].doing \in {"idle", "probe"}
        PROVE  VerdictsKept'
    <3>1. \A r \in Runs, m \in Models : ~Saving(r, m)
      BY <2>4 DEF Saving
    <3>2. \A r \in Runs, m \in Models : ~Outdated(run'[r].ledger, m)
      BY <2>1, IdleRun DEF Outdated
    <3>3. filed'["tmp"] = Torn /\ filed'["repo"] = filed["repo"]
      BY <2>2 DEF Copies
    <3>4. QED
      BY <2>1, <2>4, <3>1, <3>2, <3>3 DEF VerdictsKept, Outdated
  <2>5. SavesInTurn'
    BY <2>1, <2>2, IdleRun DEF LedgerInv, LedgerTypes, SavesInTurn, Does, Copies
  <2>6. QED
    BY <2>1, <2>3, <2>4, <2>5 DEF LedgerInv
<1>3. QED
  BY <1>1, <1>2

LEMMA LedgerStepSound == LedgerInv /\ [LedgerNext]_ledgerVars => LedgerInv'
<1> SUFFICES ASSUME LedgerInv, [LedgerNext]_ledgerVars PROVE LedgerInv'
  OBVIOUS
<1>1. CASE UNCHANGED ledgerVars
  BY <1>1
  DEF ledgerVars, verdictVars, LedgerInv, LedgerTypes, LedgersEarned, PassesEarned, IdleEmpty,
      VerdictsKept, Outdated, Saving, SavesInTurn, Does
<1>2. QED
  BY <1>1, BeginStep, ProbeStep, OpenStep, WriteStep, EndStep DEF LedgerNext

LEMMA LedgerSound == LedgerSpec => []LedgerInv
BY LedgerInitSound, LedgerStepSound, PTL DEF LedgerSpec

\* A group is diverted to no model that has not passed a probe or the earlier task, nor to one
\* whose latest verdict is another, unless that is being saved, was found beside another run or
\* a save was cut short (probe-freemium.py:20-24; supervise.py:192-219).
THEOREM DiversionIsEarned == LedgerSpec => []DivertedEarned
<1>1. ASSUME LedgerInv, NEW assigned \in Models, NEW share \in Models,
             NEW m, m = ModelFor(assigned, share), m # assigned
      PROVE  /\ m \in earned \cup legacy
             /\ m \in refuted =>
                  partial \/ m \in overtaken \/ \E r \in Runs : Saving(r, m)
  <2> DEFINE passing == {k \in Models \ {assigned} : Verdict(k) = "PASS"}
  <2>1. passing # {} => Min(passing) \in passing
    <3>1. IsFiniteSet(Models) /\ Models \subseteq Nat /\ passing \subseteq Models
      BY FS_Interval, LedgerAssumption DEF Models
    <3> HIDE DEF passing
    <3>2. QED
      BY <3>1, MinIsMember
  <2>2. m \in passing
    BY <1>1, <2>1 DEF ModelFor
  <2>3. m \in Models /\ LoadLedger[m].verdict = "PASS"
    BY <2>2 DEF Verdict
  <2>4. m \in earned \cup legacy
    BY <1>1, <2>3, LedgerLoaded DEF LedgerInv, PassesEarned
  <2>5. ASSUME m \in refuted, ~partial, m \notin overtaken PROVE \E r \in Runs : Saving(r, m)
    <3>1. VerdictsKept /\ Outdated(LoadLedger, m)
      BY <1>1, <2>3, <2>5 DEF LedgerInv, Outdated
    <3>2. QED
      BY <2>3, <2>5, <3>1, LoadedOutdated
  <2>6. QED
    BY <2>4, <2>5
<1>2. LedgerInv => DivertedEarned
  BY <1>1 DEF DivertedEarned
<1>3. QED
  BY <1>2, LedgerSound, PTL

\* Some copy of the ledger can be read unless two runs have overlapped or a save was cut
\* short (supervise.py:177-182).
THEOREM CopyStaysReadable == LedgerSpec => []OneCopyReadable
<1>1. LedgerInv => OneCopyReadable
  BY DEF LedgerInv, SavesInTurn, OneCopyReadable, Does, Copies
<1>2. QED
  BY <1>1, LedgerSound, PTL

-----------------------------------------------------------------------------
(* The fabrication collector.                                              *)

Meetings == [Machines -> [was : MachineAnswers \cup {"unasked"}, at : Nat]]

FabTypes ==
  /\ fabClock \in Nat \ {0}
  /\ asking  \in [Collectors -> 0..(NMachines + 1)]
  /\ unsaved \in [Collectors -> Nat]
  /\ tally   \in [Collectors -> [ok : Nat, fail : Nat, offline : Nat]]
  /\ outcome \in [Collectors -> {"none", "clean", "failed", "died"}]
  /\ met     \in [Collectors -> Meetings]

\* What a pass met was a machine that gave no answer, or a record that is in the table.
DoneWith(c, m) == \/ met[c][m].was \in NoAnswer
                  \/ met[c][m].was = "good" /\ <<m, met[c][m].at>> \in production

\* The record in hand is of the machine the pass is at.  A tally without failures is that of
\* machines done with, and one with failures counts a machine that gave one.
PassSound(c) ==
  /\ unsaved[c] # NoneHeld =>
       asking[c] \in Machines /\ met[c][asking[c]] = [was |-> "good", at |-> unsaved[c]]
  /\ asking[c] # 0 =>
       /\ outcome[c] = "none"
       /\ tally[c].fail = 0 => \A m \in Machines : m < asking[c] => DoneWith(c, m)
       /\ tally[c].fail # 0 => \E m \in Machines : m < asking[c] /\ met[c][m].was \notin NoAnswer
  /\ outcome[c] = "clean"  => \A m \in Machines : DoneWith(c, m)
  /\ outcome[c] = "failed" => \E m \in Machines : met[c][m].was \notin NoAnswer

FabInv == FabTypes /\ \A c \in Collectors : PassSound(c)

LEMMA FabInitSound == FabInit => FabInv
<1> SUFFICES ASSUME FabInit PROVE FabInv
  OBVIOUS
<1>1. NobodyMet \in Meetings /\ NoTally \in [ok : Nat, fail : Nat, offline : Nat]
  BY DEF NobodyMet, Meetings, NoTally
<1>2. FabTypes
  BY <1>1, FabAssumption DEF FabInit, FabTypes, NoneHeld
<1>3. QED
  BY <1>2 DEF FabInit, FabInv, PassSound, NoneHeld

\* The other collector only adds rows.
LEMMA OtherPass ==
  ASSUME FabInv, NEW d \in Collectors, production \subseteq production',
         asking'[d] = asking[d], unsaved'[d] = unsaved[d], tally'[d] = tally[d],
         outcome'[d] = outcome[d], met'[d] = met[d]
  PROVE  PassSound(d)'
<1>1. \A m \in Machines : DoneWith(d, m) => DoneWith(d, m)'
  BY DEF DoneWith
<1>2. QED
  BY <1>1 DEF FabInv, PassSound

LEMMA StartFabStep ==
  ASSUME FabInv, NEW c \in Collectors, StartFab(c)
  PROVE  FabInv'
<1>1. NobodyMet \in Meetings /\ NoTally \in [ok : Nat, fail : Nat, offline : Nat]
  BY DEF NobodyMet, Meetings, NoTally
<1>2. FabTypes'
  BY <1>1, FabAssumption DEF StartFab, FabInv, FabTypes
<1>3. PassSound(c)'
  <2>1. /\ asking'[c] = 1 /\ unsaved'[c] = NoneHeld /\ tally'[c].fail = 0
        /\ outcome'[c] = "none"
    <3>1. asking[c] = 0 /\ 0 \notin Machines
      BY FabAssumption DEF StartFab, Machines
    <3>2. unsaved[c] = NoneHeld
      BY <3>1 DEF FabInv, PassSound
    <3>3. QED
      BY <3>2 DEF StartFab, FabInv, FabTypes, NoTally
  <2>2. \A m \in Machines : ~ (m < 1)
    BY FabAssumption DEF Machines
  <2>3. QED
    BY <2>1, <2>2 DEF PassSound
<1>4. ASSUME NEW d \in Collectors, d # c PROVE PassSound(d)'
  BY <1>4, OtherPass DEF StartFab, FabInv, FabTypes
<1>5. QED
  BY <1>2, <1>3, <1>4 DEF FabInv

LEMMA CollectStep ==
  ASSUME FabInv, NEW c \in Collectors, CollectOne(c)
  PROVE  FabInv'
<1>1. PICK a \in MachineAnswers :
        /\ asking[c] \in Machines /\ unsaved[c] = NoneHeld
        /\ Met(c, a)
        /\ CASE a = "good" -> /\ unsaved' = [unsaved EXCEPT ![c] = fabClock]
                              /\ UNCHANGED <<asking, tally, outcome>>
             [] a \in CaughtErrors ->
                  /\ CountMachine(c, IF a \in Offline THEN "offline" ELSE "fail")
                  /\ asking' = [asking EXCEPT ![c] = @ + 1]
                  /\ UNCHANGED <<unsaved, outcome>>
             [] OTHER -> /\ asking' = [asking EXCEPT ![c] = 0]
                         /\ outcome' = [outcome EXCEPT ![c] = "died"]
                         /\ tally' = [tally EXCEPT ![c] = NoTally]
                         /\ UNCHANGED unsaved
        /\ UNCHANGED <<fabClock, production>>
  BY DEF CollectOne
<1>2. /\ \A m \in Machines : met'[c][m] = IF m = asking[c]
                             THEN [was |-> a, at |-> IF a = "good" THEN fabClock ELSE 0]
                             ELSE met[c][m]
      /\ \A d \in Collectors \ {c} : met'[d] = met[d]
      /\ met' \in [Collectors -> Meetings]
  BY <1>1 DEF Met, FabInv, FabTypes, Meetings
<1>3. \A m \in Machines : m # asking[c] => (DoneWith(c, m)' <=> DoneWith(c, m))
  BY <1>1, <1>2 DEF DoneWith
<1>4. /\ asking[c] # 0 /\ asking[c] + 1 \in 0..(NMachines + 1)
      /\ \A m \in Machines : /\ m < asking[c] => m # asking[c]
                             /\ m < asking[c] + 1 <=> m < asking[c] \/ m = asking[c]
  BY <1>1, FabAssumption DEF Machines
<1>5. CASE a = "good"
  <2>1. unsaved' = [unsaved EXCEPT ![c] = fabClock] /\ UNCHANGED <<asking, tally, outcome>>
    BY <1>1, <1>5 DEF CaughtErrors
  <2>2. FabTypes'
    BY <1>1, <1>2, <2>1 DEF FabInv, FabTypes
  <2>3. PassSound(c)'
    <3>1. /\ unsaved'[c] = fabClock /\ asking'[c] = asking[c] /\ tally' = tally
          /\ outcome'[c] = outcome[c]
          /\ met'[c][asking[c]] = [was |-> "good", at |-> fabClock]
      BY <1>1, <1>2, <1>5, <2>1 DEF FabInv, FabTypes
    <3>2. /\ outcome[c] = "none"
          /\ tally[c].fail = 0 => \A m \in Machines : m < asking[c] => DoneWith(c, m)
          /\ tally[c].fail # 0 => \E m \in Machines : m < asking[c] /\ met[c][m].was \notin NoAnswer
      BY <1>4 DEF FabInv, PassSound
    <3>3. tally'[c].fail = 0 => \A m \in Machines : m < asking'[c] => DoneWith(c, m)'
      BY <1>3, <1>4, <3>1, <3>2
    <3>4. tally'[c].fail # 0 => \E m \in Machines : m < asking'[c] /\ met'[c][m].was \notin NoAnswer
      BY <1>2, <1>4, <3>1, <3>2
    <3>5. QED
      BY <1>1, <3>1, <3>2, <3>3, <3>4 DEF PassSound
  <2>4. ASSUME NEW d \in Collectors, d # c PROVE PassSound(d)'
    BY <1>1, <1>2, <2>1, <2>4, OtherPass DEF FabInv, FabTypes
  <2>5. QED
    BY <2>2, <2>3, <2>4 DEF FabInv
<1>6. CASE a # "good" /\ a \in CaughtErrors
  <2>1. /\ tally' = [tally EXCEPT ![c][IF a \in Offline THEN "offline" ELSE "fail"] = @ + 1]
        /\ asking' = [asking EXCEPT ![c] = @ + 1] /\ UNCHANGED <<unsaved, outcome>>
    BY <1>1, <1>6 DEF CountMachine
  <2>2. /\ tally' \in [Collectors -> [ok : Nat, fail : Nat, offline : Nat]]
        /\ a \in NoAnswer => tally'[c].fail = tally[c].fail
        /\ a \notin NoAnswer => tally'[c].fail # 0
    <3>1. CASE a \in NoAnswer
      BY <2>1, <3>1 DEF Offline, NoAnswer, FabInv, FabTypes
    <3>2. CASE a \notin NoAnswer
      BY <2>1, <3>2 DEF Offline, NoAnswer, FabInv, FabTypes
    <3>3. QED
      BY <3>1, <3>2
  <2>3. FabTypes'
    BY <1>1, <1>2, <1>4, <2>1, <2>2 DEF FabInv, FabTypes
  <2>4. PassSound(c)'
    <3>1. /\ outcome[c] = "none"
          /\ tally[c].fail = 0 => \A m \in Machines : m < asking[c] => DoneWith(c, m)
          /\ tally[c].fail # 0 => \E m \in Machines : m < asking[c] /\ met[c][m].was \notin NoAnswer
      BY <1>4 DEF FabInv, PassSound
    <3>2. /\ asking'[c] = asking[c] + 1 /\ unsaved'[c] = NoneHeld /\ outcome'[c] = "none"
      BY <1>1, <2>1, <3>1 DEF FabInv, FabTypes
    <3>3. /\ met'[c][asking[c]].was = a
          /\ a \in NoAnswer => \A m \in Machines : m = asking[c] => DoneWith(c, m)'
      BY <1>1, <1>2 DEF DoneWith
    <3>4. tally'[c].fail = 0 => \A m \in Machines : m < asking'[c] => DoneWith(c, m)'
      BY <1>3, <1>4, <2>2, <3>1, <3>2, <3>3
    <3>5. tally'[c].fail # 0 =>
            \E m \in Machines : m < asking'[c] /\ met'[c][m].was \notin NoAnswer
      <4>1. CASE a \in NoAnswer
        BY <1>2, <1>4, <2>2, <3>1, <3>2, <4>1
      <4>2. CASE a \notin NoAnswer
        BY <1>1, <1>4, <3>2, <3>3, <4>2
      <4>3. QED
        BY <4>1, <4>2
    <3>6. QED
      BY <3>2, <3>4, <3>5 DEF PassSound
  <2>5. ASSUME NEW d \in Collectors, d # c PROVE PassSound(d)'
    BY <1>1, <1>2, <2>1, <2>5, OtherPass DEF FabInv, FabTypes
  <2>6. QED
    BY <2>3, <2>4, <2>5 DEF FabInv
<1>7. CASE a # "good" /\ a \notin CaughtErrors
  <2>1. /\ asking' = [asking EXCEPT ![c] = 0] /\ outcome' = [outcome EXCEPT ![c] = "died"]
        /\ tally' = [tally EXCEPT ![c] = NoTally] /\ UNCHANGED unsaved
    BY <1>1, <1>7
  <2>2. FabTypes'
    BY <1>1, <1>2, <2>1, FabAssumption DEF FabInv, FabTypes, NoTally
  <2>3. PassSound(c)'
    BY <1>1, <2>1 DEF FabInv, FabTypes, PassSound
  <2>4. ASSUME NEW d \in Collectors, d # c PROVE PassSound(d)'
    BY <1>1, <1>2, <2>1, <2>4, OtherPass DEF FabInv, FabTypes
  <2>5. QED
    BY <2>2, <2>3, <2>4 DEF FabInv
<1>8. QED
  BY <1>5, <1>6, <1>7

\* The record in hand goes into the table or is counted as a failure.
LEMMA RecordStep ==
  ASSUME FabInv, NEW c \in Collectors, WriteRecord(c)
  PROVE  FabInv'
<1>1. PICK executed, done \in BOOLEAN :
        /\ asking[c] \in Machines /\ unsaved[c] # NoneHeld
        /\ production' = production \cup
             (IF executed /\ done THEN {<<asking[c], unsaved[c]>>} ELSE {})
        /\ CountMachine(c, RecordCounted(executed, done))
        /\ asking' = [asking EXCEPT ![c] = @ + 1]
        /\ unsaved' = [unsaved EXCEPT ![c] = NoneHeld]
        /\ UNCHANGED <<fabClock, outcome, met>>
  BY DEF WriteRecord
<1>2. /\ asking[c] # 0 /\ asking[c] + 1 \in 0..(NMachines + 1)
      /\ \A m \in Machines : m < asking[c] + 1 <=> m < asking[c] \/ m = asking[c]
  BY <1>1, FabAssumption DEF Machines
<1>3. /\ tally' \in [Collectors -> [ok : Nat, fail : Nat, offline : Nat]]
      /\ executed /\ done => tally'[c].fail = tally[c].fail
      /\ ~ (executed /\ done) => tally'[c].fail # 0
      /\ \A d \in Collectors \ {c} : tally'[d] = tally[d]
  <2>1. CASE executed /\ done
    BY <1>1, <2>1 DEF CountMachine, RecordCounted, FabInv, FabTypes
  <2>2. CASE ~ (executed /\ done)
    BY <1>1, <2>2 DEF CountMachine, RecordCounted, FabInv, FabTypes
  <2>3. QED
    BY <2>1, <2>2
<1>4. FabTypes'
  BY <1>1, <1>2, <1>3 DEF FabInv, FabTypes, NoneHeld
<1>5. PassSound(c)'
  <2>1. /\ asking'[c] = asking[c] + 1 /\ unsaved'[c] = NoneHeld
        /\ outcome'[c] = "none" /\ met' = met
        /\ met[c][asking[c]] = [was |-> "good", at |-> unsaved[c]]
    BY <1>1, <1>2 DEF FabInv, FabTypes, PassSound
  <2>2. \A m \in Machines : DoneWith(c, m) => DoneWith(c, m)'
    BY <1>1 DEF DoneWith
  <2>3. executed /\ done => \A m \in Machines : m = asking[c] => DoneWith(c, m)'
    BY <1>1, <2>1 DEF DoneWith
  <2>4. tally'[c].fail = 0 => \A m \in Machines : m < asking'[c] => DoneWith(c, m)'
    BY <1>2, <1>3, <2>1, <2>2, <2>3 DEF FabInv, PassSound
  <2>5. tally'[c].fail # 0 => \E m \in Machines : m < asking'[c] /\ met'[c][m].was \notin NoAnswer
    <3>1. met[c][asking[c]].was \notin NoAnswer
      BY <2>1 DEF NoAnswer
    <3>2. CASE executed /\ done
      BY <1>1, <1>2, <1>3, <2>1, <3>2 DEF FabInv, PassSound
    <3>3. CASE ~ (executed /\ done)
      BY <1>1, <1>2, <2>1, <3>1
    <3>4. QED
      BY <3>2, <3>3
  <2>6. QED
    BY <2>1, <2>4, <2>5 DEF PassSound
<1>6. ASSUME NEW d \in Collectors, d # c PROVE PassSound(d)'
  BY <1>1, <1>3, <1>6, OtherPass DEF FabInv, FabTypes
<1>7. QED
  BY <1>4, <1>5, <1>6 DEF FabInv

LEMMA EndFabStep ==
  ASSUME FabInv, NEW c \in Collectors, EndFab(c)
  PROVE  FabInv'
<1>1. FabTypes'
  BY FabAssumption DEF EndFab, FabInv, FabTypes, NoTally
<1>2. PassSound(c)'
  <2>1. /\ asking[c] = NMachines + 1 /\ asking[c] # 0 /\ asking[c] \notin Machines
        /\ \A m \in Machines : m < asking[c]
    BY FabAssumption DEF EndFab, Machines
  <2>2. /\ asking'[c] = 0 /\ unsaved' = unsaved /\ met' = met /\ production' = production
        /\ outcome'[c] = IF tally[c].fail = 0 THEN "clean" ELSE "failed"
    BY DEF EndFab, FabInv, FabTypes
  <2>3. \A m \in Machines : DoneWith(c, m)' <=> DoneWith(c, m)
    BY <2>2 DEF DoneWith
  <2>4. QED
    BY <2>1, <2>2, <2>3 DEF FabInv, PassSound
<1>3. ASSUME NEW d \in Collectors, d # c PROVE PassSound(d)'
  BY <1>3, OtherPass DEF EndFab, FabInv, FabTypes
<1>4. QED
  BY <1>1, <1>2, <1>3 DEF FabInv

LEMMA FabStepSound == FabInv /\ [FabNext]_fabVars => FabInv'
<1> SUFFICES ASSUME FabInv, [FabNext]_fabVars PROVE FabInv'
  OBVIOUS
<1>1. CASE FabTick
  <2>1. FabTypes'
    BY <1>1 DEF FabTick, FabInv, FabTypes
  <2>2. QED
    BY <1>1, <2>1, OtherPass DEF FabTick, FabInv
<1>2. CASE UNCHANGED fabVars
  BY <1>2 DEF fabVars, FabInv, FabTypes, PassSound, DoneWith
<1>3. QED
  BY <1>1, <1>2, StartFabStep, CollectStep, RecordStep, EndFabStep DEF FabNext

LEMMA FabSound == FabSpec => []FabInv
BY FabInitSound, FabStepSound, PTL DEF FabSpec

\* A clean pass has a row of every machine that was on, in the second it answered, and no
\* machine unasked (ao-fabrication-collect.py:61-66, :243-266).
LEMMA CleanPassIsRecorded == FabSpec => []CleanPassRecorded
<1>1. FabInv => CleanPassRecorded
  BY DEF FabInv, PassSound, DoneWith, CleanPassRecorded
<1>2. QED
  BY <1>1, FabSound, PTL

\* A pass that failed met a machine that was not off (:61-66).
LEMMA FailureIsAnswered == FabSpec => []FailureAnswered
<1>1. FabInv => FailureAnswered
  BY DEF FabInv, PassSound, FailureAnswered
<1>2. QED
  BY <1>1, FabSound, PTL

\* A pass is clean or failed for a reason (ao-fabrication-collect.py:61-66, :243-266).
THEOREM OutcomeIsEarned == FabSpec => []OutcomeEarned
<1>1. CleanPassRecorded /\ FailureAnswered => OutcomeEarned
  BY DEF OutcomeEarned
<1>2. QED
  BY <1>1, CleanPassIsRecorded, FailureIsAnswered, PTL

-----------------------------------------------------------------------------
(* The compiler of proposals.                                              *)

Told == PropNo \X Nat

RegisterRows == [open : [Issues -> Seq(SUBSET Told)], done : [Issues -> Seq(SUBSET Told)]]

\* A register that tells twice only what was not noted, and that has every row.
Once(reg) ==
  \A f \in PropNo : \A p, q \in Nat :
    p < q /\ Tells(reg, <<f, p>>) /\ Tells(reg, <<f, q>>) => <<f, p>> \in unnoted
Kept(reg) == \A i \in Registered \cup Completed :
               reg.open[i] # <<>> \/ reg.done[i] # <<>> \/ i \in cutAway

ProposalTypes ==
  /\ proposed \in [PropNo -> Contents \cup {NotWritten}]
  /\ applied \subseteq PropNo
  /\ register \in RegisterRows /\ draft \in RegisterRows
  /\ DOMAIN fresh \subseteq PropNo /\ \A f \in DOMAIN fresh : fresh[f] \in Contents
  /\ todo \subseteq DOMAIN fresh /\ (passAt # "telling" => todo = {})
  /\ passAt \in {"idle", "telling", "writing", "saved"}
  /\ passNo \in Nat

\* What the register tells was noted or is known not to be; or the pass has just saved it.
RegisterSound ==
  /\ \A f \in PropNo : \A p \in Nat : Tells(register, <<f, p>>) =>
       /\ p <= passNo
       /\ \/ f \in applied
          \/ <<f, p>> \in unnoted
          \/ passAt = "saved" /\ p = passNo /\ f \in DOMAIN fresh
  /\ Once(register)
  /\ whole => Kept(register)

\* A pass tells only what no pass before it has told and noted.
DraftSound ==
  /\ passAt # "idle" => DOMAIN fresh \cap applied = {}
  /\ passAt \in {"telling", "writing"} =>
       /\ \A f \in PropNo : \A p \in Nat : Tells(draft, <<f, p>>) =>
            \/ p < passNo /\ (f \in applied \/ <<f, p>> \in unnoted)
            \/ p = passNo /\ f \in DOMAIN fresh
       /\ Once(draft)
       /\ Kept(draft)

ProposalInv == ProposalTypes /\ RegisterSound /\ DraftSound

\* A sequence with an element put before it or its first one taken away: what it has.
LEMMA Prepended ==
  ASSUME NEW S, NEW s \in Seq(S), NEW x \in S
  PROVE  /\ <<x>> \o s \in Seq(S) /\ <<x>> \o s # <<>>
         /\ \A k \in DOMAIN (<<x>> \o s) :
              (<<x>> \o s)[k] = x \/ \E l \in DOMAIN s : (<<x>> \o s)[k] = s[l]
<1> DEFINE t == <<x>> \o s
<1>1. t \in Seq(S) /\ Len(t) = Len(s) + 1
  OBVIOUS
<1>2. ASSUME NEW k \in DOMAIN t PROVE t[k] = x \/ \E l \in DOMAIN s : t[k] = s[l]
  <2>1. k \in 1..Len(s) + 1
    BY <1>1, <1>2
  <2>2. CASE k = 1
    BY <2>2
  <2>3. CASE k # 1
    <3>1. k - 1 \in DOMAIN s /\ t[k] = s[k - 1]
      BY <2>1, <2>3
    <3>2. QED
      BY <3>1
  <2>4. QED
    BY <2>2, <2>3
<1>3. t # <<>>
  BY <1>1
<1>4. QED
  BY <1>1, <1>2, <1>3

LEMMA Beheaded ==
  ASSUME NEW S, NEW s \in Seq(S), s # <<>>
  PROVE  /\ Tail(s) \in Seq(S) /\ Head(s) = s[1] /\ 1 \in DOMAIN s
         /\ \A k \in DOMAIN Tail(s) : \E l \in DOMAIN s : Tail(s)[k] = s[l]
<1>1. Tail(s) \in Seq(S) /\ Len(Tail(s)) = Len(s) - 1 /\ Len(s) \in Nat \ {0}
  OBVIOUS
<1>2. \A k \in DOMAIN Tail(s) : k + 1 \in DOMAIN s /\ Tail(s)[k] = s[k + 1]
  BY <1>1
<1>3. QED
  BY <1>1, <1>2

\* What a loop does to the draft: it tells one thing more at most and keeps every row.
Extends(new, told) ==
  /\ new \in RegisterRows
  /\ \A t \in Told : Tells(new, t) => Tells(draft, t) \/ t = told
  /\ Kept(draft) => Kept(new)

LEMMA ClosedExtends ==
  ASSUME draft \in RegisterRows, NEW i \in Issues, NEW told \in Told
  PROVE  Extends(Closed(i, told), told)
<1> DEFINE new == Closed(i, told)
           o   == draft.open[i]
           d   == draft.done[i]
<1>1. CASE o = <<>>
  BY <1>1 DEF Closed, Extends
<1>2. CASE o # <<>>
  <2>1. /\ draft.open \in [Issues -> Seq(SUBSET Told)]
        /\ draft.done \in [Issues -> Seq(SUBSET Told)]
        /\ o \in Seq(SUBSET Told) /\ d \in Seq(SUBSET Told) /\ {told} \in SUBSET Told
    BY DEF RegisterRows
  <2>2. new = [open |-> [draft.open EXCEPT ![i] = Tail(o)],
               done |-> [draft.done EXCEPT ![i] = <<{told}>> \o d]]
    BY <1>2 DEF Closed
  <2>3. /\ Tail(o) \in Seq(SUBSET Told)
        /\ \A k \in DOMAIN Tail(o) : \E l \in DOMAIN o : Tail(o)[k] = o[l]
    <3> HIDE DEF o
    <3> QED
      BY <1>2, <2>1, Beheaded
  <2>4. /\ <<{told}>> \o d \in Seq(SUBSET Told) /\ <<{told}>> \o d # <<>>
        /\ \A k \in DOMAIN (<<{told}>> \o d) :
             \/ (<<{told}>> \o d)[k] = {told}
             \/ \E l \in DOMAIN d : (<<{told}>> \o d)[k] = d[l]
    <3> HIDE DEF d
    <3> QED
      BY <2>1, Prepended
  <2>5. /\ new.open[i] = Tail(o) /\ new.done[i] = <<{told}>> \o d
        /\ \A j \in Issues \ {i} : new.open[j] = draft.open[j] /\ new.done[j] = draft.done[j]
    BY <2>1, <2>2
  <2>6. new \in RegisterRows
    BY <2>1, <2>2, <2>3, <2>4 DEF RegisterRows
  <2>7. ASSUME NEW t \in Told, Tells(new, t) PROVE Tells(draft, t) \/ t = told
    <3> HIDE DEF new
    <3>1. PICK j \in Issues : \/ \E k \in DOMAIN new.open[j] : t \in new.open[j][k]
                              \/ \E k \in DOMAIN new.done[j] : t \in new.done[j][k]
      BY <2>7, Zenon DEF Tells
    <3>2. CASE j # i
      BY <2>5, <3>1, <3>2, Zenon DEF Tells
    <3>3. CASE j = i
      <4>1. CASE \E k \in DOMAIN Tail(o) : t \in Tail(o)[k]
        <5>1. \E l \in DOMAIN draft.open[i] : t \in draft.open[i][l]
          BY <2>3, <4>1, Zenon
        <5>2. QED
          BY <5>1, Zenon DEF Tells
      <4>2. CASE \E k \in DOMAIN (<<{told}>> \o d) : t \in (<<{told}>> \o d)[k]
        <5>1. PICK k \in DOMAIN (<<{told}>> \o d) : t \in (<<{told}>> \o d)[k]
          BY <4>2, Zenon
        <5>2. CASE (<<{told}>> \o d)[k] = {told}
          BY <5>1, <5>2, Zenon
        <5>3. CASE \E l \in DOMAIN d : (<<{told}>> \o d)[k] = d[l]
          BY <5>1, <5>3, Zenon DEF Tells
        <5>4. QED
          BY <2>4, <5>1, <5>2, <5>3, Zenon
      <4>3. QED
        BY <2>5, <3>1, <3>3, <4>1, <4>2, Zenon
    <3>4. QED
      BY <3>2, <3>3
  <2>8. Kept(draft) => Kept(new)
    <3> HIDE DEF new
    <3> QED
      BY <2>4, <2>5, ProposalAssumption, Zenon DEF Kept
  <2>9. QED
    BY <2>6, <2>7, <2>8, Zenon DEF Extends
<1>3. QED
  BY <1>1, <1>2

\* The draft with the open rows of one issue replaced.
LEMMA OpenReplaced ==
  ASSUME draft \in RegisterRows, NEW i \in Issues, NEW told \in Told,
         NEW rows \in Seq(SUBSET Told), rows # <<>>,
         \A k \in DOMAIN rows : \A t \in rows[k] :
           t = told \/ \E l \in DOMAIN draft.open[i] : t \in draft.open[i][l]
  PROVE  Extends([open |-> [draft.open EXCEPT ![i] = rows], done |-> draft.done], told)
<1> DEFINE new == [open |-> [draft.open EXCEPT ![i] = rows], done |-> draft.done]
<1>1. draft.open \in [Issues -> Seq(SUBSET Told)] /\ draft.done \in [Issues -> Seq(SUBSET Told)]
  BY DEF RegisterRows
<1>3. /\ new.open[i] = rows /\ new.done = draft.done
      /\ \A j \in Issues \ {i} : new.open[j] = draft.open[j]
  BY <1>1
<1>4. new \in RegisterRows
  BY <1>1 DEF RegisterRows
<1> HIDE DEF new
<1>5. ASSUME NEW t \in Told, Tells(new, t) PROVE Tells(draft, t) \/ t = told
  <2>1. PICK j \in Issues : \/ \E k \in DOMAIN new.open[j] : t \in new.open[j][k]
                            \/ \E k \in DOMAIN new.done[j] : t \in new.done[j][k]
    BY <1>5, Zenon DEF Tells
  <2>2. CASE \E k \in DOMAIN new.done[j] : t \in new.done[j][k]
    BY <1>3, <2>2, Zenon DEF Tells
  <2>3. CASE j # i /\ \E k \in DOMAIN new.open[j] : t \in new.open[j][k]
    BY <1>3, <2>3, Zenon DEF Tells
  <2>4. CASE j = i /\ \E k \in DOMAIN new.open[j] : t \in new.open[j][k]
    BY <1>3, <2>4, Zenon DEF Tells
  <2>5. QED
    BY <2>1, <2>2, <2>3, <2>4, Zenon
<1>6. Kept(draft) => Kept(new)
  BY <1>3, ProposalAssumption, Zenon DEF Kept
<1>7. QED
  BY <1>4, <1>5, <1>6, Zenon DEF Extends, new

LEMMA ProgressedExtends ==
  ASSUME draft \in RegisterRows, NEW i \in Issues, NEW told \in Told
  PROVE  Extends(Progressed(i, told), told)
<1> DEFINE o    == draft.open[i]
           tail == Tail(o)
           top  == Head(o) \cup {told}
           rows == <<top>> \o tail
<1>1. CASE o = <<>>
  BY <1>1 DEF Progressed, Extends
<1>2. CASE o # <<>>
  <2>1. o \in Seq(SUBSET Told) /\ draft.open \in [Issues -> Seq(SUBSET Told)]
    BY DEF RegisterRows
  <2>2. Progressed(i, told) = [open |-> [draft.open EXCEPT ![i] = rows], done |-> draft.done]
    BY <1>2, Zenon DEF Progressed
  <2>3. /\ tail \in Seq(SUBSET Told) /\ Head(o) = o[1] /\ 1 \in DOMAIN o
        /\ \A k \in DOMAIN tail : \E l \in DOMAIN o : tail[k] = o[l]
    <3> HIDE DEF o
    <3> QED
      BY <1>2, <2>1, Beheaded
  <2>4. top \in SUBSET Told
    <3>1. o[1] \in SUBSET Told
      <4> HIDE DEF o
      <4> QED
        BY <2>1, <2>3, ElementOfSeq
    <3>2. QED
      BY <2>3, <3>1
  <2>5. /\ rows \in Seq(SUBSET Told) /\ rows # <<>>
        /\ \A k \in DOMAIN rows : rows[k] = top \/ \E l \in DOMAIN tail : rows[k] = tail[l]
    <3> HIDE DEF tail, top
    <3> QED
      BY <2>3, <2>4, Prepended
  <2>6. ASSUME NEW k \in DOMAIN rows, NEW t \in rows[k]
        PROVE  t = told \/ \E l \in DOMAIN o : t \in o[l]
    <3> HIDE DEF rows, tail, o
    <3>1. CASE rows[k] = top
      BY <2>3, <2>6, <3>1, Zenon DEF top
    <3>2. CASE \E l \in DOMAIN tail : rows[k] = tail[l]
      BY <2>3, <2>6, <3>2, Zenon
    <3>3. QED
      BY <2>5, <3>1, <3>2, Zenon
  <2>7. Extends([open |-> [draft.open EXCEPT ![i] = rows], done |-> draft.done], told)
    <3> HIDE DEF rows
    <3> QED
      BY <2>5, <2>6, OpenReplaced, Zenon
  <2>8. QED
    BY <2>2, <2>7, Zenon
<1>3. QED
  BY <1>1, <1>2

LEMMA AddedExtends ==
  ASSUME draft \in RegisterRows, NEW i \in Issues, NEW told \in Told
  PROVE  Extends(Added(i, told), told)
<1> DEFINE o    == draft.open[i]
           rows == <<{told}>> \o o
<1>1. CASE i \notin Grouped
  BY <1>1 DEF Added, Extends
<1>2. CASE i \in Grouped
  <2>1. o \in Seq(SUBSET Told) /\ {told} \in SUBSET Told
    BY DEF RegisterRows
  <2>2. Added(i, told) = [open |-> [draft.open EXCEPT ![i] = rows], done |-> draft.done]
    BY <1>2, Zenon DEF Added
  <2>3. /\ rows \in Seq(SUBSET Told) /\ rows # <<>>
        /\ \A k \in DOMAIN rows : rows[k] = {told} \/ \E l \in DOMAIN o : rows[k] = o[l]
    <3> HIDE DEF o
    <3> QED
      BY <2>1, Prepended
  <2>4. ASSUME NEW k \in DOMAIN rows, NEW t \in rows[k]
        PROVE  t = told \/ \E l \in DOMAIN o : t \in o[l]
    <3> HIDE DEF rows, o
    <3> QED
      BY <2>3, <2>4, Zenon
  <2>5. Extends([open |-> [draft.open EXCEPT ![i] = rows], done |-> draft.done], told)
    <3> HIDE DEF rows
    <3> QED
      BY <2>3, <2>4, OpenReplaced, Zenon
  <2>6. QED
    BY <2>2, <2>5, Zenon
<1>3. QED
  BY <1>1, <1>2

-----------------------------------------------------------------------------
(* Every step of a pass and of a session.                                  *)

LEMMA NothingEmptied == \A t : ~Tells(Emptied, t)
BY DEF Tells, Emptied

LEMMA FirstTellsNothing == (\A t : ~Tells(FirstRows, t)) /\ Kept(FirstRows)
<1>1. \A t : ~Tells(FirstRows, t)
  <2>1. SUFFICES ASSUME NEW t, Tells(FirstRows, t) PROVE FALSE
    OBVIOUS
  <2>2. PICK i \in Issues : \/ \E k \in DOMAIN FirstRows.open[i] : t \in FirstRows.open[i][k]
                            \/ \E k \in DOMAIN FirstRows.done[i] : t \in FirstRows.done[i][k]
    BY <2>1, Zenon DEF Tells
  <2>3. FirstRows.done[i] \in {<<>>, <<{}>>} /\ FirstRows.open[i] \in {<<>>, <<{}>>}
    BY DEF FirstRows
  <2>4. DOMAIN <<>> = {} /\ \A k \in DOMAIN <<{}>> : <<{}>>[k] = {}
    OBVIOUS
  <2>5. QED
    BY <2>2, <2>3, <2>4
<1>2. Kept(FirstRows)
  <2>1. <<{}>> # <<>>
    OBVIOUS
  <2>2. \A i \in Registered \cup Completed :
          FirstRows.open[i] = <<{}>> \/ FirstRows.done[i] = <<{}>>
    BY ProposalAssumption DEF FirstRows
  <2>3. QED
    BY <2>1, <2>2, Zenon DEF Kept
<1>3. QED
  BY <1>1, <1>2

LEMMA ProposalInitSound == ProposalInit => ProposalInv
<1> SUFFICES ASSUME ProposalInit PROVE ProposalInv
  OBVIOUS
<1>1. FirstRows \in RegisterRows
  <2>1. <<>> \in Seq(SUBSET Told) /\ <<{}>> \in Seq(SUBSET Told)
    OBVIOUS
  <2>2. QED
    BY <2>1 DEF FirstRows, RegisterRows
<1>2. DOMAIN NothingFresh = {}
  BY DEF NothingFresh
<1>3. ProposalTypes
  BY <1>1, <1>2 DEF ProposalInit, ProposalTypes
<1>4. RegisterSound
  BY FirstTellsNothing, Zenon DEF ProposalInit, RegisterSound, Once
<1>5. DraftSound
  BY DEF ProposalInit, DraftSound
<1>6. QED
  BY <1>3, <1>4, <1>5 DEF ProposalInv

LEMMA WriteProposalStep == ProposalInv /\ WriteProposal => ProposalInv'
<1> SUFFICES ASSUME ProposalInv, WriteProposal PROVE ProposalInv'
  OBVIOUS
<1>1. proposed' \in [PropNo -> Contents \cup {NotWritten}]
  BY DEF ProposalInv, ProposalTypes, WriteProposal
<1>2. UNCHANGED <<applied, register, whole, draft, fresh, todo, passAt, passNo, unnoted, cutAway>>
  BY DEF WriteProposal
<1>3. ProposalTypes'
  BY <1>1, <1>2 DEF ProposalInv, ProposalTypes
<1>4. RegisterSound' /\ DraftSound'
  BY <1>2 DEF ProposalInv, RegisterSound, DraftSound, Once, Kept, Tells
<1>5. QED
  BY <1>3, <1>4 DEF ProposalInv

LEMMA BeginPassStep == ProposalInv /\ BeginPass => ProposalInv'
<1> SUFFICES ASSUME ProposalInv, BeginPass PROVE ProposalInv'
  OBVIOUS
<1>1. /\ passNo' = passNo + 1 /\ passNo \in Nat /\ draft' = register /\ register' = register
      /\ passAt = "idle" /\ passAt' = "telling" /\ whole /\ whole' = whole
      /\ applied' = applied /\ unnoted' = unnoted /\ proposed' = proposed
      /\ cutAway' = cutAway
      /\ fresh' = [f \in FreshFiles |-> proposed[f]] /\ todo' = FreshFiles
  BY DEF BeginPass, ProposalInv, ProposalTypes
<1>2. DOMAIN fresh' = FreshFiles /\ \A f \in FreshFiles : fresh'[f] = proposed[f]
  BY <1>1
<1>3. \A f \in FreshFiles : f \in PropNo /\ f \notin applied /\ proposed[f] \in Contents
  BY DEF FreshFiles, ProposalInv, ProposalTypes
<1>4. ProposalTypes'
  BY <1>1, <1>2, <1>3 DEF ProposalInv, ProposalTypes
<1>5. ASSUME NEW f \in PropNo, NEW p \in Nat, Tells(register, <<f, p>>)
      PROVE  p < passNo' /\ p <= passNo' /\ (f \in applied \/ <<f, p>> \in unnoted)
  <2>1. p <= passNo /\ (f \in applied \/ <<f, p>> \in unnoted)
    BY <1>1, <1>5 DEF ProposalInv, RegisterSound
  <2>2. QED
    BY <1>1, <2>1
<1>6. \A t : Tells(register', t) <=> Tells(register, t)
  BY <1>1 DEF Tells
<1>7. \A t : Tells(draft', t) <=> Tells(register, t)
  BY <1>1 DEF Tells
<1>8. RegisterSound'
  <2>1. Once(register)' /\ (whole => Kept(register))'
    BY <1>1 DEF ProposalInv, RegisterSound, Once, Kept, Tells
  <2>2. (\A f \in PropNo : \A p \in Nat : Tells(register, <<f, p>>) =>
          p <= passNo /\ (f \in applied \/ <<f, p>> \in unnoted))'
    BY <1>1, <1>5 DEF Tells
  <2>3. QED
    BY <2>1, <2>2, Zenon DEF RegisterSound
<1>9. DraftSound'
  <2>1. (DOMAIN fresh \cap applied = {})'
    BY <1>1, <1>2, <1>3
  <2>2. (\A f \in PropNo : \A p \in Nat : Tells(draft, <<f, p>>) =>
          p < passNo /\ (f \in applied \/ <<f, p>> \in unnoted))'
    BY <1>1, <1>5 DEF Tells
  <2>3. Kept(draft)'
    BY <1>1 DEF ProposalInv, RegisterSound, Kept
  <2>4. Once(draft)'
    BY <1>1 DEF ProposalInv, RegisterSound, Once, Tells
  <2>5. QED
    BY <2>1, <2>2, <2>3, <2>4, Zenon DEF DraftSound
<1>10. QED
  BY <1>4, <1>8, <1>9 DEF ProposalInv

LEMMA TellNextStep == ProposalInv /\ TellNext => ProposalInv'
<1> SUFFICES ASSUME ProposalInv, TellNext PROVE ProposalInv'
  OBVIOUS
<1>1. PICK f \in todo :
        /\ todo' = todo \ {f}
        /\ draft' = CASE fresh[f].action = "close"  -> Closed(fresh[f].item, <<f, passNo>>)
                      [] fresh[f].action = "update" -> Progressed(fresh[f].item, <<f, passNo>>)
                      [] fresh[f].action = "new"    -> Added(fresh[f].item, <<f, passNo>>)
                      [] OTHER -> draft
  BY Zenon DEF TellNext
<1> DEFINE told == <<f, passNo>>
           i    == fresh[f].item
<1>2. /\ draft \in RegisterRows /\ f \in DOMAIN fresh /\ f \in PropNo /\ passNo \in Nat
      /\ i \in Issues /\ fresh[f].action \in {"close", "update", "new", "create"}
      /\ passAt = "telling" /\ told \in Told
  BY DEF ProposalInv, ProposalTypes, Contents, Told, TellNext
<1>3. Extends(draft', told)
  <2>1. Extends(Closed(i, told), told)
    BY <1>2, ClosedExtends, Zenon
  <2>2. Extends(Progressed(i, told), told)
    BY <1>2, ProgressedExtends, Zenon
  <2>3. Extends(Added(i, told), told)
    BY <1>2, AddedExtends, Zenon
  <2>4. Extends(draft, told)
    BY <1>2, Zenon DEF Extends
  <2>5. draft' \in {Closed(i, told), Progressed(i, told), Added(i, told), draft}
    <3> DEFINE c == Closed(i, told)
               g == Progressed(i, told)
               a == Added(i, told)
    <3>1. draft' = CASE fresh[f].action = "close"  -> c
                     [] fresh[f].action = "update" -> g
                     [] fresh[f].action = "new"    -> a
                     [] OTHER -> draft
      BY <1>1, Zenon
    <3> HIDE DEF c, g, a
    <3>2. draft' \in {c, g, a, draft}
      BY <1>2, <3>1
    <3>3. QED
      BY <3>2, Zenon DEF c, g, a
  <2>6. QED
    BY <2>1, <2>2, <2>3, <2>4, <2>5, Zenon
<1>4. UNCHANGED <<proposed, applied, register, whole, fresh, passAt, passNo, unnoted, cutAway>>
  BY DEF TellNext
<1>5. ProposalTypes'
  BY <1>1, <1>3, <1>4 DEF ProposalInv, ProposalTypes, Extends
<1>6. RegisterSound'
  BY <1>4 DEF ProposalInv, RegisterSound, Once, Kept, Tells
<1>7. DraftSound'
  <2>1. ASSUME NEW g \in PropNo, NEW p \in Nat, Tells(draft', <<g, p>>)
        PROVE  \/ p < passNo /\ (g \in applied \/ <<g, p>> \in unnoted)
               \/ p = passNo /\ g \in DOMAIN fresh
    <3>1. <<g, p>> \in Told
      BY DEF Told
    <3>2. Tells(draft, <<g, p>>) \/ <<g, p>> = told
      BY <1>3, <2>1, <3>1, Zenon DEF Extends
    <3>3. CASE Tells(draft, <<g, p>>)
      BY <1>2, <3>3 DEF ProposalInv, DraftSound
    <3>4. CASE <<g, p>> = told
      BY <1>2, <3>4
    <3>5. QED
      BY <3>2, <3>3, <3>4
  <2>2. Kept(draft')
    BY <1>2, <1>3 DEF ProposalInv, DraftSound, Extends
  <2>3. (\A g \in PropNo : \A p \in Nat : Tells(draft, <<g, p>>) =>
          \/ p < passNo /\ (g \in applied \/ <<g, p>> \in unnoted)
          \/ p = passNo /\ g \in DOMAIN fresh)'
    BY <1>4, <2>1 DEF Tells
  <2>4. (DOMAIN fresh \cap applied = {})'
    BY <1>2, <1>4 DEF ProposalInv, DraftSound
  <2>5. Kept(draft)'
    BY <1>4, <2>2 DEF Kept
  <2>6. ASSUME NEW g \in PropNo, NEW p \in Nat, NEW q \in Nat, p < q,
               Tells(draft', <<g, p>>), Tells(draft', <<g, q>>)
        PROVE  <<g, p>> \in unnoted
    <3>1. <<g, p>> \in Told /\ <<g, q>> \in Told
      BY DEF Told
    <3>2. CASE q = passNo
      BY <1>2, <2>1, <2>4, <2>6, <3>2, <1>4
    <3>3. CASE q # passNo
      <4>1. q < passNo /\ p # passNo
        BY <1>2, <2>1, <2>6, <3>3
      <4>2. <<g, p>> # told /\ <<g, q>> # told
        BY <4>1
      <4>3. Tells(draft, <<g, p>>) /\ Tells(draft, <<g, q>>)
        BY <1>3, <2>6, <3>1, <4>2, Zenon DEF Extends
      <4>4. Once(draft)
        BY <1>2 DEF ProposalInv, DraftSound
      <4>5. QED
        BY <2>6, <4>3, <4>4, Zenon DEF Once
    <3>4. QED
      BY <3>2, <3>3
  <2>7. Once(draft)'
    BY <1>4, <2>6 DEF Once, Tells
  <2>8. QED
    BY <2>3, <2>4, <2>5, <2>7, Zenon DEF DraftSound
<1>8. QED
  BY <1>5, <1>6, <1>7 DEF ProposalInv

LEMMA TruncateStep == ProposalInv /\ Truncate => ProposalInv'
<1> SUFFICES ASSUME ProposalInv, Truncate PROVE ProposalInv'
  OBVIOUS
<1>1. /\ passAt = "telling" /\ passAt' = "writing" /\ todo = {}
      /\ register' = Emptied /\ whole' = FALSE
      /\ UNCHANGED <<proposed, applied, draft, fresh, todo, passNo, unnoted, cutAway>>
  BY DEF Truncate
<1>2. Emptied \in RegisterRows
  <2>1. <<>> \in Seq(SUBSET Told)
    OBVIOUS
  <2>2. QED
    BY <2>1 DEF Emptied, RegisterRows
<1>3. ProposalTypes'
  BY <1>1, <1>2 DEF ProposalInv, ProposalTypes
<1>4. (\A t : ~Tells(register, t))'
  BY <1>1, NothingEmptied DEF Tells
<1>5. RegisterSound'
  BY <1>1, <1>4, Zenon DEF RegisterSound, Once
<1>6. DraftSound'
  BY <1>1 DEF ProposalInv, DraftSound, Tells, Kept, Once
<1>7. QED
  BY <1>3, <1>5, <1>6 DEF ProposalInv

LEMMA WriteSectionsStep == ProposalInv /\ WriteSections => ProposalInv'
<1> SUFFICES ASSUME ProposalInv, WriteSections PROVE ProposalInv'
  OBVIOUS
<1>1. /\ passAt = "writing" /\ passAt' = "saved" /\ register' = draft /\ passNo \in Nat
      /\ UNCHANGED <<proposed, applied, draft, fresh, todo, passNo, unnoted, cutAway>>
  BY DEF WriteSections, ProposalInv, ProposalTypes
<1>2. /\ DOMAIN fresh \cap applied = {} /\ Kept(draft) /\ Once(draft)
      /\ \A f \in PropNo : \A p \in Nat : Tells(draft, <<f, p>>) =>
           \/ p < passNo /\ (f \in applied \/ <<f, p>> \in unnoted)
           \/ p = passNo /\ f \in DOMAIN fresh
  BY <1>1 DEF ProposalInv, DraftSound
<1>3. ProposalTypes'
  BY <1>1 DEF ProposalInv, ProposalTypes, WriteSections
<1>4. RegisterSound'
  <2>1. (\A f \in PropNo : \A p \in Nat : Tells(register, <<f, p>>) =>
          /\ p <= passNo
          /\ \/ f \in applied
             \/ <<f, p>> \in unnoted
             \/ passAt = "saved" /\ p = passNo /\ f \in DOMAIN fresh)'
    <3>1. \A f \in PropNo : \A p \in Nat : Tells(draft, <<f, p>>) =>
            /\ p <= passNo
            /\ \/ f \in applied
               \/ <<f, p>> \in unnoted
               \/ p = passNo /\ f \in DOMAIN fresh
      BY <1>1, <1>2
    <3>2. QED
      BY <1>1, <3>1 DEF Tells
  <2>2. Once(register)' /\ Kept(register)'
    BY <1>1, <1>2 DEF Once, Kept, Tells
  <2>3. QED
    BY <2>1, <2>2, Zenon DEF RegisterSound
<1>5. DraftSound'
  BY <1>1, <1>2 DEF DraftSound
<1>6. QED
  BY <1>3, <1>4, <1>5 DEF ProposalInv

\* The completed rows that a cut write leaves of an issue.
LEMMA FirstOnes ==
  ASSUME NEW S, NEW s \in Seq(S), NEW n \in Nat, n <= Len(s)
  PROVE  /\ SubSeq(s, 1, n) \in Seq(S) /\ (n # 0 => SubSeq(s, 1, n) # <<>>)
         /\ \A k \in DOMAIN SubSeq(s, 1, n) : k \in DOMAIN s /\ SubSeq(s, 1, n)[k] = s[k]
<1> DEFINE t == SubSeq(s, 1, n)
<1>1. t \in Seq(S) /\ Len(t) = n /\ \A k \in 1..n : k \in 1..Len(s) /\ t[k] = s[k]
  OBVIOUS
<1>2. n # 0 => t # <<>>
  BY <1>1
<1>3. \A k \in DOMAIN t : k \in DOMAIN s /\ t[k] = s[k]
  BY <1>1
<1>4. QED
  BY <1>1, <1>2, <1>3

LEMMA CutWriteStep == ProposalInv /\ CutWrite => ProposalInv'
<1> SUFFICES ASSUME ProposalInv, CutWrite PROVE ProposalInv'
  OBVIOUS
<1>1. /\ passAt = "writing" /\ passAt' = "idle" /\ fresh' = NothingFresh /\ todo' = {}
      /\ whole' = TRUE /\ unnoted' = unnoted \cup ((DOMAIN fresh) \X {passNo})
      /\ UNCHANGED <<proposed, applied, draft, passNo>> /\ passNo \in Nat
      /\ applied \subseteq PropNo /\ draft \in RegisterRows
  BY DEF CutWrite, ProposalInv, ProposalTypes
<1>2. PICK left \in [Issues -> 0..(NProposals * MaxCompiles + 1)] :
        /\ \A i \in Issues : left[i] <= Len(draft.done[i])
        /\ register' = [open |-> draft.open,
                        done |-> [i \in Issues |-> SubSeq(draft.done[i], 1, left[i])]]
        /\ cutAway' = cutAway \cup {i \in Issues : left[i] = 0 /\ draft.done[i] # <<>>}
  BY Zenon DEF CutWrite
<1>3. ASSUME NEW i \in Issues
      PROVE  /\ register'.done[i] \in Seq(SUBSET Told)
             /\ register'.open[i] = draft.open[i]
             /\ left[i] # 0 => register'.done[i] # <<>>
             /\ \A k \in DOMAIN register'.done[i] :
                  k \in DOMAIN draft.done[i] /\ register'.done[i][k] = draft.done[i][k]
  <2>1. draft.done[i] \in Seq(SUBSET Told) /\ left[i] \in Nat /\ left[i] <= Len(draft.done[i])
    BY <1>1, <1>2, ProposalAssumption DEF RegisterRows
  <2>2. /\ register'.done[i] = SubSeq(draft.done[i], 1, left[i])
        /\ register'.open[i] = draft.open[i]
    BY <1>2
  <2> HIDE <1>2
  <2>3. QED
    BY <2>1, <2>2, FirstOnes
<1>4. /\ DOMAIN fresh \cap applied = {} /\ Kept(draft) /\ Once(draft)
      /\ \A f \in PropNo : \A p \in Nat : Tells(draft, <<f, p>>) =>
           \/ p < passNo /\ (f \in applied \/ <<f, p>> \in unnoted)
           \/ p = passNo /\ f \in DOMAIN fresh
  BY <1>1 DEF ProposalInv, DraftSound
<1>5. ASSUME NEW t, Tells(register', t) PROVE Tells(draft, t)
  <2>1. PICK i \in Issues : \/ \E k \in DOMAIN register'.open[i] : t \in register'.open[i][k]
                            \/ \E k \in DOMAIN register'.done[i] : t \in register'.done[i][k]
    BY <1>5, Zenon DEF Tells
  <2>2. QED
    BY <1>3, <2>1, Zenon DEF Tells
<1>6. ProposalTypes'
  <2>1. /\ register' = [open |-> register'.open, done |-> register'.done]
        /\ register'.open \in [Issues -> Seq(SUBSET Told)]
        /\ DOMAIN register'.done = Issues
        /\ register'.done = [i \in Issues |-> register'.done[i]]
    BY <1>1, <1>2 DEF RegisterRows
  <2>2. register'.done \in [Issues -> Seq(SUBSET Told)]
    <3> HIDE <1>2
    <3> QED
      BY <1>3, <2>1
  <2>3. register' \in RegisterRows
    BY <2>1, <2>2 DEF RegisterRows
  <2>4. QED
    BY <1>1, <2>3 DEF ProposalInv, ProposalTypes, NothingFresh
<1>7. RegisterSound'
  <2>1. (\A f \in PropNo : \A p \in Nat : Tells(register, <<f, p>>) =>
          p <= passNo /\ (f \in applied \/ <<f, p>> \in unnoted))'
    <3>1. ASSUME NEW f \in PropNo, NEW p \in Nat, Tells(register', <<f, p>>)
          PROVE  p <= passNo /\ (f \in applied \/ <<f, p>> \in unnoted')
      <4>1. Tells(draft, <<f, p>>)
        BY <1>5, <3>1
      <4>2. QED
        BY <1>1, <1>4, <4>1
    <3>2. QED
      BY <1>1, <3>1 DEF Tells
  <2>2. Once(register)'
    <3>1. ASSUME NEW f \in PropNo, NEW p \in Nat, NEW q \in Nat, p < q,
                 Tells(register', <<f, p>>), Tells(register', <<f, q>>)
          PROVE  <<f, p>> \in unnoted'
      <4>1. Tells(draft, <<f, p>>) /\ Tells(draft, <<f, q>>)
        BY <1>5, <3>1
      <4>2. <<f, p>> \in unnoted
        BY <1>4, <3>1, <4>1, Zenon DEF Once
      <4>3. QED
        BY <1>1, <4>2
    <3>2. QED
      BY <3>1 DEF Once, Tells
  <2>3. Kept(register)'
    <3>1. ASSUME NEW i \in Registered \cup Completed
          PROVE  register'.open[i] # <<>> \/ register'.done[i] # <<>> \/ i \in cutAway'
      <4>1. i \in Issues
        BY ProposalAssumption
      <4>2. draft.open[i] # <<>> \/ draft.done[i] # <<>> \/ i \in cutAway
        BY <1>4, Zenon DEF Kept
      <4>3. draft.done[i] # <<>> /\ left[i] = 0 => i \in cutAway'
        BY <1>2, <4>1, Zenon
      <4>4. cutAway \subseteq cutAway'
        BY <1>2, Zenon
      <4>5. QED
        BY <1>3, <4>1, <4>2, <4>3, <4>4, Zenon
    <3>2. QED
      BY <3>1 DEF Kept
  <2>4. QED
    BY <2>1, <2>2, <2>3, Zenon DEF RegisterSound
<1>8. DraftSound'
  BY <1>1 DEF DraftSound
<1>9. QED
  BY <1>6, <1>7, <1>8 DEF ProposalInv

\* A pass that ends: what it saved is noted, or it is known not to be.
LEMMA PassEnds ==
  ASSUME ProposalInv, passAt' = "idle", DOMAIN fresh' = {}, todo' = {},
         UNCHANGED <<proposed, register, whole, draft, passNo, cutAway>>,
         applied \subseteq applied', applied' \subseteq PropNo, unnoted \subseteq unnoted',
         passAt = "saved" =>
           \A f \in DOMAIN fresh : f \in applied' \/ <<f, passNo>> \in unnoted'
  PROVE  ProposalInv'
<1>1. ProposalTypes'
  BY DEF ProposalInv, ProposalTypes
<1>2. (\A f \in PropNo : \A p \in Nat : Tells(register, <<f, p>>) =>
        p <= passNo /\ (f \in applied \/ <<f, p>> \in unnoted))'
  <2>1. \A f \in PropNo : \A p \in Nat : Tells(register, <<f, p>>) =>
          p <= passNo /\ (f \in applied' \/ <<f, p>> \in unnoted')
    BY DEF ProposalInv, RegisterSound
  <2>2. QED
    BY <2>1 DEF Tells
<1>3. Once(register)' /\ (whole => Kept(register))'
  BY DEF ProposalInv, RegisterSound, Once, Kept, Tells
<1>4. RegisterSound'
  BY <1>2, <1>3, Zenon DEF RegisterSound
<1>5. DraftSound'
  BY DEF DraftSound
<1>6. QED
  BY <1>1, <1>4, <1>5 DEF ProposalInv

LEMMA NoteAppliedStep == ProposalInv /\ NoteApplied => ProposalInv'
<1> SUFFICES ASSUME ProposalInv, NoteApplied PROVE ProposalInv'
  OBVIOUS
<1> DEFINE again == {f \in DOMAIN fresh : proposed[f] # NotWritten}
<1>1. /\ passAt' = "idle" /\ fresh' = NothingFresh /\ todo' = todo
      /\ applied' = applied \cup again
      /\ unnoted' = unnoted \cup (((DOMAIN fresh) \ again) \X {passNo})
      /\ UNCHANGED <<proposed, register, whole, draft, passNo, cutAway>>
  BY DEF NoteApplied
<1>2. todo = {} /\ applied \subseteq PropNo /\ DOMAIN fresh \subseteq PropNo
  BY DEF ProposalInv, ProposalTypes, NoteApplied
<1>3. again \subseteq PropNo /\ DOMAIN fresh' = {}
  BY <1>1, <1>2 DEF NothingFresh
<1>4. \A f \in DOMAIN fresh : f \in applied' \/ <<f, passNo>> \in unnoted'
  BY <1>1
<1>5. /\ applied \subseteq applied' /\ applied' \subseteq PropNo
      /\ unnoted \subseteq unnoted' /\ todo' = {}
  BY <1>1, <1>2, <1>3
<1>6. QED
  BY <1>1, <1>3, <1>4, <1>5, PassEnds, Zenon

LEMMA PassDiesStep == ProposalInv /\ PassDies => ProposalInv'
<1> SUFFICES ASSUME ProposalInv, PassDies PROVE ProposalInv'
  OBVIOUS
<1>1. /\ passAt' = "idle" /\ fresh' = NothingFresh /\ todo' = {} /\ applied' = applied
      /\ unnoted' = IF passAt = "saved" THEN unnoted \cup ((DOMAIN fresh) \X {passNo})
                    ELSE unnoted
      /\ UNCHANGED <<proposed, register, whole, draft, passNo, cutAway>>
  BY DEF PassDies
<1>2. applied \subseteq PropNo /\ DOMAIN fresh' = {}
  BY <1>1 DEF ProposalInv, ProposalTypes, NothingFresh
<1>3. passAt = "saved" =>
        \A f \in DOMAIN fresh : f \in applied' \/ <<f, passNo>> \in unnoted'
  BY <1>1
<1>4. /\ applied \subseteq applied' /\ applied' \subseteq PropNo
      /\ unnoted \subseteq unnoted'
  BY <1>1, <1>2
<1>5. QED
  BY <1>1, <1>2, <1>3, <1>4, PassEnds, Zenon

LEMMA ProposalStepSound == ProposalInv /\ [ProposalNext]_proposalVars => ProposalInv'
<1> SUFFICES ASSUME ProposalInv, [ProposalNext]_proposalVars PROVE ProposalInv'
  OBVIOUS
<1>1. CASE UNCHANGED proposalVars
  BY <1>1 DEF proposalVars, ProposalInv, ProposalTypes, RegisterSound, DraftSound, Once, Kept,
              Tells
<1>2. QED
  BY <1>1, WriteProposalStep, BeginPassStep, TellNextStep, TruncateStep, CutWriteStep,
     WriteSectionsStep, NoteAppliedStep, PassDiesStep DEF ProposalNext

LEMMA ProposalSound == ProposalSpec => []ProposalInv
BY ProposalInitSound, ProposalStepSound, PTL DEF ProposalSpec

\* Passes that die anywhere and sessions that rewrite at any moment leave a register of both
\* headings with every row it had, but for completed ones that a cut save left out, and with
\* nothing told twice, but for what was not noted (compile-proposals.py:12, :64-71, :140-144).
THEOREM RegisterIsAccounted == ProposalSpec => []RegisterAccounts
<1>1. ProposalInv => RegisterAccounts
  <2>1. SUFFICES ASSUME ProposalInv, whole PROVE ToldOnce /\ RowsKept
    BY DEF RegisterAccounts
  <2>2. Once(register) /\ Kept(register)
    BY <2>1 DEF ProposalInv, RegisterSound
  <2>3. 1..MaxCompiles \subseteq Nat
    BY ProposalAssumption
  <2>4. QED
    BY <2>2, <2>3, Zenon DEF Once, Kept, ToldOnce, RowsKept
<1>2. QED
  BY <1>1, ProposalSound, PTL
=============================================================================
