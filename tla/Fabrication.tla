----------------------------- MODULE Fabrication -----------------------------
(* ao-fabrication-collect.py: a pass asks every listed machine for its     *)
(* print job and inserts what it answers, once per machine and second.     *)
(* Machines are switched on and off as they are used.  A looping collector *)
(* and one started by hand with --once work on one database.               *)
EXTENDS Naturals, FiniteSets

CONSTANTS
  NMachines,  \* enabled entries of fabrication-machines.json
  MaxSeconds  \* the last second

ASSUME FabAssumption == NMachines \in Nat /\ MaxSeconds \in Nat \ {0}

Machines   == 1..NMachines
Collectors == {"loop", "once"}

VARIABLES
  fabClock,
  asking,    \* each collector: the machine it asks next, 0 between passes
  unsaved,   \* the second of the record it has and has yet to insert, or none
  tally,     \* of its pass: ok, fail, offline, while it runs
  outcome,   \* how its last pass ended: "none", "clean", "failed", "died"
  production, \* machine_production: machine and second
  met        \* ghost: what each machine was in that pass, and the row meant for it

fabVars == <<fabClock, asking, unsaved, tally, outcome, production, met>>

NoneHeld == 0
NoTally     == [ok |-> 0, fail |-> 0, offline |-> 0]
NobodyMet  == [m \in Machines |-> [was |-> "unasked", at |-> 0]]

FabInit ==
  /\ fabClock = 1 /\ asking = [c \in Collectors |-> 0]
  /\ unsaved = [c \in Collectors |-> NoneHeld]
  /\ tally = [c \in Collectors |-> NoTally] /\ outcome = [c \in Collectors |-> "none"]
  /\ production = {} /\ met = [c \in Collectors |-> NobodyMet]

FabTick == /\ fabClock < MaxSeconds /\ fabClock' = fabClock + 1
           /\ UNCHANGED <<asking, unsaved, tally, outcome, production, met>>

StartFab(c) ==
  /\ asking[c] = 0 /\ asking' = [asking EXCEPT ![c] = 1]
  /\ tally' = [tally EXCEPT ![c] = NoTally] /\ met' = [met EXCEPT ![c] = NobodyMet]
  /\ outcome' = [outcome EXCEPT ![c] = "none"]
  /\ UNCHANGED <<fabClock, unsaved, production>>

\* What asking a machine can come to.  "off": no connection.  "broken": a connection that is
\* reset, closed or refused by TLS before an answer, or no answer in time.  "http": an error
\* status.  "garbled": no JSON, or without print_stats.  "cut": the answer ends early, is not HTTP
\* or is no object.
MachineAnswers == {"off", "broken", "http", "garbled", "cut", "good"}

\* Mutant: an error status is a URLError like the others.
OfflineByClass == {"off", "broken", "http"}
\* is_offline_error.
Offline == {"off", "broken"}

\* The exceptions run_once catches.
CaughtErrors == {"off", "broken", "http", "garbled"}

CountMachine(c, what) == tally' = [tally EXCEPT ![c][what] = @ + 1]
Met(c, was) ==
  met' = [met EXCEPT ![c][asking[c]] = [was |-> was, at |-> IF was = "good" THEN fabClock ELSE 0]]

\* collect_one on the next machine, stamped with the second in which it answered.
CollectOne(c) == \E a \in MachineAnswers :
  /\ asking[c] \in Machines /\ unsaved[c] = NoneHeld
  /\ Met(c, a)
  /\ CASE a = "good" -> /\ unsaved' = [unsaved EXCEPT ![c] = fabClock]
                        /\ UNCHANGED <<asking, tally, outcome>>
       [] a \in CaughtErrors -> /\ CountMachine(c, IF a \in Offline THEN "offline" ELSE "fail")
                          /\ asking' = [asking EXCEPT ![c] = @ + 1]
                          /\ UNCHANGED <<unsaved, outcome>>
       [] OTHER -> /\ asking' = [asking EXCEPT ![c] = 0]
                   /\ outcome' = [outcome EXCEPT ![c] = "died"]
                   /\ tally' = [tally EXCEPT ![c] = NoTally]
                   /\ UNCHANGED unsaved
  /\ UNCHANGED <<fabClock, production>>

\* write_record: psql may not run (no password, a timeout) or may refuse.
RecordCounted(executed, done) == IF executed /\ done THEN "ok" ELSE "fail"

\* ON CONFLICT (machine_id, observed_at_utc) DO NOTHING.
WriteRecord(c) == \E executed, done \in BOOLEAN :
  /\ asking[c] \in Machines /\ unsaved[c] # NoneHeld
  /\ production' = production \cup
       (IF executed /\ done THEN {<<asking[c], unsaved[c]>>} ELSE {})
  /\ CountMachine(c, RecordCounted(executed, done))
  /\ asking' = [asking EXCEPT ![c] = @ + 1] /\ unsaved' = [unsaved EXCEPT ![c] = NoneHeld]
  /\ UNCHANGED <<fabClock, outcome, met>>

\* The end of run_once: main's exit status, or the loop's line in the log; the counts go.
EndFab(c) ==
  /\ asking[c] = NMachines + 1 /\ asking' = [asking EXCEPT ![c] = 0]
  /\ outcome' = [outcome EXCEPT ![c] = IF tally[c].fail = 0 THEN "clean" ELSE "failed"]
  /\ tally' = [tally EXCEPT ![c] = NoTally]
  /\ UNCHANGED <<fabClock, unsaved, production, met>>

FabNext == \/ FabTick
           \/ \E c \in Collectors : StartFab(c) \/ CollectOne(c) \/ WriteRecord(c) \/ EndFab(c)

FabSpec == FabInit /\ [][FabNext]_fabVars

-----------------------------------------------------------------------------
(* Properties.                                                             *)

\* The machines a pass takes for switched off.  One that was reached and broke the connection
\* is among them, although "a machine that IS reachable but returns unusable data is still a
\* real failure" (ao-fabrication-collect.py:61-66 and :71-79).
NoAnswer == {"off", "broken"}

\* A clean pass means that every machine was asked, and that each has a row of the second in
\* which it answered or gave no answer (ao-fabrication-collect.py:243-266).
CleanPassRecorded ==
  \A c \in Collectors : outcome[c] = "clean" => \A m \in Machines :
    \/ met[c][m].was = "good" /\ <<m, met[c][m].at>> \in production
    \/ met[c][m].was \in NoAnswer

\* Being off is never a failure: a pass fails only for a machine that answered (:61-66).
FailureAnswered ==
  \A c \in Collectors : outcome[c] = "failed" => \E m \in Machines : met[c][m].was \notin NoAnswer

\* The status a pass ends with is earned either way: both of the above.
OutcomeEarned == CleanPassRecorded /\ FailureAnswered
=============================================================================
