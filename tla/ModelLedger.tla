----------------------------- MODULE ModelLedger -----------------------------
(* probe-freemium.py and the ledger of model verdicts: a run loads the     *)
(* ledger, probes models for minutes each, and saves the whole ledger      *)
(* after each, first in /tmp and then in the repository.  The operator     *)
(* runs "probe", a daily timer "recheck", and supervise.py picks the model *)
(* of every agent it starts from what it finds.                            *)
EXTENDS Naturals, FiniteSetsExt

CONSTANTS
  NModels,    \* free models, numbered in the order of DIVERT
  MaxProbes,  \* probes
  MaxWipes    \* reboots, which empty /tmp

ASSUME LedgerAssumption == NModels \in Nat \ {0}

Models == 1..NModels
Runs   == {"probe", "recheck"}
Copies == {"tmp", "repo"}

NoVerdict == [verdict |-> "none", fresh |-> FALSE]
NoLedger  == [m \in Models |-> NoVerdict]
Torn      == <<>>   \* open for writing and truncated, or cut short

VARIABLES
  filed,      \* the two files: a ledger, or torn
  run,       \* each run: what it does, to which copy, the models it has yet to be done with,
             \* its ledger, and whether the other run has the file open too
  probes, wipes,
  legacy,    \* models that had a PASS of the task before PROBE_TASK on record
  earned,    \* models a probe has found to pass, whole and at no cost
  refuted,   \* models whose latest verdict is not PASS
  overtaken, \* models whose latest verdict was found, or was being saved, beside another run
  crowded,   \* the two runs have overlapped
  partial    \* a save was cut short, or could not open or fill a copy

verdictVars == <<legacy, earned, refuted, overtaken>>
ledgerVars  == <<filed, run, probes, wipes, verdictVars, crowded, partial>>

Idle == [doing |-> "idle", to |-> "tmp", todo |-> {}, ledger |-> NoLedger, shared |-> FALSE]

\* Verdicts of the task before PROBE_TASK are on record.
LedgerInit ==
  /\ \E l \in [Models -> {NoVerdict, [verdict |-> "PASS", fresh |-> FALSE],
                          [verdict |-> "DRY", fresh |-> FALSE]}] :
       /\ filed = [c \in Copies |-> l]
       /\ legacy = {m \in Models : l[m].verdict = "PASS"}
  /\ run = [r \in Runs |-> Idle] /\ probes = 0 /\ wipes = 0
  /\ earned = {} /\ refuted = {} /\ overtaken = {} /\ crowded = FALSE /\ partial = FALSE

-----------------------------------------------------------------------------
(* The ledger's readers.                                                   *)

\* load_ledger, of both programs: the first copy that can be read, else nothing.
LoadLedger == IF filed["tmp"] # Torn THEN filed["tmp"]
              ELSE IF filed["repo"] # Torn THEN filed["repo"] ELSE NoLedger

Verdict(m) == LoadLedger[m].verdict

\* model_for, without AO_MODEL and AO_FALLBACK: a group's model, given the standing one and
\* its share.  The task of a verdict is not looked at.
ModelFor(assigned, share) ==
  LET passing == {m \in Models \ {assigned} : Verdict(m) = "PASS"}
  IN  IF Verdict(assigned) # "DRY" \/ passing = {} THEN assigned
      ELSE IF share \in passing THEN share ELSE Min(passing)

-----------------------------------------------------------------------------
(* A run.                                                                  *)

Does(r, what) == run[r].doing = what

\* A model whose verdict the run has found and is still saving.
Saving(r, m) == run[r].doing \in {"open", "write"} /\ m = Min(run[r].todo)

\* cmd_probe leaves out a fresh PASS or BILLABLE, and what is DRY; cmd_recheck takes what is
\* DRY and nothing else.
Wanted(r, l) ==
  IF r = "recheck" THEN {m \in Models : l[m].verdict = "DRY"}
  ELSE {m \in Models : /\ ~(l[m].verdict \in {"PASS", "BILLABLE"} /\ l[m].fresh)
                       /\ l[m].verdict # "DRY"}

Begin(r) ==
  /\ Does(r, "idle") /\ Wanted(r, LoadLedger) # {}
  /\ run' = [run EXCEPT ![r] = [Idle EXCEPT !.doing = "probe", !.todo = Wanted(r, LoadLedger),
                                         !.ledger = LoadLedger]]
  /\ crowded' = (crowded \/ \E s \in Runs : ~Does(s, "idle"))
  /\ overtaken' = overtaken \cup {m \in Models : \E s \in Runs : Saving(s, m)}
  /\ UNCHANGED <<filed, probes, wipes, legacy, earned, refuted, partial>>

\* What a probe can come to: no end in time, the quota's text, no completed run, and then
\* what the model did to the test file, whether the tests pass when run again, and the cost.
Outcomes == [ended : {"timeout", "capped", "broken", "completed"},
             test : {"kept", "edited", "gone"}, passes : BOOLEAN, free : BOOLEAN]
Deserves(o) == o.ended = "completed" /\ o.test = "kept" /\ o.passes /\ o.free

\* The test file is read again after every probe that came to an end, and one that is gone
\* raises through the whole run.
Raises(o) == o.ended \in {"broken", "completed"} /\ o.test = "gone"

\* Mutant: the run's own word is taken for the tests.
VerdictOfSelfReport(o) ==
  CASE o.ended = "timeout" -> "TIMEOUT"
    [] o.ended = "capped"  -> "DRY"
    [] o.ended = "broken"  -> "ERROR"
    [] o.test = "edited"   -> "FAIL"
    [] OTHER               -> IF o.free THEN "PASS" ELSE "BILLABLE"
\* probe_cline_model.
VerdictOf(o) ==
  CASE o.ended = "timeout" -> "TIMEOUT"
    [] o.ended = "capped"  -> "DRY"
    [] o.ended = "broken"  -> "ERROR"
    [] o.test = "edited" \/ ~o.passes -> "FAIL"
    [] OTHER               -> IF o.free THEN "PASS" ELSE "BILLABLE"

Alone(r) == \A s \in Runs \ {r} : Does(s, "idle")

Probe(r) == \E o \in Outcomes :
  LET m == Min(run[r].todo)
  IN  /\ ~Raises(o)
      /\ Does(r, "probe") /\ run[r].todo # {} /\ probes < MaxProbes /\ probes' = probes + 1
      /\ run' = [run EXCEPT ![r].doing = "open", ![r].to = "tmp",
                            ![r].ledger[m] = [verdict |-> VerdictOf(o), fresh |-> TRUE]]
      /\ earned' = IF Deserves(o) THEN earned \cup {m} ELSE earned
      /\ refuted' = IF Deserves(o) THEN refuted \ {m} ELSE refuted \cup {m}
      /\ overtaken' = IF Alone(r) THEN overtaken \ {m} ELSE overtaken \cup {m}
      /\ UNCHANGED <<filed, wipes, legacy, crowded, partial>>

\* Mutant: the other copy is opened too before this one is written.
OpenedAtOnce(c) == [d \in Copies |-> Torn]
\* open(p, "w") truncates the copy that is to be written.
Opened(c) == [filed EXCEPT ![c] = Torn]

\* After a copy comes the other one, and then the next model.
NextCopy(r) ==
  [run EXCEPT ![r] =
     IF run[r].to = "tmp" THEN [run[r] EXCEPT !.doing = "open", !.to = "repo", !.shared = FALSE]
     ELSE [run[r] EXCEPT !.doing = "probe", !.todo = run[r].todo \ {Min(run[r].todo)},
                         !.shared = FALSE]]

\* The other runs that have opened the copy and not yet filled it.
Sharing(r) == {s \in Runs \ {r} : Does(s, "write") /\ run[s].to = run[r].to}

\* save_ledger: each copy is opened and then written.  One that cannot be opened is left as
\* it is, and the run goes on.
Open(r) ==
  /\ Does(r, "open")
  /\ \/ /\ run' = [s \in Runs |->
                      IF s = r THEN [run[r] EXCEPT !.doing = "write", !.shared = Sharing(r) # {}]
                      ELSE IF s \in Sharing(r) THEN [run[s] EXCEPT !.shared = TRUE] ELSE run[s]]
        /\ filed' = Opened(run[r].to) /\ UNCHANGED partial
     \/ run' = NextCopy(r) /\ partial' = TRUE /\ UNCHANGED filed
  /\ UNCHANGED <<probes, wipes, verdictVars, crowded>>

\* json.dump: the copy is filled; or the disk is full and it stays cut short, which the run
\* only prints; or the other run has written into the same file, and it does not parse.
Write(r) ==
  /\ Does(r, "write") /\ run' = NextCopy(r)
  /\ \/ filed' = [filed EXCEPT ![run[r].to] = run[r].ledger] /\ UNCHANGED partial
     \/ filed' = [filed EXCEPT ![run[r].to] = Torn] /\ partial' = TRUE
     \/ run[r].shared /\ filed' = [filed EXCEPT ![run[r].to] = Torn] /\ UNCHANGED partial
  /\ UNCHANGED <<probes, wipes, verdictVars, crowded>>

Finish(r) == /\ Does(r, "probe") /\ run[r].todo = {} /\ run' = [run EXCEPT ![r] = Idle]
             /\ UNCHANGED <<filed, probes, wipes, verdictVars, crowded, partial>>

\* The test file is gone: the run ends with a traceback, the probe without a verdict.
RaiseOut(r) == /\ Does(r, "probe") /\ run[r].todo # {} /\ \E o \in Outcomes : Raises(o)
               /\ run' = [run EXCEPT ![r] = Idle]
               /\ UNCHANGED <<filed, probes, wipes, verdictVars, crowded, partial>>

Kill(r) == /\ ~Does(r, "idle") /\ run' = [run EXCEPT ![r] = Idle]
           /\ partial' = (partial \/ ~Does(r, "probe"))
           /\ UNCHANGED <<filed, probes, wipes, verdictVars, crowded>>

\* A reboot: the copy in /tmp is gone and no run survives.
Wipe == /\ wipes < MaxWipes /\ wipes' = wipes + 1
        /\ filed' = [filed EXCEPT !["tmp"] = Torn] /\ run' = [r \in Runs |-> Idle]
        /\ partial' = (partial \/ \E r \in Runs : run[r].doing \notin {"idle", "probe"})
        /\ UNCHANGED <<probes, verdictVars, crowded>>

LedgerNext ==
  \/ \E r \in Runs : \/ Begin(r) \/ Probe(r) \/ RaiseOut(r)
                      \/ Open(r) \/ Write(r) \/ Finish(r) \/ Kill(r)
  \/ Wipe

LedgerSpec == LedgerInit /\ [][LedgerNext]_ledgerVars

-----------------------------------------------------------------------------
(* Properties.                                                             *)

\* A group is never moved off its standing model to one that no probe found to fix the
\* program, with its tests untouched, passing when run again and at no cost
\* (probe-freemium.py:20-24), unless the PASS it has is of an earlier task, which model_for
\* does not look at (supervise.py:211-218).  A model that failed its latest probe is taken only
\* while that verdict is being saved, or when a save was cut short, or when the verdict was
\* found beside another run, whose older ledger may have been written over it.
DivertedEarned ==
  \A assigned, share \in Models :
    LET m == ModelFor(assigned, share)
    IN  m # assigned =>
          /\ m \in earned \cup legacy
          /\ m \in refuted =>
               partial \/ m \in overtaken \/ \E r \in Runs : Saving(r, m)

\* Whenever a group is started some copy can be read, through reboots too, as long as the
\* runs keep apart and no save was cut short or left a copy out (supervise.py:177-182).
OneCopyReadable == (\A c \in Copies : filed[c] = Torn) => crowded \/ partial
=============================================================================
