----------------------------- MODULE Acquisition -----------------------------
(* ao-build-update.py: a run checks image references against the allowlist *)
(* of registries, resolves those that pass from the local Podman store,    *)
(* appends its record to the audit log and then writes a report named by   *)
(* the second it began in.  The timer and the operator start runs, which   *)
(* may overlap and may die.                                                *)
EXTENDS Naturals, Sequences, FiniteSetsExt

CONSTANTS
  NRuns,     \* runs, numbered as they start
  MaxSecond  \* seconds that pass

ASSUME AcquireAssumption == NRuns \in Nat /\ MaxSecond \in Nat

RunIds == 1..NRuns

\* A reference: what the allowlist says of its host, and whether it carries a digest.  One
\* that names no host is "unqualified".
References == [host : {"denied", "both", "permitted", "unknown", "unqualified"}, pinned : BOOLEAN]

VARIABLES
  second,
  started,   \* runs so far
  fetch,     \* of each run: --fetch
  phase,     \* "wait", "check", "audit", "name", "write", "fill", "ended" or "died"
  began,     \* the second it began in
  refs,      \* references yet to be checked
  results,   \* verdicts so far, and whether podman was asked
  name,      \* the report it has chosen to write: second and suffix
  audit,     \* the audit log: the runs with a record
  report,    \* the report files: the run that opened or wrote each last
  cut,       \* those that hold no whole record
  shared     \* runs that began in the second of a run still at work

acquireVars == <<second, started, fetch, phase, began, refs, results, name, audit, report, cut,
                 shared>>

Names == (0..MaxSecond) \X RunIds
NoRun == 0

AcquireInit ==
  /\ second = 0 /\ started = 0 /\ phase = [r \in RunIds |-> "wait"]
  /\ fetch \in [RunIds -> BOOLEAN]
  /\ began = [r \in RunIds |-> 0] /\ refs = [r \in RunIds |-> <<>>]
  /\ results = [r \in RunIds |-> <<>>] /\ name = [r \in RunIds |-> <<0, 1>>]
  /\ audit = {} /\ report = [n \in Names |-> NoRun] /\ cut = {} /\ shared = {}

Tick == /\ second < MaxSecond /\ second' = second + 1
        /\ UNCHANGED <<started, fetch, phase, began, refs, results, name, audit, report, cut,
                       shared>>

Goes(r, next) == phase' = [phase EXCEPT ![r] = next]

AtWork(r) == phase[r] \in {"check", "audit", "name", "write", "fill"}
Beside == {q \in RunIds : AtWork(q) /\ began[q] = second}

\* main begins: parse_allowlist refuses a list it does not understand (exit 3).
StartAcquire ==
  /\ started < NRuns /\ started' = started + 1
  /\ LET r == started'
     IN  /\ began' = [began EXCEPT ![r] = second]
         /\ \/ Goes(r, "died") /\ UNCHANGED <<refs, shared>>
            \/ /\ Goes(r, "check")
               /\ \E ref \in References : refs' = [refs EXCEPT ![r] = <<ref>>]
               /\ shared' = shared \cup (IF Beside = {} THEN {} ELSE Beside \cup {r})
  /\ UNCHANGED <<second, fetch, results, name, audit, report, cut>>

\* check_allowed.
CheckAllowed(ref) ==
  IF ref.host \in {"denied", "both"} THEN "DENIED"
  ELSE IF ref.host # "permitted" THEN "NOT-ALLOWLISTED"
  ELSE IF ~ref.pinned THEN "UNPINNED" ELSE "ALLOWED-PINNED"

\* One reference; classify ends the run on an unqualified one (exit 2).
CheckOne(r) ==
  /\ phase[r] = "check" /\ refs[r] # <<>>
  /\ LET ref == Head(refs[r])  verdict == CheckAllowed(ref)
     IN  IF ref.host = "unqualified" THEN Goes(r, "died") /\ UNCHANGED <<refs, results>>
         ELSE /\ refs' = [refs EXCEPT ![r] = Tail(@)] /\ UNCHANGED phase
              /\ results' = [results EXCEPT ![r] = Append(@,
                   [of |-> ref, verdict |-> verdict,
                    asked |-> fetch[r] /\ verdict = "ALLOWED-PINNED"])]
  /\ UNCHANGED <<second, started, fetch, began, name, audit, report, cut, shared>>

\* The order of main.
NextStage(s) == CASE s = "check" -> "audit" [] s = "audit" -> "name"
                  [] s = "name" -> "write"
                  [] s = "write" -> "fill" [] OTHER -> "ended"

Checked(r) == /\ phase[r] = "check" /\ refs[r] = <<>> /\ Goes(r, NextStage("check"))
              /\ UNCHANGED <<second, started, fetch, began, refs, results, name, audit, report, cut,
                             shared>>

WriteAudit(r) ==
  /\ phase[r] = "audit" /\ Goes(r, NextStage("audit")) /\ audit' = audit \cup {r}
  /\ UNCHANGED <<second, started, fetch, began, refs, results, name, report, cut, shared>>

\* Mutant: the name is used whether or not it is taken.
FreeNameFirst(r) == <<began[r], 1>>
\* The first suffix no file has.
FreeName(r) == <<began[r], Min({n \in RunIds : report[<<began[r], n>>] = NoRun})>>

ChooseName(r) ==
  /\ phase[r] = "name" /\ Goes(r, NextStage("name"))
  /\ name' = [name EXCEPT ![r] = FreeName(r)]
  /\ UNCHANGED <<second, started, fetch, began, refs, results, audit, report, cut, shared>>

\* write_text truncates what has the name.
OpenReport(r) ==
  /\ phase[r] = "write" /\ Goes(r, NextStage("write"))
  /\ report' = [report EXCEPT ![name[r]] = r] /\ cut' = cut \cup {name[r]}
  /\ UNCHANGED <<second, started, fetch, began, refs, results, name, audit, shared>>

\* And writes.  If another run has opened or written the file since, it may hold pieces of two
\* records.
WriteReport(r) ==
  /\ phase[r] = "fill" /\ Goes(r, NextStage("fill"))
  /\ report' = [report EXCEPT ![name[r]] = r]
  /\ \/ cut' = cut \ {name[r]}
     \/ report[name[r]] # r /\ cut' = cut \cup {name[r]}
  /\ UNCHANGED <<second, started, fetch, began, refs, results, name, audit, shared>>

\* An unreadable mount, a full disk, the end of the container.  A record of which the log got
\* only a part counts as none.
Die(r) == /\ AtWork(r) /\ Goes(r, "died")
          /\ UNCHANGED <<second, started, fetch, began, refs, results, name, audit, report, cut,
                             shared>>

AcquireNext == \/ Tick \/ StartAcquire
               \/ \E r \in RunIds : \/ CheckOne(r) \/ Checked(r) \/ WriteAudit(r)
                                    \/ ChooseName(r) \/ OpenReport(r) \/ WriteReport(r) \/ Die(r)

AcquireSpec == AcquireInit /\ [][AcquireNext]_acquireVars

-----------------------------------------------------------------------------
(* Properties.                                                             *)

\* A report is never the only trace of its run: whatever dies, the run is in the audit log
\* (ao-build-update.py:262-274).  One that is cut short is of a run that died over it or has
\* yet to write it, or that shared its second with another.
ReportAudited ==
  \A n \in Names : report[n] # NoRun =>
    /\ report[n] \in audit
    /\ n \in cut => phase[report[n]] \in {"fill", "died"} \/ report[n] \in shared

\* "a later run must not silently overwrite an earlier one" (:267-268): the report of a run
\* that ended is there and whole, unless another run began in the second it began in while the
\* first of the two was at work.
ReportKept ==
  \A r \in RunIds : phase[r] = "ended" /\ r \notin shared =>
    \E n \in Names \ cut : report[n] = r

\* A run that ended has left its report, and every report its run's line, each with its
\* exception: both of the above.
RunsTraced == ReportAudited /\ ReportKept
=============================================================================
