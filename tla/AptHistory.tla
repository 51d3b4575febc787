----------------------------- MODULE AptHistory -----------------------------
(* apt's transaction log and what scripts/build-update/apt_history.py and  *)
(* provenance/collector.py read from it: the "Installed" column of the     *)
(* software log.  apt and logrotate write; every report parses the files   *)
(* again, so the parser is an operator of the files.                       *)
EXTENDS Naturals, Sequences, SequencesExt, FiniteSetsExt

CONSTANTS
  Archs,           \* the architectures, in the order _alias_candidates tries them
  MaxDays,         \* days that pass
  MaxTransactions, \* transactions apt makes
  Retained,        \* rotated files logrotate keeps
  NameOrder        \* their numbers in the order of the files' names: .10.gz before .2.gz

ASSUME AptAssumption == Archs \in Seq(STRING) \ {<<>>} /\ Retained \in Nat \ {0}
ASSUME NameAssumption ==
  /\ NameOrder \in [1..Retained -> 1..Retained]
  /\ \A n \in 1..Retained : \E i \in 1..Retained : NameOrder[i] = n

Actions  == {"Install", "Reinstall", "Upgrade", "Remove", "Purge"}
Arrivals == {"Install", "Reinstall"}

VARIABLES
  today,    \* the date of the day
  live,     \* history.log: stanzas, oldest first
  rotated,  \* history.log.1.gz, .2.gz, ...: the newest file first
  torn,     \* rotated files that cannot be read any more (numbers counted from 1)
  manifest  \* per architecture the mtime of dpkg's .list file, 0 if there is none

aptVars == <<today, live, rotated, torn, manifest>>

AptInit ==
  /\ today = 1 /\ live = <<>> /\ rotated = <<>> /\ torn = {}
  /\ manifest \in [ToSet(Archs) -> {0, 1}]

Transactions == Len(live) + FoldLeft(LAMBDA n, f : n + Len(f), 0, rotated)

\* One transaction on one architecture of the package: a stanza, and dpkg's manifest.
Transact(a, action) ==
  /\ Transactions < MaxTransactions
  /\ (action = "Install") <=> (manifest[a] = 0)
  /\ live' = Append(live, [arch |-> a, action |-> action, date |-> today])
  /\ manifest' = [manifest EXCEPT ![a] = IF action \in {"Remove", "Purge"} THEN 0 ELSE today]
  /\ UNCHANGED <<today, rotated, torn>>

NewDay == today < MaxDays /\ today' = today + 1 /\ UNCHANGED <<live, rotated, torn, manifest>>

\* logrotate moves every file one number up and drops the oldest.
Rotate ==
  /\ live # <<>>
  /\ rotated' = SubSeq(<<live>> \o rotated, 1, Min({Retained, Len(rotated) + 1}))
  /\ torn' = {n + 1 : n \in torn \ {Retained}}
  /\ live' = <<>>
  /\ UNCHANGED <<today, manifest>>

\* A rotated file becomes unreadable (no permission, a bad disk): _read makes it empty.
Tear == /\ \E n \in DOMAIN rotated \ torn : torn' = torn \cup {n}
        /\ UNCHANGED <<today, live, rotated, manifest>>

AptNext == \/ \E a \in ToSet(Archs), action \in Actions : Transact(a, action)
           \/ NewDay \/ Rotate \/ Tear

AptSpec == AptInit /\ [][AptNext]_aptVars

-----------------------------------------------------------------------------
(* The parser.  A record has the fields install_date and apt_date read.    *)

\* _read: a file that cannot be read is an empty one.
Readable(n) == IF n \in DOMAIN rotated \ torn THEN rotated[n] ELSE <<>>

\* The stanzas in the order they are read: the rotated files by name, the live log last.
RotatedUpTo[n \in 0..Retained] ==
  IF n = 0 THEN <<>> ELSE RotatedUpTo[n - 1] \o Readable(NameOrder[n])
LogFiles == RotatedUpTo[Retained] \o live

FreshRecord(s) == [date |-> s.date, action |-> s.action, upgraded |-> 0, removed |-> FALSE]

\* Mutant: an install clears the removal, whatever the order of the files.
AbsorbForgiving(rec, s) ==
  IF s.action \in Arrivals THEN FreshRecord(s)
  ELSE IF s.action = "Upgrade" THEN [rec EXCEPT !.upgraded = s.date]
  ELSE [rec EXCEPT !.date = s.date, !.action = s.action, !.removed = TRUE]

\* One item of one stanza against the record of its package, which setdefault made.
Absorb(rec, s) ==
  CASE s.action \in Arrivals ->
         IF rec.action \notin Arrivals \/ s.date < rec.date
         THEN [rec EXCEPT !.date = s.date, !.action = s.action] ELSE rec
    [] s.action = "Upgrade" ->
         IF rec.upgraded = 0 THEN [rec EXCEPT !.upgraded = s.date] ELSE rec
    [] OTHER -> [rec EXCEPT !.date = s.date, !.action = s.action, !.removed = TRUE]

\* parse_history: a function on the architectures the files mention, stanza by stanza.
AbsorbInto(idx, s) ==
  [a \in DOMAIN idx \cup {s.arch} |->
     IF a # s.arch THEN idx[a]
     ELSE Absorb(IF a \in DOMAIN idx THEN idx[a] ELSE FreshRecord(s), s)]
IndexAfter[n \in 0..Len(LogFiles)] ==
  IF n = 0 THEN [a \in {} |-> 0] ELSE AbsorbInto(IndexAfter[n - 1], LogFiles[n])
ParseHistory == IndexAfter[Len(LogFiles)]

\* install_date of the bare name: the first alias the index knows, 0 when it knows none.
AliasFound ==
  LET known == {i \in DOMAIN Archs : Archs[i] \in DOMAIN ParseHistory}
  IN IF known = {} THEN 0 ELSE Min(known)

\* apt_date: what the Installed column says of the package, and the date it gives.
AptDate ==
  LET rec == ParseHistory[Archs[AliasFound]]
  IN IF AliasFound # 0
     THEN CASE rec.removed -> [says |-> "notInstalled", date |-> rec.date]
            [] ~rec.removed /\ rec.action \in Arrivals ->
                 [says |-> "installed", date |-> rec.date, upgraded |-> rec.upgraded]
            [] OTHER -> [says |-> "upgraded", date |-> rec.date]
     ELSE IF manifest[Archs[1]] # 0 THEN [says |-> "mtime", date |-> manifest[Archs[1]]]
     ELSE [says |-> "nothing"]

-----------------------------------------------------------------------------
(* Properties.                                                             *)

Installed == \E a \in ToSet(Archs) : manifest[a] # 0

\* The stanzas of an architecture that can still be read, by what they did.
Dates(a, actions) == {s.date : s \in {x \in ToSet(LogFiles) : x.arch = a /\ x.action \in actions}}

\* As long as every file is readable, a package that is gone is never given a date, in
\* whatever order the files are read and whatever was dropped by rotation (:193-200).
AbsentNeverDated ==
  torn = {} /\ ~Installed => AptDate.says \in {"notInstalled", "nothing"}

\* A date offered as an install date is that of the earliest install the files still
\* hold, never an upgrade's, and an upgrade is told beside it (:10-18, :128-131).  None is
\* offered while they hold a removal, whatever came after it.
InstallDateGenuine ==
  AptDate.says = "installed" =>
    LET a == Archs[AliasFound]
    IN /\ AptDate.date = Min(Dates(a, Arrivals))
       /\ Dates(a, {"Remove", "Purge"}) = {}
       /\ AptDate.upgraded = 0 <=> Dates(a, {"Upgrade"}) = {}

\* A package that is there is said to be gone, or gets no date, only while the files hold a
\* removal of it or nothing of it at all: a removal sticks, and an install after it starts no
\* fresh record (:203-209; the comment at :200 says that it does).
PresentSaidSo ==
  manifest[Archs[1]] # 0 /\ AptDate.says \in {"notInstalled", "nothing"} =>
    /\ AptDate.says = "notInstalled"
    /\ Dates(Archs[AliasFound], {"Remove", "Purge"}) # {}

\* What the report says of a package's dates is in the logs: all of the above.
DatesEarned == AbsentNeverDated /\ InstallDateGenuine /\ PresentSaidSo
=============================================================================
