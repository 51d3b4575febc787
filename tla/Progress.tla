------------------------------ MODULE Progress ------------------------------
(* collect-metrics.py counts the tracker's items, refuses to record what   *)
(* does not reconcile, and appends a line to the history that              *)
(* render-dashboard.py plots, one point per hour.  People edit the tracker *)
(* by hand and an append may be cut short.                                 *)
EXTENDS Naturals, Sequences, FiniteSetsExt

CONSTANTS
  NEntries,  \* work and component items
  MaxEdits,  \* rows edited
  MaxLines,  \* appends
  LastHour   \* the clock, in hours

ASSUME ProgressAssumption == NEntries \in Nat /\ LastHour \in Nat

Entries == 1..NEntries

\* The tracker's open and completed logs; an item may have a row in each.
Sections == {"19.1", "19.2"}

\* An item's row: none; one with columns missing; or a whole one with its status.
Cells == {"noRow", "short", "open", "complete", "verificationPending"}

VARIABLES
  tracker, edits, clock,
  history,  \* its lines: a record, with the tracker it was made of, or one cut short
  appends   \* ghost: for each append its record, and whether it was cut short, glued to
            \* one that was, or neither

progressVars == <<tracker, edits, clock, history, appends>>

ProgressInit == /\ tracker \in [Entries -> [Sections -> Cells]]
                /\ history \in {<<>>, <<[is |-> "cut"]>>}
                /\ edits = 0 /\ clock = 0 /\ appends = <<>>

Edit == /\ edits < MaxEdits /\ edits' = edits + 1
        /\ \E e \in Entries, s \in Sections, c \in Cells : tracker' = [tracker EXCEPT ![e][s] = c]
        /\ UNCHANGED <<clock, history, appends>>

NextHour == /\ clock < LastHour /\ clock' = clock + 1
            /\ UNCHANGED <<tracker, edits, history, appends>>

\* rows: those of a section that have every column.
RowsIn(s) == {e \in Entries : tracker[e][s] \notin {"noRow", "short"}}

\* items, by key: an item in both sections is counted once.
Counted == RowsIn("19.1") \cup RowsIn("19.2")

\* DONE and not NOT_DONE, in either section.
Done == {e \in Counted : \E s \in Sections : tracker[e][s] = "complete"}

\* Mutant: the rows that were counted are the ones reconciled.
WorkIdsOfRows == Counted
\* raw_work_ids: every first cell that looks like an item's, whatever columns follow.
WorkIds == {e \in Entries : \E s \in Sections : tracker[e][s] # "noRow"}

ProgressRecord == [is |-> "record", hour |-> clock, open |-> Cardinality(Counted \ Done),
                   done |-> Cardinality(Done), of |-> tracker]

\* main: the guard and the append.  A run that dies in it leaves a line without an end, to
\* which the next one is glued.
Collect == \E whole \in BOOLEAN :
  LET last == Len(history)
      glued == last > 0 /\ history[last].is = "unended"
      as   == IF ~whole THEN "unended" ELSE IF glued THEN "cut" ELSE "whole"
      line == IF as = "whole" THEN ProgressRecord ELSE [is |-> as]
  IN  /\ Len(appends) < MaxLines
      /\ Counted # {} /\ Cardinality(WorkIds) = Cardinality(Counted)
      /\ history' = IF glued THEN [history EXCEPT ![last] = line] ELSE Append(history, line)
      /\ appends' = Append(appends, [of |-> ProgressRecord, as |-> as])
      /\ UNCHANGED <<tracker, edits, clock>>

ProgressNext == Edit \/ NextHour \/ Collect

ProgressSpec == ProgressInit /\ [][ProgressNext]_progressVars

\* load, of the renderer: the lines that parse.
Parsed == {k \in DOMAIN history : history[k].is = "record"}

\* The point of an hour: its last record, or none.
Points(h) == LET of == {k \in Parsed : history[k].hour = h}
             IN  IF of = {} THEN {} ELSE {history[Max(of)]}

-----------------------------------------------------------------------------
(* Properties.                                                             *)

\* Every point plotted counts each item a reader of the tracker could see when it was made
\* exactly once, also one that has a row in both sections, or a broken row in one
\* (collect-metrics.py:181-205).
PointsReconcile ==
  \A h \in 0..LastHour : \A p \in Points(h) :
    p.open + p.done = Cardinality({e \in Entries : \E s \in Sections : p.of[e][s] # "noRow"})

\* An hour is plotted from its last record that was appended whole after a whole one,
\* whatever was cut short before or since (render-dashboard.py:129-145).
HourPlotted ==
  \A n \in DOMAIN appends : appends[n].as = "whole" =>
    \E k \in n..Len(appends) : /\ appends[k].of.hour = appends[n].of.hour
                               /\ appends[k].as = "whole"
                               /\ Points(appends[n].of.hour) = {appends[k].of}

\* The graph is made of the tracker as it was, and of every whole record: both of the above.
PlotReconciles == PointsReconcile /\ HourPlotted
=============================================================================
