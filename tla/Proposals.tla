------------------------------ MODULE Proposals ------------------------------
(* scripts/orchestration/compile-proposals.py: a pass folds the files the    *)
(* sessions left in proposals/ into the issue register, section 19.1 of the  *)
(* open rows and 19.2 of the completed ones, then notes the files in the     *)
(* .applied ledger: two saves.  A row is the set of what was told in it, as  *)
(* <<file, pass>>; the rows of an issue are in the order of the page.        *)
EXTENDS Integers, Sequences

CONSTANTS
  NProposals,  \* files there may be, in the order of their names
  Issues,      \* work IDs
  Registered,  \* those with a row in 19.1 at the beginning
  Completed,   \* those with a row in 19.2 at the beginning
  Grouped,     \* those whose group has a block in 19.1
  MaxRewrites, \* times a session writes a file after the beginning
  MaxCompiles  \* passes

ASSUME ProposalAssumption ==
  /\ NProposals \in Nat /\ MaxRewrites \in Nat /\ MaxCompiles \in Nat
  /\ Registered \subseteq Issues /\ Completed \subseteq Issues /\ Grouped \subseteq Issues
  /\ "none" \notin Issues

PropNo == 1..NProposals

\* "update" stands for keep-open too; "create" for an action the compiler has no loop for.
Contents   == [action : {"close", "update", "new", "create"}, item : Issues]
\* No file, or one without frontmatter: while it is being rewritten, too.
NotWritten == [action |-> "plain", item |-> "none"]

VARIABLES
  proposed, \* what is in each file of proposals/
  rewrites,
  applied,  \* .applied: the files whose proposals are not applied again
  register, \* SEC: the rows of 19.1 and 19.2 per issue
  whole,    \* SEC has both headings, without which its rows are not looked at
  draft,    \* log1 and tail of the pass that is on
  fresh,    \* the proposals it read and the ledger did not have
  todo,     \* those it has not come to yet
  passAt,   \* "idle", "telling", "writing" or "saved"
  passNo,   \* passes begun
  unnoted,  \* what was told by a pass that then did not note its file
  cutAway   \* ghost: the issues whose completed rows a save that was cut short left out

proposalVars == <<proposed, rewrites, applied, register, whole, draft, fresh, todo,
                  passAt, passNo, unnoted, cutAway>>

FirstRows == [open |-> [i \in Issues |-> IF i \in Registered THEN <<{}>> ELSE <<>>],
              done |-> [i \in Issues |-> IF i \in Completed THEN <<{}>> ELSE <<>>]]
Emptied   == [open |-> [i \in Issues |-> <<>>], done |-> [i \in Issues |-> <<>>]]
NothingFresh == [f \in {} |-> NotWritten]

ProposalInit ==
  /\ proposed \in [PropNo -> Contents \cup {NotWritten}] /\ rewrites = 0
  /\ applied = {} /\ register = FirstRows /\ whole \in BOOLEAN
  /\ draft = FirstRows /\ fresh = NothingFresh /\ todo = {}
  /\ passAt = "idle" /\ passNo = 0 /\ unnoted = {} /\ cutAway = {}

\* A session writes, rewrites or is halfway through its file, whatever the compiler does.
WriteProposal ==
  /\ rewrites < MaxRewrites /\ rewrites' = rewrites + 1
  /\ \E f \in PropNo, c \in Contents \cup {NotWritten} : proposed' = [proposed EXCEPT ![f] = c]
  /\ UNCHANGED <<applied, register, whole, draft, fresh, todo, passAt, passNo, unnoted, cutAway>>

\* Mutant: the ledger is kept and not looked at.
FreshAll == {f \in PropNo : proposed[f] # NotWritten}
\* read_props and the ledger: what this pass will fold in.
FreshFiles == {f \in PropNo : proposed[f] # NotWritten /\ f \notin applied}

\* A pass with nothing to apply returns and one without both headings raises, with nothing
\* changed.
BeginPass ==
  /\ passAt = "idle" /\ passNo < MaxCompiles /\ whole /\ FreshFiles # {}
  /\ fresh' = [f \in FreshFiles |-> proposed[f]] /\ todo' = FreshFiles
  /\ draft' = register /\ passAt' = "telling" /\ passNo' = passNo + 1
  /\ UNCHANGED <<proposed, rewrites, applied, register, whole, unnoted, cutAway>>

-----------------------------------------------------------------------------
(* The three loops: first the closes, then the updates, then the new rows.  *)

Turn(f) == CASE fresh[f].action = "close"  -> 1
             [] fresh[f].action = "update" -> 2
             [] fresh[f].action = "new"    -> 3
             [] OTHER -> 4

IsNext(f) == \A g \in todo : Turn(f) < Turn(g) \/ (Turn(f) = Turn(g) /\ f <= g)

\* The issue's first open row goes to 19.2 with new details; what it had been told is gone.
Closed(i, told) ==
  IF draft.open[i] = <<>> THEN draft
  ELSE [open |-> [draft.open EXCEPT ![i] = Tail(@)],
        done |-> [draft.done EXCEPT ![i] = <<{told}>> \o @]]

Progressed(i, told) ==
  IF draft.open[i] = <<>> THEN draft
  ELSE [open |-> [draft.open EXCEPT ![i] = <<Head(@) \cup {told}>> \o Tail(@)],
        done |-> draft.done]

\* Right under the heading of the group, even when the issue has a row already.
Added(i, told) ==
  IF i \notin Grouped THEN draft
  ELSE [open |-> [draft.open EXCEPT ![i] = <<{told}>> \o @], done |-> draft.done]

TellNext ==
  /\ passAt = "telling"
  /\ \E f \in todo :
       /\ IsNext(f) /\ todo' = todo \ {f}
       /\ LET i == fresh[f].item  told == <<f, passNo>>
          IN draft' = CASE fresh[f].action = "close"  -> Closed(i, told)
                        [] fresh[f].action = "update" -> Progressed(i, told)
                        [] fresh[f].action = "new"    -> Added(i, told)
                        [] OTHER -> draft
  /\ UNCHANGED <<proposed, rewrites, applied, register, whole, fresh, passAt, passNo, unnoted,
                 cutAway>>

-----------------------------------------------------------------------------
(* The two saves.                                                           *)

Truncate ==
  /\ passAt = "telling" /\ todo = {} /\ passAt' = "writing"
  /\ register' = Emptied /\ whole' = FALSE
  /\ UNCHANGED <<proposed, rewrites, applied, draft, fresh, todo, passNo, unnoted, cutAway>>

\* A kill or a full disk cuts the write within 19.2: both headings are there, and of the
\* completed rows the first ones of the page, so that of each issue the first ones.  (Cut
\* before, it has not both headings: PassDies.)
CutWrite ==
  /\ passAt = "writing" /\ passAt' = "idle" /\ fresh' = NothingFresh /\ todo' = {}
  /\ \E left \in [Issues -> 0..(NProposals * MaxCompiles + 1)] :
       /\ \A i \in Issues : left[i] <= Len(draft.done[i])
       /\ register' = [open |-> draft.open,
                       done |-> [i \in Issues |-> SubSeq(draft.done[i], 1, left[i])]]
       /\ cutAway' = cutAway \cup {i \in Issues : left[i] = 0 /\ draft.done[i] # <<>>}
  /\ whole' = TRUE /\ unnoted' = unnoted \cup ((DOMAIN fresh) \X {passNo})
  /\ UNCHANGED <<proposed, rewrites, applied, draft, passNo>>

WriteSections ==
  /\ passAt = "writing" /\ passAt' = "saved" /\ register' = draft /\ whole' = TRUE
  /\ UNCHANGED <<proposed, rewrites, applied, draft, fresh, todo, passNo, unnoted, cutAway>>

\* The files are read again, and of the fresh ones those that can be are noted.
NoteApplied ==
  LET again == {f \in DOMAIN fresh : proposed[f] # NotWritten}
  IN /\ passAt = "saved" /\ passAt' = "idle"
     /\ applied' = applied \cup again
     /\ unnoted' = unnoted \cup ((DOMAIN fresh \ again) \X {passNo})
     /\ fresh' = NothingFresh
     /\ UNCHANGED <<proposed, rewrites, register, whole, draft, todo, passNo, cutAway>>

\* It is killed, or raises over a row that is not laid out as it expects.
PassDies ==
  /\ passAt # "idle" /\ passAt' = "idle" /\ fresh' = NothingFresh /\ todo' = {}
  /\ unnoted' = IF passAt = "saved" THEN unnoted \cup ((DOMAIN fresh) \X {passNo}) ELSE unnoted
  /\ UNCHANGED <<proposed, rewrites, applied, register, whole, draft, passNo, cutAway>>

ProposalNext == \/ WriteProposal \/ BeginPass \/ TellNext
                \/ Truncate \/ CutWrite \/ WriteSections \/ NoteApplied \/ PassDies

ProposalSpec == ProposalInit /\ [][ProposalNext]_proposalVars

-----------------------------------------------------------------------------
(* Properties.                                                             *)

\* What the rows of a register tell.
Tells(reg, told) ==
  \E i \in Issues : \/ \E k \in DOMAIN reg.open[i] : told \in reg.open[i][k]
                    \/ \E k \in DOMAIN reg.done[i] : told \in reg.done[i][k]

\* A file is told by a second pass only when the first one could not note it (:64-71, where
\* a second telling is the bug the ledger is for).
ToldOnce ==
  \A f \in PropNo : \A p, q \in 1..MaxCompiles :
    p < q /\ Tells(register, <<f, p>>) /\ Tells(register, <<f, q>>) => <<f, p>> \in unnoted

\* "Never drops a row that has no proposal" (:12): what had a row, open or completed, has one,
\* unless a save cut short left it out of the completed ones.
RowsKept ==
  \A i \in Registered \cup Completed :
    register.open[i] # <<>> \/ register.done[i] # <<>> \/ i \in cutAway

\* Passes that die anywhere and sessions that rewrite at any moment leave a register of both
\* headings with every row it had, but for completed ones that a cut save left out, and with
\* nothing told twice, but for what was not noted.
RegisterAccounts == whole => ToldOnce /\ RowsKept
=============================================================================
