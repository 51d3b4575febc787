--------------------------- MODULE Reconciliation ---------------------------
(* ao-payment-reconcile.sh record: an operator who has seen the money      *)
(* records it under the provider's reference, and may record the same      *)
(* reference again, or beside another operator; one upsert, then one line  *)
(* of the audit log.                                                       *)
EXTENDS Naturals

CONSTANTS
  ProviderRefs, \* provider_ref
  Sales,        \* order_id with provider: what the reference is said to pay for
  Amounts,      \* amount_cents, currency and settlement_ref
  NRecordings   \* runs of the script; a run's number is its approved_by, authorization and note

ASSUME ReconAssumption == NRecordings \in Nat

Recordings == 1..NRecordings

VARIABLES
  says,      \* each run's arguments
  recording, \* "not begun", "inserting", "auditing", "done" or "dead"
  payment,   \* payment_references, by reference: {} or one row
  audited,   \* what the audit log names: the reference and who approved it
  newest     \* ghost: the last run to commit a row for the reference, 0 before

reconVars == <<says, recording, payment, audited, newest>>

Arguments == [ref : ProviderRefs, sale : Sales, amount : Amounts]

ReconInit ==
  /\ says \in [Recordings -> Arguments]
  /\ recording = [r \in Recordings |-> "not begun"]
  /\ payment = [f \in ProviderRefs |-> {}]
  /\ audited = {} /\ newest = [f \in ProviderRefs |-> 0]

Turns(r, from, to) == recording[r] = from /\ recording' = [recording EXCEPT ![r] = to]

\* The arguments pass every test of the script, or it says how to use it and exits.
ReadArguments(r) ==
  /\ Turns(r, "not begun", "inserting") \/ Turns(r, "not begun", "dead")
  /\ UNCHANGED <<says, payment, audited, newest>>

Inserted(r) == {[sale |-> says[r].sale, amount |-> says[r].amount, approver |-> r]}

\* Mutant: ON CONFLICT DO NOTHING.
FirstStays(r, row) == {row}
\* ON CONFLICT DO UPDATE: all but the order and the provider.
Updated(r, row) == {[sale |-> row.sale, amount |-> says[r].amount, approver |-> r]}

Upserted(r) == LET there == payment[says[r].ref]
               IN  IF there = {} THEN Inserted(r) ELSE UNION {Updated(r, row) : row \in there}

\* The row is committed; psql says so, or has lost the connection and ends the script.
Commit(r) ==
  /\ Turns(r, "inserting", "auditing") \/ Turns(r, "inserting", "dead")
  /\ payment' = [payment EXCEPT ![says[r].ref] = Upserted(r)]
  /\ newest' = [newest EXCEPT ![says[r].ref] = r]
  /\ UNCHANGED <<says, audited>>

\* The database is away, or refuses the cast or the row: set -e ends the script.
Refuse(r) == Turns(r, "inserting", "dead") /\ UNCHANGED <<says, payment, audited, newest>>

Audit(r) ==
  /\ Turns(r, "auditing", "done")
  /\ audited' = audited \cup {<<says[r].ref, r>>}
  /\ UNCHANGED <<says, payment, newest>>

\* The script is ended, or cannot write the log.
Cut(r) == Turns(r, "auditing", "dead") /\ UNCHANGED <<says, payment, audited, newest>>

ReconNext == \E r \in Recordings :
               ReadArguments(r) \/ Commit(r) \/ Refuse(r) \/ Audit(r) \/ Cut(r)

ReconSpec == ReconInit /\ [][ReconNext]_reconVars

-----------------------------------------------------------------------------
(* Properties.                                                             *)

\* A row's amount and settlement are the ones its approver gave, however often and by whom
\* the reference is recorded (ao-payment-reconcile.sh:7-9); its order need not be.
ApprovedAmount ==
  \A f \in ProviderRefs : \A row \in payment[f] : says[row.approver].amount = row.amount

\* The audit names only approvals that were committed, and names the approver the row shows
\* once the last run to commit it has ended by itself: recording again makes good the line of
\* a run that was cut short after its commit (:70, :85).
ApprovalAudited ==
  /\ \A line \in audited : newest[line[1]] # 0 /\ payment[line[1]] # {}
  /\ \A f \in ProviderRefs : (newest[f] # 0 /\ recording[newest[f]] = "done") =>
       \A row \in payment[f] : <<f, row.approver>> \in audited

\* The row and the audit tell of one approval and its money: both of the above.
ApprovalHolds == ApprovedAmount /\ ApprovalAudited

-----------------------------------------------------------------------------
(* The inductive invariant.                                                *)

ReconTypes ==
  /\ says \in [Recordings -> Arguments]
  /\ recording \in [Recordings -> {"not begun", "inserting", "auditing", "done", "dead"}]
  /\ newest \in [ProviderRefs -> Recordings \cup {0}]
  /\ payment \in [ProviderRefs -> SUBSET [sale : Sales, amount : Amounts, approver : Recordings]]
  /\ audited \in SUBSET (ProviderRefs \X Recordings)

\* A row is that of the last run to commit one, but for its order.
RowOfNewest(f) ==
  IF newest[f] = 0 THEN payment[f] = {}
  ELSE /\ says[newest[f]].ref = f
       /\ \E s \in Sales :
            payment[f] = {[sale |-> s, amount |-> says[newest[f]].amount, approver |-> newest[f]]}

\* A run past its commit leaves a row, and one that ended by itself is in the audit.
RunTold(r) ==
  /\ recording[r] \in {"auditing", "done"} => newest[says[r].ref] # 0
  /\ recording[r] = "done" => <<says[r].ref, r>> \in audited

ReconInv ==
  /\ ReconTypes
  /\ \A f \in ProviderRefs : RowOfNewest(f)
  /\ \A r \in Recordings : RunTold(r)
  /\ \A line \in audited : newest[line[1]] # 0
=============================================================================
