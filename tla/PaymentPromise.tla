--------------------------- MODULE PaymentPromise ---------------------------
(***************************************************************************)
(* The relay, the adapter and the table together implement Intake.         *)
(***************************************************************************)
EXTENDS PaymentIngress

\* What may leave a row: a signed, well-formed event of an automated provider.
Admissible(t) ==
  /\ t[1] \in (PayPal \cup Coinbase) \ Zelle
  /\ t[1] \in Signed \cap WellFormed \cap Sized
  /\ HasSecret

Intake == INSTANCE Intake WITH
  Deliveries <- Tx, May <- {t \in Tx : Admissible(t)}, Keeping <- HasDsn,
  kept <- rows, told <- answer

\* Every step is one the provider may count on, or none at all: nothing that was told is
\* taken back or contradicted later, though the relay gives up on an adapter that goes on
\* (ao-payment-relay.py:59-79), an insert fails in its commit and either side restarts; and
\* "signature verified before ANY row is written" (ao-payment-adapter.py).
IntakePromise == Intake!Spec
=============================================================================
