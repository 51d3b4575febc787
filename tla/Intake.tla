------------------------------- MODULE Intake -------------------------------
(***************************************************************************)
(* What the ingress promises a payment provider: of each delivery it hears *)
(* at most once, what it hears is true of the rows when it hears it and    *)
(* stays true, and a row is made once, of what may make one.               *)
(***************************************************************************)
CONSTANTS
  Deliveries,
  May,      (* those that may leave a row                *)
  Keeping,  (* there is a database to keep rows in       *)
  Refusals, (* told of a delivery that never has a row   *)
  None

VARIABLES kept, (* the deliveries that left a row             *)
          told  (* told[d]: what the provider heard, or None  *)

intakeVars == <<kept, told>>

Init ==
  /\ kept = {}
  /\ told = [d \in Deliveries |-> None]

Settled(d) == told[d] \in Refusals \cup {"200", "cut"}

\* The provider may hear that a commit failed when it did not.
Keep(d) ==
  /\ d \in May \ kept /\ ~Settled(d)
  /\ kept' = kept \cup {d}
  /\ \/ told' = told
     \/ told[d] = None /\ told' = [told EXCEPT ![d] = "503"]

Tell(d, code) ==
  /\ told[d] = None /\ told' = [told EXCEPT ![d] = code]
  /\ code = "200" => d \in kept \/ ~Keeping
  /\ code \in Refusals => d \notin kept
  /\ kept' = kept

\* A relay that stops breaks every connection it has; a provider breaks its own,
\* once the delivery is through or before.
Break(D, how) ==
  /\ \A d \in D : told[d] = None /\ (how = "cut" => d \notin kept)
  /\ told' = [d \in Deliveries |-> IF d \in D THEN how ELSE told[d]]
  /\ kept' = kept

Next ==
  \/ \E d \in Deliveries : Keep(d) \/ \E code \in Refusals \cup {"200", "503"} : Tell(d, code)
  \/ \E D \in SUBSET Deliveries : \E how \in {"reset", "cut"} : Break(D, how)

Spec == Init /\ [][Next]_intakeVars
=============================================================================
