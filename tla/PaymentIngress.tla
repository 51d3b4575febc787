--------------------------- MODULE PaymentIngress ---------------------------
(***************************************************************************)
(* scripts/payment: webhook transmissions of the payment providers pass    *)
(* through the host relay (one at a time: it reads without a limit, then   *)
(* waits 15 seconds) to the adapter (one at a time, no limit), which       *)
(* verifies them and inserts a row into salesdb.  A provider repeats an    *)
(* event that it has no answer to.                                         *)
(***************************************************************************)
EXTENDS Naturals, FiniteSets

CONSTANTS
  Events,                   (* provider events                              *)
  PayPal, Coinbase, Zelle,  (* the events posted to each webhook path      *)
  Sized,                    (* bodies within MAX_BODY                      *)
  Signed,                   (* events that carry the PayPal signature      *)
  WellFormed,               (* JSON objects with a provider reference      *)
  Raising,                  (* a header or body on which the adapter raises *)
  HasSecret, HasDsn,        (* what payment.env provides                   *)
  Repeated,                 (* events that a provider sends more than once *)
  MaxSends,                 (* bound on the transmissions of such an event *)
  None

Tx == {t \in Events \X (1..MaxSends) : t[2] = 1 \/ t[1] \in Repeated}

\* What a provider can be told; "reset" stands for a connection that broke, and
\* "cut" for one that the sender closed in the middle of the body.
Refusals == {"400", "401", "404", "501"}
Answers  == Refusals \cup {"200", "503", "reset", "cut"}

ASSUME IngressAssumption ==
  /\ MaxSends \in Nat \ {0}
  /\ HasSecret \in BOOLEAN /\ HasDsn \in BOOLEAN
  /\ PayPal \cap Zelle = {} /\ Coinbase \cap Zelle = {}
  /\ None \notin Tx /\ None \notin Answers

VARIABLES
  sent,     (* transmissions of each event so far                          *)
  old,      (* transmissions whose timestamp is over 300 seconds old       *)
  queue,    (* accepted by the relay's socket, not yet read                *)
  inbound,  (* the transmission the relay reads                            *)
  relay,    (* the transmission the relay has forwarded and waits for      *)
  backlog,  (* forwarded to the adapter's socket, not yet read             *)
  adapter,  (* the transmission the adapter handles                        *)
  stored,   (* the adapter has committed its row                           *)
  rows,     (* payment_provider_events, by the transmission that made them *)
  answer    (* what the provider is told about a transmission              *)

vars == <<sent, old, queue, inbound, relay, backlog, adapter, stored, rows, answer>>

Init ==
  /\ sent    = [e \in Events |-> 0]
  /\ old     = {}
  /\ queue   = {}
  /\ inbound = None
  /\ relay   = None
  /\ backlog = {}
  /\ adapter = None
  /\ stored  = FALSE
  /\ rows    = {}
  /\ answer  = [t \in Tx |-> None]

-----------------------------------------------------------------------------
(* The providers.                                                          *)

\* A retry may carry the timestamp of the first transmission.
Send(e) ==
  /\ sent[e] < (IF e \in Repeated THEN MaxSends ELSE 1)
  /\ LET t == <<e, sent[e] + 1>>
     IN /\ queue' = queue \cup {t}
        /\ old' \in {old, old \cup {t}}
  /\ sent' = [sent EXCEPT ![e] = @ + 1]
  /\ UNCHANGED <<inbound, relay, backlog, adapter, stored, rows, answer>>

GrowOld(t) ==
  /\ t \in (queue \cup {inbound} \cup backlog) \ (old \cup {None})
  /\ old' = old \cup {t}
  /\ UNCHANGED <<sent, queue, inbound, relay, backlog, adapter, stored, rows, answer>>

\* The sender closes the connection, before its body is through or after.
HangUp(t) ==
  /\ t \in {inbound, relay} /\ answer[t] = None
  /\ \E how \in IF t = relay THEN {"reset"} ELSE {"reset", "cut"} :
       answer' = [answer EXCEPT ![t] = how]
  /\ UNCHANGED <<sent, old, queue, inbound, relay, backlog, adapter, stored, rows>>

-----------------------------------------------------------------------------
(* The relay.                                                              *)

\* A sender that has closed its connection hears nothing.
Tell(t, code) ==
  answer' = IF answer[t] = None THEN [answer EXCEPT ![t] = code] ELSE answer

\* The next connection, whose headers and body are read without a timeout.
RelayAccepts(t) ==
  /\ inbound = None /\ relay = None /\ t \in queue
  /\ queue'   = queue \ {t}
  /\ inbound' = t
  /\ UNCHANGED <<sent, old, relay, backlog, adapter, stored, rows, answer>>

\* A length that is no number raises, and the connection is closed.
RelayRefuses(t) ==
  /\ inbound = t /\ t[1] \notin Sized
  /\ inbound' = None
  /\ Tell(t, "400") \/ Tell(t, "reset")
  /\ UNCHANGED <<sent, old, queue, relay, backlog, adapter, stored, rows>>

\* A body that was cut is forwarded as far as it came.
RelayForwards(t) ==
  /\ inbound = t /\ t[1] \in Sized
  /\ inbound' = None
  /\ relay'   = t
  /\ backlog' = backlog \cup {t}
  /\ UNCHANGED <<sent, old, queue, adapter, stored, rows, answer>>

\* The adapter does not listen.
RelayFails(t) ==
  /\ inbound = t /\ t[1] \in Sized
  /\ inbound' = None
  /\ Tell(t, "503")
  /\ UNCHANGED <<sent, old, queue, relay, backlog, adapter, stored, rows>>

\* Mutant: the relay gives up without a word to the provider.
RelayDropsOut ==
  /\ relay # None
  /\ relay' = None
  /\ UNCHANGED <<sent, old, queue, inbound, backlog, adapter, stored, rows, answer>>

\* The provider is told 503; the adapter still has the request.
RelayTimesOut ==
  /\ relay # None
  /\ Tell(relay, "503")
  /\ relay' = None
  /\ UNCHANGED <<sent, old, queue, inbound, backlog, adapter, stored, rows>>

\* Mutant: the relay answers with what comes back, whomever it is for.
ReplyToWaiting(t, code) ==
  IF relay # None
    THEN Tell(relay, code) /\ relay' = None
    ELSE UNCHANGED <<answer, relay>>

\* The adapter's reply, which the relay passes on if it still waits for it.
Reply(t, code) ==
  IF relay = t
    THEN Tell(t, code) /\ relay' = None
    ELSE UNCHANGED <<answer, relay>>

-----------------------------------------------------------------------------
(* The adapter.                                                            *)

\* verify_paypal: the shared secret and the replay guard; then the signature, which
\* a body that was cut does not have.
Timely(t)   == HasSecret /\ t \notin old
Verified(t) == Timely(t) /\ t[1] \in Signed /\ answer[t] # "cut"

\* Mutant: a signature is asked of PayPal only.
VerdictTrusting(t) ==
  LET e == t[1]
  IN IF e \in Zelle THEN "501"
     ELSE IF e \notin PayPal \cup Coinbase THEN "404"
     ELSE IF e \in Raising /\ Timely(t) THEN "503"
     ELSE IF e \in PayPal /\ ~Verified(t) THEN "401"
     ELSE IF e \notin WellFormed THEN "400"
     ELSE "200"

\* do_POST up to the insert.  A PayPal signature is asked of every automated
\* provider.  A signature outside ASCII cannot be compared, a signed body may not
\* decode or normalize: the handler raises, and the relay says 503.
Verdict(t) ==
  LET e == t[1]
  IN IF e \in Zelle THEN "501"
     ELSE IF e \notin PayPal \cup Coinbase THEN "404"
     ELSE IF e \in Raising /\ Timely(t) THEN "503"
     ELSE IF ~Verified(t) THEN "401"
     ELSE IF e \notin WellFormed THEN "400"
     ELSE "200"

AdapterRefuses(t) ==
  /\ adapter = None /\ t \in backlog /\ Verdict(t) # "200"
  /\ backlog' = backlog \ {t}
  /\ Reply(t, Verdict(t))
  /\ UNCHANGED <<sent, old, queue, inbound, adapter, stored, rows>>

AdapterVerifies(t) ==
  /\ adapter = None /\ t \in backlog /\ Verdict(t) = "200"
  /\ backlog' = backlog \ {t}
  /\ adapter' = t
  /\ stored'  = FALSE
  /\ UNCHANGED <<sent, old, queue, inbound, relay, rows, answer>>

\* Without a DSN the event is only logged.
Store ==
  /\ adapter # None /\ ~stored
  /\ rows'   = IF HasDsn THEN rows \cup {adapter} ELSE rows
  /\ stored' = TRUE
  /\ UNCHANGED <<sent, old, queue, inbound, relay, backlog, adapter, answer>>

\* Mutant: a failed insert is only logged.
StoreFailsQuietly ==
  /\ adapter # None /\ ~stored /\ HasDsn
  /\ stored' = TRUE
  /\ UNCHANGED <<sent, old, queue, inbound, relay, backlog, adapter, rows, answer>>

\* The insert raises; if the connection broke in the commit, the row is there.
StoreFails ==
  /\ adapter # None /\ ~stored /\ HasDsn
  /\ rows' \in {rows, rows \cup {adapter}}
  /\ Reply(adapter, "503")
  /\ adapter' = None
  /\ UNCHANGED <<sent, old, queue, inbound, backlog, stored>>

Accept ==
  /\ adapter # None /\ stored
  /\ Reply(adapter, "200")
  /\ adapter' = None
  /\ stored'  = FALSE
  /\ UNCHANGED <<sent, old, queue, inbound, backlog, rows>>

-----------------------------------------------------------------------------
(* Restarts: the requests of a process that stops are reset.               *)

AdapterRestarts ==
  /\ adapter # None \/ backlog # {}
  /\ backlog' = {}
  /\ adapter' = None
  /\ stored'  = FALSE
  /\ IF relay # None
       THEN Tell(relay, "503") /\ relay' = None
       ELSE UNCHANGED <<answer, relay>>
  /\ UNCHANGED <<sent, old, queue, inbound, rows>>

RelayRestarts ==
  /\ queue \cup {inbound, relay} # {None}
  /\ answer' = [t \in Tx |-> IF t \in queue \cup {inbound, relay} /\ answer[t] = None
                               THEN "reset" ELSE answer[t]]
  /\ queue'   = {}
  /\ inbound' = None
  /\ relay'   = None
  /\ UNCHANGED <<sent, old, backlog, adapter, stored, rows>>

RelayStep(t) == RelayAccepts(t) \/ RelayRefuses(t) \/ RelayForwards(t) \/ RelayFails(t)

Next ==
  \/ \E e \in Events : Send(e)
  \/ \E t \in Tx : \/ GrowOld(t) \/ HangUp(t) \/ RelayStep(t)
                   \/ AdapterRefuses(t) \/ AdapterVerifies(t)
  \/ RelayTimesOut
  \/ Store \/ StoreFails \/ Accept
  \/ AdapterRestarts \/ RelayRestarts

Spec == Init /\ [][Next]_vars

\* The relay's outbound socket has a timeout, and its accept queue is first in, first
\* out.  Nothing is assumed of a sender, of the adapter or of the database.
FairSpec ==
  Spec /\ WF_vars(RelayTimesOut) /\ \A t \in Tx : SF_vars(RelayAccepts(t))

-----------------------------------------------------------------------------
(* Properties.                                                             *)

\* Every variable holds a value of its kind.
TypeOK ==
  /\ sent    \in [Events -> 0..MaxSends]
  /\ old     \subseteq Tx
  /\ queue   \subseteq Tx
  /\ inbound \in Tx \cup {None}
  /\ relay   \in Tx \cup {None}
  /\ backlog \subseteq Tx
  /\ adapter \in Tx \cup {None}
  /\ stored  \in BOOLEAN
  /\ rows    \subseteq Tx
  /\ answer  \in [Tx -> Answers \cup {None}]

\* A provider that is told 200 stops repeating the event: its row is there,
\* whatever timed out, failed or restarted (do_POST replies after record).
AcceptedIsStored ==
  \A t \in Tx : answer[t] = "200" => t \in rows \/ ~HasDsn

\* A provider that is told 4xx or 501 is told so of that very transmission: it
\* has left no row ("an unverified event must not be able to create business
\* state").
RefusedLeavesNoRow ==
  \A t \in Tx : answer[t] \in Refusals => t \notin rows

\* Only signed, well-formed events of the automated providers leave rows:
\* "signature verified before ANY row is written", Zelle never by webhook.
OnlyVerifiedRows ==
  \A t \in rows : /\ t[1] \in (PayPal \cup Coinbase) \ Zelle
                  /\ t[1] \in Signed \cap WellFormed \cap Sized
                  /\ HasSecret

\* A provider hears of every transmission, though the adapter may hang, provided
\* that no sender stalls for ever: the relay is single-threaded and reads without a
\* timeout, so that one that does holds up all the others.
EveryTransmissionAnswered ==
  []<>(inbound = None) => \A t \in Tx : t \in queue ~> answer[t] # None
=============================================================================
