---------------------------- MODULE PaymentProofs ----------------------------
(***************************************************************************)
(* What a payment provider is told is true of the database, for any events,*)
(* number of transmissions, timeout, failure and restart; and a recorded   *)
(* payment shows what its approver gave, and its approval is in the audit, *)
(* for any references, recordings and ends of the script.                  *)
(***************************************************************************)
EXTENDS PaymentPromise, Reconciliation, TLAPS

\* A transmission is in one place at a time, and only one that was sent is in
\* any; until the adapter replies it has left no row and no final answer.
OnePlace ==
  /\ \A t \in queue   : t # inbound /\ t \notin backlog /\ t # adapter /\ t \notin rows
  /\ inbound # None => inbound \notin backlog \cup rows /\ inbound # adapter
  /\ \A t \in backlog : t # adapter /\ t \notin rows
  /\ adapter # None /\ ~stored => adapter \notin rows
  /\ \A t \in queue \cup backlog \cup rows : t[2] <= sent[t[1]]
  /\ \A t \in {inbound, relay, adapter} \ {None} : t[2] <= sent[t[1]]
  /\ \A t \in queue \cup backlog : answer[t] \notin Refusals \cup {"200"}
  /\ inbound # None => answer[inbound] \notin Refusals \cup {"200"}
  /\ adapter # None => answer[adapter] \notin Refusals \cup {"200", "cut"}
  /\ \A t \in Tx : answer[t] # None => t[2] <= sent[t[1]]

\* What the adapter handles has been verified, and stored means it has a row.
AdapterSound ==
  /\ adapter # None => Admissible(adapter)
  /\ adapter # None /\ stored => adapter \in rows \/ ~HasDsn
  /\ \A t \in backlog : t[1] \in Sized

IngressInv ==
  TypeOK /\ OnePlace /\ AdapterSound
    /\ AcceptedIsStored /\ RefusedLeavesNoRow /\ OnlyVerifiedRows

\* A verdict of "200" is given only to what came whole and may leave a row, once
\* its size has been checked; any other verdict is a refusal, or a handler that
\* raised.
LEMMA VerdictSound ==
  ASSUME NEW t \in Tx
  PROVE  /\ Verdict(t) \in Refusals \cup {"200", "503"}
         /\ Verdict(t) = "200" => answer[t] # "cut" /\ (t[1] \in Sized => Admissible(t))
BY DEF Verdict, Verified, Timely, Admissible, Refusals

\* Every step keeps the invariant.
LEMMA IngressStep ==
  ASSUME IngressInv, [Next]_vars
  PROVE  IngressInv'
<1> USE IngressAssumption DEF Refusals, Answers
<1>1. CASE UNCHANGED vars
  BY <1>1 DEF IngressInv, TypeOK, OnePlace, AdapterSound, Admissible, vars,
     AcceptedIsStored, RefusedLeavesNoRow, OnlyVerifiedRows
<1>2. ASSUME NEW e \in Events, Send(e) PROVE IngressInv'
  <2> DEFINE t == <<e, sent[e] + 1>>
  <2>1. t \in Tx /\ t[1] = e /\ t[2] = sent[e] + 1
    <3>1. sent[e] \in 0..MaxSends /\ sent[e] < (IF e \in Repeated THEN MaxSends ELSE 1)
      BY <1>2 DEF Send, IngressInv, TypeOK
    <3>2. sent[e] + 1 \in 1..MaxSends /\ (sent[e] + 1 = 1 \/ e \in Repeated)
      BY <3>1
    <3>3. QED
      BY <3>2 DEF Tx
  <2>2. /\ t \notin queue \cup backlog \cup rows
        /\ t # adapter /\ t # inbound
        /\ answer[t] = None
    BY <2>1 DEF IngressInv, TypeOK, OnePlace
  <2> HIDE DEF t
  <2>3. /\ queue' = queue \cup {t}
        /\ old' \in {old, old \cup {t}}
        /\ sent' = [sent EXCEPT ![e] = @ + 1]
        /\ UNCHANGED <<inbound, relay, backlog, adapter, stored, rows, answer>>
    BY <1>2 DEF Send, t
  <2>4. TypeOK'
    <3>1. sent[e] + 1 \in 0..MaxSends
      BY <2>1 DEF Tx
    <3>2. QED
      BY <2>1, <2>3, <3>1 DEF IngressInv, TypeOK
  <2>5. OnePlace'
    <3>1. \A u \in Tx : u[2] <= sent[u[1]] => u[2] <= sent'[u[1]]
      BY <2>3 DEF IngressInv, TypeOK, Tx
    <3>2. t[2] <= sent'[t[1]]
      BY <2>1, <2>3 DEF IngressInv, TypeOK
    <3>3. QED
      BY <2>1, <2>2, <2>3, <3>1, <3>2 DEF IngressInv, TypeOK, OnePlace
  <2>6. AdapterSound'
    BY <2>3 DEF IngressInv, AdapterSound, Admissible
  <2>7. AcceptedIsStored' /\ RefusedLeavesNoRow' /\ OnlyVerifiedRows'
    BY <2>3 DEF IngressInv, AcceptedIsStored, RefusedLeavesNoRow, OnlyVerifiedRows
  <2>8. QED
    BY <2>4, <2>5, <2>6, <2>7 DEF IngressInv
<1>3. ASSUME NEW t \in Tx, GrowOld(t) PROVE IngressInv'
  BY <1>3 DEF IngressInv, TypeOK, OnePlace, AdapterSound, Admissible, GrowOld,
     AcceptedIsStored, RefusedLeavesNoRow, OnlyVerifiedRows
<1>4. ASSUME NEW t \in Tx, HangUp(t) PROVE IngressInv'
  <2>1. TypeOK'
    BY <1>4 DEF IngressInv, TypeOK, OnePlace, HangUp
  <2>2. OnePlace'
    BY <1>4 DEF IngressInv, TypeOK, OnePlace, HangUp
  <2>3. AdapterSound'
    BY <1>4 DEF IngressInv, TypeOK, OnePlace, AdapterSound, Admissible,
       HangUp
  <2>4. AcceptedIsStored' /\ RefusedLeavesNoRow' /\ OnlyVerifiedRows'
    BY <1>4 DEF IngressInv, TypeOK, OnePlace, AdapterSound, Admissible,
       HangUp, AcceptedIsStored, RefusedLeavesNoRow, OnlyVerifiedRows
  <2>5. QED
    BY <2>1, <2>2, <2>3, <2>4 DEF IngressInv
<1>5. ASSUME NEW t \in Tx, RelayAccepts(t) PROVE IngressInv'
  <2>1. TypeOK'
    BY <1>5 DEF IngressInv, TypeOK, OnePlace, RelayAccepts
  <2>2. OnePlace'
    BY <1>5 DEF IngressInv, TypeOK, OnePlace, RelayAccepts
  <2>3. AdapterSound'
    BY <1>5 DEF IngressInv, TypeOK, OnePlace, AdapterSound, Admissible,
       RelayAccepts
  <2>4. AcceptedIsStored' /\ RefusedLeavesNoRow' /\ OnlyVerifiedRows'
    BY <1>5 DEF IngressInv, TypeOK, OnePlace, AdapterSound, Admissible,
       RelayAccepts, AcceptedIsStored, RefusedLeavesNoRow, OnlyVerifiedRows
  <2>5. QED
    BY <2>1, <2>2, <2>3, <2>4 DEF IngressInv
<1>6. ASSUME NEW t \in Tx, RelayRefuses(t) PROVE IngressInv'
  <2>1. TypeOK'
    BY <1>6 DEF IngressInv, TypeOK, OnePlace, RelayRefuses, Tell
  <2>2. OnePlace'
    BY <1>6 DEF IngressInv, TypeOK, OnePlace, RelayRefuses, Tell
  <2>3. AdapterSound'
    BY <1>6 DEF IngressInv, TypeOK, OnePlace, AdapterSound, Admissible,
       RelayRefuses, Tell
  <2>4. AcceptedIsStored' /\ RefusedLeavesNoRow' /\ OnlyVerifiedRows'
    BY <1>6 DEF IngressInv, TypeOK, OnePlace, AdapterSound, Admissible,
       RelayRefuses, Tell, AcceptedIsStored, RefusedLeavesNoRow, OnlyVerifiedRows
  <2>5. QED
    BY <2>1, <2>2, <2>3, <2>4 DEF IngressInv
<1>7. ASSUME NEW t \in Tx, RelayForwards(t) PROVE IngressInv'
  <2>1. TypeOK'
    BY <1>7 DEF IngressInv, TypeOK, OnePlace, RelayForwards
  <2>2. OnePlace'
    BY <1>7 DEF IngressInv, TypeOK, OnePlace, RelayForwards
  <2>3. AdapterSound'
    BY <1>7 DEF IngressInv, TypeOK, OnePlace, AdapterSound, Admissible,
       RelayForwards
  <2>4. AcceptedIsStored' /\ RefusedLeavesNoRow' /\ OnlyVerifiedRows'
    BY <1>7 DEF IngressInv, TypeOK, OnePlace, AdapterSound, Admissible,
       RelayForwards, AcceptedIsStored, RefusedLeavesNoRow, OnlyVerifiedRows
  <2>5. QED
    BY <2>1, <2>2, <2>3, <2>4 DEF IngressInv
<1>8. ASSUME NEW t \in Tx, RelayFails(t) PROVE IngressInv'
  <2>1. TypeOK'
    BY <1>8 DEF IngressInv, TypeOK, OnePlace, RelayFails, Tell
  <2>2. OnePlace'
    BY <1>8 DEF IngressInv, TypeOK, OnePlace, RelayFails, Tell
  <2>3. AdapterSound'
    BY <1>8 DEF IngressInv, TypeOK, OnePlace, AdapterSound, Admissible,
       RelayFails, Tell
  <2>4. AcceptedIsStored' /\ RefusedLeavesNoRow' /\ OnlyVerifiedRows'
    BY <1>8 DEF IngressInv, TypeOK, OnePlace, AdapterSound, Admissible,
       RelayFails, Tell, AcceptedIsStored, RefusedLeavesNoRow, OnlyVerifiedRows
  <2>5. QED
    BY <2>1, <2>2, <2>3, <2>4 DEF IngressInv
<1>9. ASSUME NEW t \in Tx, AdapterRefuses(t) PROVE IngressInv'
  <2>0. Verdict(t) \in Refusals \cup {"503"}
    BY <1>9, VerdictSound DEF AdapterRefuses
  <2>1. TypeOK'
    BY <1>9, <2>0 DEF IngressInv, TypeOK, OnePlace, AdapterRefuses, Reply, Tell
  <2>2. OnePlace'
    BY <1>9, <2>0 DEF IngressInv, TypeOK, OnePlace, AdapterRefuses, Reply, Tell
  <2>3. AdapterSound'
    BY <1>9, <2>0 DEF IngressInv, TypeOK, OnePlace, AdapterSound, Admissible,
       AdapterRefuses, Reply, Tell
  <2>4. AcceptedIsStored' /\ RefusedLeavesNoRow' /\ OnlyVerifiedRows'
    BY <1>9, <2>0 DEF IngressInv, TypeOK, OnePlace, AdapterSound, Admissible,
       AdapterRefuses, Reply, Tell, AcceptedIsStored, RefusedLeavesNoRow, OnlyVerifiedRows
  <2>5. QED
    BY <2>1, <2>2, <2>3, <2>4 DEF IngressInv
<1>10. ASSUME NEW t \in Tx, AdapterVerifies(t) PROVE IngressInv'
  <2>0. Admissible(t) /\ answer[t] # "cut"
    BY <1>10, VerdictSound DEF AdapterVerifies, IngressInv, AdapterSound
  <2>1. TypeOK'
    BY <1>10, <2>0 DEF IngressInv, TypeOK, OnePlace, AdapterVerifies
  <2>2. OnePlace'
    BY <1>10, <2>0 DEF IngressInv, TypeOK, OnePlace, AdapterVerifies
  <2>3. AdapterSound'
    BY <1>10, <2>0 DEF IngressInv, TypeOK, OnePlace, AdapterSound, Admissible,
       AdapterVerifies
  <2>4. AcceptedIsStored' /\ RefusedLeavesNoRow' /\ OnlyVerifiedRows'
    BY <1>10, <2>0 DEF IngressInv, TypeOK, OnePlace, AdapterSound, Admissible,
       AdapterVerifies, AcceptedIsStored, RefusedLeavesNoRow, OnlyVerifiedRows
  <2>5. QED
    BY <2>1, <2>2, <2>3, <2>4 DEF IngressInv
<1>11. CASE RelayTimesOut
  <2>1. TypeOK'
    BY <1>11 DEF IngressInv, TypeOK, OnePlace, RelayTimesOut, Tell
  <2>2. OnePlace'
    BY <1>11 DEF IngressInv, TypeOK, OnePlace, RelayTimesOut, Tell
  <2>3. AdapterSound'
    BY <1>11 DEF IngressInv, TypeOK, OnePlace, AdapterSound, Admissible,
       RelayTimesOut, Tell
  <2>4. AcceptedIsStored' /\ RefusedLeavesNoRow' /\ OnlyVerifiedRows'
    BY <1>11 DEF IngressInv, TypeOK, OnePlace, AdapterSound, Admissible,
       RelayTimesOut, Tell, AcceptedIsStored, RefusedLeavesNoRow, OnlyVerifiedRows
  <2>5. QED
    BY <2>1, <2>2, <2>3, <2>4 DEF IngressInv
<1>12. CASE Store
  <2>1. TypeOK'
    BY <1>12 DEF IngressInv, TypeOK, OnePlace, Store
  <2>2. OnePlace'
    BY <1>12 DEF IngressInv, TypeOK, OnePlace, Store
  <2>3. AdapterSound'
    BY <1>12 DEF IngressInv, TypeOK, OnePlace, AdapterSound, Admissible,
       Store
  <2>4. AcceptedIsStored' /\ RefusedLeavesNoRow' /\ OnlyVerifiedRows'
    BY <1>12 DEF IngressInv, TypeOK, OnePlace, AdapterSound, Admissible,
       Store, AcceptedIsStored, RefusedLeavesNoRow, OnlyVerifiedRows
  <2>5. QED
    BY <2>1, <2>2, <2>3, <2>4 DEF IngressInv
<1>13. CASE StoreFails
  <2>1. TypeOK'
    BY <1>13 DEF IngressInv, TypeOK, OnePlace, StoreFails, Reply, Tell
  <2>2. OnePlace'
    BY <1>13 DEF IngressInv, TypeOK, OnePlace, StoreFails, Reply, Tell
  <2>3. AdapterSound'
    BY <1>13 DEF IngressInv, TypeOK, OnePlace, AdapterSound, Admissible,
       StoreFails, Reply, Tell
  <2>4. AcceptedIsStored' /\ RefusedLeavesNoRow' /\ OnlyVerifiedRows'
    BY <1>13 DEF IngressInv, TypeOK, OnePlace, AdapterSound, Admissible,
       StoreFails, Reply, Tell, AcceptedIsStored, RefusedLeavesNoRow, OnlyVerifiedRows
  <2>5. QED
    BY <2>1, <2>2, <2>3, <2>4 DEF IngressInv
<1>14. CASE Accept
  <2>1. TypeOK'
    BY <1>14 DEF IngressInv, TypeOK, OnePlace, Accept, Reply, Tell
  <2>2. OnePlace'
    BY <1>14 DEF IngressInv, TypeOK, OnePlace, Accept, Reply, Tell
  <2>3. AdapterSound'
    BY <1>14 DEF IngressInv, TypeOK, OnePlace, AdapterSound, Admissible,
       Accept, Reply, Tell
  <2>4. AcceptedIsStored' /\ RefusedLeavesNoRow' /\ OnlyVerifiedRows'
    BY <1>14 DEF IngressInv, TypeOK, OnePlace, AdapterSound, Admissible,
       Accept, Reply, Tell, AcceptedIsStored, RefusedLeavesNoRow, OnlyVerifiedRows
  <2>5. QED
    BY <2>1, <2>2, <2>3, <2>4 DEF IngressInv
<1>15. CASE AdapterRestarts
  <2>1. TypeOK'
    BY <1>15 DEF IngressInv, TypeOK, OnePlace, AdapterRestarts, Tell
  <2>2. OnePlace'
    BY <1>15 DEF IngressInv, TypeOK, OnePlace, AdapterRestarts, Tell
  <2>3. AdapterSound'
    BY <1>15 DEF IngressInv, TypeOK, OnePlace, AdapterSound, Admissible,
       AdapterRestarts, Tell
  <2>4. AcceptedIsStored' /\ RefusedLeavesNoRow' /\ OnlyVerifiedRows'
    BY <1>15 DEF IngressInv, TypeOK, OnePlace, AdapterSound, Admissible,
       AdapterRestarts, Tell, AcceptedIsStored, RefusedLeavesNoRow, OnlyVerifiedRows
  <2>5. QED
    BY <2>1, <2>2, <2>3, <2>4 DEF IngressInv
<1>16. CASE RelayRestarts
  <2>1. TypeOK'
    BY <1>16 DEF IngressInv, TypeOK, OnePlace, RelayRestarts
  <2>2. OnePlace'
    BY <1>16 DEF IngressInv, TypeOK, OnePlace, RelayRestarts
  <2>3. AdapterSound'
    BY <1>16 DEF IngressInv, TypeOK, OnePlace, AdapterSound, Admissible,
       RelayRestarts
  <2>4. AcceptedIsStored' /\ RefusedLeavesNoRow' /\ OnlyVerifiedRows'
    BY <1>16 DEF IngressInv, TypeOK, OnePlace, AdapterSound, Admissible,
       RelayRestarts, AcceptedIsStored, RefusedLeavesNoRow, OnlyVerifiedRows
  <2>5. QED
    BY <2>1, <2>2, <2>3, <2>4 DEF IngressInv
<1>17. QED
  BY <1>1, <1>2, <1>3, <1>4, <1>5, <1>6, <1>7, <1>8, <1>9, <1>10, <1>11, <1>12, <1>13, <1>14, <1>15, <1>16
     DEF Next, RelayStep

LEMMA IngressInvariant == Spec => []IngressInv
<1>1. Init => IngressInv
  <2> SUFFICES ASSUME Init PROVE IngressInv
    OBVIOUS
  <2>1. TypeOK
    <3>1. 0 \in 0..MaxSends
      BY IngressAssumption
    <3>2. QED
      BY <3>1 DEF Init, TypeOK
  <2>2. OnePlace /\ AdapterSound
    BY DEF Init, OnePlace, AdapterSound
  <2>3. \A t \in Tx : answer[t] = None
    BY DEF Init
  <2>4. AcceptedIsStored /\ RefusedLeavesNoRow /\ OnlyVerifiedRows
    BY <2>3, IngressAssumption
       DEF Init, AcceptedIsStored, RefusedLeavesNoRow, OnlyVerifiedRows, Answers
  <2>5. QED
    BY <2>1, <2>2, <2>4 DEF IngressInv
<1>2. QED
  BY <1>1, IngressStep, PTL DEF Spec

\* A provider that is told 200 has its row, for any number of events and
\* transmissions: timeouts, failures and restarts included.
THEOREM AcceptedMeansStored == Spec => []AcceptedIsStored
<1>1. IngressInv => AcceptedIsStored
  BY DEF IngressInv
<1>2. QED
  BY <1>1, IngressInvariant, PTL

\* A provider that is told 4xx or 501 about a transmission has left no row by it.
THEOREM RefusedMeansNoRow == Spec => []RefusedLeavesNoRow
<1>1. IngressInv => RefusedLeavesNoRow
  BY DEF IngressInv
<1>2. QED
  BY <1>1, IngressInvariant, PTL

\* No row without a verified signature, and none from Zelle.
THEOREM RowsAreVerified == Spec => []OnlyVerifiedRows
<1>1. IngressInv => OnlyVerifiedRows
  BY DEF IngressInv
<1>2. QED
  BY <1>1, IngressInvariant, PTL

\* What is told of a transmission that is heard of is nothing, or true.
LEMMA TellImplements ==
  ASSUME NEW t \in Tx, NEW code \in Refusals \cup {"200", "503"},
         Tell(t, code), rows' = rows,
         code = "200" => t \in rows \/ ~HasDsn,
         code \in Refusals => t \notin rows
  PROVE  [Intake!Next]_<<rows, answer>>
<1>1. CASE answer[t] = None
  <2>1. answer' = [answer EXCEPT ![t] = code]
    BY <1>1 DEF Tell
  <2>2. Intake!Tell(t, code)
    BY <1>1, <2>1 DEF Intake!Tell
  <2>3. QED
    BY <2>2 DEF Intake!Next
<1>2. CASE answer[t] # None
  BY <1>2 DEF Tell
<1>3. QED
  BY <1>1, <1>2

\* The connections of some deliveries break, none of which has heard.
LEMMA BreakImplements ==
  ASSUME NEW D \in SUBSET Tx, NEW how \in {"reset", "cut"}, rows' = rows,
         \A t \in D : answer[t] = None /\ (how = "cut" => t \notin rows),
         answer' = [t \in Tx |-> IF t \in D THEN how ELSE answer[t]]
  PROVE  Intake!Next
BY DEF Intake!Break, Intake!Next

\* Every step of the ingress is one of what it promises, or none at all.
LEMMA IngressImplements ==
  ASSUME IngressInv, [Next]_vars
  PROVE  [Intake!Next]_<<rows, answer>>
<1> USE IngressAssumption
<1>1. CASE \/ UNCHANGED vars
           \/ \E e \in Events : Send(e)
           \/ \E t \in Tx : \/ GrowOld(t) \/ RelayAccepts(t) \/ RelayForwards(t)
                            \/ AdapterVerifies(t)
  BY <1>1 DEF vars, Send, GrowOld, RelayAccepts, RelayForwards, AdapterVerifies
<1>2. ASSUME NEW t \in Tx, HangUp(t) PROVE Intake!Next
  <2>1. PICK how \in {"reset", "cut"} :
          /\ answer' = [answer EXCEPT ![t] = how]
          /\ how = "cut" => t = inbound
    BY <1>2 DEF HangUp
  <2>2. /\ answer[t] = None /\ rows' = rows
        /\ how = "cut" => t \notin rows
    BY <1>2, <2>1 DEF HangUp, IngressInv, OnePlace
  <2>3. answer' = [u \in Tx |-> IF u \in {t} THEN how ELSE answer[u]]
    BY <2>1 DEF IngressInv, TypeOK
  <2>4. /\ {t} \in SUBSET Tx
        /\ \A d \in {t} : answer[d] = None /\ (how = "cut" => d \notin rows)
    BY <2>2
  <2>5. QED
    BY <2>2, <2>3, <2>4, BreakImplements
<1>3. ASSUME NEW t \in Tx, RelayRefuses(t) PROVE [Intake!Next]_<<rows, answer>>
  <2>1. rows' = rows /\ t \notin rows /\ answer \in [Tx -> Answers \cup {None}]
    BY <1>3 DEF RelayRefuses, IngressInv, OnePlace, TypeOK
  <2>2. CASE Tell(t, "400")
    BY <2>1, <2>2, TellImplements DEF Refusals
  <2>3. CASE Tell(t, "reset")
    <3>1. CASE answer[t] = None
      <4>1. answer' = [u \in Tx |-> IF u \in {t} THEN "reset" ELSE answer[u]]
        BY <2>1, <2>3, <3>1 DEF Tell
      <4>2. {t} \in SUBSET Tx /\ \A d \in {t} : answer[d] = None
        BY <3>1
      <4>3. QED
        BY <2>1, <4>1, <4>2, BreakImplements
    <3>2. CASE answer[t] # None
      BY <2>1, <2>3, <3>2 DEF Tell
    <3>3. QED
      BY <3>1, <3>2
  <2>4. QED
    BY <1>3, <2>2, <2>3 DEF RelayRefuses
<1>4. ASSUME NEW t \in Tx, RelayFails(t) PROVE [Intake!Next]_<<rows, answer>>
  BY <1>4, TellImplements DEF RelayFails, Refusals
<1>5. ASSUME NEW t \in Tx, NEW code \in Refusals \cup {"200", "503"},
             Reply(t, code), rows' = rows,
             code = "200" => t \in rows \/ ~HasDsn,
             code \in Refusals => t \notin rows
      PROVE  [Intake!Next]_<<rows, answer>>
  BY <1>5, TellImplements DEF Reply
<1>6. ASSUME NEW t \in Tx, AdapterRefuses(t) PROVE [Intake!Next]_<<rows, answer>>
  <2>1. /\ Verdict(t) \in Refusals \cup {"200", "503"} /\ Verdict(t) # "200"
        /\ t \notin rows /\ rows' = rows
    BY <1>6, VerdictSound DEF AdapterRefuses, IngressInv, OnePlace
  <2>2. QED
    BY <1>5, <1>6, <2>1 DEF AdapterRefuses
<1>7. CASE RelayTimesOut \/ (AdapterRestarts /\ relay # None)
  <2>1. Tell(relay, "503") /\ rows' = rows /\ relay \in Tx
    BY <1>7 DEF RelayTimesOut, AdapterRestarts, IngressInv, TypeOK
  <2>2. QED
    BY <2>1, TellImplements DEF Refusals
<1>8. CASE AdapterRestarts /\ relay = None
  BY <1>8 DEF AdapterRestarts
<1>9. ASSUME adapter # None, ~stored, rows' = rows \cup {adapter},
             \/ answer' = answer
             \/ answer[adapter] = None /\ answer' = [answer EXCEPT ![adapter] = "503"]
      PROVE  Intake!Next
  <2>1. /\ adapter \in Tx /\ Admissible(adapter) /\ adapter \notin rows
        /\ answer[adapter] \notin Refusals \cup {"200", "cut"}
    BY <1>9 DEF IngressInv, TypeOK, AdapterSound, OnePlace
  <2>2. Intake!Keep(adapter)
    BY <1>9, <2>1 DEF Intake!Keep, Intake!Settled
  <2>3. QED
    BY <2>1, <2>2 DEF Intake!Next
<1>10. CASE Store
  BY <1>9, <1>10 DEF Store
<1>11. CASE StoreFails
  <2>1. adapter \in Tx /\ adapter # None /\ ~stored /\ Reply(adapter, "503")
    BY <1>11 DEF StoreFails, IngressInv, TypeOK
  <2>2. CASE rows' = rows
    BY <1>5, <2>1, <2>2 DEF Refusals
  <2>3. CASE rows' = rows \cup {adapter}
    <3>1. \/ answer' = answer
          \/ answer[adapter] = None /\ answer' = [answer EXCEPT ![adapter] = "503"]
      BY <2>1 DEF Reply, Tell
    <3>2. QED
      BY <1>9, <2>1, <2>3, <3>1
  <2>4. QED
    BY <1>11, <2>2, <2>3 DEF StoreFails
<1>12. CASE Accept
  <2>1. adapter \in Tx /\ Reply(adapter, "200") /\ rows' = rows
    BY <1>12 DEF Accept, IngressInv, TypeOK
  <2>2. adapter \in rows \/ ~HasDsn
    BY <1>12 DEF Accept, IngressInv, AdapterSound
  <2>3. QED
    BY <1>5, <2>1, <2>2 DEF Refusals
<1>13. CASE RelayRestarts
  <2> DEFINE D == {t \in Tx : t \in queue \cup {inbound, relay} /\ answer[t] = None}
  <2>1. /\ answer' = [t \in Tx |-> IF t \in D THEN "reset" ELSE answer[t]]
        /\ rows' = rows
        /\ \A t \in D : answer[t] = None
    BY <1>13 DEF RelayRestarts
  <2> HIDE DEF D
  <2>2. D \in SUBSET Tx
    BY DEF D
  <2>3. QED
    BY <2>1, <2>2, BreakImplements
<1>14. QED
  BY <1>1, <1>2, <1>3, <1>4, <1>6, <1>7, <1>8, <1>10, <1>11, <1>12, <1>13
     DEF Next, RelayStep

\* A provider hears of each transmission at most once, and what it hears is true of the
\* rows and stays true: for any events, transmissions, timeouts, failures and restarts.
THEOREM IngressKeepsPromise == Spec => IntakePromise
<1>1. Init => Intake!Init
  BY DEF Init, Intake!Init
<1>2. IngressInv /\ [Next]_vars => [Intake!Next]_<<rows, answer>>
  BY IngressImplements
<1>3. QED
  BY <1>1, <1>2, IngressInvariant, PTL
     DEF Spec, IntakePromise, Intake!Spec, Intake!intakeVars

-----------------------------------------------------------------------------
(* Reconciliation.                                                         *)

LEMMA ReconInitSound == ReconInit => ReconInv
BY ReconAssumption DEF ReconInit, ReconInv, ReconTypes, RowOfNewest, RunTold, Recordings

LEMMA CommitStep ==
  ASSUME ReconInv, NEW r \in Recordings, Commit(r)
  PROVE  ReconInv'
<1> DEFINE f == says[r].ref
<1>1. f \in ProviderRefs /\ says[r] \in Arguments /\ r # 0
  <2>1. says[r] \in Arguments
    BY DEF ReconInv, ReconTypes
  <2>2. f \in ProviderRefs
    BY <2>1 DEF Arguments
  <2>3. r # 0
    BY ReconAssumption DEF Recordings
  <2>4. QED
    BY <2>1, <2>2, <2>3
<1>2. \E s \in Sales :
        Upserted(r) = {[sale |-> s, amount |-> says[r].amount, approver |-> r]}
  <2>1. CASE newest[f] = 0
    <3>1. Upserted(r) = Inserted(r)
      BY <1>1, <2>1 DEF Upserted, ReconInv, RowOfNewest
    <3>2. QED
      BY <1>1, <3>1 DEF Inserted, Arguments
  <2>2. CASE newest[f] # 0
    <3>1. PICK s \in Sales :
            payment[f] = {[sale |-> s, amount |-> says[newest[f]].amount, approver |-> newest[f]]}
      BY <1>1, <2>2 DEF ReconInv, RowOfNewest
    <3> DEFINE row == [sale |-> s, amount |-> says[newest[f]].amount, approver |-> newest[f]]
    <3>2. Upserted(r) = Updated(r, row)
      BY <3>1 DEF Upserted
    <3>3. row.sale = s
      OBVIOUS
    <3>4. QED
      BY <3>2, <3>3 DEF Updated
  <2>3. QED
    BY <2>1, <2>2
<1>3. /\ newest' = [newest EXCEPT ![f] = r] /\ payment' = [payment EXCEPT ![f] = Upserted(r)]
      /\ says' = says /\ audited' = audited
      /\ recording[r] = "inserting"
      /\ \E to \in {"auditing", "dead"} : recording' = [recording EXCEPT ![r] = to]
  BY DEF Commit, Turns
<1>4. ReconTypes'
  <2>1. Upserted(r) \in SUBSET [sale : Sales, amount : Amounts, approver : Recordings]
    BY <1>1, <1>2 DEF Arguments
  <2>2. QED
    BY <1>1, <1>3, <2>1 DEF ReconInv, ReconTypes
<1>5. ASSUME NEW g \in ProviderRefs PROVE RowOfNewest(g)'
  <2>1. CASE g = f
    <3>1. newest'[g] = r /\ payment'[g] = Upserted(r)
      BY <1>1, <1>3, <2>1 DEF ReconInv, ReconTypes
    <3>2. QED
      BY <1>1, <1>2, <1>3, <2>1, <3>1 DEF RowOfNewest
  <2>2. CASE g # f
    <3>1. newest'[g] = newest[g] /\ payment'[g] = payment[g]
      BY <1>1, <1>3, <2>2 DEF ReconInv, ReconTypes
    <3>2. QED
      BY <1>3, <3>1 DEF RowOfNewest, ReconInv
  <2>3. QED
    BY <2>1, <2>2
<1>6. \A g \in ProviderRefs : newest[g] # 0 => newest'[g] # 0
  BY <1>1, <1>3 DEF ReconInv, ReconTypes
<1>7. newest'[f] # 0
  BY <1>1, <1>3 DEF ReconInv, ReconTypes
<1>8. ASSUME NEW q \in Recordings PROVE RunTold(q)'
  <2>1. says[q].ref \in ProviderRefs
    BY DEF ReconInv, ReconTypes, Arguments
  <2>2. CASE q = r
    <3>1. recording'[q] \in {"auditing", "dead"}
      BY <1>3, <2>2 DEF ReconInv, ReconTypes
    <3>2. QED
      BY <1>3, <1>7, <2>2, <3>1 DEF RunTold
  <2>3. CASE q # r
    <3>1. recording'[q] = recording[q]
      BY <1>3, <2>3 DEF ReconInv, ReconTypes
    <3>2. QED
      BY <1>3, <1>6, <2>1, <3>1 DEF RunTold, ReconInv
  <2>4. QED
    BY <2>2, <2>3
<1>9. \A line \in audited' : newest'[line[1]] # 0
  <2>1. \A line \in audited : line[1] \in ProviderRefs
    BY DEF ReconInv, ReconTypes
  <2>2. QED
    BY <1>3, <1>6, <2>1 DEF ReconInv
<1>10. QED
  BY <1>4, <1>5, <1>8, <1>9 DEF ReconInv

LEMMA AuditStep ==
  ASSUME ReconInv, NEW r \in Recordings, Audit(r)
  PROVE  ReconInv'
<1>1. /\ recording[r] = "auditing" /\ recording' = [recording EXCEPT ![r] = "done"]
      /\ audited' = audited \cup {<<says[r].ref, r>>}
      /\ UNCHANGED <<says, payment, newest>>
  BY DEF Audit, Turns
<1>2. says[r].ref \in ProviderRefs /\ newest[says[r].ref] # 0
  BY <1>1 DEF ReconInv, ReconTypes, Arguments, RunTold
<1>3. ReconTypes'
  <2>1. recording' \in [Recordings -> {"not begun", "inserting", "auditing", "done", "dead"}]
    BY <1>1 DEF ReconInv, ReconTypes
  <2>2. audited' \in SUBSET (ProviderRefs \X Recordings)
    <3>1. <<says[r].ref, r>> \in ProviderRefs \X Recordings
      BY <1>2
    <3>2. audited \in SUBSET (ProviderRefs \X Recordings)
      BY DEF ReconInv, ReconTypes
    <3>3. audited' = audited \cup {<<says[r].ref, r>>}
      BY <1>1
    <3>4. QED
      BY <3>1, <3>2, <3>3
  <2>3. QED
    BY <1>1, <2>1, <2>2 DEF ReconInv, ReconTypes
<1>4. \A f \in ProviderRefs : RowOfNewest(f)'
  BY <1>1 DEF ReconInv, RowOfNewest
<1>5. \A q \in Recordings : RunTold(q)'
  BY <1>1, <1>2 DEF ReconInv, ReconTypes, RunTold
<1>6. \A line \in audited' : newest'[line[1]] # 0
  BY <1>1, <1>2 DEF ReconInv
<1>7. QED
  BY <1>3, <1>4, <1>5, <1>6 DEF ReconInv

\* The steps that change nothing but how far a run has come, and take none past its commit.
LEMMA OtherStep ==
  ASSUME ReconInv, NEW r \in Recordings, ReadArguments(r) \/ Refuse(r) \/ Cut(r)
  PROVE  ReconInv'
<1>1. /\ \E to \in {"inserting", "dead"} : recording' = [recording EXCEPT ![r] = to]
      /\ UNCHANGED <<says, payment, audited, newest>>
  BY DEF ReadArguments, Refuse, Cut, Turns
<1>2. ReconTypes'
  <2>1. recording' \in [Recordings -> {"not begun", "inserting", "auditing", "done", "dead"}]
    BY <1>1 DEF ReconInv, ReconTypes
  <2>2. QED
    BY <1>1, <2>1 DEF ReconInv, ReconTypes
<1>3. \A f \in ProviderRefs : RowOfNewest(f)'
  BY <1>1 DEF ReconInv, RowOfNewest
<1>4. \A q \in Recordings : RunTold(q)'
  BY <1>1 DEF ReconInv, ReconTypes, RunTold
<1>5. QED
  BY <1>1, <1>2, <1>3, <1>4 DEF ReconInv

LEMMA ReconSound == ReconSpec => []ReconInv
<1>1. ReconInv /\ [ReconNext]_reconVars => ReconInv'
  <2> SUFFICES ASSUME ReconInv, [ReconNext]_reconVars PROVE ReconInv'
    OBVIOUS
  <2>1. CASE UNCHANGED reconVars
    BY <2>1 DEF reconVars, ReconInv, ReconTypes, RowOfNewest, RunTold
  <2>2. QED
    BY <2>1, CommitStep, AuditStep, OtherStep DEF ReconNext
<1>2. QED
  BY <1>1, ReconInitSound, PTL DEF ReconSpec

\* Every row shows the amount and settlement its approver gave (ao-payment-reconcile.sh:7-9).
LEMMA AmountIsApproved == ReconSpec => []ApprovedAmount
<1>1. ReconInv => ApprovedAmount
  BY DEF ReconInv, RowOfNewest, ApprovedAmount
<1>2. QED
  BY <1>1, ReconSound, PTL

\* The audit names only committed approvals, and the row's approver once the last run to
\* commit it has ended by itself (:85).
LEMMA ApprovalIsAudited == ReconSpec => []ApprovalAudited
<1>1. ASSUME ReconInv PROVE ApprovalAudited
  <2>1. \A line \in audited : newest[line[1]] # 0 /\ payment[line[1]] # {}
    BY <1>1 DEF ReconInv, ReconTypes, RowOfNewest
  <2>2. ASSUME NEW f \in ProviderRefs, newest[f] # 0, recording[newest[f]] = "done",
               NEW row \in payment[f]
        PROVE  <<f, row.approver>> \in audited
    <3>1. newest[f] \in Recordings
      BY <1>1, <2>2 DEF ReconInv, ReconTypes
    <3>2. row.approver = newest[f] /\ says[newest[f]].ref = f
      BY <1>1, <2>2 DEF ReconInv, RowOfNewest
    <3>3. QED
      BY <1>1, <2>2, <3>1, <3>2 DEF ReconInv, RunTold
  <2>3. QED
    BY <2>1, <2>2 DEF ApprovalAudited
<1>2. QED
  BY <1>1, ReconSound, PTL

\* The row and the audit tell of one approval (ao-payment-reconcile.sh:70-85).
THEOREM ApprovalAlwaysHolds == ReconSpec => []ApprovalHolds
<1>1. ApprovedAmount /\ ApprovalAudited => ApprovalHolds
  BY DEF ApprovalHolds
<1>2. QED
  BY <1>1, AmountIsApproved, ApprovalIsAudited, PTL
=============================================================================
