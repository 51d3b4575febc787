-------------------------- MODULE ChatRelayProofs --------------------------
(***************************************************************************)
(* The rate limiter of the chat relay and the bodies it leaves unread, for *)
(* any number of threads, clients and minutes, any limit and any size of   *)
(* its table.                                                              *)
(***************************************************************************)
EXTENDS ChatRelay, FiniteSetTheorems, TLAPS

\* A busy thread has a message; one that is at the table has a client, and has
\* computed a minute that has begun.
ThreadShape ==
  \A c \in Conns :
    /\ pc[c] # "idle" => msg[c] \in Messages
    /\ pc[c] \in {"check", "allow"} => client[c] \in Clients
    /\ stamp[c] <= minute

\* An entry counts no more than its client got through for that minute, and no
\* less than that but for the slack.  A client without an entry for the current
\* minute owes what it got through for it to the slack.
TableSound ==
  \A k \in Clients :
    /\ bucket[k] # None => /\ bucket[k] <= minute
                           /\ count[k] <= passed[k][bucket[k]]
                           /\ passed[k][bucket[k]] <= count[k] + slack
    /\ bucket[k] # minute => passed[k][minute] <= slack
    /\ \A b \in Minutes : b > minute => passed[k][b] = 0

RelayInv == TypeOK /\ ThreadShape /\ TableSound /\ RateBounded

\* The client's own entry is written and kept; what the pruning drops is of
\* another minute than the one computed.
LEMMA KeptFacts ==
  ASSUME TypeOK, NEW c \in Conns, client[c] \in Clients
  PROVE  /\ Written(c)[client[c]] = stamp[c]
         /\ \A j \in Clients \ {client[c]} : Written(c)[j] = bucket[j]
         /\ client[c] \in Kept(c)
         /\ \A j \in Kept(c) : Written(c)[j] # None
         /\ \A j \in Clients \ Kept(c) : Written(c)[j] # stamp[c]
<1>1. /\ Written(c)[client[c]] = stamp[c]
      /\ \A j \in Clients \ {client[c]} : Written(c)[j] = bucket[j]
  BY DEF TypeOK, Written
<1>2. stamp[c] # None
  BY RelayAssumption DEF TypeOK, Minutes
<1> DEFINE entries == {k \in Clients : Written(c)[k] # None}
           young   == {k \in entries : Written(c)[k] = stamp[c]}
<1>3. Kept(c) = entries \/ Kept(c) = young
  BY DEF Kept
<1> HIDE DEF Kept
<1>4. QED
  BY <1>1, <1>2, <1>3

\* What is left of the thread's state when it has answered.
LEMMA ReleaseShape ==
  ASSUME RelayInv, NEW c \in Conns, Release(c), UNCHANGED minute
  PROVE  /\ ThreadShape'
         /\ pc'     \in [Conns -> Places]
         /\ msg'    \in [Conns -> Messages \cup {None}]
         /\ client' \in [Conns -> Clients \cup {None}]
         /\ stamp'  \in [Conns -> Minutes]
<1>1. 0 \in Minutes
  BY RelayAssumption DEF Minutes
<1>2. QED
  BY <1>1 DEF RelayInv, TypeOK, ThreadShape, Release, Places, Minutes

\* A step that leaves the clock, the table and what it let through alone keeps
\* the limiter sound.
LEMMA TableUntouched ==
  ASSUME RelayInv, UNCHANGED <<minute, tableVars, passed, slack>>
  PROVE  TableSound' /\ RateBounded'
BY DEF RelayInv, TableSound, RateBounded, tableVars

LEMMA TellStep ==
  ASSUME RelayInv, NEW c \in Conns, NEW what \in Answers, Tell(c, what),
         pc[c] # "idle",
         left' \subseteq Conns, ahead' \subseteq Conns, unread' \subseteq Messages,
         UNCHANGED <<minute, tableVars, passed, slack, restarts>>
  PROVE  RelayInv'
<1>1. answer' \in [Messages -> Answers \cup {None}]
  BY DEF Tell, RelayInv, TypeOK
<1>2. Release(c)
  BY DEF Tell
<1>3. TypeOK'
  BY <1>1, <1>2, ReleaseShape DEF RelayInv, TypeOK, tableVars
<1>4. QED
  BY <1>2, <1>3, ReleaseShape, TableUntouched DEF RelayInv

\* allow() lets a message through.
LEMMA AllowStep ==
  ASSUME RelayInv, NEW c \in Conns, Allow(c),
         NEW k, NEW b, k = client[c], b = stamp[c]
  PROVE  RelayInv'
<1>1. /\ pc[c] = "allow" /\ Hits(c) < PerMinute
      /\ k \in Clients /\ b \in Minutes /\ b <= minute
      /\ minute \in Minutes /\ slack \in Nat /\ PerMinute \in Nat \ {0}
      /\ Minutes \subseteq Nat
  BY RelayAssumption DEF Allow, RelayInv, ThreadShape, TypeOK, Minutes
<1>2. /\ \A j \in Clients : bucket'[j] = IF j \in Kept(c) THEN Written(c)[j] ELSE None
      /\ \A j \in Clients : count'[j] = IF j \notin Kept(c) THEN 0
                                        ELSE IF j = k THEN Hits(c) + 1 ELSE count[j]
      /\ passed' = [passed EXCEPT ![k][b] = @ + 1]
      /\ slack'  = IF b < minute THEN slack + PerMinute ELSE slack
      /\ UNCHANGED minute
  BY DEF Allow
<1>3. /\ Written(c)[k] = b
      /\ \A j \in Clients \ {k} : Written(c)[j] = bucket[j]
      /\ k \in Kept(c)
      /\ \A j \in Kept(c) : Written(c)[j] # None
      /\ \A j \in Clients \ Kept(c) : Written(c)[j] # b
  BY <1>1, KeptFacts DEF RelayInv
<1>4. Hits(c) \in Nat /\ Hits(c) + 1 \in 0..PerMinute
  BY <1>1 DEF Hits, RelayInv, TypeOK
<1>5. /\ slack' \in Nat /\ slack <= slack'
      /\ b < minute => slack' = slack + PerMinute
      /\ b = minute => slack' = slack
  BY <1>1, <1>2
<1>6. /\ \A j \in Clients, a \in Minutes :
           passed'[j][a] = IF j = k /\ a = b THEN passed[j][a] + 1 ELSE passed[j][a]
      /\ \A j \in Clients, a \in Minutes : passed[j][a] \in Nat
      /\ passed' \in [Clients -> [Minutes -> Nat]]
  BY <1>1, <1>2 DEF RelayInv, TypeOK
<1>7. bucket'[k] = b /\ count'[k] = Hits(c) + 1
  BY <1>1, <1>2, <1>3
<1>8. passed[k][b] <= Hits(c) + slack' /\ Hits(c) <= passed[k][b]
  <2>1. CASE bucket[k] = b
    <3>1. bucket[k] # None
      BY <1>1, <2>1, RelayAssumption
    <3>2. /\ count[k] <= passed[k][b]
          /\ passed[k][b] <= count[k] + slack
      BY <1>1, <2>1, <3>1 DEF RelayInv, TableSound
    <3>3. Hits(c) = count[k] /\ count[k] \in Nat
      BY <1>1, <2>1 DEF Hits, RelayInv, TypeOK
    <3>4. QED
      BY <1>1, <1>5, <1>6, <3>2, <3>3
  <2>2. CASE bucket[k] # b
    <3>1. Hits(c) = 0
      BY <2>2 DEF Hits
    <3>2. CASE b = minute
      BY <1>1, <1>5, <1>6, <2>2, <3>1, <3>2 DEF RelayInv, TableSound
    <3>3. CASE b < minute
      <4>1. passed[k][b] <= PerMinute + slack
        BY <1>1 DEF RelayInv, RateBounded
      <4>2. QED
        BY <1>1, <1>5, <1>6, <3>1, <3>3, <4>1
    <3>4. QED
      BY <1>1, <3>2, <3>3
  <2>3. QED
    BY <2>1, <2>2
<1>9. RateBounded'
  <2>1. ASSUME NEW j \in Clients, NEW a \in Minutes
        PROVE  passed'[j][a] <= PerMinute + slack'
    <3>1. passed[j][a] <= PerMinute + slack
      BY DEF RelayInv, RateBounded
    <3>2. CASE j = k /\ a = b
      BY <1>1, <1>4, <1>5, <1>6, <1>8, <3>2
    <3>3. CASE ~(j = k /\ a = b)
      BY <1>1, <1>5, <1>6, <3>1, <3>3
    <3>4. QED
      BY <3>2, <3>3
  <2>2. QED
    BY <2>1 DEF RateBounded
<1>10. TableSound'
  <2>1. ASSUME NEW j \in Clients, bucket'[j] # None
        PROVE  /\ bucket'[j] <= minute
               /\ count'[j] <= passed'[j][bucket'[j]]
               /\ passed'[j][bucket'[j]] <= count'[j] + slack'
    <3>1. CASE j = k
      BY <1>1, <1>4, <1>5, <1>6, <1>7, <1>8, <3>1
    <3>2. CASE j # k
      <4>1. j \in Kept(c) /\ bucket'[j] = bucket[j] /\ count'[j] = count[j]
        BY <1>2, <1>3, <2>1, <3>2
      <4>2. bucket[j] \in Minutes /\ count[j] \in Nat
        BY <2>1, <4>1, <1>1 DEF RelayInv, TypeOK
      <4>3. /\ bucket[j] <= minute
            /\ count[j] <= passed[j][bucket[j]]
            /\ passed[j][bucket[j]] <= count[j] + slack
        BY <2>1, <4>1 DEF RelayInv, TableSound
      <4>4. passed'[j][bucket[j]] = passed[j][bucket[j]]
        BY <1>6, <3>2, <4>2
      <4>5. passed[j][bucket[j]] \in Nat
        BY <1>6, <4>2
      <4>6. passed[j][bucket[j]] <= count[j] + slack'
        BY <1>1, <1>5, <4>2, <4>3, <4>5
      <4>7. QED
        BY <4>1, <4>3, <4>4, <4>6
    <3>3. QED
      BY <3>1, <3>2
  <2>2. ASSUME NEW j \in Clients, bucket'[j] # minute
        PROVE  passed'[j][minute] <= slack'
    <3>1. passed[j][minute] <= PerMinute + slack
      BY <1>1 DEF RelayInv, RateBounded
    <3>2. CASE b < minute
      <4>1. passed'[j][minute] = passed[j][minute]
        <5>1. minute # b
          BY <1>1, <3>2
        <5>2. QED
          BY <1>1, <1>6, <5>1
      <4>2. slack' = PerMinute + slack
        BY <1>1, <1>5, <3>2
      <4>3. QED
        BY <3>1, <4>1, <4>2
    <3>3. CASE b = minute
      <4>1. j # k
        BY <1>7, <2>2, <3>3
      <4>2. bucket[j] # minute
        BY <1>2, <1>3, <2>2, <3>3, <4>1
      <4>3. passed[j][minute] <= slack
        BY <4>2 DEF RelayInv, TableSound
      <4>4. QED
        BY <1>1, <1>5, <1>6, <3>3, <4>1, <4>3
    <3>4. QED
      BY <1>1, <3>2, <3>3
  <2>3. ASSUME NEW j \in Clients, NEW a \in Minutes, a > minute
        PROVE  passed'[j][a] = 0
    <3>1. a # b
      BY <1>1, <2>3
    <3>2. QED
      BY <1>6, <2>3, <3>1 DEF RelayInv, TableSound
  <2>4. minute' = minute
    BY <1>2
  <2>5. QED
    BY <2>1, <2>2, <2>3, <2>4 DEF TableSound
<1>11. ThreadShape' /\ TypeOK'
  <2>1. bucket' \in [Clients -> Minutes \cup {None}]
    <3>1. \A j \in Clients : (IF j \in Kept(c) THEN Written(c)[j] ELSE None)
                               \in Minutes \cup {None}
      BY <1>1, <1>3 DEF RelayInv, TypeOK
    <3>2. QED
      BY <3>1 DEF Allow
  <2>2. count' \in [Clients -> 0..PerMinute]
    <3>1. \A j \in Clients : (IF j \notin Kept(c) THEN 0
                              ELSE IF j = k THEN Hits(c) + 1 ELSE count[j])
                               \in 0..PerMinute
      BY <1>1, <1>4 DEF RelayInv, TypeOK
    <3>2. QED
      BY <3>1 DEF Allow
  <2>3. 0 \in Minutes /\ 0 <= minute
    BY <1>1, RelayAssumption DEF Minutes
  <2>4. /\ pc' = [pc EXCEPT ![c] = "read"]
        /\ client' = [client EXCEPT ![c] = None]
        /\ stamp' = [stamp EXCEPT ![c] = 0]
        /\ UNCHANGED <<minute, msg, left, ahead, answer, unread, restarts>>
    BY DEF Allow
  <2>5. ThreadShape'
    BY <1>1, <2>3, <2>4 DEF RelayInv, TypeOK, ThreadShape
  <2>6. QED
    BY <1>5, <1>6, <2>1, <2>2, <2>3, <2>4, <2>5 DEF RelayInv, TypeOK, Places
<1>12. QED
  BY <1>9, <1>10, <1>11 DEF RelayInv

\* A new minute begins: nothing has been let through for it.
LEMMA TickStep ==
  ASSUME RelayInv, Tick
  PROVE  RelayInv'
<1>1. /\ minute' = minute + 1 /\ minute' \in Minutes /\ minute \in Nat
      /\ UNCHANGED <<tableVars, threadVars, answer, ghosts, restarts>>
      /\ Minutes \subseteq Nat
  BY RelayAssumption DEF Tick, RelayInv, TypeOK, Minutes
<1>2. TypeOK'
  BY <1>1 DEF RelayInv, TypeOK, tableVars, threadVars, ghosts
<1>3. ThreadShape'
  <2>1. ASSUME NEW c \in Conns
        PROVE  stamp[c] <= minute + 1
    <3>1. stamp[c] \in Nat /\ stamp[c] <= minute
      BY <1>1 DEF RelayInv, TypeOK, ThreadShape
    <3>2. QED
      BY <1>1, <3>1
  <2>2. QED
    BY <1>1, <2>1 DEF RelayInv, ThreadShape, threadVars
<1>4. TableSound'
  <2>1. ASSUME NEW k \in Clients, bucket[k] # None
        PROVE  bucket[k] <= minute + 1
    <3>1. bucket[k] \in Nat /\ bucket[k] <= minute
      BY <1>1, <2>1 DEF RelayInv, TypeOK, TableSound
    <3>2. QED
      BY <1>1, <3>1
  <2>2. ASSUME NEW k \in Clients
        PROVE  passed[k][minute + 1] <= slack
    <3>1. passed[k][minute + 1] = 0 /\ slack \in Nat
      BY <1>1 DEF RelayInv, TypeOK, TableSound
    <3>2. QED
      BY <3>1
  <2>3. ASSUME NEW k \in Clients, NEW b \in Minutes, b > minute + 1
        PROVE  passed[k][b] = 0
    BY <1>1, <2>3 DEF RelayInv, TableSound
  <2>4. QED
    BY <1>1, <2>1, <2>2, <2>3 DEF TableSound, RelayInv, tableVars, ghosts
<1>5. RateBounded'
  BY <1>1 DEF RelayInv, RateBounded, ghosts
<1>6. QED
  BY <1>2, <1>3, <1>4, <1>5 DEF RelayInv

\* The relay restarts with an empty table.
LEMMA RestartStep ==
  ASSUME RelayInv, Restart
  PROVE  RelayInv'
<1>1. 0 \in Minutes /\ 0 \in 0..PerMinute /\ minute \in Minutes /\ Minutes \subseteq Nat
  BY RelayAssumption DEF Minutes, RelayInv, TypeOK
<1>2. slack' = slack + PerMinute /\ slack' \in Nat /\ slack \in Nat
      /\ PerMinute \in Nat /\ UNCHANGED <<minute, unread, passed>>
  BY RelayAssumption DEF Restart, RelayInv, TypeOK
<1>3. restarts' \in 0..MaxRestarts
  BY RelayAssumption DEF Restart, RelayInv, TypeOK
<1>4. answer' \in [Messages -> Answers \cup {None}]
  BY DEF Restart, RelayInv, TypeOK, Answers
<1>5. TypeOK' /\ ThreadShape'
  BY <1>1, <1>2, <1>3, <1>4 DEF Restart, RelayInv, TypeOK, ThreadShape, Places
<1>6. RateBounded'
  BY <1>1, <1>2 DEF RelayInv, TypeOK, RateBounded
<1>7. TableSound'
  <2>1. ASSUME NEW k \in Clients
        PROVE  bucket'[k] = None /\ passed[k][minute] <= slack + PerMinute
    BY <1>1, <1>2 DEF Restart, RelayInv, TypeOK, RateBounded
  <2>2. QED
    BY <1>2, <2>1 DEF RelayInv, TableSound
<1>8. QED
  BY <1>5, <1>6, <1>7 DEF RelayInv

\* Steps of a thread that do not answer.
LEMMA MoveStep ==
  ASSUME RelayInv, NEW c \in Conns,
         \/ Stamp(c) \/ Forward(c) \/ Screened(c) \/ HangUp(c) \/ Close(c)
         \/ \E m \in Messages, k \in Clients : Send(m, k, c) \/ ReadBody(m, k, c)
  PROVE  RelayInv'
<1>1. TypeOK' /\ ThreadShape'
  <2> USE DEF RelayInv, TypeOK, ThreadShape, tableVars, threadVars, ghosts, Places, Answers
  <2>1. CASE Stamp(c)
    BY <2>1, RelayAssumption DEF Stamp, Minutes
  <2>2. CASE Forward(c) \/ Screened(c)
    BY <2>2 DEF Forward, Screened
  <2>3. CASE HangUp(c) \/ Close(c)
    BY <2>3 DEF HangUp, Close
  <2>4. ASSUME NEW m \in Messages, NEW k \in Clients, Send(m, k, c) \/ ReadBody(m, k, c)
        PROVE  TypeOK' /\ ThreadShape'
    <3>1. Begin(m, k, c) /\ c \in Conns /\ "check" \in Places
      BY <2>4 DEF Send, ReadBody
    <3>2. answer' \in [Messages -> Answers \cup {None}] /\ left' \subseteq Conns
          /\ ahead' \subseteq Conns
      BY <2>4 DEF Send, ReadBody
    <3>3. ThreadShape'
      BY <3>1 DEF Begin
    <3>4. QED
      BY <3>1, <3>2, <3>3 DEF Begin
  <2>5. QED
    BY <2>1, <2>2, <2>3, <2>4
<1>2. UNCHANGED <<minute, tableVars, passed, slack>>
  BY DEF Stamp, Forward, Screened, HangUp, Close, Send, ReadBody, Begin, tableVars, ghosts
<1>3. QED
  BY <1>1, <1>2, TableUntouched DEF RelayInv

\* Every step keeps the invariant.
LEMMA RelayStep ==
  ASSUME RelayInv, [Next]_vars
  PROVE  RelayInv'
<1> USE DEF Answers
<1>1. CASE UNCHANGED vars
  BY <1>1 DEF vars, tableVars, threadVars, ghosts, RelayInv, TypeOK, ThreadShape,
              TableSound, RateBounded
<1>2. ASSUME NEW c \in Conns, Misread(c) PROVE RelayInv'
  BY <1>2, TellStep DEF Misread, ghosts, tableVars, RelayInv, TypeOK
<1>3. ASSUME NEW c \in Conns, Misplaced(c) \/ Limit(c) \/ Oversized(c)
      PROVE  RelayInv'
  <2>1. /\ RefuseUnread(c) /\ pc[c] # "idle"
        /\ UNCHANGED <<minute, tableVars, passed, slack, restarts>>
    BY <1>3 DEF Misplaced, Limit, Oversized
  <2>2. msg[c] \in Messages
    BY <2>1 DEF RelayInv, ThreadShape
  <2>3. QED
    BY <2>1, <2>2, TellStep DEF RefuseUnread, RelayInv, TypeOK
<1>4. ASSUME NEW c \in Conns, Malformed(c) \/ Conclude(c) \/ Raises(c)
      PROVE  RelayInv'
  <2>1. /\ \E what \in Answers : Tell(c, what)
        /\ pc[c] # "idle"
        /\ left' \subseteq left /\ ahead' \subseteq ahead
        /\ UNCHANGED <<minute, tableVars, ghosts, restarts>>
    BY <1>4 DEF Malformed, Conclude, Raises
  <2>2. QED
    BY <2>1, TellStep DEF ghosts, RelayInv, TypeOK
<1>5. QED
  BY <1>1, <1>2, <1>3, <1>4, AllowStep, TickStep, RestartStep, MoveStep DEF Next, Thread

LEMMA RelayInit == Init => RelayInv
<1> SUFFICES ASSUME Init PROVE RelayInv
  OBVIOUS
<1>1. 0 \in Minutes /\ 0 \in 0..PerMinute /\ 0 \in 0..MaxRestarts /\ None \notin Nat
      /\ Minutes \subseteq Nat /\ PerMinute \in Nat
  BY RelayAssumption DEF Minutes
<1>2. TypeOK
  BY <1>1 DEF Init, TypeOK, Places
<1>3. ThreadShape /\ TableSound /\ RateBounded
  BY <1>1 DEF Init, ThreadShape, TableSound, RateBounded
<1>4. QED
  BY <1>2, <1>3 DEF RelayInv

\* A client gets no more than PerMinute messages through for a minute, and that
\* many again for each late thread and each restart (RateLimiter.allow).
THEOREM RateHolds == Spec => []RateBounded
<1>1. RelayInv => RateBounded
  BY DEF RelayInv
<1>2. QED
  BY RelayInit, RelayStep, <1>1, PTL DEF Spec

\* A client that is told 429 has got PerMinute messages through for that minute.
THEOREM LimitIsEarned == Spec => LimitEarned
<1>1. ASSUME RelayInv, NEW c \in Conns, Limit(c)
      PROVE  passed[client[c]][stamp[c]] >= PerMinute
  <2>1. /\ pc[c] = "allow" /\ Hits(c) >= PerMinute
        /\ client[c] \in Clients /\ stamp[c] \in Minutes
        /\ PerMinute \in Nat \ {0} /\ None \notin Minutes
    BY <1>1, RelayAssumption DEF Limit, RelayInv, ThreadShape, TypeOK, Minutes
  <2>2. bucket[client[c]] = stamp[c] /\ Hits(c) = count[client[c]]
    BY <2>1 DEF Hits
  <2>3. count[client[c]] <= passed[client[c]][stamp[c]]
    BY <1>1, <2>1, <2>2 DEF RelayInv, TableSound
  <2>4. passed[client[c]][stamp[c]] \in Nat /\ count[client[c]] \in Nat
    BY <1>1, <2>1 DEF RelayInv, TypeOK
  <2>5. QED
    BY <2>1, <2>2, <2>3, <2>4
<1>2. RelayInv => [\A c \in Conns :
                     Limit(c) => passed[client[c]][stamp[c]] >= PerMinute]_vars
  BY <1>1
<1>3. QED
  BY RelayInit, RelayStep, <1>2, PTL DEF Spec, LimitEarned

-----------------------------------------------------------------------------
(* The bodies left on connections.                                         *)

\* A message is on one connection at a time, and one whose body was not read is done with.
InFlight ==
  /\ \A c \in Conns : pc[c] = "idle" => msg[c] = None
  /\ \A c, d \in Conns : c # d /\ pc[c] # "idle" => msg[c] # msg[d]
  /\ \A c \in Conns : pc[c] # "idle" => msg[c] \notin unread
  /\ \A m \in unread : answer[m] # None

\* The messages a body was spent on.
Spoiled == {m \in Messages : answer[m] \in {"page", "unasked"}}

\* Every body that was spent, or is still on a connection, has a message of its own that was
\* refused unread; replies are out of step behind a request nobody sent.
BodyDebt ==
  /\ IsFiniteSet(left)
  /\ Cardinality(Spoiled) + Cardinality(left) <= Cardinality(unread)
  /\ ahead # {} => \E m \in Messages : answer[m] = "unasked"
  /\ \A m \in Messages : answer[m] = "stale" => \E n \in Messages : answer[n] = "unasked"

\* What a step tells, it tells who has heard nothing.
Heard(m, what) == answer' = IF answer[m] = None THEN [answer EXCEPT ![m] = what] ELSE answer

LEMMA HeardFacts ==
  ASSUME RelayInv, NEW m \in Messages, NEW what \in Answers, Heard(m, what)
  PROVE  /\ \A n \in Messages : \/ answer'[n] = answer[n]
                                \/ n = m /\ answer[n] = None /\ answer'[n] = what
         /\ answer'[m] # None
<1>1. what # None /\ answer \in [Messages -> Answers \cup {None}]
  BY RelayAssumption DEF RelayInv, TypeOK
<1>2. CASE answer[m] = None
  BY <1>1, <1>2 DEF Heard
<1>3. CASE answer[m] # None
  BY <1>3 DEF Heard
<1>4. QED
  BY <1>2, <1>3

\* The steps of a thread that answers.
LEMMA TellInFlight ==
  ASSUME RelayInv, InFlight, NEW c \in Conns, pc[c] # "idle", NEW what \in Answers,
         Tell(c, what), unread' = unread \/ unread' = unread \cup {msg[c]}
  PROVE  InFlight'
<1>1. msg[c] \in Messages /\ Heard(msg[c], what)
  BY DEF RelayInv, ThreadShape, Tell, Heard
<1>2. /\ \A n \in Messages : answer'[n] = answer[n] \/ answer'[n] = what
      /\ answer'[msg[c]] # None /\ what # None
  BY <1>1, HeardFacts, RelayAssumption
<1>3. \A d \in Conns : /\ pc'[d]  = IF d = c THEN "idle" ELSE pc[d]
                       /\ msg'[d] = IF d = c THEN None ELSE msg[d]
  BY DEF Tell, Release, RelayInv, TypeOK
<1>4. \A d \in Conns : pc[d] # "idle" => msg[d] \in Messages
  BY DEF RelayInv, ThreadShape
<1>5. None \notin Messages /\ unread \subseteq Messages
  BY RelayAssumption DEF RelayInv, TypeOK
<1>6. \A d, e \in Conns : d # e /\ pc'[d] # "idle" => msg'[d] # msg'[e]
  BY <1>3, <1>4, <1>5 DEF InFlight
<1>7. \A d \in Conns : pc'[d] # "idle" => msg'[d] \notin unread'
  BY <1>3 DEF InFlight
<1>8. \A m \in unread' : answer'[m] # None
  BY <1>2, <1>5 DEF InFlight
<1>9. QED
  BY <1>3, <1>6, <1>7, <1>8 DEF InFlight

LEMMA InFlightStep ==
  ASSUME RelayInv, InFlight, [Next]_vars
  PROVE  InFlight'
<1> USE DEF Answers
<1>1. CASE UNCHANGED vars
  BY <1>1 DEF vars, threadVars, ghosts, InFlight
<1>2. CASE Tick
  BY <1>2 DEF Tick, threadVars, ghosts, InFlight
<1>3. CASE Restart
  <2>1. /\ pc' = [c \in Conns |-> "idle"] /\ msg' = [c \in Conns |-> None]
        /\ unread' = unread
        /\ answer' = [m \in Messages |->
                       IF answer[m] = None /\ \E c \in Conns : msg[c] = m
                         THEN "reset" ELSE answer[m]]
    BY <1>3 DEF Restart
  <2>2. \A m \in unread : answer'[m] # None
    BY <2>1, RelayAssumption DEF InFlight, RelayInv, TypeOK
  <2>3. QED
    BY <2>1, <2>2 DEF InFlight
<1>4. ASSUME NEW c \in Conns,
             Stamp(c) \/ Forward(c) \/ Screened(c) \/ Allow(c) \/ Close(c)
      PROVE  InFlight'
  <2>1. /\ \A d \in Conns : pc'[d] = "idle" <=> pc[d] = "idle"
        /\ UNCHANGED <<msg, answer, unread>>
    BY <1>4 DEF Stamp, Forward, Screened, Allow, Close, Places, ghosts, RelayInv, TypeOK
  <2>2. QED
    BY <2>1 DEF InFlight
<1>5. ASSUME NEW c \in Conns, HangUp(c) PROVE InFlight'
  <2>1. msg[c] \in Messages /\ Heard(msg[c], "reset") /\ UNCHANGED <<pc, msg, unread>>
    BY <1>5 DEF HangUp, Heard, threadVars, ghosts, RelayInv, ThreadShape
  <2>2. \A m \in unread : answer'[m] # None
    BY <2>1, HeardFacts, RelayAssumption DEF InFlight, RelayInv, TypeOK
  <2>3. QED
    BY <2>1, <2>2 DEF InFlight
<1>6. ASSUME NEW c \in Conns, NEW m \in Messages, NEW k \in Clients,
             Send(m, k, c) \/ ReadBody(m, k, c)
      PROVE  InFlight'
  <2>1. /\ pc[c] = "idle" /\ answer[m] = None /\ \A d \in Conns : msg[d] # m
        /\ pc' = [pc EXCEPT ![c] = "check"] /\ msg' = [msg EXCEPT ![c] = m]
        /\ unread' = unread
        /\ answer' = answer \/ \E what \in Answers : answer' = [answer EXCEPT ![m] = what]
    BY <1>6 DEF Send, ReadBody, Begin, Fresh, ghosts
  <2>2. \A n \in unread : answer'[n] # None
    BY <2>1, RelayAssumption DEF InFlight, RelayInv, TypeOK
  <2>3. m \notin unread
    BY <2>1 DEF InFlight
  <2>4. QED
    BY <2>1, <2>2, <2>3 DEF InFlight, RelayInv, TypeOK
<1>7. ASSUME NEW c \in Conns, Misplaced(c) \/ Limit(c) \/ Oversized(c)
      PROVE  InFlight'
  <2>1. pc[c] # "idle" /\ Tell(c, "json") /\ unread' = unread \cup {msg[c]}
    BY <1>7 DEF Misplaced, Limit, Oversized, RefuseUnread
  <2>2. QED
    BY <2>1, TellInFlight
<1>8. ASSUME NEW c \in Conns, Misread(c) \/ Malformed(c) \/ Conclude(c) \/ Raises(c)
      PROVE  InFlight'
  <2>1. /\ \E what \in Answers : Tell(c, what)
        /\ pc[c] # "idle" /\ unread' = unread
    BY <1>8 DEF Misread, Malformed, Conclude, Raises, ghosts
  <2>2. QED
    BY <2>1, TellInFlight
<1>9. QED
  BY <1>1, <1>2, <1>3, <1>4, <1>5, <1>6, <1>7, <1>8 DEF Next, Thread

\* Steps that spend no body.
LEMMA NothingSpoiled ==
  ASSUME RelayInv, BodyDebt,
         \A n \in Messages : \/ answer'[n] = answer[n]
                             \/ answer[n] = None /\ answer'[n] \in {"json", "reset"}
                             \/ answer[n] = None /\ answer'[n] = "stale" /\ ahead # {},
         left' \subseteq left, ahead' \subseteq ahead, unread' = unread
  PROVE  BodyDebt'
<1>1. None \notin Answers
  BY RelayAssumption
<1>2. Spoiled' = Spoiled
  BY <1>1 DEF Spoiled, Answers
<1>3. \A n \in Messages : answer[n] = "unasked" => answer'[n] = "unasked"
  BY <1>1 DEF Answers
<1>4. /\ IsFiniteSet(left') /\ Cardinality(left') <= Cardinality(left)
      /\ Cardinality(left') \in Nat /\ Cardinality(left) \in Nat
  BY FS_Subset, FS_CardinalityType DEF BodyDebt
<1>5. Cardinality(Spoiled) \in Nat /\ Cardinality(unread) \in Nat
  <2>1. Spoiled \in SUBSET Messages /\ unread \in SUBSET Messages
    BY DEF Spoiled, RelayInv, TypeOK
  <2>2. QED
    BY <2>1, RelayAssumption, FS_Subset, FS_CardinalityType
<1>6. \A n \in Messages : answer'[n] = "stale" => \E u \in Messages : answer'[u] = "unasked"
  BY <1>3 DEF BodyDebt
<1>7. ahead' # {} => \E u \in Messages : answer'[u] = "unasked"
  BY <1>3 DEF BodyDebt
<1>8. Cardinality(Spoiled') + Cardinality(left') <= Cardinality(unread')
  BY <1>2, <1>4, <1>5 DEF BodyDebt
<1>9. QED
  BY <1>4, <1>6, <1>7, <1>8 DEF BodyDebt

\* A step that spends the body on a connection.
LEMMA BodySpent ==
  ASSUME RelayInv, BodyDebt, NEW m \in Messages, NEW c \in left,
         NEW what \in {"page", "unasked"}, Heard(m, what),
         left' = left \ {c}, unread' = unread,
         \/ ahead' \subseteq ahead
         \/ what = "unasked" /\ answer[m] = None
  PROVE  BodyDebt'
<1>1. None \notin Answers /\ what \in Answers
  BY RelayAssumption DEF Answers
<1>2. /\ \A n \in Messages : \/ answer'[n] = answer[n]
                             \/ n = m /\ answer[n] = None /\ answer'[n] = what
  BY <1>1, HeardFacts
<1>3. Spoiled' = Spoiled \/ Spoiled' = Spoiled \cup {m}
  BY <1>1, <1>2 DEF Spoiled, Answers
<1>4. /\ IsFiniteSet(Spoiled) /\ Cardinality(Spoiled) \in Nat
      /\ Cardinality(unread) \in Nat /\ Cardinality(left) \in Nat
  <2>1. Spoiled \in SUBSET Messages /\ unread \in SUBSET Messages
    BY DEF Spoiled, RelayInv, TypeOK
  <2>2. QED
    BY <2>1, RelayAssumption, FS_Subset, FS_CardinalityType DEF BodyDebt
<1>5. Cardinality(Spoiled') \in {Cardinality(Spoiled), Cardinality(Spoiled) + 1}
  BY <1>3, <1>4, FS_AddElement
<1>6. IsFiniteSet(left') /\ Cardinality(left') = Cardinality(left) - 1
  BY FS_RemoveElement DEF BodyDebt
<1>7. Cardinality(Spoiled') + Cardinality(left') <= Cardinality(unread')
  BY <1>4, <1>5, <1>6 DEF BodyDebt
<1>8. \A n \in Messages : answer[n] = "unasked" => answer'[n] = "unasked"
  BY <1>1, <1>2 DEF Answers
<1>9. what = "unasked" /\ answer[m] = None => answer'[m] = "unasked"
  BY DEF Heard, RelayInv, TypeOK
<1>10. ahead' # {} => \E u \in Messages : answer'[u] = "unasked"
  BY <1>8, <1>9 DEF BodyDebt
<1>11. \A n \in Messages : answer'[n] = "stale" => \E u \in Messages : answer'[u] = "unasked"
  BY <1>2, <1>8 DEF BodyDebt
<1>12. QED
  BY <1>6, <1>7, <1>10, <1>11 DEF BodyDebt

LEMMA DebtStep ==
  ASSUME RelayInv, InFlight, BodyDebt, [Next]_vars
  PROVE  BodyDebt'
<1> USE DEF Answers
<1>1. CASE UNCHANGED vars \/ Tick
  <2>1. UNCHANGED <<answer, left, ahead, unread>>
    BY <1>1 DEF vars, Tick, threadVars, ghosts
  <2>2. QED
    BY <2>1, NothingSpoiled
<1>2. CASE Restart
  <2>1. /\ left' = {} /\ ahead' = {} /\ unread' = unread
        /\ answer' = [m \in Messages |->
                       IF answer[m] = None /\ \E c \in Conns : msg[c] = m
                         THEN "reset" ELSE answer[m]]
    BY <1>2 DEF Restart
  <2>2. QED
    BY <2>1, NothingSpoiled
<1>3. ASSUME NEW c \in Conns,
             Stamp(c) \/ Forward(c) \/ Screened(c) \/ Allow(c) \/ Close(c)
      PROVE  BodyDebt'
  <2>1. UNCHANGED <<answer, unread>> /\ left' \subseteq left /\ ahead' \subseteq ahead
    BY <1>3 DEF Stamp, Forward, Screened, Allow, Close, ghosts
  <2>2. QED
    BY <2>1, NothingSpoiled
<1>4. ASSUME NEW c \in Conns, NEW m \in Messages, NEW k \in Clients, Send(m, k, c)
      PROVE  BodyDebt'
  <2>1. /\ UNCHANGED <<left, ahead, unread>> /\ answer[m] = None
        /\ answer' = IF c \in ahead THEN [answer EXCEPT ![m] = "stale"] ELSE answer
    BY <1>4 DEF Send, Begin, Fresh, ghosts
  <2>2. \A n \in Messages : \/ answer'[n] = answer[n]
                            \/ answer[n] = None /\ answer'[n] = "stale" /\ ahead # {}
    BY <2>1 DEF RelayInv, TypeOK
  <2>3. QED
    BY <2>1, <2>2, NothingSpoiled
<1>5. ASSUME NEW c \in Conns, NEW m \in Messages, NEW k \in Clients, ReadBody(m, k, c)
      PROVE  BodyDebt'
  <2>1. /\ c \in left /\ left' = left \ {c} /\ unread' = unread
        /\ answer[m] = None /\ answer' = [answer EXCEPT ![m] = "unasked"]
    BY <1>5 DEF ReadBody, Begin, Fresh, ghosts
  <2>2. Heard(m, "unasked")
    BY <2>1 DEF Heard
  <2>3. QED
    BY <2>1, <2>2, BodySpent
<1>6. ASSUME NEW c \in Conns,
             HangUp(c) \/ Malformed(c) \/ Conclude(c) \/ Raises(c)
      PROVE  BodyDebt'
  <2>1. /\ msg[c] \in Messages /\ \E what \in {"json", "reset"} : Heard(msg[c], what)
        /\ left' \subseteq left /\ ahead' \subseteq ahead /\ unread' = unread
    BY <1>6 DEF HangUp, Malformed, Conclude, Raises, Tell, Heard, threadVars, ghosts,
       RelayInv, ThreadShape
  <2>2. \A n \in Messages : \/ answer'[n] = answer[n]
                            \/ answer[n] = None /\ answer'[n] \in {"json", "reset"}
    BY <2>1, HeardFacts
  <2>3. QED
    BY <2>1, <2>2, NothingSpoiled
<1>7. ASSUME NEW c \in Conns, Misread(c) PROVE BodyDebt'
  <2>1. /\ msg[c] \in Messages /\ Heard(msg[c], "page") /\ c \in left
        /\ left' = left \ {c} /\ ahead' \subseteq ahead /\ unread' = unread
    BY <1>7 DEF Misread, Tell, Heard, ghosts, RelayInv, ThreadShape
  <2>2. QED
    BY <2>1, BodySpent
<1>8. ASSUME NEW c \in Conns, Misplaced(c) \/ Limit(c) \/ Oversized(c)
      PROVE  BodyDebt'
  <2>1. /\ msg[c] \in Messages /\ msg[c] \notin unread /\ Heard(msg[c], "json")
        /\ unread' = unread \cup {msg[c]} /\ left' = left \cup {c} /\ ahead' = ahead
    BY <1>8 DEF Misplaced, Limit, Oversized, RefuseUnread, Tell, Heard, RelayInv,
       ThreadShape, InFlight
  <2>2. \A n \in Messages : \/ answer'[n] = answer[n]
                            \/ answer[n] = None /\ answer'[n] = "json"
    BY <2>1, HeardFacts
  <2>3. None \notin Answers
    BY RelayAssumption
  <2>4. /\ Spoiled' = Spoiled
        /\ \A n \in Messages : answer[n] = "unasked" => answer'[n] = "unasked"
        /\ \A n \in Messages : answer'[n] = "stale" => answer[n] = "stale"
    BY <2>2, <2>3 DEF Spoiled
  <2>5. /\ IsFiniteSet(unread) /\ Cardinality(Spoiled) \in Nat
        /\ Cardinality(unread) \in Nat /\ Cardinality(left) \in Nat
    <3>1. Spoiled \in SUBSET Messages /\ unread \in SUBSET Messages
      BY DEF Spoiled, RelayInv, TypeOK
    <3>2. QED
      BY <3>1, RelayAssumption, FS_Subset, FS_CardinalityType DEF BodyDebt
  <2>6. Cardinality(unread') = Cardinality(unread) + 1
    BY <2>1, <2>5, FS_AddElement
  <2>7. /\ IsFiniteSet(left')
        /\ Cardinality(left') \in {Cardinality(left), Cardinality(left) + 1}
    BY <2>1, FS_AddElement DEF BodyDebt
  <2>8. Cardinality(Spoiled') + Cardinality(left') <= Cardinality(unread')
    BY <2>4, <2>5, <2>6, <2>7 DEF BodyDebt
  <2>9. QED
    BY <2>1, <2>4, <2>7, <2>8 DEF BodyDebt
<1>9. QED
  BY <1>1, <1>2, <1>3, <1>4, <1>5, <1>6, <1>7, <1>8 DEF Next, Thread

\* A body left on a connection that the tunnel keeps open spoils one later message, or makes
\* one request that nobody sent, behind which alone replies are out of step (do_POST returns
\* from its refusals without reading, chat-relay.py:383-404).
THEOREM MisreadsArePaidFor == Spec => []MisreadsPaidFor
<1>1. Init => InFlight /\ BodyDebt
  <2> SUFFICES ASSUME Init PROVE InFlight /\ BodyDebt
    OBVIOUS
  <2>1. Spoiled = {} /\ \A m \in Messages : answer[m] # "stale"
    BY RelayAssumption DEF Init, Spoiled, Answers
  <2>2. IsFiniteSet({}) /\ Cardinality({}) = 0
    BY FS_EmptySet
  <2>3. BodyDebt
    BY <2>1, <2>2 DEF Init, BodyDebt
  <2>4. QED
    BY <2>3 DEF Init, InFlight
<1>2. RelayInv /\ BodyDebt => MisreadsPaidFor
  <2> SUFFICES ASSUME RelayInv, BodyDebt PROVE MisreadsPaidFor
    OBVIOUS
  <2>1. Spoiled \in SUBSET Messages /\ unread \in SUBSET Messages
    BY DEF Spoiled, RelayInv, TypeOK
  <2>2. /\ Cardinality(Spoiled) \in Nat /\ Cardinality(unread) \in Nat
        /\ Cardinality(left) \in Nat
    BY <2>1, RelayAssumption, FS_Subset, FS_CardinalityType DEF BodyDebt
  <2>3. Cardinality(Spoiled) <= Cardinality(unread)
    BY <2>2 DEF BodyDebt
  <2>4. \A m \in Messages : answer[m] = "stale" => \E n \in Messages : answer[n] = "unasked"
    BY DEF BodyDebt
  <2>5. QED
    BY <2>3, <2>4 DEF MisreadsPaidFor, Spoiled
<1>3. QED
  BY RelayInit, RelayStep, InFlightStep, DebtStep, <1>1, <1>2, PTL DEF Spec
=============================================================================
