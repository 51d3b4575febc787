----------------------------- MODULE ChatRelay -----------------------------
(***************************************************************************)
(* scripts/openclaw/chat-relay.py: messages from the website reach it over *)
(* connections that the tunnel keeps open and uses for one visitor after   *)
(* the other.  A thread per connection refuses a message or passes it to   *)
(* the OpenClaw gateway.  The threads share the table of the rate limiter. *)
(***************************************************************************)
EXTENDS Naturals, FiniteSets

CONSTANTS
  Messages,     (* POSTs of visitors                                        *)
  Clients,      (* addresses the limiter tells apart                        *)
  Conns,        (* connections between the tunnel and the relay             *)
  PerMinute,    (* CHAT_RELAY_RATE_PER_MIN                                  *)
  TableMax,     (* entries above which the table is pruned (4096)           *)
  MaxMinute,    (* bound on the clock                                       *)
  MaxRestarts,  (* bound on the restarts of the relay                       *)
  None

Minutes == 0..MaxMinute

\* A JSON reply or error of the relay; an HTML error page of http.server; a reply to
\* another request; or the connection broke.  Nobody waits for what is "unasked".
Answers == {"json", "page", "stale", "reset", "unasked"}

ASSUME RelayAssumption ==
  /\ IsFiniteSet(Clients) /\ IsFiniteSet(Messages)
  /\ PerMinute \in Nat \ {0}
  /\ TableMax \in Nat /\ MaxMinute \in Nat /\ MaxRestarts \in Nat
  /\ None \notin Messages \cup Clients \cup Nat \cup Answers

VARIABLES
  minute,   (* time.time() // 60                                            *)
  bucket,   (* LIMITER: minute of a client's entry, None without one        *)
  count,    (* LIMITER: hits in that minute                                 *)
  pc,       (* where the thread of a connection stands                      *)
  msg,      (* the message it handles                                       *)
  client,   (* the address it comes from, until allow() returns             *)
  stamp,    (* the minute that allow() has computed, until it returns       *)
  left,     (* connections with the body of a refused message still on them *)
  ahead,    (* connections with a reply on them that was not asked for      *)
  answer,   (* what a visitor is told                                       *)
  unread,   (* messages refused before their body was read                  *)
  passed,   (* passed[k][b]: messages of k that allow() let through for b   *)
  slack,    (* PerMinute for each late or lost look at the table            *)
  restarts

threadVars == <<pc, msg, client, stamp, left, ahead>>
tableVars  == <<bucket, count>>
ghosts     == <<unread, passed, slack>>
vars       == <<minute, tableVars, threadVars, answer, ghosts, restarts>>

Places  == {"idle", "check", "allow", "read", "call", "retry"}

Init ==
  /\ minute   = 0
  /\ bucket   = [k \in Clients |-> None]
  /\ count    = [k \in Clients |-> 0]
  /\ pc       = [c \in Conns |-> "idle"]
  /\ msg      = [c \in Conns |-> None]
  /\ client   = [c \in Conns |-> None]
  /\ stamp    = [c \in Conns |-> 0]
  /\ left     = {}
  /\ ahead    = {}
  /\ answer   = [m \in Messages |-> None]
  /\ unread   = {}
  /\ passed   = [k \in Clients |-> [b \in Minutes |-> 0]]
  /\ slack    = 0
  /\ restarts = 0

-----------------------------------------------------------------------------
(* Visitors, the tunnel and the clock.                                     *)

Fresh(m) == answer[m] = None /\ \A d \in Conns : msg[d] # m

Begin(m, k, c) ==
  /\ pc[c] = "idle" /\ Fresh(m)
  /\ pc'     = [pc     EXCEPT ![c] = "check"]
  /\ msg'    = [msg    EXCEPT ![c] = m]
  /\ client' = [client EXCEPT ![c] = k]
  /\ UNCHANGED <<minute, tableVars, stamp, ghosts, restarts>>

\* On a connection whose replies are out of step the visitor gets the last one.
Send(m, k, c) ==
  /\ Begin(m, k, c)
  /\ answer' = IF c \in ahead THEN [answer EXCEPT ![m] = "stale"] ELSE answer
  /\ UNCHANGED <<left, ahead>>

\* An unread body that reads as a request is handled as one, and answered.
ReadBody(m, k, c) ==
  /\ Begin(m, k, c) /\ c \in left
  /\ answer' = [answer EXCEPT ![m] = "unasked"]
  /\ left'   = left \ {c}
  /\ ahead'  = ahead \cup {c}

\* The visitor does not wait as long as the gateway may take.
HangUp(c) ==
  /\ pc[c] \in {"call", "retry"} /\ answer[msg[c]] = None
  /\ answer' = [answer EXCEPT ![msg[c]] = "reset"]
  /\ UNCHANGED <<minute, tableVars, threadVars, ghosts, restarts>>

\* The tunnel gives up an idle connection.
Close(c) ==
  /\ pc[c] = "idle" /\ c \in left \cup ahead
  /\ left'  = left \ {c}
  /\ ahead' = ahead \ {c}
  /\ UNCHANGED <<minute, tableVars, pc, msg, client, stamp, answer, ghosts, restarts>>

Tick ==
  /\ minute < MaxMinute
  /\ minute' = minute + 1
  /\ UNCHANGED <<tableVars, threadVars, answer, ghosts, restarts>>

-----------------------------------------------------------------------------
(* Answering.  A connection stays open, with what was not read of it.      *)

Release(c) ==
  /\ pc'     = [pc     EXCEPT ![c] = "idle"]
  /\ msg'    = [msg    EXCEPT ![c] = None]
  /\ client' = [client EXCEPT ![c] = None]
  /\ stamp'  = [stamp  EXCEPT ![c] = 0]

\* Who has hung up, or has got another reply, does not hear.
Tell(c, what) ==
  /\ answer' = IF answer[msg[c]] = None THEN [answer EXCEPT ![msg[c]] = what] ELSE answer
  /\ Release(c)

RefuseUnread(c) ==
  /\ Tell(c, "json")
  /\ left'   = left \cup {c}
  /\ ahead'  = ahead
  /\ unread' = unread \cup {msg[c]}

-----------------------------------------------------------------------------
(* do_POST.                                                                *)

\* Mutant: the connection is kept open.
MisreadKept(c) ==
  /\ pc[c] = "check" /\ c \in left
  /\ Tell(c, "page")
  /\ UNCHANGED <<minute, tableVars, left, ahead, ghosts, restarts>>

\* The unread body, if it is no request, and the request line behind it are taken
\* for one request line: an error page, and the connection is closed.
Misread(c) ==
  /\ pc[c] = "check" /\ c \in left
  /\ Tell(c, "page")
  /\ left'  = left \ {c}
  /\ ahead' = ahead \ {c}
  /\ UNCHANGED <<minute, tableVars, ghosts, restarts>>

\* Another path, or an origin that is not allowed.
Misplaced(c) ==
  /\ pc[c] = "check" /\ c \notin left
  /\ RefuseUnread(c)
  /\ UNCHANGED <<minute, tableVars, passed, slack, restarts>>

\* allow() computes the minute before it waits for the lock.
Stamp(c) ==
  /\ pc[c] = "check" /\ c \notin left
  /\ pc'    = [pc    EXCEPT ![c] = "allow"]
  /\ stamp' = [stamp EXCEPT ![c] = minute]
  /\ UNCHANGED <<minute, tableVars, msg, client, left, ahead, answer, ghosts, restarts>>

\* Mutant: hits of another minute count.
HitsEver(c) == IF bucket[client[c]] = None THEN 0 ELSE count[client[c]]

\* Hits of the client in the minute computed.
Hits(c) == IF bucket[client[c]] = stamp[c] THEN count[client[c]] ELSE 0

Limit(c) ==
  /\ pc[c] = "allow" /\ Hits(c) >= PerMinute
  /\ RefuseUnread(c)
  /\ UNCHANGED <<minute, tableVars, passed, slack, restarts>>

\* The minutes of the entries once the client's is written.
Written(c) == [bucket EXCEPT ![client[c]] = stamp[c]]

\* Mutant: a table that has grown too large is emptied.
KeptOwn(c) ==
  LET entries == {k \in Clients : Written(c)[k] # None}
  IN IF Cardinality(entries) > TableMax THEN {client[c]} ELSE entries

\* The clients whose entries stay: those of the minute computed when the table
\* has grown too large.
Kept(c) ==
  LET entries == {k \in Clients : Written(c)[k] # None}
  IN IF Cardinality(entries) > TableMax
       THEN {k \in entries : Written(c)[k] = stamp[c]}
       ELSE entries

Allow(c) ==
  LET k == client[c]
  IN /\ pc[c] = "allow" /\ Hits(c) < PerMinute
     /\ bucket' = [j \in Clients |-> IF j \in Kept(c) THEN Written(c)[j] ELSE None]
     /\ count'  = [j \in Clients |-> IF j \notin Kept(c) THEN 0
                                     ELSE IF j = k THEN Hits(c) + 1 ELSE count[j]]
     /\ passed' = [passed EXCEPT ![k][stamp[c]] = @ + 1]
     /\ slack'  = IF stamp[c] < minute THEN slack + PerMinute ELSE slack
     /\ pc'     = [pc     EXCEPT ![c] = "read"]
     /\ client' = [client EXCEPT ![c] = None]
     /\ stamp'  = [stamp  EXCEPT ![c] = 0]
     /\ UNCHANGED <<minute, msg, left, ahead, answer, unread, restarts>>

\* A body above MAX_BODY_BYTES, in chunks, or of a length that is no number.
Oversized(c) ==
  /\ pc[c] = "read"
  /\ RefuseUnread(c)
  /\ UNCHANGED <<minute, tableVars, passed, slack, restarts>>

\* No body, no JSON object, or no message in it.
Malformed(c) ==
  /\ pc[c] = "read"
  /\ Tell(c, "json")
  /\ UNCHANGED <<minute, tableVars, left, ahead, ghosts, restarts>>

Forward(c) ==
  /\ pc[c] = "read"
  /\ pc' = [pc EXCEPT ![c] = "call"]
  /\ UNCHANGED <<minute, tableVars, msg, client, stamp, left, ahead, answer, ghosts, restarts>>

-----------------------------------------------------------------------------
(* forward_to_gateway and _plain_retry; every call has a timeout.          *)

\* Mutant: a failed retry is not told.
ConcludeFirst(c) ==
  /\ pc[c] \in {"call", "retry"}
  /\ IF pc[c] = "call"
       THEN Tell(c, "json")
       ELSE answer' = answer /\ Release(c)
  /\ UNCHANGED <<minute, tableVars, left, ahead, ghosts, restarts>>

\* A reply that passes the screen, or a failure that is told.
Conclude(c) ==
  /\ pc[c] \in {"call", "retry"}
  /\ Tell(c, "json")
  /\ UNCHANGED <<minute, tableVars, left, ahead, ghosts, restarts>>

\* The reply fails the screen.
Screened(c) ==
  /\ pc[c] = "call"
  /\ pc' = [pc EXCEPT ![c] = "retry"]
  /\ UNCHANGED <<minute, tableVars, msg, client, stamp, left, ahead, answer, ghosts, restarts>>

\* A "message" that is no object raises out of the handler: the connection ends.
Raises(c) ==
  /\ pc[c] = "call"
  /\ Tell(c, "reset")
  /\ left'  = left \ {c}
  /\ ahead' = ahead \ {c}
  /\ UNCHANGED <<minute, tableVars, ghosts, restarts>>

\* Restart=always: the table is lost and every connection with it.
Restart ==
  /\ restarts < MaxRestarts
  /\ restarts' = restarts + 1
  /\ slack'    = slack + PerMinute
  /\ bucket'   = [k \in Clients |-> None]
  /\ count'    = [k \in Clients |-> 0]
  /\ answer'   = [m \in Messages |->
                    IF answer[m] = None /\ \E c \in Conns : msg[c] = m
                      THEN "reset" ELSE answer[m]]
  /\ pc'       = [c \in Conns |-> "idle"]
  /\ msg'      = [c \in Conns |-> None]
  /\ client'   = [c \in Conns |-> None]
  /\ stamp'    = [c \in Conns |-> 0]
  /\ left'     = {}
  /\ ahead'    = {}
  /\ UNCHANGED <<minute, unread, passed>>

Thread(c) ==
  \/ Misread(c) \/ Misplaced(c) \/ Stamp(c)
  \/ Limit(c) \/ Allow(c)
  \/ Oversized(c) \/ Malformed(c) \/ Forward(c)
  \/ Conclude(c) \/ Screened(c) \/ Raises(c)

Next ==
  \/ \E c \in Conns :
       \/ Thread(c) \/ HangUp(c) \/ Close(c)
       \/ \E m \in Messages, k \in Clients : Send(m, k, c) \/ ReadBody(m, k, c)
  \/ Tick \/ Restart

Spec == Init /\ [][Next]_vars

\* A thread that can go on does: the lock is held for no more than a look at
\* the table, and a call to the gateway ends after UPSTREAM_TIMEOUT_S.
FairSpec == Spec /\ \A c \in Conns : WF_vars(Thread(c))

-----------------------------------------------------------------------------
(* Properties.                                                             *)

\* Every variable holds a value of its kind.
TypeOK ==
  /\ minute   \in Minutes
  /\ bucket   \in [Clients -> Minutes \cup {None}]
  /\ count    \in [Clients -> 0..PerMinute]
  /\ pc       \in [Conns -> Places]
  /\ msg      \in [Conns -> Messages \cup {None}]
  /\ client   \in [Conns -> Clients \cup {None}]
  /\ stamp    \in [Conns -> Minutes]
  /\ left     \subseteq Conns
  /\ ahead    \subseteq Conns
  /\ answer   \in [Messages -> Answers \cup {None}]
  /\ unread   \subseteq Messages
  /\ passed   \in [Clients -> [Minutes -> Nat]]
  /\ slack    \in Nat
  /\ restarts \in 0..MaxRestarts

\* "Per-client-IP rate limiting": a client gets no more than PerMinute messages
\* through for one minute, and that many again for each thread that comes to
\* the table after the minute it has computed is over (it sets the entry back,
\* or prunes the others) and for each restart.
RateBounded ==
  \A k \in Clients, b \in Minutes : passed[k][b] <= PerMinute + slack

\* A client is told 429 only if that many of its own messages got through for
\* that minute: neither the messages of others, nor the pruning of the table,
\* nor an entry of an earlier minute counts against it.
LimitEarned ==
  [][\A c \in Conns : Limit(c) => passed[client[c]][stamp[c]] >= PerMinute]_vars

\* A refusal that leaves its body on the connection costs one later message, which
\* is told an error page, or makes one request that nobody sent; and no visitor is
\* told a reply to another request unless there was one that nobody sent.
MisreadsPaidFor ==
  LET Told(what) == {m \in Messages : answer[m] \in what}
  IN /\ Cardinality(Told({"page", "unasked"})) <= Cardinality(unread)
     /\ Told({"stale"}) # {} => Told({"unasked"}) # {}

\* Whatever the limiter, the gateway and the other threads do, a visitor hears
\* of every message, or has hung up.
EveryMessageAnswered ==
  \A m \in Messages : (\E c \in Conns : msg[c] = m) ~> answer[m] # None
=============================================================================
