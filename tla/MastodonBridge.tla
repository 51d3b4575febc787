--------------------------- MODULE MastodonBridge ---------------------------
(***************************************************************************)
(* scripts/mastodon/mastodon-openclaw-bridge.py: polls the notifications   *)
(* of the bot's account, asks OpenClaw about each new mention and posts    *)
(* the answer.  A cursor on disk, written before a mention is answered,    *)
(* says how far it has come.                                               *)
(***************************************************************************)
EXTENDS Naturals, FiniteSets

CONSTANTS
  Notices,     (* the notifications of the bot's account: a post by a followed
                  author that mentions the bot gives two, one of type status
                  and one of type mention                                  *)
  Mentions,    (* those of them to answer: of another account, mention or
                  status by type                                           *)
  FirstId,     (* the notification ids given out before the model starts   *)
  Limit,       (* notifications per request                                *)
  MaxDeletes,  (* bound on the posts that are deleted                      *)
  MaxResets,   (* bound on the renumberings of the notifications table     *)
  MaxCrashes,  (* bound on the ends of the bridge                          *)
  None

MaxId == FirstId + Cardinality(Notices)
Ids   == 0..MaxId              (* 0: the cursor '0'                        *)

ASSUME BridgeAssumption ==
  /\ IsFiniteSet(Notices) /\ Mentions \subseteq Notices
  /\ FirstId \in Nat
  /\ MaxDeletes \in Nat /\ MaxResets \in Nat /\ MaxCrashes \in Nat
  /\ Limit \in Nat \ {0}
  /\ None \notin Notices /\ None \notin Nat

VARIABLES
  table,    (* Mastodon's notifications table: id -> notice                *)
  seq,      (* the last notification id given out                          *)
  unposted, (* notices still to come                                       *)
  deletes,  (* deleted posts so far                                        *)
  resets,   (* renumberings so far                                         *)
  replies,  (* replies posted on each notice                               *)
  cursor,   (* lastNotificationId in STATE_FILE                            *)
  pc,       (* where main() stands; "down" before it starts                *)
  last,     (* last_id                                                     *)
  batch,    (* items still to look at: id -> notice                        *)
  cur,      (* the notice being answered                                   *)
  crashes,  (* ends of the bridge so far                                   *)
  history,  (* notices in the table when the cursor was initialized        *)
  asked,    (* notices OpenClaw has been asked about                       *)
  dropped   (* notices in hand when the bridge ended or the disk failed,
               or pushed off the page by newer ones                        *)

mastodon == <<table, seq, unposted, deletes, resets>>
ghosts   == <<history, asked, dropped>>
vars     == <<mastodon, replies, cursor, pc, last, batch, cur, crashes, ghosts>>

Nothing    == [i \in Ids |-> None]
Present(f) == {i \in Ids : f[i] # None}

Init ==
  /\ table    = Nothing
  /\ seq      = FirstId
  /\ unposted = Notices
  /\ deletes  = 0
  /\ resets   = 0
  /\ replies  = [s \in Notices |-> 0]
  /\ cursor   = None
  /\ pc       = "down"
  /\ last     = None
  /\ batch    = Nothing
  /\ cur      = None
  /\ crashes  = 0
  /\ history  = {}
  /\ asked    = {}
  /\ dropped  = {}

-----------------------------------------------------------------------------
(* Mastodon.                                                               *)

\* The new notification pushes the Limit-th newest off the page.
Notify(s) ==
  /\ s \in unposted
  /\ seq < MaxId
  /\ table'    = [table EXCEPT ![seq + 1] = s]
  /\ seq'      = seq + 1
  /\ unposted' = unposted \ {s}
  /\ LET ids == Present(table)
         Lowest(i) == Cardinality({j \in ids : j > i}) = Limit - 1
     IN dropped' = dropped \cup {table[i] : i \in {j \in ids : Lowest(j)}}
  /\ UNCHANGED <<deletes, resets, replies, cursor, pc, last, batch, cur, crashes, history, asked>>

\* A deleted post takes its notification with it, or both of them.
Delete(i, j) ==
  /\ deletes < MaxDeletes
  /\ {i, j} \subseteq Present(table)
  /\ table'   = [k \in Ids |-> IF k \in {i, j} THEN None ELSE table[k]]
  /\ deletes' = deletes + 1
  /\ UNCHANGED <<seq, unposted, resets, replies, cursor, pc, last, batch, cur, crashes, ghosts>>

Rank(i) == Cardinality({j \in Present(table) : j <= i})

\* The table is repopulated and its ids start at 1 again.
Reset ==
  /\ resets < MaxResets
  /\ table'  = [k \in Ids |->
                  IF \E i \in Present(table) : Rank(i) = k
                    THEN table[CHOOSE i \in Present(table) : Rank(i) = k]
                    ELSE None]
  /\ seq'    = Cardinality(Present(table))
  /\ resets' = resets + 1
  /\ UNCHANGED <<unposted, deletes, replies, cursor, pc, last, batch, cur, crashes, ghosts>>

\* /api/v1/notifications?limit=40: the newest.
Newest ==
  LET ids == Present(table)
  IN [i \in Ids |-> IF i \in ids /\ Cardinality({j \in ids : j > i}) < Limit
                       THEN table[i] ELSE None]

-----------------------------------------------------------------------------
(* The bridge.                                                             *)

\* Places the decimal strings of 0..99 in their order as strings.
AsString(n) == IF n < 10 THEN n * 11 ELSE (n \div 10) * 11 + 1 + (n % 10)

\* max(str(id)), default '0'.
StringMax(i) ==
  LET page == Present(Newest)
  IN IF page = {} THEN i = 0
     ELSE i \in page /\ \A j \in page : AsString(j) <= AsString(i)

Start ==
  /\ pc = "down"
  /\ last' = cursor
  /\ pc'   = IF cursor = None THEN "init" ELSE "poll"
  /\ UNCHANGED <<mastodon, replies, cursor, batch, cur, crashes, ghosts>>

InitCursor(i) ==
  /\ pc = "init" /\ StringMax(i)
  /\ last'    = i
  /\ cursor'  = i
  /\ history' = {table[t] : t \in Present(table)}
  /\ pc'      = "poll"
  /\ UNCHANGED <<mastodon, replies, batch, cur, crashes, asked, dropped>>

\* The newest notification is older than the cursor.
Behind ==
  /\ last # 0 /\ Present(Newest) # {}
  /\ \A i \in Present(Newest) : i < last

\* Mutant: the cursor is taken for the next notification to look at.
UnseenBeyond(from) ==
  LET page == Newest
  IN [i \in Ids |-> IF from = 0 \/ i > from + 1 THEN page[i] ELSE None]

\* The items the loop does not pass over as seen.
Unseen(from) ==
  LET page == Newest
  IN [i \in Ids |-> IF from = 0 \/ i > from THEN page[i] ELSE None]

Poll ==
  /\ pc = "poll"
  /\ IF Behind THEN last' = 0 /\ cursor' = 0 /\ batch' = Newest
               ELSE batch' = Unseen(last) /\ UNCHANGED <<last, cursor>>
  /\ pc' = "scan"
  /\ UNCHANGED <<mastodon, replies, cur, crashes, ghosts>>

\* write_state raises on the rewind: last_id is '0' in memory only.
RewindFails ==
  /\ pc = "poll" /\ Behind
  /\ last' = 0
  /\ UNCHANGED <<mastodon, replies, cursor, pc, batch, cur, crashes, ghosts>>

\* The notification that is next in numerical order.
Follows(i) == i \in Present(batch) /\ \A j \in Present(batch) : i <= j

\* Mutant: the cursor is not written before the answer.
AdvanceUnwritten(i) ==
  /\ pc = "scan" /\ Follows(i)
  /\ last'   = i
  /\ batch'  = [batch EXCEPT ![i] = None]
  /\ IF batch[i] \in Mentions
       THEN cur' = batch[i] /\ pc' = "ask"
       ELSE UNCHANGED <<cur, pc>>
  /\ UNCHANGED <<mastodon, replies, cursor, crashes, ghosts>>

Advance(i) ==
  /\ pc = "scan" /\ Follows(i)
  /\ last'   = i
  /\ cursor' = i
  /\ batch'  = [batch EXCEPT ![i] = None]
  /\ IF batch[i] \in Mentions
       THEN cur' = batch[i] /\ pc' = "ask"
       ELSE UNCHANGED <<cur, pc>>
  /\ UNCHANGED <<mastodon, replies, crashes, ghosts>>

\* write_state raises: the loop starts over with last_id already advanced.
AdvanceFails(i) ==
  /\ pc = "scan" /\ Follows(i)
  /\ last'    = i
  /\ dropped' = dropped \cup {batch[i]}
  /\ batch'   = Nothing
  /\ pc'      = "poll"
  /\ UNCHANGED <<mastodon, replies, cursor, cur, crashes, history, asked>>

EndScan ==
  /\ pc = "scan" /\ Present(batch) = {}
  /\ pc' = "poll"
  /\ UNCHANGED <<mastodon, replies, cursor, last, batch, cur, crashes, ghosts>>

\* ask_openclaw answers, or raises and the mention is given up.
Ask ==
  /\ pc = "ask"
  /\ asked' = asked \cup {cur}
  /\ \/ pc' = "post" /\ UNCHANGED cur
     \/ pc' = "scan" /\ cur' = None
  /\ UNCHANGED <<mastodon, replies, cursor, last, batch, crashes, history, dropped>>

\* The reply is posted, unless the request fails or the parent is gone.
Post ==
  /\ pc = "post"
  /\ \/ /\ \E i \in Ids : table[i] = cur
        /\ replies' = [replies EXCEPT ![cur] = @ + 1]
     \/ UNCHANGED replies
  /\ cur' = None
  /\ pc'  = "scan"
  /\ UNCHANGED <<mastodon, cursor, last, batch, crashes, ghosts>>

\* The bridge ends; Restart=always starts it again.
Crash ==
  /\ pc # "down"
  /\ crashes < MaxCrashes
  /\ crashes' = crashes + 1
  /\ dropped' = dropped \cup ({cur} \ {None})
  /\ pc'      = "down"
  /\ last'    = None
  /\ batch'   = Nothing
  /\ cur'     = None
  /\ UNCHANGED <<mastodon, replies, cursor, history, asked>>

Bridge ==
  \/ Start
  \/ Poll \/ RewindFails
  \/ \E i \in Ids : InitCursor(i) \/ Advance(i) \/ AdvanceFails(i)
  \/ EndScan
  \/ Ask \/ Post

Next ==
  \/ \E s \in Notices : Notify(s)
  \/ \E i, j \in Ids : Delete(i, j)
  \/ Reset
  \/ Bridge \/ Crash

Spec == Init /\ [][Next]_vars

\* systemd restarts the bridge, and every call it makes has a timeout.
FairSpec == Spec /\ WF_vars(Bridge)

-----------------------------------------------------------------------------
(* Properties.                                                             *)

\* Every variable holds a value of its kind.
TypeOK ==
  /\ table    \in [Ids -> Notices \cup {None}]
  /\ seq      \in Ids
  /\ unposted \subseteq Notices
  /\ deletes  \in 0..MaxDeletes
  /\ resets   \in 0..MaxResets
  /\ replies  \in [Notices -> Nat]
  /\ cursor   \in Ids \cup {None}
  /\ pc       \in {"down", "init", "poll", "scan", "ask", "post"}
  /\ last     \in Ids \cup {None}
  /\ batch    \in [Ids -> Notices \cup {None}]
  /\ cur      \in Mentions \cup {None}
  /\ crashes  \in 0..MaxCrashes
  /\ history \cup asked \cup dropped \subseteq Notices

\* A notification is answered in public once: the cursor is written before the
\* answer, so that neither a crash nor a full disk nor a lost response makes
\* the bridge answer again.  Only what it takes for a reset of the ids, which
\* it reads from their start again, costs one more reply: a renumbered table or
\* the deletion of the newest post.  A post that notifies twice is answered on each
\* of its notifications: nothing compares the posts of two of them.
RepliesBounded ==
  \A s \in Notices : replies[s] <= 1 + resets + deletes

\* "Sends each new mention to OpenClaw": one that arrives after the cursor was
\* initialized is asked about, unless Limit newer ones push it off the page, it
\* was in hand when the bridge ended or the disk failed, its author deletes it
\* or the ids are reset: a crash loses no other.
MentionsAsked ==
  \A s \in Mentions :
    s \notin unposted /\ s \notin history /\ cursor # None
      ~> \/ s \in asked \cup dropped
         \/ \A i \in Ids : table[i] # s
         \/ resets > 0

\* "Historical mentions are not answered unexpectedly": those already there
\* when the cursor was initialized get no reply.
HistoryIgnored ==
  \A s \in history : replies[s] = 0
=============================================================================
