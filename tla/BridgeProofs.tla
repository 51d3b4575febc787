---------------------------- MODULE BridgeProofs ----------------------------
(***************************************************************************)
(* The Mastodon bridge answers a mention once, and once more for each      *)
(* deletion or renumbering, for any posts, page size, crashes and disk.    *)
(***************************************************************************)
EXTENDS MastodonBridge, FiniteSetTheorems, TLAPS

\* Where main() stands says what it has in hand.
MainShape ==
  /\ pc = "down" => batch = Nothing
  /\ pc = "init" => batch = Nothing /\ last = None
  /\ pc = "poll" => batch = Nothing
  /\ pc \in {"down", "init", "poll", "scan"} => cur = None
  /\ pc \in {"ask", "post"} => cur \in Mentions
  /\ pc \in {"poll", "scan", "ask", "post"} => last \in Ids

\* A notice has one id, one that was given out, and a renumbering moves
\* notifications only backwards.
TableShape ==
  /\ \A i \in Present(table) : i \in 1..seq
  /\ \A i, j \in Present(table) : table[i] = table[j] => i = j
  /\ \A i, j \in Present(batch) : batch[i] = batch[j] => i = j
  /\ \A i \in Present(batch) : i # 0
  /\ \A i \in Present(table) : table[i] \notin unposted
  /\ \A i \in Present(batch) : batch[i] \notin unposted
  /\ \A b \in Present(batch), t \in Present(table) : batch[b] = table[t] => t <= b

\* Given the notifications t and the last id q: a cursor p that the bridge takes
\* for one left over from a reset, or would if a post were to come.
Stale(t, q, p) ==
  p # 0 /\ (p > q \/ (Present(t) # {} /\ \A i \in Present(t) : i < p))

\* From a cursor p the notice s may still be answered; u are the posts to come.
Ahead(t, q, u, p, s) ==
  \/ p = None \/ p = 0 \/ Stale(t, q, p) \/ s \in u
  \/ \E i \in Present(t) : t[i] = s /\ i > p

One(b) == IF b THEN 1 ELSE 0

Held(b, s) == \E i \in Present(b) : b[i] = s

\* How many replies to s can come of the page b in hand and the cursor p.
ToCome(t, q, u, b, p, s) ==
  IF Held(b, s)
    THEN 1 + One(\E i \in Present(b) : Stale(t, q, i))
    ELSE One(\E c \in Present(b) \cup {p} : Ahead(t, q, u, c, s))

\* Replies to s that are posted or about to be.
Given(s) == replies[s] + One(cur = s)

\* With what can come of the cursor on disk, and with what can come of the page
\* and the cursor in memory, they are no more than one and those accounted for.
ReplyBudget ==
  \A s \in Notices :
    /\ Given(s) + One(Ahead(table, seq, unposted, cursor, s)) <= 1 + resets + deletes
    /\ pc # "down" =>
         Given(s) + ToCome(table, seq, unposted, batch, last, s) <= 1 + resets + deletes

Shape == TypeOK /\ MainShape /\ TableShape

BridgeInv == Shape /\ ReplyBudget

-----------------------------------------------------------------------------
(* Ids, pages and ranks.                                                   *)

LEMMA IdsFacts ==
  /\ MaxId \in Nat /\ Ids \subseteq Nat /\ 0 \in Ids
  /\ \A S \in SUBSET Ids : IsFiniteSet(S) /\ Cardinality(S) \in Nat
  /\ \A i \in Ids : i # None
<1>1. Cardinality(Notices) \in Nat
  BY FS_CardinalityType, BridgeAssumption
<1>2. MaxId \in Nat
  BY <1>1, BridgeAssumption DEF MaxId
<1>3. IsFiniteSet(Ids)
  BY <1>2, FS_Interval DEF Ids
<1>4. \A S \in SUBSET Ids : IsFiniteSet(S) /\ Cardinality(S) \in Nat
  BY <1>3, FS_Subset, FS_CardinalityType
<1> QED
  BY <1>2, <1>4, BridgeAssumption DEF Ids

\* A page is a part of the table with nothing newer than it left out.
LEMMA NewestFacts ==
  ASSUME TypeOK
  PROVE  /\ Newest \in [Ids -> Notices \cup {None}]
         /\ Present(Newest) \subseteq Present(table)
         /\ \A i \in Present(Newest) : Newest[i] = table[i]
         /\ \A i \in Present(Newest), j \in Present(table) :
              j > i => j \in Present(Newest)
<1> DEFINE ids == Present(table)
           Above(i) == {j \in ids : j > i}
<1>1. ids \subseteq Ids
  BY DEF Present
<1>2. \A i \in Ids : Cardinality(Above(i)) \in Nat /\ IsFiniteSet(Above(i))
  BY <1>1, IdsFacts
<1>3. Newest = [i \in Ids |-> IF i \in ids /\ Cardinality(Above(i)) < Limit
                                THEN table[i] ELSE None]
  BY DEF Newest
<1> HIDE DEF ids
<1>4. \A i \in Ids : i \in Present(Newest)
                     <=> i \in ids /\ Cardinality(Above(i)) < Limit
  BY <1>3 DEF ids, Present
<1>5. ASSUME NEW i \in Present(Newest), NEW j \in ids, j > i
      PROVE  j \in Present(Newest)
  <2>0. i \in Ids /\ j \in Ids
    BY <1>1, <1>5 DEF Present
  <2>1. Above(j) \subseteq Above(i)
    <3>1. i \in Nat /\ j \in Nat
      BY <2>0, IdsFacts
    <3>2. ASSUME NEW k \in Above(j) PROVE k \in Above(i)
      <4>1. k \in ids /\ k > j
        BY <3>2
      <4>2. k \in Nat
        BY <4>1, <1>1, IdsFacts
      <4>3. k > i
        BY <3>1, <4>1, <4>2, <1>5
      <4> QED
        BY <4>1, <4>3
    <3> QED
      BY <3>2
  <2>2. Cardinality(Above(j)) <= Cardinality(Above(i))
    BY <2>0, <2>1, <1>2, FS_Subset
  <2>3. Cardinality(Above(i)) < Limit
    BY <2>0, <1>4, <1>5
  <2>4. Cardinality(Above(j)) < Limit
    <3>1. Cardinality(Above(i)) \in Nat /\ Cardinality(Above(j)) \in Nat
      BY <2>0, <1>2
    <3> HIDE DEF Above
    <3> QED
      BY <3>1, <2>2, <2>3, BridgeAssumption
  <2> QED
    BY <2>0, <2>4, <1>4, <1>5
<1>6. Newest \in [Ids -> Notices \cup {None}]
  BY <1>3 DEF TypeOK
<1>7. \A i \in Present(Newest) : i \in ids /\ Newest[i] = table[i]
  BY <1>3, <1>4 DEF Present
<1> QED
  BY <1>5, <1>6, <1>7 DEF ids

\* A renumbering gives each notification a lower id or leaves it its own.
LEMMA RankFacts ==
  ASSUME Shape
  PROVE  /\ Cardinality(Present(table)) \in Ids
         /\ \A i \in Present(table) : Rank(i) \in 1..Cardinality(Present(table)) /\ Rank(i) <= i
         /\ \A i, j \in Present(table) : Rank(i) = Rank(j) => i = j
<1> DEFINE ids == Present(table)
           Below(i) == {j \in ids : j <= i}
<1>1. ids \subseteq 1..seq /\ seq \in Nat /\ seq <= MaxId /\ MaxId \in Nat /\ ids \subseteq Ids
  BY IdsFacts DEF Shape, TypeOK, TableShape, Ids, Present
<1>2. IsFiniteSet(ids) /\ Cardinality(ids) \in Nat
  BY <1>1, IdsFacts
<1>3. \A n \in Nat : IsFiniteSet(1..n) /\ Cardinality(1..n) = n
  BY FS_Interval
<1>4. Cardinality(ids) <= seq
  <2>1. Cardinality(ids) <= Cardinality(1..seq)
    BY <1>1, <1>3, FS_Subset
  <2> QED
    BY <2>1, <1>1, <1>3
<1>5. \A i : Rank(i) = Cardinality(Below(i))
  BY DEF Rank
<1> HIDE DEF ids
<1>6. \A i : Below(i) \subseteq ids /\ IsFiniteSet(Below(i)) /\ Cardinality(Below(i)) \in Nat
            /\ Cardinality(Below(i)) <= Cardinality(ids)
  <2> TAKE i
  <2>1. Below(i) \subseteq ids
    OBVIOUS
  <2> QED
    BY <2>1, <1>2, FS_Subset, FS_CardinalityType
<1>7. ASSUME NEW i \in ids PROVE Cardinality(Below(i)) \in 1..Cardinality(ids) /\ Cardinality(Below(i)) <= i
  <2>1. i \in Nat /\ \A j \in ids : j \in Nat /\ j >= 1
    BY <1>1
  <2>2. i \in Below(i) /\ Below(i) \subseteq 1..i
    <3>1. i <= i
      BY <2>1
    <3>2. ASSUME NEW j \in Below(i) PROVE j \in 1..i
      <4>1. j \in ids /\ j <= i
        BY <3>2
      <4> QED
        BY <4>1, <2>1
    <3> QED
      BY <3>1, <3>2
  <2>3. Cardinality(Below(i)) <= i
    <3>1. Cardinality(Below(i)) <= Cardinality(1..i)
      BY <2>1, <2>2, <1>3, FS_Subset
    <3> QED
      BY <3>1, <2>1, <1>3
  <2>4. Cardinality(Below(i)) # 0
    BY <2>2, <1>6, FS_EmptySet
  <2>5. Cardinality(Below(i)) \in Nat /\ Cardinality(Below(i)) <= Cardinality(ids)
    BY <1>6
  <2> HIDE DEF Below
  <2> QED
    BY <2>3, <2>4, <2>5, <1>2
<1>8. ASSUME NEW i \in ids, NEW j \in ids, Cardinality(Below(i)) = Cardinality(Below(j)), i < j
      PROVE  FALSE
  <2>1. i \in Nat /\ j \in Nat /\ \A k \in ids : k \in Nat
    BY <1>1
  <2>2. Below(i) \subseteq Below(j) /\ j \in Below(j) /\ j \notin Below(i)
    <3>1. j <= j /\ ~(j <= i)
      BY <2>1, <1>8
    <3>2. ASSUME NEW k \in Below(i) PROVE k \in Below(j)
      <4>1. k \in ids /\ k <= i
        BY <3>2
      <4>2. k <= j
        BY <4>1, <2>1, <1>8
      <4> QED
        BY <4>1, <4>2
    <3> QED
      BY <3>1, <3>2
  <2>3. Below(i) = Below(j)
    BY <2>2, <1>6, <1>8, FS_Subset
  <2> QED
    BY <2>2, <2>3
<1>9. \A i, j \in ids : Cardinality(Below(i)) = Cardinality(Below(j)) => i = j
  <2>1. \A i \in ids : i \in Nat
    BY <1>1
  <2> SUFFICES ASSUME NEW i \in ids, NEW j \in ids, Cardinality(Below(i)) = Cardinality(Below(j)), i # j
               PROVE  FALSE
    OBVIOUS
  <2>2. i < j \/ j < i
    BY <2>1
  <2> QED
    BY <2>2, <1>8
<1>10. Cardinality(ids) \in Ids
  <2> QED
    BY <1>1, <1>2, <1>4 DEF Ids
<1> HIDE DEF Below
<1> QED
  BY <1>5, <1>7, <1>9, <1>10 DEF ids

-----------------------------------------------------------------------------
(* The shape of every state.                                               *)

\* What a renumbered table is made of.
LEMMA ResetFacts ==
  ASSUME Shape, Reset
  PROVE  /\ table' \in [Ids -> Notices \cup {None}] /\ seq' \in Ids
         /\ \A k \in Present(table') : \E i \in Present(table) :
              table'[k] = table[i] /\ k = Rank(i) /\ k <= i /\ k \in 1..seq'
<1>1. table' = [k \in Ids |-> IF \E i \in Present(table) : Rank(i) = k
                                THEN table[CHOOSE i \in Present(table) : Rank(i) = k]
                                ELSE None]
  BY DEF Reset
<1>2. seq' = Cardinality(Present(table))
  BY DEF Reset
<1>3. \A k : (\E i \in Present(table) : Rank(i) = k)
            => LET i == CHOOSE i \in Present(table) : Rank(i) = k
               IN i \in Present(table) /\ Rank(i) = k
  OBVIOUS
<1>4. table \in [Ids -> Notices \cup {None}] /\ Present(table) \subseteq Ids
  BY DEF Shape, TypeOK, Present
<1>5. table' \in [Ids -> Notices \cup {None}]
  BY <1>1, <1>3, <1>4
<1>6. ASSUME NEW k \in Present(table')
      PROVE  \E i \in Present(table) :
               table'[k] = table[i] /\ k = Rank(i) /\ k <= i /\ k \in 1..seq'
  <2>1. k \in Ids /\ table'[k] # None
    BY <1>6 DEF Present
  <2>2. PICK i \in Present(table) : Rank(i) = k /\ table'[k] = table[i]
    BY <1>1, <1>3, <2>1
  <2>3. Rank(i) \in 1..Cardinality(Present(table)) /\ Rank(i) <= i
    BY RankFacts
  <2> QED
    BY <1>2, <2>2, <2>3
<1> QED
  BY <1>2, <1>5, <1>6, RankFacts

LEMMA TypeStep ==
  ASSUME Shape, [Next]_vars
  PROVE  TypeOK'
<1> USE BridgeAssumption
<1>0. TypeOK /\ MainShape
  BY DEF Shape
<1>1. ASSUME NEW s \in Notices, Notify(s) PROVE TypeOK'
  <2>1. seq + 1 \in Ids
    BY <1>0, <1>1, IdsFacts DEF TypeOK, Notify, Ids
  <2>2. dropped' \subseteq Notices
    <3>1. \A i \in Present(table) : table[i] \in Notices
      BY <1>0 DEF TypeOK, Present
    <3> QED
      BY <1>0, <1>1, <3>1 DEF TypeOK, Notify
  <2> QED
    BY <1>0, <1>1, <2>1, <2>2 DEF TypeOK, Notify
<1>2. ASSUME NEW i \in Ids, NEW j \in Ids, Delete(i, j) PROVE TypeOK'
  BY <1>0, <1>2 DEF TypeOK, Delete, ghosts
<1>3. CASE Reset
  BY <1>0, <1>3, ResetFacts DEF TypeOK, Reset, ghosts
<1>4. CASE Start
  BY <1>0, <1>4 DEF TypeOK, Start, mastodon, ghosts
<1>5. ASSUME NEW i \in Ids, InitCursor(i) PROVE TypeOK'
  <2>1. history' \subseteq Notices
    BY <1>0, <1>5 DEF TypeOK, InitCursor, Present
  <2> QED
    BY <1>0, <1>5, <2>1 DEF TypeOK, InitCursor, mastodon
<1>6. CASE Poll
  <2>1. batch' \in [Ids -> Notices \cup {None}]
    BY <1>0, <1>6, NewestFacts DEF Poll, Unseen
  <2>2. last' \in Ids \cup {None} /\ cursor' \in Ids \cup {None}
    BY <1>0, <1>6, IdsFacts DEF Poll, TypeOK
  <2> QED
    BY <1>0, <1>6, <2>1, <2>2 DEF TypeOK, Poll, mastodon, ghosts
<1>7. CASE RewindFails
  BY <1>0, <1>7, IdsFacts DEF TypeOK, RewindFails, mastodon, ghosts
<1>8. ASSUME NEW i \in Ids, Advance(i) PROVE TypeOK'
  BY <1>0, <1>8 DEF TypeOK, Advance, mastodon, ghosts
<1>9. ASSUME NEW i \in Ids, AdvanceFails(i) PROVE TypeOK'
  <2>1. batch[i] \in Notices
    BY <1>0, <1>9 DEF TypeOK, AdvanceFails, Follows, Present
  <2> QED
    BY <1>0, <1>9, <2>1 DEF TypeOK, AdvanceFails, Nothing, mastodon
<1>10. CASE EndScan
  BY <1>0, <1>10 DEF TypeOK, EndScan, mastodon, ghosts
<1>11. CASE Ask
  BY <1>0, <1>11 DEF TypeOK, MainShape, Ask, mastodon
<1>12. CASE Post
  BY <1>0, <1>12 DEF TypeOK, MainShape, Post, mastodon, ghosts
<1>13. CASE Crash
  BY <1>0, <1>13 DEF TypeOK, Crash, Nothing, mastodon
<1>14. CASE UNCHANGED vars
  BY <1>0, <1>14 DEF TypeOK, vars, mastodon, ghosts
<1> QED
  BY <1>1, <1>2, <1>3, <1>4, <1>5, <1>6, <1>7, <1>8, <1>9, <1>10, <1>11, <1>12, <1>13, <1>14
     DEF Next, Bridge

LEMMA MainStep ==
  ASSUME Shape, [Next]_vars
  PROVE  MainShape'
<1> USE DEF MainShape, mastodon, ghosts
<1>0. TypeOK /\ MainShape /\ None \notin Mentions
  BY BridgeAssumption DEF Shape
<1>1. ASSUME NEW s \in Notices, Notify(s) PROVE MainShape'
  BY <1>0, <1>1 DEF Notify
<1>2. ASSUME NEW i \in Ids, NEW j \in Ids, Delete(i, j) PROVE MainShape'
  BY <1>0, <1>2 DEF Delete
<1>3. CASE Reset
  BY <1>0, <1>3 DEF Reset
<1>4. CASE Start
  BY <1>0, <1>4 DEF Start, TypeOK
<1>5. ASSUME NEW i \in Ids, InitCursor(i) PROVE MainShape'
  BY <1>0, <1>5 DEF InitCursor
<1>6. CASE Poll
  BY <1>0, <1>6, IdsFacts DEF Poll
<1>7. CASE RewindFails
  BY <1>0, <1>7, IdsFacts DEF RewindFails
<1>8. ASSUME NEW i \in Ids, Advance(i) PROVE MainShape'
  BY <1>0, <1>8 DEF Advance
<1>9. ASSUME NEW i \in Ids, AdvanceFails(i) PROVE MainShape'
  BY <1>0, <1>9 DEF AdvanceFails
<1>10. CASE EndScan
  <2>1. batch' = Nothing
    BY <1>0, <1>10 DEF EndScan, TypeOK, Present, Nothing
  <2> QED
    BY <1>0, <1>10, <2>1 DEF EndScan
<1>11. CASE Ask
  BY <1>0, <1>11 DEF Ask
<1>12. CASE Post
  BY <1>0, <1>12 DEF Post
<1>13. CASE Crash
  BY <1>0, <1>13 DEF Crash
<1>14. CASE UNCHANGED vars
  BY <1>0, <1>14 DEF vars
<1> QED
  BY <1>1, <1>2, <1>3, <1>4, <1>5, <1>6, <1>7, <1>8, <1>9, <1>10, <1>11, <1>12, <1>13, <1>14
     DEF Next, Bridge

\* A page in hand that only loses notifications keeps its shape.
LEMMA HandStep ==
  ASSUME Shape, UNCHANGED mastodon,
         \A b \in Present(batch') : b \in Present(batch) /\ batch'[b] = batch[b]
  PROVE  TableShape'
<1>1. TableShape
  BY DEF Shape
<1>2. /\ Present(table') = Present(table) /\ table' = table
      /\ seq' = seq /\ unposted' = unposted
  BY DEF mastodon
<1> QED
  BY <1>1, <1>2 DEF TableShape

LEMMA TableStep ==
  ASSUME Shape, [Next]_vars
  PROVE  TableShape'
<1>0. TypeOK /\ MainShape /\ TableShape
  BY DEF Shape
<1>0a. Present(Nothing) = {}
  BY DEF Present, Nothing
<1>1. ASSUME NEW s \in Notices, Notify(s) PROVE TableShape'
  <2>1. /\ seq \in Nat /\ seq + 1 \in Ids /\ s # None
        /\ seq' = seq + 1 /\ unposted' = unposted \ {s} /\ s \in unposted
        /\ batch' = batch
    BY <1>0, <1>1, IdsFacts, BridgeAssumption DEF TypeOK, Notify, Ids
  <2>2. \A i \in Ids : table'[i] = IF i = seq + 1 THEN s ELSE table[i]
    BY <1>0, <1>1 DEF Notify, TypeOK
  <2>3. seq + 1 \notin Present(table)
    BY <1>0, <2>1 DEF TableShape
  <2>4. Present(table') = Present(table) \cup {seq + 1}
    BY <2>1, <2>2 DEF Present
  <2>5. \A i \in Present(table) : i \in Ids /\ table'[i] = table[i] /\ table[i] # s
    BY <1>0, <2>1, <2>2, <2>3 DEF TableShape, Present
  <2>6. table'[seq + 1] = s
    BY <2>1, <2>2
  <2>7. \A b \in Present(batch) : batch[b] # s
    BY <1>0, <2>1 DEF TableShape
  <2>8. \A i \in Present(table') : i \in 1..seq'
    BY <1>0, <2>1, <2>4 DEF TableShape
  <2>9. \A i, j \in Present(table') : table'[i] = table'[j] => i = j
    BY <1>0, <2>4, <2>5, <2>6 DEF TableShape
  <2>10. \A i \in Present(table') : table'[i] \notin unposted'
    BY <1>0, <2>1, <2>4, <2>5, <2>6 DEF TableShape
  <2>11. \A b \in Present(batch), t \in Present(table') : batch[b] = table'[t] => t <= b
    BY <1>0, <2>4, <2>5, <2>6, <2>7 DEF TableShape
  <2> QED
    BY <1>0, <2>1, <2>8, <2>9, <2>10, <2>11 DEF TableShape
<1>2. ASSUME NEW i \in Ids, NEW j \in Ids, Delete(i, j) PROVE TableShape'
  <2>1. \A k \in Ids : table'[k] = IF k \in {i, j} THEN None ELSE table[k]
    BY <1>0, <1>2 DEF Delete, TypeOK
  <2>2. \A k \in Present(table') : k \in Present(table) /\ table'[k] = table[k]
    BY <2>1 DEF Present
  <2>3. seq' = seq /\ unposted' = unposted /\ batch' = batch
    BY <1>2 DEF Delete
  <2> QED
    BY <1>0, <2>2, <2>3 DEF TableShape
<1>3. CASE Reset
  <2>1. unposted' = unposted /\ batch' = batch
    BY <1>3 DEF Reset
  <2>2. \A k \in Present(table') : \E i \in Present(table) :
          table'[k] = table[i] /\ k = Rank(i) /\ k <= i /\ k \in 1..seq'
    BY <1>3, ResetFacts
  <2>3. \A i, j \in Present(table') : table'[i] = table'[j] => i = j
    BY <1>0, <2>2 DEF TableShape
  <2>4. \A i \in Present(table') : table'[i] \notin unposted'
    BY <1>0, <2>1, <2>2 DEF TableShape
  <2>5. ASSUME NEW b \in Present(batch), NEW t \in Present(table'), batch[b] = table'[t]
        PROVE  t <= b
    <3>1. PICK i \in Present(table) : table'[t] = table[i] /\ t <= i
      BY <2>2
    <3>2. i <= b
      BY <1>0, <2>5, <3>1 DEF TableShape
    <3>3. i \in Nat /\ b \in Nat /\ t \in Nat
      BY IdsFacts DEF Present
    <3> QED
      BY <3>1, <3>2, <3>3
  <2> QED
    BY <1>0, <2>1, <2>2, <2>3, <2>4, <2>5 DEF TableShape
<1>4. CASE Start
  BY <1>4, HandStep DEF Start
<1>5. ASSUME NEW i \in Ids, InitCursor(i) PROVE TableShape'
  BY <1>5, HandStep DEF InitCursor
<1>6. CASE Poll
  <2>1. \A b \in Present(batch') : b \in Present(table) /\ batch'[b] = table[b]
    <3>1. \A b \in Present(batch') : b \in Present(Newest) /\ batch'[b] = Newest[b]
      BY <1>6 DEF Poll, Unseen, Present
    <3> QED
      BY <1>0, <3>1, NewestFacts
  <2>2. table' = table /\ seq' = seq /\ unposted' = unposted
    BY <1>6 DEF Poll, mastodon
  <2>3. \A b \in Present(table) : b \in Nat /\ b # 0 /\ b <= b
    <3>1. \A b \in Present(table) : b \in 1..seq /\ b \in Nat
      BY <1>0, IdsFacts DEF TableShape, Present
    <3>2. seq \in Nat
      BY <1>0, IdsFacts DEF TypeOK
    <3> QED
      BY <3>1, <3>2
  <2> QED
    BY <1>0, <2>1, <2>2, <2>3 DEF TableShape
<1>7. CASE RewindFails
  BY <1>7, HandStep DEF RewindFails
<1>8. ASSUME NEW i \in Ids, Advance(i) PROVE TableShape'
  <2>1. \A b \in Present(batch') : b \in Present(batch) /\ batch'[b] = batch[b]
    BY <1>0, <1>8 DEF Advance, Present, TypeOK
  <2> QED
    BY <1>8, <2>1, HandStep DEF Advance
<1>9. ASSUME NEW i \in Ids, AdvanceFails(i) PROVE TableShape'
  BY <1>9, <1>0a, HandStep DEF AdvanceFails
<1>10. CASE EndScan
  BY <1>10, HandStep DEF EndScan
<1>11. CASE Ask
  BY <1>11, HandStep DEF Ask
<1>12. CASE Post
  BY <1>12, HandStep DEF Post
<1>13. CASE Crash
  BY <1>13, <1>0a, HandStep DEF Crash
<1>14. CASE UNCHANGED vars
  BY <1>14, HandStep DEF vars
<1> QED
  BY <1>1, <1>2, <1>3, <1>4, <1>5, <1>6, <1>7, <1>8, <1>9, <1>10, <1>11, <1>12, <1>13, <1>14
     DEF Next, Bridge

-----------------------------------------------------------------------------
(* The budget of replies.                                                  *)

LEMMA Ranges ==
  /\ \A b : One(b) \in 0..1
  /\ \A t, q, u, b, p, s :
       /\ Held(b, s) => ToCome(t, q, u, b, p, s) \in 1..2
       /\ ~Held(b, s) => ToCome(t, q, u, b, p, s) \in 0..1
<1>1. \A b : One(b) \in 0..1
  BY DEF One
<1>2. ASSUME NEW t, NEW q, NEW u, NEW b, NEW p, NEW s
      PROVE  /\ Held(b, s) => ToCome(t, q, u, b, p, s) \in 1..2
             /\ ~Held(b, s) => ToCome(t, q, u, b, p, s) \in 0..1
  <2>1. CASE Held(b, s)
    <3>1. PICK n \in 0..1 : n = One(\E i \in Present(b) : Stale(t, q, i))
      BY <1>1
    <3>2. ToCome(t, q, u, b, p, s) = 1 + n
      BY <2>1, <3>1 DEF ToCome
    <3> QED
      BY <2>1, <3>2
  <2>2. CASE ~Held(b, s)
    <3>1. ToCome(t, q, u, b, p, s) = One(\E c \in Present(b) \cup {p} : Ahead(t, q, u, c, s))
      BY <2>2 DEF ToCome
    <3> QED
      BY <2>2, <3>1, <1>1
  <2> QED
    BY <2>1, <2>2
<1> QED
  BY <1>1, <1>2

\* What the budget of one notice is computed from.
LEMMA Counted ==
  ASSUME TypeOK, NEW s \in Notices
  PROVE  /\ Given(s) \in Nat /\ resets \in Nat /\ deletes \in Nat
         /\ One(Ahead(table, seq, unposted, cursor, s)) \in 0..1
         /\ ToCome(table, seq, unposted, batch, last, s) \in 0..2
<1>1. replies[s] \in Nat /\ resets \in Nat /\ deletes \in Nat
  BY BridgeAssumption DEF TypeOK
<1>2. One(cur = s) \in 0..1
  BY Ranges
<1>3. Given(s) \in Nat
  BY <1>1, <1>2 DEF Given
<1>4. ToCome(table, seq, unposted, batch, last, s) \in 0..2
  BY Ranges
<1> QED
  BY <1>1, <1>3, <1>4, Ranges

\* A post to come is counted before it notifies anyone.
LEMMA NotifyBudget ==
  ASSUME Shape, ReplyBudget, NEW n \in Notices, Notify(n), NEW s \in Notices
  PROVE  /\ One(Ahead(table, seq, unposted, cursor, s))' <= One(Ahead(table, seq, unposted, cursor, s))
         /\ pc # "down" => ToCome(table, seq, unposted, batch, last, s)'
                            <= ToCome(table, seq, unposted, batch, last, s)
<1>0. TypeOK /\ MainShape /\ TableShape
  BY DEF Shape
<1>1. /\ seq \in Nat /\ seq + 1 \in Ids /\ n # None /\ n \in unposted
      /\ seq' = seq + 1 /\ unposted' = unposted \ {n}
      /\ batch' = batch /\ last' = last /\ cursor' = cursor
  BY <1>0, IdsFacts, BridgeAssumption DEF TypeOK, Notify, Ids
<1>2. \A i \in Ids : table'[i] = IF i = seq + 1 THEN n ELSE table[i]
  BY <1>0 DEF Notify, TypeOK
<1>3. Present(table') = Present(table) \cup {seq + 1}
  <2>1. seq + 1 \notin Present(table)
    BY <1>0, <1>1 DEF TableShape
  <2> QED
    BY <1>1, <1>2 DEF Present
<1>4. \A i \in Present(table) : i \in 1..seq /\ i \in Nat
  BY <1>0, IdsFacts DEF TableShape, Present
<1>5. ASSUME NEW p \in Nat, Stale(table', seq', p)
      PROVE  Stale(table, seq, p)
  <2>1. p # 0 /\ (p > seq + 1 \/ seq + 1 < p)
    BY <1>1, <1>3, <1>5 DEF Stale
  <2> QED
    BY <2>1, <1>1 DEF Stale
<1>6. ASSUME NEW p \in Nat \cup {None}, Ahead(table', seq', unposted', p, s)
      PROVE  Ahead(table, seq, unposted, p, s)
  <2>1. CASE p = None \/ p = 0 \/ s \in unposted'
    BY <2>1, <1>1 DEF Ahead
  <2>2. CASE p \in Nat /\ Stale(table', seq', p)
    BY <2>2, <1>5 DEF Ahead
  <2>3. CASE \E i \in Present(table') : table'[i] = s /\ i > p
    <3>1. PICK i \in Present(table') : table'[i] = s /\ i > p
      BY <2>3
    <3>2. CASE i = seq + 1
      <4>1. s = n
        BY <3>1, <3>2, <1>1, <1>2
      <4> QED
        BY <4>1, <1>1 DEF Ahead
    <3>3. CASE i # seq + 1
      <4>1. i \in Present(table) /\ table[i] = s
        BY <3>1, <3>3, <1>2, <1>3 DEF Present
      <4> QED
        BY <3>1, <4>1 DEF Ahead
    <3> QED
      BY <3>2, <3>3
  <2> QED
    BY <2>1, <2>2, <2>3, <1>6 DEF Ahead
<1>7. cursor \in Nat \cup {None} /\ last \in Nat \cup {None} /\ Present(batch) \subseteq Nat
  BY <1>0, IdsFacts DEF TypeOK, Present
<1>8. Ahead(table', seq', unposted', cursor', s) => Ahead(table, seq, unposted, cursor, s)
  BY <1>1, <1>6, <1>7
<1>9. One(Ahead(table', seq', unposted', cursor', s)) <= One(Ahead(table, seq, unposted, cursor, s))
  BY <1>8 DEF One
<1>10. (\E i \in Present(batch) : Stale(table', seq', i))
         => \E i \in Present(batch) : Stale(table, seq, i)
  BY <1>5, <1>7
<1>11. (\E c \in Present(batch) \cup {last} : Ahead(table', seq', unposted', c, s))
         => \E c \in Present(batch) \cup {last} : Ahead(table, seq, unposted, c, s)
  BY <1>6, <1>7
<1>12. One(\E i \in Present(batch) : Stale(table', seq', i))
         <= One(\E i \in Present(batch) : Stale(table, seq, i))
  BY <1>10 DEF One
<1>13. One(\E c \in Present(batch) \cup {last} : Ahead(table', seq', unposted', c, s))
         <= One(\E c \in Present(batch) \cup {last} : Ahead(table, seq, unposted, c, s))
  BY <1>11 DEF One
<1>14. ToCome(table', seq', unposted', batch', last', s)
         <= ToCome(table, seq, unposted, batch, last, s)
  <2>1. batch' = batch /\ last' = last
    BY <1>1
  <2>2. One(\E i \in Present(batch) : Stale(table', seq', i)) \in 0..1
        /\ One(\E i \in Present(batch) : Stale(table, seq, i)) \in 0..1
    BY Ranges
  <2>3. CASE Held(batch, s)
    <3>1. ToCome(table', seq', unposted', batch', last', s)
            = 1 + One(\E i \in Present(batch) : Stale(table', seq', i))
      BY <2>1, <2>3 DEF ToCome
    <3>2. ToCome(table, seq, unposted, batch, last, s)
            = 1 + One(\E i \in Present(batch) : Stale(table, seq, i))
      BY <2>3 DEF ToCome
    <3>3. \A x, y \in 0..1 : x <= y => 1 + x <= 1 + y
      OBVIOUS
    <3> QED
      BY <3>1, <3>2, <3>3, <2>2, <1>12
  <2>4. CASE ~Held(batch, s)
    <3>1. ToCome(table', seq', unposted', batch', last', s)
            = One(\E c \in Present(batch) \cup {last} : Ahead(table', seq', unposted', c, s))
      BY <2>1, <2>4 DEF ToCome
    <3>2. ToCome(table, seq, unposted, batch, last, s)
            = One(\E c \in Present(batch) \cup {last} : Ahead(table, seq, unposted, c, s))
      BY <2>4 DEF ToCome
    <3> QED
      BY <3>1, <3>2, <1>13
  <2> QED
    BY <2>3, <2>4
<1> QED
  BY <1>9, <1>14

\* With an empty hand only the cursor counts.
LEMMA EmptyHand ==
  ASSUME NEW t, NEW q, NEW u, NEW p, NEW s
  PROVE  /\ ~Held(Nothing, s)
         /\ ToCome(t, q, u, Nothing, p, s) = One(Ahead(t, q, u, p, s))
<1>1. Present(Nothing) = {}
  BY DEF Present, Nothing
<1>2. ~Held(Nothing, s)
  BY <1>1 DEF Held
<1>3. (\E c \in Present(Nothing) \cup {p} : Ahead(t, q, u, c, s)) <=> Ahead(t, q, u, p, s)
  BY <1>1
<1> QED
  BY <1>2, <1>3 DEF ToCome, One

\* A notification in the table is not newer than itself.
LEMMA NotStale ==
  ASSUME Shape, NEW p \in Present(table)
  PROVE  ~Stale(table, seq, p)
<1>1. p \in 1..seq /\ seq \in Nat /\ p \in Nat
  BY IdsFacts DEF Shape, TypeOK, TableShape
<1> QED
  BY <1>1 DEF Stale

\* A cursor that is rewound is one that counts as left over.
LEMMA BehindStale ==
  ASSUME Shape, Behind, pc = "poll"
  PROVE  Stale(table, seq, last)
<1>1. TypeOK /\ last \in Nat
  BY IdsFacts DEF Shape, MainShape
<1>2. ASSUME NEW i \in Present(table) PROVE i < last
  <2>1. PICK j \in Present(Newest) : j < last
    BY DEF Behind
  <2>2. i \in Nat /\ j \in Nat
    BY IdsFacts DEF Present
  <2>3. CASE i > j
    <3>1. i \in Present(Newest)
      BY <2>1, <2>3, <1>1, NewestFacts
    <3> QED
      BY <3>1 DEF Behind
  <2> QED
    BY <2>1, <2>2, <2>3, <1>1
<1>3. Present(table) # {}
  BY <1>1, NewestFacts DEF Behind
<1> QED
  BY <1>2, <1>3 DEF Stale, Behind

\* The page that a poll takes in hand promises no more replies than the cursor
\* it was taken with.
LEMMA PollBudget ==
  ASSUME Shape, Poll, NEW s \in Notices
  PROVE  /\ ToCome(table, seq, unposted, batch', last', s)
               <= ToCome(table, seq, unposted, batch, last, s)
         /\ \/ cursor' = cursor
            \/ ToCome(table, seq, unposted, batch, last, s) = 1
<1>0. TypeOK /\ MainShape /\ TableShape
  BY DEF Shape
<1>1. batch = Nothing /\ last \in Ids /\ last \in Nat /\ last # None
  BY <1>0, IdsFacts DEF MainShape, Poll
<1>2. ToCome(table, seq, unposted, batch, last, s) = One(Ahead(table, seq, unposted, last, s))
  BY <1>1, EmptyHand
<1>3. /\ \A b \in Present(batch') : b \in Present(Newest) /\ batch'[b] = Newest[b]
      /\ ~Behind => \A b \in Present(batch') : last = 0 \/ b > last
  BY DEF Poll, Unseen, Present
<1>4. \A b \in Present(batch') : b \in Present(table) /\ batch'[b] = table[b] /\ b # 0 /\ b \in Nat
  <2>1. \A b \in Present(batch') : b \in Present(table) /\ batch'[b] = table[b]
    BY <1>0, <1>3, NewestFacts
  <2>2. \A b \in Present(table) : b \in 1..seq /\ b \in Nat
    BY <1>0, IdsFacts DEF TableShape, Present
  <2>3. seq \in Nat
    BY <1>0, IdsFacts DEF TypeOK
  <2> QED
    BY <2>1, <2>2, <2>3
<1>5. \A b \in Present(batch') : ~Stale(table, seq, b)
  BY <1>4, NotStale
<1>6. Held(batch', s) => ToCome(table, seq, unposted, batch', last', s) = 1
  BY <1>5 DEF ToCome, One
<1>7. ToCome(table, seq, unposted, batch', last', s) \in 0..1
  BY <1>6, Ranges
<1>8. CASE Behind
  <2>3. Stale(table, seq, last)
    BY <1>8, BehindStale DEF Poll
  <2>4. One(Ahead(table, seq, unposted, last, s)) = 1
    BY <2>3 DEF Ahead, One
  <2> QED
    BY <2>4, <1>2, <1>7
<1>9. CASE ~Behind
  <2>1. last' = last /\ cursor' = cursor
    BY <1>9 DEF Poll
  <2>2. CASE Ahead(table, seq, unposted, last, s)
    <3>1. One(Ahead(table, seq, unposted, last, s)) = 1
      BY <2>2 DEF One
    <3> QED
      BY <3>1, <2>1, <1>2, <1>7
  <2>3. CASE ~Ahead(table, seq, unposted, last, s)
    <3>1. last # 0 /\ s \notin unposted /\ \A i \in Present(table) : table[i] = s => ~(i > last)
      BY <2>3 DEF Ahead
    <3>2. ~Held(batch', s)
      BY <3>1, <1>3, <1>4, <1>9 DEF Held
    <3>3. \A c \in Present(batch') : ~Ahead(table, seq, unposted, c, s)
      <4> SUFFICES ASSUME NEW c \in Present(batch'), Ahead(table, seq, unposted, c, s)
                   PROVE  FALSE
        OBVIOUS
      <4>1. c \in Nat /\ c # 0 /\ c > last /\ ~Stale(table, seq, c) /\ c # None
        BY <3>1, <1>3, <1>4, <1>5, <1>9, BridgeAssumption
      <4>2. PICK i \in Present(table) : table[i] = s /\ i > c
        BY <4>1, <3>1 DEF Ahead
      <4>3. i \in Nat
        BY IdsFacts DEF Present
      <4>4. i > last
        BY <4>1, <4>2, <4>3, <1>1
      <4> QED
        BY <4>2, <4>4, <3>1
    <3>4. ~\E c \in Present(batch') \cup {last'} : Ahead(table, seq, unposted, c, s)
      BY <3>3, <2>1, <2>3
    <3>5. ToCome(table, seq, unposted, batch', last', s) = 0
      BY <3>2, <3>4 DEF ToCome, One
    <3>6. One(Ahead(table, seq, unposted, last, s)) = 0
      BY <2>3 DEF One
    <3> QED
      BY <3>5, <3>6, <2>1, <1>2
  <2> QED
    BY <2>2, <2>3
<1> QED
  BY <1>8, <1>9

\* A notification that is dealt with takes its own reply out of what is to come;
\* the cursor it leaves behind was counted with the page.
LEMMA AdvanceBudget ==
  ASSUME Shape, NEW i \in Ids, Follows(i), pc = "scan",
         NEW b, \A j \in Present(b) : j \in Present(batch) /\ j # i /\ b[j] = batch[j],
         NEW s \in Notices
  PROVE  /\ ToCome(table, seq, unposted, b, i, s) + One(batch[i] = s)
               <= ToCome(table, seq, unposted, batch, last, s)
         /\ One(Ahead(table, seq, unposted, i, s)) + One(batch[i] = s)
               <= ToCome(table, seq, unposted, batch, last, s)
<1>0. TypeOK /\ MainShape /\ TableShape
  BY DEF Shape
<1>1. i \in Present(batch) /\ \A j \in Present(batch) : i <= j /\ j \in Nat /\ j # 0 /\ j # None
  BY <1>0, IdsFacts DEF Follows, TableShape, Present
<1>2. CASE batch[i] = s
  <2>1. One(batch[i] = s) = 1
    BY <1>2 DEF One
  <2>2. Held(batch, s) /\ s \notin unposted
    BY <1>0, <1>1, <1>2 DEF Held, TableShape
  <2>3. ~Held(b, s)
    BY <1>0, <1>1, <1>2 DEF Held, TableShape
  <2>4. \A t \in Present(table) : table[t] = s => t <= i
    BY <1>0, <1>1, <1>2 DEF TableShape
  <2>5. ASSUME NEW c \in Present(batch), Ahead(table, seq, unposted, c, s)
        PROVE  Stale(table, seq, c)
    <3>1. ~\E t \in Present(table) : table[t] = s /\ t > c
      <4> SUFFICES ASSUME NEW t \in Present(table), table[t] = s, t > c
                   PROVE  FALSE
        OBVIOUS
      <4>1. t \in Nat /\ i \in Nat /\ c \in Nat /\ t <= i /\ i <= c
        BY <2>4, <1>1, IdsFacts DEF Present
      <4> QED
        BY <4>1
    <3> QED
      BY <3>1, <2>2, <2>5, <1>1 DEF Ahead
  <2>6. \A c \in Present(b) \cup {i} : c \in Present(batch)
    BY <1>1
  <2>7. One(\E c \in Present(b) \cup {i} : Ahead(table, seq, unposted, c, s))
          <= One(\E j \in Present(batch) : Stale(table, seq, j))
    BY <2>5, <2>6 DEF One
  <2>8. One(Ahead(table, seq, unposted, i, s))
          <= One(\E j \in Present(batch) : Stale(table, seq, j))
    BY <2>5, <1>1 DEF One
  <2>9. ToCome(table, seq, unposted, batch, last, s)
          = 1 + One(\E j \in Present(batch) : Stale(table, seq, j))
    BY <2>2 DEF ToCome
  <2>10. ToCome(table, seq, unposted, b, i, s)
          = One(\E c \in Present(b) \cup {i} : Ahead(table, seq, unposted, c, s))
    BY <2>3 DEF ToCome
  <2>11. \A x, y \in 0..1 : x <= y => x + 1 <= 1 + y
    OBVIOUS
  <2>12. /\ One(\E j \in Present(batch) : Stale(table, seq, j)) \in 0..1
         /\ One(\E c \in Present(b) \cup {i} : Ahead(table, seq, unposted, c, s)) \in 0..1
         /\ One(Ahead(table, seq, unposted, i, s)) \in 0..1
    BY Ranges
  <2>13. ToCome(table, seq, unposted, b, i, s) + 1 <= ToCome(table, seq, unposted, batch, last, s)
    BY <2>7, <2>9, <2>10, <2>11, <2>12
  <2>14. One(Ahead(table, seq, unposted, i, s)) + 1 <= ToCome(table, seq, unposted, batch, last, s)
    BY <2>8, <2>9, <2>11, <2>12
  <2> QED
    BY <2>1, <2>13, <2>14
<1>3. CASE batch[i] # s
  <2>1. One(batch[i] = s) = 0
    BY <1>3 DEF One
  <2>2. CASE Held(batch, s)
    <3>1. ToCome(table, seq, unposted, batch, last, s)
            = 1 + One(\E j \in Present(batch) : Stale(table, seq, j))
      BY <2>2 DEF ToCome
    <3>2. CASE Held(b, s)
      <4>1. ToCome(table, seq, unposted, b, i, s)
              = 1 + One(\E j \in Present(b) : Stale(table, seq, j))
        BY <3>2 DEF ToCome
      <4>2. One(\E j \in Present(b) : Stale(table, seq, j))
              <= One(\E j \in Present(batch) : Stale(table, seq, j))
        BY DEF One
      <4>3. /\ One(\E j \in Present(batch) : Stale(table, seq, j)) \in 0..1
            /\ One(\E j \in Present(b) : Stale(table, seq, j)) \in 0..1
            /\ One(Ahead(table, seq, unposted, i, s)) \in 0..1
        BY Ranges
      <4>4. \A x, y \in 0..1 : x <= y => 1 + x + 0 <= 1 + y
        OBVIOUS
      <4> QED
        <5>1. ToCome(table, seq, unposted, b, i, s) + 0
                <= ToCome(table, seq, unposted, batch, last, s)
          BY <4>1, <4>2, <4>3, <4>4, <3>1
        <5>2. One(Ahead(table, seq, unposted, i, s)) + 0
                <= ToCome(table, seq, unposted, batch, last, s)
          <6>1. ToCome(table, seq, unposted, batch, last, s) \in 1..2
            BY <2>2, Ranges
          <6>2. \A z \in 0..1, y \in 1..2 : z + 0 <= y
            OBVIOUS
          <6> QED
            BY <6>1, <6>2, <4>3
        <5> QED
          BY <5>1, <5>2, <2>1
    <3>3. CASE ~Held(b, s)
      <4>1. /\ ToCome(table, seq, unposted, b, i, s) \in 0..1
            /\ ToCome(table, seq, unposted, batch, last, s) \in 1..2
            /\ One(Ahead(table, seq, unposted, i, s)) \in 0..1
        BY <3>3, <2>2, Ranges
      <4>2. \A x, z \in 0..1, y \in 1..2 : x + 0 <= y /\ z + 0 <= y
        OBVIOUS
      <4> QED
        BY <4>1, <4>2, <2>1
    <3> QED
      BY <3>2, <3>3
  <2>3. CASE ~Held(batch, s)
    <3>1. ~Held(b, s)
      BY <2>3 DEF Held
    <3>2. ToCome(table, seq, unposted, batch, last, s)
            = One(\E c \in Present(batch) \cup {last} : Ahead(table, seq, unposted, c, s))
      BY <2>3 DEF ToCome
    <3>3. ToCome(table, seq, unposted, b, i, s)
            = One(\E c \in Present(b) \cup {i} : Ahead(table, seq, unposted, c, s))
      BY <3>1 DEF ToCome
    <3>4. One(\E c \in Present(b) \cup {i} : Ahead(table, seq, unposted, c, s))
            <= One(\E c \in Present(batch) \cup {last} : Ahead(table, seq, unposted, c, s))
      BY <1>1 DEF One
    <3>5. One(Ahead(table, seq, unposted, i, s))
            <= One(\E c \in Present(batch) \cup {last} : Ahead(table, seq, unposted, c, s))
      BY <1>1 DEF One
    <3>6. /\ One(\E c \in Present(batch) \cup {last} : Ahead(table, seq, unposted, c, s)) \in 0..1
          /\ One(\E c \in Present(b) \cup {i} : Ahead(table, seq, unposted, c, s)) \in 0..1
          /\ One(Ahead(table, seq, unposted, i, s)) \in 0..1
      BY Ranges
    <3>7. \A x, y \in 0..1 : x <= y => x + 0 <= y
      OBVIOUS
    <3> QED
      <4>1. ToCome(table, seq, unposted, b, i, s) + 0
              <= ToCome(table, seq, unposted, batch, last, s)
        BY <3>2, <3>3, <3>4, <3>6, <3>7
      <4>2. One(Ahead(table, seq, unposted, i, s)) + 0
              <= ToCome(table, seq, unposted, batch, last, s)
        BY <3>2, <3>5, <3>6, <3>7
      <4> QED
        BY <4>1, <4>2, <2>1
  <2> QED
    BY <2>2, <2>3
<1> QED
  BY <1>2, <1>3

\* A step of the bridge keeps the budget if what it gives and what can still
\* come of it were covered by what could come of the page or of the cursor.
LEMMA BudgetKept ==
  ASSUME Shape, UNCHANGED mastodon, NEW s \in Notices, Given(s)' \in Nat,
         Given(s) + One(Ahead(table, seq, unposted, cursor, s)) <= 1 + resets + deletes,
         pc # "down" =>
           Given(s) + ToCome(table, seq, unposted, batch, last, s) <= 1 + resets + deletes,
         \/ Given(s)' + One(Ahead(table, seq, unposted, cursor', s))
              <= Given(s) + One(Ahead(table, seq, unposted, cursor, s))
         \/ /\ pc # "down"
            /\ Given(s)' + One(Ahead(table, seq, unposted, cursor', s))
                 <= Given(s) + ToCome(table, seq, unposted, batch, last, s),
         \/ pc' = "down"
         \/ /\ pc # "down"
            /\ Given(s)' + ToCome(table, seq, unposted, batch', last', s)
                 <= Given(s) + ToCome(table, seq, unposted, batch, last, s)
         \/ Given(s)' + ToCome(table, seq, unposted, batch', last', s)
              <= Given(s) + One(Ahead(table, seq, unposted, cursor, s))
  PROVE  /\ Given(s)' + One(Ahead(table', seq', unposted', cursor', s)) <= 1 + resets' + deletes'
         /\ pc' # "down" =>
              Given(s)' + ToCome(table', seq', unposted', batch', last', s) <= 1 + resets' + deletes'
<1>1. table' = table /\ seq' = seq /\ unposted' = unposted /\ resets' = resets /\ deletes' = deletes
  BY DEF mastodon
<1>2. /\ Given(s) \in Nat /\ resets \in Nat /\ deletes \in Nat
      /\ One(Ahead(table, seq, unposted, cursor, s)) \in 0..1
      /\ ToCome(table, seq, unposted, batch, last, s) \in 0..2
  BY Counted DEF Shape
<1>3. /\ One(Ahead(table, seq, unposted, cursor', s)) \in 0..1
      /\ ToCome(table, seq, unposted, batch', last', s) \in 0..2
  BY Ranges
<1>4. 1 + resets + deletes \in Nat
  BY <1>2
<1>5. Given(s)' + One(Ahead(table, seq, unposted, cursor', s)) <= 1 + resets + deletes
  BY <1>2, <1>3, <1>4
<1>6. pc' # "down" => Given(s)' + ToCome(table, seq, unposted, batch', last', s) <= 1 + resets + deletes
  BY <1>2, <1>3, <1>4
<1> QED
  BY <1>1, <1>5, <1>6

LEMMA BudgetStep ==
  ASSUME Shape, ReplyBudget, [Next]_vars
  PROVE  ReplyBudget'
<1> SUFFICES ASSUME NEW s \in Notices
             PROVE  /\ Given(s)' + One(Ahead(table', seq', unposted', cursor', s))
                          <= 1 + resets' + deletes'
                    /\ pc' # "down" =>
                         Given(s)' + ToCome(table', seq', unposted', batch', last', s)
                           <= 1 + resets' + deletes'
  BY DEF ReplyBudget
<1> DEFINE D  == One(Ahead(table, seq, unposted, cursor, s))
           M  == ToCome(table, seq, unposted, batch, last, s)
           D1 == One(Ahead(table', seq', unposted', cursor', s))
           M1 == ToCome(table', seq', unposted', batch', last', s)
<1>0. TypeOK /\ MainShape /\ TableShape
  BY DEF Shape
<1>a. /\ Given(s) + D <= 1 + resets + deletes
      /\ pc # "down" => Given(s) + M <= 1 + resets + deletes
  BY DEF ReplyBudget
<1>b. Given(s) \in Nat /\ resets \in Nat /\ deletes \in Nat /\ D \in 0..1 /\ M \in 0..2
  BY <1>0, Counted
<1>c. D1 \in 0..1 /\ M1 \in 0..2
  BY Ranges
<1>d. /\ Held(batch, s) => M \in 1..2
      /\ ~Held(batch, s) => M \in 0..1
      /\ Held(batch', s) => M1 \in 1..2
      /\ ~Held(batch', s) => M1 \in 0..1
  BY Ranges
<1>e. replies' = replies /\ cur' = cur => Given(s)' = Given(s)
  BY DEF Given
<1>f. One(None = s) = 0 /\ One(cur = s) \in 0..1 /\ replies[s] \in Nat
      /\ Given(s) = replies[s] + One(cur = s)
      /\ Given(s)' = replies'[s] + One(cur' = s)
  BY <1>0, Ranges, BridgeAssumption DEF One, TypeOK, Given
<1>1. ASSUME NEW n \in Notices, Notify(n) PROVE D1 <= D /\ (pc # "down" => M1 <= M)
  <2>1. One(Ahead(table, seq, unposted, cursor, s))' = D1
        /\ ToCome(table, seq, unposted, batch, last, s)' = M1
    OBVIOUS
  <2> QED
    BY <1>1, <2>1, NotifyBudget
<1>2. ASSUME NEW n \in Notices, Notify(n)
      PROVE  Given(s)' + D1 <= 1 + resets' + deletes'
             /\ (pc' # "down" => Given(s)' + M1 <= 1 + resets' + deletes')
  <2>1. Given(s)' = Given(s) /\ resets' = resets /\ deletes' = deletes /\ pc' = pc
    BY <1>2, <1>e DEF Notify
  <2>2. D1 <= D /\ (pc # "down" => M1 <= M)
    BY <1>1, <1>2
  <2> HIDE DEF D, M, D1, M1
  <2> QED
    BY <2>1, <2>2, <1>a, <1>b, <1>c
<1>3. ASSUME resets' + deletes' = resets + deletes + 1, resets' \in Nat, deletes' \in Nat,
             replies' = replies, cur' = cur, batch' = batch, pc' = pc
      PROVE  Given(s)' + D1 <= 1 + resets' + deletes'
             /\ (pc' # "down" => Given(s)' + M1 <= 1 + resets' + deletes')
  <2>1. M1 <= M + 1
    <3>1. CASE Held(batch, s)
      <4>1. M \in 1..2 /\ M1 \in 1..2
        BY <3>1, <1>3, <1>d
      <4> HIDE DEF M, M1
      <4> QED
        BY <4>1
    <3>2. CASE ~Held(batch, s)
      <4>1. M \in 0..1 /\ M1 \in 0..1
        BY <3>2, <1>3, <1>d
      <4> HIDE DEF M, M1
      <4> QED
        BY <4>1
    <3> QED
      BY <3>1, <3>2
  <2>2. Given(s)' = Given(s)
    BY <1>3, <1>e
  <2> HIDE DEF D, M, D1, M1
  <2>3. D1 <= D + 1
    BY <1>b, <1>c
  <2>4. \A g, r, d, r1, d1 \in Nat : \A x, x1 \in 0..2 :
          r1 + d1 = r + d + 1 /\ g + x <= 1 + r + d /\ x1 <= x + 1 => g + x1 <= 1 + r1 + d1
    OBVIOUS
  <2>5. Given(s) \in Nat /\ D \in 0..2 /\ M \in 0..2 /\ D1 \in 0..2 /\ M1 \in 0..2
    BY <1>b, <1>c
  <2>6. Given(s) + D1 <= 1 + resets' + deletes'
    BY <2>3, <2>4, <2>5, <1>3, <1>a, <1>b
  <2>7. ASSUME pc # "down"
        PROVE  Given(s) + M1 <= 1 + resets' + deletes'
    BY <2>7, <2>1, <2>4, <2>5, <1>3, <1>a, <1>b
  <2> QED
    BY <2>2, <2>6, <2>7, <1>3
<1>4. ASSUME NEW i \in Ids, NEW j \in Ids, Delete(i, j)
      PROVE  Given(s)' + D1 <= 1 + resets' + deletes'
             /\ (pc' # "down" => Given(s)' + M1 <= 1 + resets' + deletes')
  <2>1. /\ resets' + deletes' = resets + deletes + 1 /\ resets' \in Nat /\ deletes' \in Nat
        /\ replies' = replies /\ cur' = cur /\ batch' = batch /\ pc' = pc
    BY <1>4, <1>b DEF Delete
  <2> QED
    BY <2>1, <1>3
<1>5. CASE Reset
  <2>1. /\ resets' + deletes' = resets + deletes + 1 /\ resets' \in Nat /\ deletes' \in Nat
        /\ replies' = replies /\ cur' = cur /\ batch' = batch /\ pc' = pc
    BY <1>5, <1>b DEF Reset
  <2> QED
    BY <2>1, <1>3
<1>6. ASSUME UNCHANGED mastodon, Given(s)' \in Nat,
             \/ Given(s)' + One(Ahead(table, seq, unposted, cursor', s)) <= Given(s) + D
             \/ pc # "down" /\ Given(s)' + One(Ahead(table, seq, unposted, cursor', s)) <= Given(s) + M,
             \/ pc' = "down"
             \/ /\ pc # "down"
                /\ Given(s)' + ToCome(table, seq, unposted, batch', last', s) <= Given(s) + M
             \/ Given(s)' + ToCome(table, seq, unposted, batch', last', s) <= Given(s) + D
      PROVE  Given(s)' + D1 <= 1 + resets' + deletes'
             /\ (pc' # "down" => Given(s)' + M1 <= 1 + resets' + deletes')
  BY <1>6, <1>a, BudgetKept
<1>7. ASSUME UNCHANGED mastodon, cursor' = cursor, batch' = batch, last' = last,
             pc' # "down" => pc # "down", Given(s)' \in Nat, Given(s)' <= Given(s)
      PROVE  Given(s)' + D1 <= 1 + resets' + deletes'
             /\ (pc' # "down" => Given(s)' + M1 <= 1 + resets' + deletes')
  <2>1. D1 = D /\ M1 = M /\ resets' = resets /\ deletes' = deletes
    BY <1>7 DEF mastodon
  <2> HIDE DEF D, M, D1, M1
  <2> QED
    BY <2>1, <1>7, <1>a, <1>b
<1>8. CASE Start
  <2>1. Given(s)' = Given(s) /\ UNCHANGED mastodon /\ cursor' = cursor
    BY <1>8, <1>e DEF Start
  <2>2. batch' = Nothing /\ last' = cursor
    BY <1>0, <1>8 DEF Start, MainShape
  <2>3. ToCome(table, seq, unposted, batch', last', s) = D
    BY <2>2, EmptyHand
  <2>4. One(Ahead(table, seq, unposted, cursor', s)) = D
    BY <2>1
  <2>5. Given(s) + D <= Given(s) + D
    <3> HIDE DEF D
    <3> QED
      BY <1>b
  <2> QED
    BY <2>1, <2>3, <2>4, <2>5, <1>b, <1>6
<1>9. ASSUME NEW i \in Ids, InitCursor(i)
      PROVE  Given(s)' + D1 <= 1 + resets' + deletes'
             /\ (pc' # "down" => Given(s)' + M1 <= 1 + resets' + deletes')
  <2>1. Given(s)' = Given(s) /\ UNCHANGED mastodon /\ pc # "down"
    BY <1>9, <1>e DEF InitCursor
  <2>2. batch = Nothing /\ batch' = Nothing /\ last = None
    BY <1>0, <1>9 DEF InitCursor, MainShape
  <2>3. M = 1
    BY <2>2, EmptyHand DEF Ahead, One
  <2>4. ~Held(batch', s)
    BY <2>2, EmptyHand
  <2>5. ToCome(table, seq, unposted, batch', last', s) \in 0..1
        /\ One(Ahead(table, seq, unposted, cursor', s)) \in 0..1
    BY <2>4, Ranges
  <2>6. \A x \in 0..1, g \in Nat : g + x <= g + 1
    OBVIOUS
  <2> QED
    BY <2>1, <2>3, <2>5, <2>6, <1>b, <1>6
<1>10. CASE Poll
  <2>1. Given(s)' = Given(s) /\ UNCHANGED mastodon /\ pc # "down"
    BY <1>10, <1>e DEF Poll
  <2>2. /\ ToCome(table, seq, unposted, batch', last', s) <= M
        /\ cursor' = cursor \/ M = 1
    BY <1>10, PollBudget
  <2>3. \A g \in Nat, x, y \in 0..2 : x <= y => g + x <= g + y
    OBVIOUS
  <2>4. /\ ToCome(table, seq, unposted, batch', last', s) \in 0..2
        /\ One(Ahead(table, seq, unposted, cursor', s)) \in 0..1
    BY Ranges
  <2>5. Given(s)' + ToCome(table, seq, unposted, batch', last', s) <= Given(s) + M
    <3> HIDE DEF M
    <3> QED
      BY <2>1, <2>2, <2>3, <2>4, <1>b
  <2>6. \/ Given(s)' + One(Ahead(table, seq, unposted, cursor', s)) <= Given(s) + D
        \/ Given(s)' + One(Ahead(table, seq, unposted, cursor', s)) <= Given(s) + M
    <3>1. CASE cursor' = cursor
      <4>1. One(Ahead(table, seq, unposted, cursor', s)) = D
        BY <3>1
      <4> HIDE DEF D
      <4> QED
        BY <4>1, <2>1, <1>b
    <3>2. CASE M = 1
      <4>1. \A x \in 0..1, g \in Nat : g + x <= g + 1
        OBVIOUS
      <4> HIDE DEF M
      <4> QED
        BY <3>2, <4>1, <2>1, <2>4, <1>b
    <3> QED
      BY <3>1, <3>2, <2>2
  <2> QED
    BY <2>1, <2>5, <2>6, <1>b, <1>6
<1>11. CASE RewindFails
  <2>1. Given(s)' = Given(s) /\ UNCHANGED mastodon /\ cursor' = cursor /\ pc # "down"
    BY <1>11, <1>e DEF RewindFails
  <2>2. batch = Nothing /\ batch' = Nothing
    BY <1>0, <1>11 DEF RewindFails, MainShape
  <2>3. Stale(table, seq, last)
    BY <1>0, <1>11, BehindStale DEF Shape, RewindFails
  <2>4. M = 1
    BY <2>2, <2>3, EmptyHand DEF Ahead, One
  <2>5. ~Held(batch', s)
    BY <2>2, EmptyHand
  <2>6. ToCome(table, seq, unposted, batch', last', s) \in 0..1
    BY <2>5, Ranges
  <2>7. \A x \in 0..1, g \in Nat : g + x <= g + 1
    OBVIOUS
  <2>8. Given(s)' + ToCome(table, seq, unposted, batch', last', s) <= Given(s) + M
    BY <2>1, <2>4, <2>6, <2>7, <1>b
  <2>9. Given(s)' + One(Ahead(table, seq, unposted, cursor', s)) <= Given(s) + D
    <3>1. One(Ahead(table, seq, unposted, cursor', s)) = D
      BY <2>1
    <3> HIDE DEF D
    <3> QED
      BY <3>1, <2>1, <1>b
  <2> QED
    BY <2>1, <2>8, <2>9, <1>b, <1>6
<1>12. ASSUME NEW i \in Ids, Advance(i)
       PROVE  Given(s)' + D1 <= 1 + resets' + deletes'
              /\ (pc' # "down" => Given(s)' + M1 <= 1 + resets' + deletes')
  <2>1. /\ UNCHANGED mastodon /\ pc # "down" /\ pc = "scan" /\ Follows(i)
        /\ replies' = replies /\ last' = i /\ cursor' = i
    BY <1>12 DEF Advance
  <2>2. \A j \in Present(batch') : j \in Present(batch) /\ j # i /\ batch'[j] = batch[j]
    BY <1>0, <1>12 DEF Advance, Present, TypeOK
  <2>3. /\ ToCome(table, seq, unposted, batch', i, s) + One(batch[i] = s) <= M
        /\ One(Ahead(table, seq, unposted, i, s)) + One(batch[i] = s) <= M
    BY <2>1, <2>2, AdvanceBudget
  <2>4. One(cur' = s) <= One(batch[i] = s) /\ One(cur = s) = 0
    <3>1. cur = None /\ (cur' = cur \/ cur' = batch[i])
      BY <1>0, <1>12 DEF Advance, MainShape
    <3> QED
      BY <3>1, <1>f DEF One
  <2>5. One(cur' = s) \in 0..1 /\ One(batch[i] = s) \in 0..1
        /\ ToCome(table, seq, unposted, batch', i, s) \in 0..2
        /\ One(Ahead(table, seq, unposted, i, s)) \in 0..1
    BY Ranges
  <2>6. Given(s) = replies[s] /\ Given(s)' = replies[s] + One(cur' = s) /\ Given(s)' \in Nat
    BY <2>1, <2>4, <2>5, <1>f
  <2> HIDE DEF M
  <2>7. \A g \in Nat, c, k \in 0..1, x, m \in 0..2 : c <= k /\ x + k <= m => g + c + x <= g + m
    OBVIOUS
  <2>8. Given(s)' + ToCome(table, seq, unposted, batch', i, s) <= Given(s) + M
    BY <2>3, <2>4, <2>5, <2>6, <2>7, <1>b, <1>f
  <2>9. Given(s)' + One(Ahead(table, seq, unposted, i, s)) <= Given(s) + M
    BY <2>3, <2>4, <2>5, <2>6, <2>7, <1>b, <1>f
  <2> QED
    BY <2>1, <2>6, <2>8, <2>9, <1>6
<1>13. ASSUME NEW i \in Ids, AdvanceFails(i)
       PROVE  Given(s)' + D1 <= 1 + resets' + deletes'
              /\ (pc' # "down" => Given(s)' + M1 <= 1 + resets' + deletes')
  <2>1. /\ UNCHANGED mastodon /\ pc # "down" /\ pc = "scan" /\ Follows(i)
        /\ Given(s)' = Given(s) /\ last' = i /\ cursor' = cursor /\ batch' = Nothing
    BY <1>13, <1>e DEF AdvanceFails
  <2>2. \A j \in Present(batch') : j \in Present(batch) /\ j # i /\ batch'[j] = batch[j]
    BY <2>1 DEF Nothing, Present
  <2>3. ToCome(table, seq, unposted, batch', i, s) + One(batch[i] = s) <= M
    BY <2>1, <2>2, AdvanceBudget
  <2>4. One(batch[i] = s) \in 0..1 /\ ToCome(table, seq, unposted, batch', i, s) \in 0..2
    BY Ranges
  <2>5. Given(s)' + ToCome(table, seq, unposted, batch', i, s) <= Given(s) + M
    <3>1. \A g \in Nat, k \in 0..1, x, m \in 0..2 : x + k <= m => g + x <= g + m
      OBVIOUS
    <3> HIDE DEF M
    <3> QED
      BY <3>1, <2>1, <2>3, <2>4, <1>b
  <2>6. Given(s)' + One(Ahead(table, seq, unposted, cursor', s)) <= Given(s) + D
    <3>1. One(Ahead(table, seq, unposted, cursor', s)) = D
      BY <2>1
    <3> HIDE DEF D
    <3> QED
      BY <3>1, <2>1, <1>b
  <2> QED
    BY <2>1, <2>5, <2>6, <1>b, <1>6
<1>14. CASE EndScan
  <2>1. /\ UNCHANGED mastodon /\ cursor' = cursor /\ batch' = batch /\ last' = last
        /\ pc # "down" /\ Given(s)' = Given(s)
    BY <1>14, <1>e DEF EndScan
  <2> QED
    BY <2>1, <1>b, <1>7
<1>15. CASE Ask
  <2>1. /\ UNCHANGED mastodon /\ cursor' = cursor /\ batch' = batch /\ last' = last
        /\ pc # "down" /\ replies' = replies /\ (cur' = cur \/ cur' = None)
    BY <1>15 DEF Ask
  <2>2. Given(s)' \in Nat /\ Given(s)' <= Given(s)
    BY <2>1, <1>f
  <2> QED
    BY <2>1, <2>2, <1>7
<1>16. CASE Post
  <2>1. /\ UNCHANGED mastodon /\ cursor' = cursor /\ batch' = batch /\ last' = last
        /\ pc # "down" /\ cur' = None
        /\ replies' = replies \/ replies' = [replies EXCEPT ![cur] = @ + 1]
    BY <1>16 DEF Post
  <2>2. CASE replies' = replies
    BY <2>1, <2>2, <1>f, <1>7
  <2>3. CASE replies' = [replies EXCEPT ![cur] = @ + 1]
    <3>1. replies'[s] = IF cur = s THEN replies[s] + 1 ELSE replies[s]
      BY <2>3, <1>0 DEF TypeOK
    <3>2. Given(s)' = Given(s)
      <4>1. CASE cur = s
        BY <4>1, <3>1, <2>1, <1>f DEF One
      <4>2. CASE cur # s
        BY <4>2, <3>1, <2>1, <1>f DEF One
      <4> QED
        BY <4>1, <4>2
    <3> QED
      BY <2>1, <3>2, <1>b, <1>7
  <2> QED
    BY <2>1, <2>2, <2>3
<1>17. CASE Crash
  <2>1. UNCHANGED mastodon /\ cursor' = cursor /\ pc' = "down" /\ replies' = replies /\ cur' = None
    BY <1>17 DEF Crash
  <2>2. Given(s)' \in Nat /\ Given(s)' <= Given(s)
    BY <2>1, <1>f
  <2>3. Given(s)' + One(Ahead(table, seq, unposted, cursor', s)) <= Given(s) + D
    <3>1. One(Ahead(table, seq, unposted, cursor', s)) = D
      BY <2>1
    <3> HIDE DEF D
    <3> QED
      BY <3>1, <2>2, <1>b
  <2> QED
    BY <2>1, <2>2, <2>3, <1>6
<1>18. CASE UNCHANGED vars
  <2>1. /\ UNCHANGED mastodon /\ cursor' = cursor /\ batch' = batch /\ last' = last
        /\ pc' = pc /\ Given(s)' = Given(s)
    BY <1>18, <1>e DEF vars
  <2> QED
    BY <2>1, <1>b, <1>7
<1> DEFINE Kept == Given(s)' + D1 <= 1 + resets' + deletes'
                   /\ (pc' # "down" => Given(s)' + M1 <= 1 + resets' + deletes')
<1>19. /\ \A n \in Notices : Notify(n) => Kept
       /\ \A i, j \in Ids : Delete(i, j) => Kept
       /\ Reset \/ Crash \/ UNCHANGED vars => Kept
  BY <1>2, <1>4, <1>5, <1>17, <1>18
<1>20. /\ Start \/ Poll \/ RewindFails \/ EndScan \/ Ask \/ Post => Kept
       /\ \A i \in Ids : InitCursor(i) \/ Advance(i) \/ AdvanceFails(i) => Kept
  <2>1. Start \/ Poll \/ RewindFails \/ EndScan \/ Ask \/ Post => Kept
    BY <1>8, <1>10, <1>11, <1>14, <1>15, <1>16
  <2>2. \A i \in Ids : InitCursor(i) \/ Advance(i) \/ AdvanceFails(i) => Kept
    BY <1>9, <1>12, <1>13
  <2> QED
    BY <2>1, <2>2
<1> HIDE DEF Kept
<1>21. Kept
  BY <1>19, <1>20 DEF Next, Bridge
<1> QED
  BY <1>21 DEF Kept

LEMMA BridgeInit == Init => BridgeInv
<1> SUFFICES ASSUME Init PROVE BridgeInv
  OBVIOUS
<1> USE BridgeAssumption DEF Init
<1>1. Present(Nothing) = {}
  BY DEF Present, Nothing
<1>2. TypeOK
  <2>1. Nothing \in [Ids -> Notices \cup {None}]
    BY DEF Nothing
  <2>2. FirstId \in Ids
    <3>1. Cardinality(Notices) \in Nat
      BY FS_CardinalityType
    <3> QED
      BY <3>1 DEF Ids, MaxId
  <2>3. 0 \in 0..MaxDeletes /\ 0 \in 0..MaxResets /\ 0 \in 0..MaxCrashes
    OBVIOUS
  <2>4. replies \in [Notices -> Nat]
    OBVIOUS
  <2> QED
    BY <2>1, <2>2, <2>3, <2>4 DEF TypeOK
<1>3. MainShape
  BY DEF MainShape
<1>4. TableShape
  BY <1>1 DEF TableShape
<1>5. ReplyBudget
  <2> SUFFICES ASSUME NEW s \in Notices
               PROVE  Given(s) + One(Ahead(table, seq, unposted, cursor, s)) <= 1 + resets + deletes
    BY DEF ReplyBudget
  <2>1. Given(s) = 0
    BY DEF Given, One
  <2>2. One(Ahead(table, seq, unposted, cursor, s)) \in 0..1
    BY Ranges
  <2> QED
    BY <2>1, <2>2
<1> QED
  BY <1>2, <1>3, <1>4, <1>5 DEF BridgeInv, Shape

\* A mention gets one reply, and one more for each deletion or renumbering of the
\* notifications: for any posts, page size, crashes and disk failures.
THEOREM RepliesAreBounded == Spec => []RepliesBounded
<1>1. BridgeInv /\ [Next]_vars => BridgeInv'
  BY TypeStep, MainStep, TableStep, BudgetStep DEF BridgeInv, Shape
<1>2. BridgeInv => RepliesBounded
  <2> SUFFICES ASSUME BridgeInv, NEW s \in Notices
               PROVE  replies[s] <= 1 + resets + deletes
    BY DEF RepliesBounded
  <2>1. TypeOK /\ ReplyBudget
    BY DEF BridgeInv, Shape
  <2>2. Given(s) + One(Ahead(table, seq, unposted, cursor, s)) <= 1 + resets + deletes
    BY <2>1 DEF ReplyBudget
  <2>3. /\ replies[s] \in Nat /\ resets \in Nat /\ deletes \in Nat
        /\ One(cur = s) \in 0..1 /\ One(Ahead(table, seq, unposted, cursor, s)) \in 0..1
    BY <2>1, Counted, Ranges DEF TypeOK
  <2>4. Given(s) = replies[s] + One(cur = s)
    BY DEF Given
  <2> QED
    BY <2>2, <2>3, <2>4
<1> QED
  BY <1>1, <1>2, BridgeInit, PTL DEF Spec
=============================================================================
