---------------------------- MODULE StatusProofs ----------------------------
(***************************************************************************)
(* What the operator is shown and what the operator answers: the install   *)
(* dates that are earned from apt's history, the digests of the upstream   *)
(* cache, the scraped file that tells of every database, the plot of the   *)
(* progress metrics, and the dashboard, which loses nothing that is typed. *)
(***************************************************************************)
EXTENDS AptHistory, UpstreamCache, DbSecurity, Progress, Dashboard, FiniteSetTheorems,
        SequenceTheorems, WellFoundedInduction, TLAPS

\* Some numbers have a least one.
LEMMA LeastNatural ==
  ASSUME NEW S, S \subseteq Nat, S # {}
  PROVE  \E m \in S : \A n \in S : m <= n
<1>1. PICK m \in S : \A n \in S : ~ (<<n, m>> \in OpToRel(<, Nat))
  BY NatLessThanWellFounded, WFMin
<1>2. ASSUME NEW n \in S PROVE m <= n
  <2>1. m \in Nat /\ n \in Nat
    OBVIOUS
  <2>2. ~ (n < m)
    BY <1>1, <2>1 DEF OpToRel
  <2>3. QED
    BY <2>1, <2>2
<1>3. QED
  BY <1>2

LEMMA LeastChosen ==
  ASSUME NEW S, S \subseteq Nat, S # {}
  PROVE  Min(S) \in S /\ \A n \in S : Min(S) <= n
BY LeastNatural DEF Min

\* Some numbers up to a bound have a greatest one: the one least far from the bound.
LEMMA GreatestChosen ==
  ASSUME NEW N \in Nat, NEW S, S \subseteq 0..N, S # {}
  PROVE  Max(S) \in S /\ \A n \in S : n <= Max(S)
<1> DEFINE T == {d \in Nat : N - d \in S}
<1>1. \A n \in S : n \in Nat /\ N - n \in Nat /\ N - (N - n) = n
  OBVIOUS
<1>2. T # {}
  BY <1>1
<1>3. PICK d \in T : \A e \in T : d <= e
  BY <1>2, LeastNatural
<1>4. N - d \in S /\ \A n \in S : N - d >= n
  BY <1>1, <1>3
<1>5. Max(S) \in S /\ \A n \in S : Max(S) >= n
  BY <1>4 DEF Max
<1>6. \A n \in S : n \in Nat
  OBVIOUS
<1>7. QED
  BY <1>5, <1>6

\* A concatenation holds what its parts hold.
LEMMA ConcatHolds ==
  ASSUME NEW S, NEW s \in Seq(S), NEW t \in Seq(S)
  PROVE  s \o t \in Seq(S) /\ ToSet(s \o t) = ToSet(s) \cup ToSet(t)
<1>1. /\ s \o t \in Seq(S) /\ Len(s \o t) = Len(s) + Len(t) /\ Len(s) \in Nat /\ Len(t) \in Nat
      /\ DOMAIN s = 1..Len(s) /\ DOMAIN t = 1..Len(t) /\ DOMAIN (s \o t) = 1..(Len(s) + Len(t))
      /\ \A i \in 1..(Len(s) + Len(t)) : (s \o t)[i] = IF i <= Len(s) THEN s[i] ELSE t[i - Len(s)]
  OBVIOUS
<1> DEFINE u == s \o t
<1> HIDE DEF u
<1>2. ASSUME NEW i \in 1..(Len(s) + Len(t)) PROVE u[i] \in ToSet(s) \cup ToSet(t)
  <2>1. CASE i <= Len(s)
    <3>1. i \in DOMAIN s /\ u[i] = s[i]
      BY <1>1, <2>1 DEF u
    <3>2. QED
      BY <3>1 DEF ToSet
  <2>2. CASE ~ (i <= Len(s))
    <3>1. i - Len(s) \in DOMAIN t /\ u[i] = t[i - Len(s)]
      BY <1>1, <2>2 DEF u
    <3>2. QED
      BY <3>1 DEF ToSet
  <2>3. QED
    BY <2>1, <2>2
<1>3. ASSUME NEW i \in DOMAIN s PROVE s[i] \in ToSet(u)
  <2>1. i \in DOMAIN u /\ u[i] = s[i]
    BY <1>1 DEF u
  <2>2. QED
    BY <2>1 DEF ToSet
<1>4. ASSUME NEW i \in DOMAIN t PROVE t[i] \in ToSet(u)
  <2>1. i + Len(s) \in DOMAIN u /\ u[i + Len(s)] = t[i]
    BY <1>1 DEF u
  <2>2. QED
    BY <2>1 DEF ToSet
<1>5. ToSet(u) = ToSet(s) \cup ToSet(t)
  <2>1. DOMAIN u = 1..(Len(s) + Len(t))
    BY <1>1 DEF u
  <2>2. QED
    BY <1>2, <1>3, <1>4, <2>1 DEF ToSet
<1>6. QED
  BY <1>1, <1>5 DEF u

-----------------------------------------------------------------------------
(* apt's history.                                                          *)

Departures == {"Remove", "Purge"}
Stanzas == [arch : ToSet(Archs), action : Actions, date : Nat \ {0}]

AptTypes ==
  /\ today \in Nat \ {0} /\ live \in Seq(Stanzas) /\ rotated \in Seq(Seq(Stanzas))
  /\ Len(rotated) <= Retained
  /\ manifest \in [ToSet(Archs) -> Nat]

\* The file of a number: the live log is number 0.
File(n) == IF n = 0 THEN live ELSE rotated[n]
Holds(n, a, actions) == \E i \in DOMAIN File(n) : File(n)[i].arch = a /\ File(n)[i].action \in actions

\* A package that is gone and has a stanza has one of its removal in no older a file.
GoneTold ==
  \A a \in ToSet(Archs), n \in 0..Len(rotated) :
    manifest[a] = 0 /\ Holds(n, a, Actions) => \E m \in 0..n : Holds(m, a, Departures)

AptInv == AptTypes /\ GoneTold

LEMMA AptInitSound == AptInit => AptInv
<1> SUFFICES ASSUME AptInit PROVE AptInv
  OBVIOUS
<1>1. today = 1 /\ live = <<>> /\ rotated = <<>> /\ manifest \in [ToSet(Archs) -> {0, 1}]
  BY DEF AptInit
<1>2. AptTypes
  BY <1>1, AptAssumption DEF AptTypes
<1>3. GoneTold
  <2>1. 0..Len(rotated) = {0} /\ File(0) = <<>>
    BY <1>1 DEF File
  <2>2. QED
    BY <2>1 DEF GoneTold, Holds
<1>4. QED
  BY <1>2, <1>3 DEF AptInv

LEMMA TransactStep ==
  ASSUME AptInv, NEW b \in ToSet(Archs), NEW action \in Actions, Transact(b, action)
  PROVE  AptInv'
<1> DEFINE s == [arch |-> b, action |-> action, date |-> today]
           left == IF action \in {"Remove", "Purge"} THEN 0 ELSE today
<1>1. /\ live' = Append(live, s) /\ manifest' = [manifest EXCEPT ![b] = left]
      /\ UNCHANGED <<today, rotated>> /\ AptTypes /\ GoneTold
  BY DEF Transact, AptInv
<1>2. s \in Stanzas /\ s.arch = b /\ s.action = action /\ left \in Nat
      /\ (left = 0 => action \in Departures)
  BY <1>1 DEF AptTypes, Stanzas, Departures
<1> HIDE DEF s, left
<1>3. /\ live' \in Seq(Stanzas) /\ Len(live') = Len(live) + 1 /\ live'[Len(live) + 1] = s
      /\ \A i \in 1..Len(live) : live'[i] = live[i]
      /\ Len(live) \in Nat /\ DOMAIN live = 1..Len(live) /\ DOMAIN live' = 1..(Len(live) + 1)
  BY <1>1, <1>2 DEF AptTypes
<1>4. manifest' \in [ToSet(Archs) -> Nat] /\ manifest'[b] = left
      /\ \A a \in ToSet(Archs) : a # b => manifest'[a] = manifest[a]
  BY <1>1, <1>2 DEF AptTypes
<1>5. AptTypes'
  BY <1>1, <1>3, <1>4 DEF AptTypes, Stanzas
<1>6. ASSUME NEW a \in ToSet(Archs), NEW actions, NEW n \in 0..Len(rotated), Holds(n, a, actions)
      PROVE  Holds(n, a, actions)'
  <2>1. PICK i \in DOMAIN File(n) : File(n)[i].arch = a /\ File(n)[i].action \in actions
    BY <1>6 DEF Holds
  <2>2. CASE n = 0
    <3>1. i \in 1..Len(live) /\ live[i].arch = a /\ live[i].action \in actions
      BY <1>3, <2>1, <2>2 DEF File
    <3>2. i \in DOMAIN live' /\ live'[i] = live[i]
      BY <1>3, <3>1
    <3>3. QED
      BY <2>2, <3>1, <3>2 DEF Holds, File
  <2>3. CASE n # 0
    BY <1>1, <2>1, <2>3 DEF Holds, File
  <2>4. QED
    BY <2>2, <2>3
<1>7. ASSUME NEW a \in ToSet(Archs), a # b, NEW n \in 0..Len(rotated), Holds(n, a, Actions)'
      PROVE  Holds(n, a, Actions)
  <2>1. CASE n = 0
    <3>1. PICK i \in DOMAIN live' : live'[i].arch = a /\ live'[i].action \in Actions
      BY <1>7, <2>1 DEF Holds, File
    <3>2. i # Len(live) + 1
      BY <1>2, <1>3, <1>7, <3>1
    <3>3. i \in DOMAIN live /\ live'[i] = live[i]
      BY <1>3, <3>1, <3>2
    <3>4. QED
      BY <2>1, <3>1, <3>3 DEF Holds, File
  <2>2. CASE n # 0
    BY <1>1, <1>7, <2>2 DEF Holds, File
  <2>3. QED
    BY <2>1, <2>2
<1>8. action \in Departures => Holds(0, b, Departures)'
  <2>1. Len(live) + 1 \in DOMAIN live'
    BY <1>3
  <2>2. QED
    BY <1>2, <1>3, <2>1 DEF Holds, File
<1>9. ASSUME NEW a \in ToSet(Archs), NEW n \in 0..Len(rotated),
             manifest'[a] = 0, Holds(n, a, Actions)'
      PROVE  \E m \in 0..n : Holds(m, a, Departures)'
  <2>1. CASE a = b
    <3>1. Holds(0, a, Departures)'
      BY <1>2, <1>4, <1>8, <1>9, <2>1
    <3>2. 0 \in 0..n
      BY <1>1 DEF AptTypes
    <3>3. QED
      BY <3>1, <3>2
  <2>2. CASE a # b
    <3>1. manifest[a] = 0 /\ Holds(n, a, Actions)
      BY <1>4, <1>7, <1>9, <2>2
    <3>2. PICK m \in 0..n : Holds(m, a, Departures)
      BY <1>1, <3>1 DEF GoneTold
    <3>3. m \in 0..Len(rotated)
      BY <1>1 DEF AptTypes
    <3>4. QED
      BY <1>6, <3>2, <3>3
  <2>3. QED
    BY <2>1, <2>2
<1>10. GoneTold'
  BY <1>1, <1>9 DEF GoneTold
<1>11. QED
  BY <1>5, <1>10 DEF AptInv

\* What rotation leaves: every file that is kept has moved one number up, behind an empty one.
LEMMA RotatedFiles ==
  ASSUME AptTypes, Rotate
  PROVE  /\ rotated' \in Seq(Seq(Stanzas)) /\ Len(rotated') <= Len(rotated) + 1
         /\ Len(rotated') <= Retained
         /\ \A n \in 1..Len(rotated') : rotated'[n] = IF n = 1 THEN live ELSE rotated[n - 1]
         /\ live' = <<>>
<1> DEFINE up   == <<live>> \o rotated
           kept == Min({Retained, Len(rotated) + 1})
<1>1. rotated' = SubSeq(up, 1, kept) /\ live' = <<>>
  BY DEF Rotate
<1>2. /\ up \in Seq(Seq(Stanzas)) /\ Len(up) = Len(rotated) + 1 /\ Len(rotated) \in Nat
      /\ \A n \in 1..Len(up) : up[n] = IF n = 1 THEN live ELSE rotated[n - 1]
  BY DEF AptTypes
<1>3. kept \in {Retained, Len(rotated) + 1} /\ kept <= Len(rotated) + 1 /\ kept <= Retained
  <2>1. {Retained, Len(rotated) + 1} \subseteq Nat /\ {Retained, Len(rotated) + 1} # {}
    BY <1>2, AptAssumption
  <2>2. QED
    BY <2>1, LeastChosen
<1>4. kept \in 1..(Len(rotated) + 1)
  BY <1>2, <1>3, AptAssumption
<1> HIDE DEF up, kept
<1>5. /\ rotated' \in Seq(Seq(Stanzas)) /\ Len(rotated') = kept
      /\ \A n \in 1..kept : rotated'[n] = up[n]
  <2>1. 1 \in 1..(Len(up) + 1) /\ kept \in 0..Len(up)
    BY <1>2, <1>4
  <2>2. kept \in Nat /\ 1 \in Nat
    BY <1>2, <1>4
  <2>3. QED
    BY <1>1, <1>2, <1>4, <2>1, <2>2, SubSeqProperties
<1>6. QED
  BY <1>1, <1>2, <1>3, <1>4, <1>5

LEMMA RotateStep == AptInv /\ Rotate => AptInv'
<1> SUFFICES ASSUME AptInv, Rotate PROVE AptInv'
  OBVIOUS
<1>1. UNCHANGED <<today, manifest>> /\ AptTypes /\ GoneTold
  BY DEF Rotate, AptInv
<1>2. /\ rotated' \in Seq(Seq(Stanzas)) /\ Len(rotated') <= Len(rotated) + 1
      /\ Len(rotated') <= Retained
      /\ \A n \in 1..Len(rotated') : rotated'[n] = IF n = 1 THEN live ELSE rotated[n - 1]
      /\ live' = <<>>
  BY <1>1, RotatedFiles
<1>3. AptTypes'
  BY <1>1, <1>2 DEF AptTypes, Stanzas
<1>4. Len(rotated) \in Nat /\ Len(rotated') \in Nat
  BY <1>1, <1>2 DEF AptTypes
<1>5. ASSUME NEW n \in 1..Len(rotated')
      PROVE  File(n)' = File(n - 1) /\ n - 1 \in 0..Len(rotated)
  BY <1>2, <1>4, <1>5 DEF File
<1>6. ASSUME NEW a \in ToSet(Archs), NEW n \in 0..Len(rotated'),
             manifest[a] = 0, Holds(n, a, Actions)'
      PROVE  \E m \in 0..n : Holds(m, a, Departures)'
  <2>1. n # 0
    BY <1>2, <1>6 DEF Holds, File
  <2>2. n \in 1..Len(rotated')
    BY <1>4, <2>1
  <2>3. Holds(n - 1, a, Actions) /\ n - 1 \in 0..Len(rotated)
    BY <1>5, <1>6, <2>2 DEF Holds
  <2>4. PICK m \in 0..(n - 1) : Holds(m, a, Departures)
    BY <1>1, <1>6, <2>3 DEF GoneTold
  <2>5. m + 1 \in 0..n /\ m + 1 \in 1..Len(rotated') /\ (m + 1) - 1 = m
    BY <1>4, <2>2
  <2>6. File(m + 1)' = File(m)
    BY <1>5, <2>5
  <2>7. Holds(m + 1, a, Departures)'
    BY <2>4, <2>6 DEF Holds
  <2>8. QED
    BY <2>5, <2>7
<1>7. GoneTold'
  BY <1>1, <1>6 DEF GoneTold
<1>8. QED
  BY <1>3, <1>7 DEF AptInv

LEMMA AptStep == AptInv /\ [AptNext]_aptVars => AptInv'
<1> SUFFICES ASSUME AptInv, [AptNext]_aptVars PROVE AptInv'
  OBVIOUS
<1>1. CASE \E a \in ToSet(Archs), action \in Actions : Transact(a, action)
  BY <1>1, TransactStep
<1>2. CASE NewDay
  <2>1. today' = today + 1 /\ UNCHANGED <<live, rotated, manifest>> /\ AptTypes /\ GoneTold
    BY <1>2 DEF NewDay, AptInv
  <2>2. AptTypes'
    BY <2>1 DEF AptTypes, Stanzas
  <2>3. GoneTold'
    BY <2>1 DEF GoneTold, Holds, File
  <2>4. QED
    BY <2>2, <2>3 DEF AptInv
<1>3. CASE Rotate
  BY <1>3, RotateStep
<1>4. CASE Tear \/ UNCHANGED aptVars
  <2>1. UNCHANGED <<today, live, rotated, manifest>> /\ AptTypes /\ GoneTold
    BY <1>4 DEF Tear, aptVars, AptInv
  <2>2. AptTypes'
    BY <2>1 DEF AptTypes, Stanzas
  <2>3. GoneTold'
    BY <2>1 DEF GoneTold, Holds, File
  <2>4. QED
    BY <2>2, <2>3 DEF AptInv
<1>5. QED
  BY <1>1, <1>2, <1>3, <1>4 DEF AptNext

LEMMA AptSound == AptSpec => []AptInv
<1>1. QED
  BY AptInitSound, AptStep, PTL DEF AptSpec

-----------------------------------------------------------------------------
(* The parser.                                                             *)

\* The recursive functions of the parser are what their definitions say.
LEMMA RotatedUpToIs ==
  RotatedUpTo = [n \in 0..Retained |->
                   IF n = 0 THEN <<>> ELSE RotatedUpTo[n - 1] \o Readable(NameOrder[n])]
<1> DEFINE Next(s, n) == s \o Readable(NameOrder[n])
           Is(f, N) == f = [n \in 0..N |-> IF n = 0 THEN <<>> ELSE Next(f[n - 1], n)]
           Without == {N \in Nat : ~ \E f : Is(f, N)}
<1>1. \E f : Is(f, 0)
  <2>1. Is([n \in 0..0 |-> <<>>], 0)
    OBVIOUS
  <2>2. QED
    BY <2>1
<1>2. ASSUME NEW N \in Nat, NEW f, Is(f, N) PROVE \E g : Is(g, N + 1)
  <2> DEFINE g == [n \in 0..(N + 1) |-> IF n <= N THEN f[n] ELSE Next(f[N], N + 1)]
  <2>1. ASSUME NEW n \in 0..(N + 1)
        PROVE  g[n] = IF n = 0 THEN <<>> ELSE Next(g[n - 1], n)
    <3>1. CASE n = N + 1
      <4>1. g[n] = Next(f[N], n) /\ g[n - 1] = f[N] /\ n # 0
        BY <3>1
      <4>2. QED
        BY <4>1
    <3>2. CASE n # N + 1
      <4>1. n \in 0..N /\ g[n] = f[n] /\ (n # 0 => g[n - 1] = f[n - 1])
        BY <3>2
      <4>2. f[n] = IF n = 0 THEN <<>> ELSE Next(f[n - 1], n)
        BY <1>2, <4>1
      <4>3. QED
        BY <4>1, <4>2
    <3>3. QED
      BY <3>1, <3>2
  <2>2. Is(g, N + 1)
    <3>1. g = [n \in 0..(N + 1) |-> g[n]]
      OBVIOUS
    <3>2. QED
      BY <2>1, <3>1
  <2>3. QED
    BY <2>2
<1> HIDE DEF Is
<1>3. Without = {}
  <2>1. SUFFICES ASSUME Without # {} PROVE FALSE
    OBVIOUS
  <2>2. PICK m \in Without : \A n \in Without : m <= n
    BY <2>1, LeastNatural
  <2>3. m # 0 /\ m - 1 \in Nat /\ m - 1 \notin Without /\ (m - 1) + 1 = m
    BY <1>1, <2>2
  <2>4. PICK f : Is(f, m - 1)
    BY <2>3
  <2>5. \E g : Is(g, m)
    BY <1>2, <2>3, <2>4
  <2>6. QED
    BY <2>2, <2>5
<1>4. \E f : Is(f, Retained)
  BY <1>3, AptAssumption
<1>5. QED
  BY <1>4 DEF RotatedUpTo, Is

LEMMA IndexAfterIs ==
  ASSUME Len(LogFiles) \in Nat
  PROVE  IndexAfter = [n \in 0..Len(LogFiles) |->
                         IF n = 0 THEN [a \in {} |-> 0]
                         ELSE AbsorbInto(IndexAfter[n - 1], LogFiles[n])]
<1> DEFINE Is(f, N) == f = [n \in 0..N |-> IF n = 0 THEN [a \in {} |-> 0]
                                          ELSE AbsorbInto(f[n - 1], LogFiles[n])]
           Without == {N \in Nat : ~ \E f : Is(f, N)}
<1>1. \E f : Is(f, 0)
  <2>1. Is([n \in 0..0 |-> [a \in {} |-> 0]], 0)
    OBVIOUS
  <2>2. QED
    BY <2>1
<1>2. ASSUME NEW N \in Nat, NEW f, Is(f, N) PROVE \E g : Is(g, N + 1)
  <2> DEFINE g == [n \in 0..(N + 1) |-> IF n <= N THEN f[n] ELSE AbsorbInto(f[N], LogFiles[N + 1])]
  <2>1. ASSUME NEW n \in 0..(N + 1)
        PROVE  g[n] = IF n = 0 THEN [a \in {} |-> 0] ELSE AbsorbInto(g[n - 1], LogFiles[n])
    <3>1. CASE n = N + 1
      <4>1. g[n] = AbsorbInto(f[N], LogFiles[n]) /\ g[n - 1] = f[N] /\ n # 0
        BY <3>1
      <4>2. QED
        BY <4>1
    <3>2. CASE n # N + 1
      <4>1. n \in 0..N /\ g[n] = f[n] /\ (n # 0 => g[n - 1] = f[n - 1])
        BY <3>2
      <4>2. f[n] = IF n = 0 THEN [a \in {} |-> 0] ELSE AbsorbInto(f[n - 1], LogFiles[n])
        BY <1>2, <4>1
      <4>3. QED
        BY <4>1, <4>2
    <3>3. QED
      BY <3>1, <3>2
  <2>2. Is(g, N + 1)
    <3>1. g = [n \in 0..(N + 1) |-> g[n]]
      OBVIOUS
    <3>2. QED
      BY <2>1, <3>1
  <2>3. QED
    BY <2>2
<1> HIDE DEF Is
<1>3. Without = {}
  <2>1. SUFFICES ASSUME Without # {} PROVE FALSE
    OBVIOUS
  <2>2. PICK m \in Without : \A n \in Without : m <= n
    BY <2>1, LeastNatural
  <2>3. m # 0 /\ m - 1 \in Nat /\ m - 1 \notin Without /\ (m - 1) + 1 = m
    BY <1>1, <2>2
  <2>4. PICK f : Is(f, m - 1)
    BY <2>3
  <2>5. \E g : Is(g, m)
    BY <1>2, <2>3, <2>4
  <2>6. QED
    BY <2>2, <2>5
<1>4. \E f : Is(f, Len(LogFiles))
  BY <1>3
<1>5. QED
  BY <1>4 DEF IndexAfter, Is

\* The stanzas that are read are those of the files that can be.
Upto(n) == UNION {ToSet(Readable(NameOrder[m])) : m \in 1..n}
Held    == UNION {ToSet(Readable(m)) : m \in DOMAIN rotated}

LEMMA LogFilesHold ==
  ASSUME AptTypes
  PROVE  LogFiles \in Seq(Stanzas) /\ ToSet(LogFiles) = Held \cup ToSet(live)
<1> DEFINE Reads(n) == RotatedUpTo[n] \in Seq(Stanzas) /\ ToSet(RotatedUpTo[n]) = Upto(n)
           Bad == {n \in 0..Retained : ~ Reads(n)}
<1>1. Len(rotated) \in Nat /\ Retained \in Nat /\ Len(rotated) <= Retained /\ live \in Seq(Stanzas) /\ \A n \in 1..Len(rotated) : rotated[n] \in Seq(Stanzas)
  BY AptAssumption DEF AptTypes
<1>2. \A n \in 0..Retained :
        RotatedUpTo[n] = IF n = 0 THEN <<>> ELSE RotatedUpTo[n - 1] \o Readable(NameOrder[n])
  BY <1>1, RotatedUpToIs
<1>3. Reads(0)
  <2>1. RotatedUpTo[0] = <<>>
    <3>1. 0 \in 0..Retained
      BY <1>1
    <3>2. QED
      BY <1>2, <3>1
  <2>2. Upto(0) = {}
    BY DEF Upto
  <2>3. ToSet(RotatedUpTo[0]) = {}
    BY <2>1 DEF ToSet
  <2>4. RotatedUpTo[0] \in Seq(Stanzas)
    BY <2>1
  <2>5. QED
    BY <2>2, <2>3, <2>4
<1>4. ASSUME NEW n \in 1..Retained, Reads(n - 1) PROVE Reads(n)
  <2>1. Readable(NameOrder[n]) \in Seq(Stanzas)
    BY <1>1 DEF Readable
  <2>2. RotatedUpTo[n] = RotatedUpTo[n - 1] \o Readable(NameOrder[n])
    <3>1. n \in 0..Retained /\ n # 0
      BY <1>1
    <3>2. QED
      BY <1>2, <3>1
  <2>3. RotatedUpTo[n] \in Seq(Stanzas)
        /\ ToSet(RotatedUpTo[n]) = ToSet(RotatedUpTo[n - 1]) \cup ToSet(Readable(NameOrder[n]))
    BY <1>4, <2>1, <2>2, ConcatHolds
  <2>4. 1..n = (1..(n - 1)) \cup {n}
    BY <1>1
  <2>5. Upto(n) = Upto(n - 1) \cup ToSet(Readable(NameOrder[n]))
    BY <2>4 DEF Upto
  <2>6. QED
    BY <1>4, <2>3, <2>5
<1> HIDE DEF Reads
<1>5. Bad = {}
  <2>1. SUFFICES ASSUME Bad # {} PROVE FALSE
    OBVIOUS
  <2>2. PICK m \in Bad : \A n \in Bad : m <= n
    <3>1. Bad \subseteq Nat
      BY <1>1
    <3>2. QED
      BY <2>1, <3>1, LeastNatural
  <2>3. m # 0 /\ m \in 1..Retained
    BY <1>1, <1>3, <2>2
  <2>4. m - 1 \in 0..Retained /\ m - 1 \notin Bad
    BY <1>1, <2>2, <2>3
  <2>5. QED
    BY <1>4, <2>2, <2>3, <2>4
<1>6. Reads(Retained)
  BY <1>1, <1>5
<1>7. RotatedUpTo[Retained] \in Seq(Stanzas) /\ ToSet(RotatedUpTo[Retained]) = Upto(Retained)
  BY <1>6 DEF Reads
<1>8. LogFiles \in Seq(Stanzas) /\ ToSet(LogFiles) = Upto(Retained) \cup ToSet(live)
  BY <1>1, <1>7, ConcatHolds DEF LogFiles
<1>9. Upto(Retained) = Held
  <2>1. \A m : m \notin DOMAIN rotated => ToSet(Readable(m)) = {}
    BY DEF Readable, ToSet
  <2>2. DOMAIN rotated = 1..Len(rotated) /\ DOMAIN rotated \subseteq 1..Retained
    BY <1>1 DEF AptTypes
  <2>3. ASSUME NEW x \in Upto(Retained)
        PROVE  \E m \in DOMAIN rotated : x \in ToSet(Readable(m))
    BY <2>1 DEF Upto
  <2>4. ASSUME NEW m \in DOMAIN rotated, NEW x \in ToSet(Readable(m)) PROVE x \in Upto(Retained)
    <3>1. PICK i \in 1..Retained : NameOrder[i] = m
      BY <2>2, NameAssumption
    <3>2. QED
      BY <3>1, <2>4 DEF Upto
  <2>5. QED
    BY <2>3, <2>4 DEF Held
<1>10. QED
  BY <1>8, <1>9

-----------------------------------------------------------------------------
(* What a record tells of the stanzas it was made from.                    *)

PackageRecords == [date : Nat \ {0}, action : Actions, upgraded : Nat, removed : BOOLEAN]

Sums(rec, D) ==
  /\ rec \in PackageRecords
  /\ rec.removed = TRUE <=> \E s \in D : s.action \in Departures
  /\ rec.upgraded = 0 <=> \A s \in D : s.action # "Upgrade"
  /\ rec.removed = FALSE /\ rec.action \in Arrivals =>
       /\ \E s \in D : s.action \in Arrivals /\ s.date = rec.date
       /\ \A s \in D : s.action \in Arrivals => rec.date <= s.date
  /\ rec.removed = FALSE /\ rec.action \notin Arrivals => \A s \in D : s.action \notin Arrivals

LEMMA AbsorbFresh == ASSUME NEW s \in Stanzas PROVE Sums(Absorb(FreshRecord(s), s), {s})
<1> DEFINE r == FreshRecord(s)
<1>1. /\ r \in PackageRecords /\ r.date = s.date /\ r.action = s.action /\ r.upgraded = 0 /\ r.removed = FALSE
      /\ s.date \in Nat \ {0} /\ s.action \in Actions
  BY DEF FreshRecord, PackageRecords, Stanzas
<1> HIDE DEF r
<1>2. CASE s.action \in Arrivals
  <2>1. Absorb(r, s) = r
    BY <1>1, <1>2 DEF Absorb, Arrivals
  <2>2. QED
    BY <1>1, <1>2, <2>1 DEF Sums, Arrivals, Departures, r
<1>3. CASE s.action = "Upgrade"
  <2>1. Absorb(r, s) = [r EXCEPT !.upgraded = s.date]
    BY <1>1, <1>3 DEF Absorb, Arrivals
  <2>2. QED
    BY <1>1, <1>3, <2>1 DEF Sums, Arrivals, Departures, PackageRecords, r
<1>4. CASE s.action \in Departures
  <2>1. Absorb(r, s) = [r EXCEPT !.date = s.date, !.action = s.action, !.removed = TRUE]
    BY <1>1, <1>4 DEF Absorb, Arrivals, Departures
  <2>2. QED
    BY <1>1, <1>4, <2>1 DEF Sums, Arrivals, Departures, PackageRecords, r
<1>5. QED
  BY <1>1, <1>2, <1>3, <1>4 DEF Actions, Arrivals, Departures

LEMMA AbsorbMore ==
  ASSUME NEW D, D \subseteq Stanzas, NEW rec, Sums(rec, D), NEW s \in Stanzas
  PROVE  Sums(Absorb(rec, s), D \cup {s})
<1>1. /\ rec \in PackageRecords /\ s.date \in Nat \ {0} /\ s.action \in Actions
      /\ rec.removed \in BOOLEAN /\ rec.date \in Nat \ {0} /\ rec.upgraded \in Nat
      /\ \A t \in D : t.date \in Nat
  BY DEF Sums, PackageRecords, Stanzas
<1>2. CASE s.action \in Arrivals
  <2>1. s.action \notin Departures /\ s.action # "Upgrade"
    BY <1>2 DEF Arrivals, Departures
  <2>2. CASE rec.action \notin Arrivals \/ s.date < rec.date
    <3> DEFINE r == [rec EXCEPT !.date = s.date, !.action = s.action]
    <3>1. Absorb(rec, s) = r
      BY <1>2, <2>1, <2>2 DEF Absorb
    <3>2. /\ r \in PackageRecords /\ r.date = s.date /\ r.action = s.action
          /\ r.upgraded = rec.upgraded /\ r.removed = rec.removed
      BY <1>1 DEF PackageRecords
    <3> HIDE DEF r
    <3>3. rec.removed = FALSE => \A t \in D : t.action \in Arrivals => s.date <= t.date
      BY <1>1, <2>2 DEF Sums
    <3>4. Sums(r, D \cup {s})
      BY <1>1, <1>2, <2>1, <3>2, <3>3 DEF Sums
    <3>5. QED
      BY <3>1, <3>4
  <2>3. CASE ~ (rec.action \notin Arrivals \/ s.date < rec.date)
    <3>1. Absorb(rec, s) = rec
      BY <1>2, <2>1, <2>3 DEF Absorb
    <3>2. Sums(rec, D \cup {s})
      BY <1>1, <1>2, <2>1, <2>3 DEF Sums
    <3>3. QED
      BY <3>1, <3>2
  <2>4. QED
    BY <2>2, <2>3
<1>3. CASE s.action = "Upgrade"
  <2>1. s.action \notin Departures /\ s.action \notin Arrivals
    BY <1>3 DEF Arrivals, Departures
  <2>2. CASE rec.upgraded = 0
    <3> DEFINE r == [rec EXCEPT !.upgraded = s.date]
    <3>1. Absorb(rec, s) = r
      BY <1>3, <2>1, <2>2 DEF Absorb
    <3>2. /\ r \in PackageRecords /\ r.date = rec.date /\ r.action = rec.action
          /\ r.upgraded = s.date /\ r.removed = rec.removed
      BY <1>1 DEF PackageRecords
    <3> HIDE DEF r
    <3>3. Sums(r, D \cup {s})
      BY <1>1, <1>3, <2>1, <3>2 DEF Sums
    <3>4. QED
      BY <3>1, <3>3
  <2>3. CASE rec.upgraded # 0
    <3>1. Absorb(rec, s) = rec
      BY <1>3, <2>1, <2>3 DEF Absorb
    <3>2. Sums(rec, D \cup {s})
      BY <1>1, <1>3, <2>1, <2>3 DEF Sums
    <3>3. QED
      BY <3>1, <3>2
  <2>4. QED
    BY <2>2, <2>3
<1>4. CASE s.action \in Departures
  <2>1. s.action # "Upgrade" /\ s.action \notin Arrivals
    BY <1>4 DEF Arrivals, Departures
  <2> DEFINE r == [rec EXCEPT !.date = s.date, !.action = s.action, !.removed = TRUE]
  <2>2. Absorb(rec, s) = r
    BY <2>1 DEF Absorb
  <2>3. /\ r \in PackageRecords /\ r.upgraded = rec.upgraded /\ r.removed = TRUE
    BY <1>1 DEF PackageRecords
  <2> HIDE DEF r
  <2>4. Sums(r, D \cup {s})
    BY <1>1, <1>4, <2>1, <2>3 DEF Sums
  <2>5. QED
    BY <2>2, <2>4
<1>5. QED
  BY <1>1, <1>2, <1>3, <1>4 DEF Actions, Arrivals, Departures

-----------------------------------------------------------------------------
(* The index, stanza by stanza, and what apt_date says.                    *)

\* The first n stanzas that are about an architecture.
Of(n, a) == {LogFiles[j] : j \in {i \in 1..n : LogFiles[i].arch = a}}

Indexed(n) ==
  /\ DOMAIN IndexAfter[n] = {a \in ToSet(Archs) : Of(n, a) # {}}
  /\ \A a \in DOMAIN IndexAfter[n] : Sums(IndexAfter[n][a], Of(n, a))

LEMMA OneMore ==
  ASSUME LogFiles \in Seq(Stanzas), NEW n \in 1..Len(LogFiles), Indexed(n - 1),
         Len(LogFiles) \in Nat, IndexAfter[n] = AbsorbInto(IndexAfter[n - 1], LogFiles[n])
  PROVE  Indexed(n)
<1> DEFINE s   == LogFiles[n]
           idx == IndexAfter[n - 1]
<1>1. s \in Stanzas /\ s.arch \in ToSet(Archs) /\ \A j \in 1..n : LogFiles[j] \in Stanzas
  <2>1. \A j \in 1..Len(LogFiles) : LogFiles[j] \in Stanzas
    BY ElementOfSeq
  <2>2. s \in Stanzas /\ \A j \in 1..n : LogFiles[j] \in Stanzas
    BY <2>1
  <2>3. QED
    BY <2>2 DEF Stanzas
<1>2. 1..n = (1..(n - 1)) \cup {n}
  OBVIOUS
<1>3. Of(n, s.arch) = Of(n - 1, s.arch) \cup {s}
  BY <1>2 DEF Of
<1>4. \A a : a # s.arch => Of(n, a) = Of(n - 1, a)
  BY <1>2 DEF Of
<1>5. DOMAIN idx = {a \in ToSet(Archs) : Of(n - 1, a) # {}} /\ \A a \in DOMAIN idx : Sums(idx[a], Of(n - 1, a))
  BY DEF Indexed
<1>6. /\ DOMAIN IndexAfter[n] = DOMAIN idx \cup {s.arch}
      /\ \A a \in DOMAIN idx : a # s.arch => IndexAfter[n][a] = idx[a]
      /\ IndexAfter[n][s.arch] =
           Absorb(IF s.arch \in DOMAIN idx THEN idx[s.arch] ELSE FreshRecord(s), s)
  BY DEF AbsorbInto
<1> HIDE DEF s, idx
<1>7. DOMAIN IndexAfter[n] = {a \in ToSet(Archs) : Of(n, a) # {}}
  BY <1>1, <1>3, <1>4, <1>5, <1>6
<1>8. Sums(IndexAfter[n][s.arch], Of(n, s.arch))
  <2>1. CASE s.arch \in DOMAIN idx
    <3>1. Of(n - 1, s.arch) \subseteq Stanzas
      BY <1>1, <1>2 DEF Of
    <3>2. Sums(Absorb(idx[s.arch], s), Of(n - 1, s.arch) \cup {s})
      BY <1>1, <1>5, <2>1, <3>1, AbsorbMore
    <3>3. QED
      BY <1>3, <1>6, <2>1, <3>2
  <2>2. CASE s.arch \notin DOMAIN idx
    <3>1. Of(n, s.arch) = {s}
      BY <1>1, <1>3, <1>5, <2>2
    <3>2. QED
      BY <1>1, <1>6, <2>2, <3>1, AbsorbFresh
  <2>3. QED
    BY <2>1, <2>2
<1>9. ASSUME NEW a \in DOMAIN IndexAfter[n], a # s.arch PROVE Sums(IndexAfter[n][a], Of(n, a))
  BY <1>4, <1>5, <1>6, <1>9
<1>10. QED
  BY <1>7, <1>8, <1>9 DEF Indexed

LEMMA AllIndexed == ASSUME AptTypes PROVE Indexed(Len(LogFiles))
<1> DEFINE N   == Len(LogFiles)
           Bad == {n \in 0..N : ~ Indexed(n)}
<1>1. LogFiles \in Seq(Stanzas) /\ Len(LogFiles) \in Nat
  BY LogFilesHold
<1>2. \A n \in 0..N : IndexAfter[n] = IF n = 0 THEN [a \in {} |-> 0]
                                     ELSE AbsorbInto(IndexAfter[n - 1], LogFiles[n])
  BY <1>1, IndexAfterIs
<1>3. Indexed(0)
  <2>1. IndexAfter[0] = [a \in {} |-> 0]
    <3>1. 0 \in 0..N
      BY <1>1
    <3>2. QED
      BY <1>2, <3>1
  <2>2. \A a : Of(0, a) = {}
    BY DEF Of
  <2>3. QED
    BY <2>1, <2>2 DEF Indexed
<1>4. ASSUME NEW n \in 1..N, Indexed(n - 1) PROVE Indexed(n)
  <2>1. n \in 0..N /\ n # 0
    BY <1>1
  <2>2. IndexAfter[n] = AbsorbInto(IndexAfter[n - 1], LogFiles[n])
    BY <1>2, <2>1
  <2>3. QED
    BY <1>1, <1>4, <2>2, OneMore
<1>5. Bad = {}
  <2>1. SUFFICES ASSUME Bad # {} PROVE FALSE
    OBVIOUS
  <2>2. PICK m \in Bad : \A n \in Bad : m <= n
    <3>1. Bad \subseteq Nat
      BY <1>1
    <3>2. QED
      BY <2>1, <3>1, LeastNatural
  <2>3. m # 0 /\ m \in 1..N
    BY <1>1, <1>3, <2>2
  <2>4. m - 1 \in 0..N /\ m - 1 \notin Bad
    BY <1>1, <2>2, <2>3
  <2>5. QED
    BY <1>4, <2>2, <2>3, <2>4
<1>6. QED
  BY <1>1, <1>5

\* What parse_history has of each architecture is what its readable stanzas tell.
LEMMA HistoryParsed ==
  ASSUME AptTypes
  PROVE  \A a \in ToSet(Archs) :
           LET D == {x \in ToSet(LogFiles) : x.arch = a}
           IN  /\ a \in DOMAIN ParseHistory <=> D # {}
               /\ a \in DOMAIN ParseHistory => Sums(ParseHistory[a], D)
<1>1. LogFiles \in Seq(Stanzas) /\ DOMAIN LogFiles = 1..Len(LogFiles)
  BY LogFilesHold
<1>2. \A a : Of(Len(LogFiles), a) = {x \in ToSet(LogFiles) : x.arch = a}
  BY <1>1 DEF Of, ToSet
<1>3. QED
  BY <1>2, AllIndexed DEF Indexed, ParseHistory

\* The first alias the index knows is one of the architectures.
LEMMA AliasKnown ==
  /\ AliasFound = 0 => \A a \in ToSet(Archs) : a \notin DOMAIN ParseHistory
  /\ AliasFound # 0 => Archs[AliasFound] \in ToSet(Archs) /\ Archs[AliasFound] \in DOMAIN ParseHistory
<1> DEFINE known == {i \in DOMAIN Archs : Archs[i] \in DOMAIN ParseHistory}
<1>1. known \subseteq Nat /\ 0 \notin known /\ known \subseteq DOMAIN Archs
      /\ \A i \in known : Archs[i] \in DOMAIN ParseHistory
  <2>1. DOMAIN Archs = 1..Len(Archs) /\ Len(Archs) \in Nat
    BY AptAssumption
  <2>2. QED
    BY <2>1
<1>2. AliasFound = IF known = {} THEN 0 ELSE Min(known)
  BY DEF AliasFound
<1>3. known = {} => \A a \in ToSet(Archs) : a \notin DOMAIN ParseHistory
  BY DEF ToSet
<1> HIDE DEF known
<1>4. CASE known = {}
  BY <1>2, <1>3, <1>4
<1>5. CASE known # {}
  <2>1. AliasFound \in known
    BY <1>1, <1>2, <1>5, LeastChosen
  <2>2. QED
    BY <1>1, <2>1 DEF ToSet
<1>6. QED
  BY <1>4, <1>5

LEMMA AbsentNotDated == ASSUME AptInv PROVE AbsentNeverDated
<1> SUFFICES ASSUME torn = {}, ~ Installed PROVE AptDate.says \in {"notInstalled", "nothing"}
  BY DEF AbsentNeverDated
<1>1. AptTypes /\ GoneTold /\ \A a \in ToSet(Archs) : manifest[a] = 0
  BY DEF AptInv, Installed
<1>2. CASE AliasFound = 0
  <2>1. Archs[1] \in ToSet(Archs)
    BY AptAssumption DEF ToSet
  <2>2. AptDate = [says |-> "nothing"]
    BY <1>1, <1>2, <2>1 DEF AptDate
  <2>3. QED
    BY <2>2
<1>3. CASE AliasFound # 0
  <2> DEFINE a == Archs[AliasFound]
             D == {x \in ToSet(LogFiles) : x.arch = a}
  <2>1. a \in ToSet(Archs) /\ a \in DOMAIN ParseHistory
    BY <1>3, AliasKnown
  <2>2. D # {} /\ Sums(ParseHistory[a], D)
    BY <1>1, <2>1, HistoryParsed
  <2>3. \E s \in D : s.action \in Departures
    <3>1. Len(rotated) \in Nat /\ live \in Seq(Stanzas)
          /\ \A n \in 1..Len(rotated) : rotated[n] \in Seq(Stanzas)
      BY <1>1 DEF AptTypes
    <3>2. DOMAIN rotated = 1..Len(rotated) /\ \A n \in 1..Len(rotated) : Readable(n) = rotated[n]
      BY <1>1 DEF Readable, AptTypes
    <3>3. \A x : x \in ToSet(LogFiles) <=>
            \E n \in 0..Len(rotated) : \E i \in DOMAIN File(n) : x = File(n)[i]
      <4>1. ToSet(LogFiles) = Held \cup ToSet(live)
        BY <1>1, LogFilesHold
      <4>2. \A x : x \in Held <=>
              \E n \in 1..Len(rotated) : \E i \in DOMAIN rotated[n] : x = rotated[n][i]
        BY <3>1, <3>2 DEF ToSet, Held
      <4>3. \A n \in 1..Len(rotated) : n \in 0..Len(rotated) /\ File(n) = rotated[n]
        BY <3>1 DEF File
      <4>4. 0 \in 0..Len(rotated) /\ File(0) = live
            /\ \A n \in 0..Len(rotated) : n = 0 \/ n \in 1..Len(rotated)
        BY <3>1 DEF File
      <4>5. \A x : x \in ToSet(live) <=> \E i \in DOMAIN live : x = live[i]
        BY DEF ToSet
      <4>6. ASSUME NEW x \in ToSet(LogFiles)
            PROVE  \E n \in 0..Len(rotated) : \E i \in DOMAIN File(n) : x = File(n)[i]
        BY <4>1, <4>2, <4>3, <4>4, <4>5
      <4>7. ASSUME NEW n \in 0..Len(rotated), NEW i \in DOMAIN File(n)
            PROVE  File(n)[i] \in ToSet(LogFiles)
        BY <4>1, <4>2, <4>3, <4>4, <4>5
      <4>8. QED
        BY <4>6, <4>7
    <3>4. PICK x \in ToSet(LogFiles) : x.arch = a
      BY <2>2
    <3>5. PICK n \in 0..Len(rotated) : \E i \in DOMAIN File(n) : x = File(n)[i]
      BY <3>3
    <3>6. PICK i \in DOMAIN File(n) : x = File(n)[i]
      BY <3>5
    <3>7. Holds(n, a, Actions)
      <4>1. File(n) \in Seq(Stanzas)
        BY <3>1 DEF File
      <4>2. File(n)[i] \in Stanzas
        BY <4>1, ElementOfSeq
      <4>3. QED
        BY <3>4, <3>6, <4>2 DEF Holds, Stanzas
    <3>8. PICK m \in 0..n : Holds(m, a, Departures)
      BY <1>1, <2>1, <3>7 DEF GoneTold
    <3>9. m \in 0..Len(rotated)
      BY <3>1
    <3>10. QED
      BY <3>3, <3>8, <3>9 DEF Holds
  <2> HIDE DEF D, a
  <2>4. ParseHistory[a].removed = TRUE
    BY <2>2, <2>3 DEF Sums
  <2>5. AptDate = [says |-> "notInstalled", date |-> ParseHistory[a].date]
    BY <1>3, <2>4 DEF AptDate, a
  <2>6. QED
    BY <2>5
<1>4. QED
  BY <1>2, <1>3

LEMMA InstallDateEarned == ASSUME AptInv PROVE InstallDateGenuine
<1> DEFINE a == Archs[AliasFound]
           D == {x \in ToSet(LogFiles) : x.arch = a}
           rec == ParseHistory[a]
<1> SUFFICES ASSUME AptDate.says = "installed"
             PROVE  /\ AptDate.date = Min(Dates(a, Arrivals))
                    /\ Dates(a, {"Remove", "Purge"}) = {}
                    /\ AptDate.upgraded = 0 <=> Dates(a, {"Upgrade"}) = {}
  BY DEF InstallDateGenuine
<1>1. AptTypes
  BY DEF AptInv
<1>2. AliasFound # 0
  BY DEF AptDate
<1>3. a \in ToSet(Archs) /\ a \in DOMAIN ParseHistory
  BY <1>2, AliasKnown
<1>4. Sums(rec, D) /\ D \subseteq Stanzas
  <2>1. Sums(rec, D)
    BY <1>1, <1>3, HistoryParsed
  <2>2. ToSet(LogFiles) \subseteq Stanzas
    BY <1>1, LogFilesHold, ElementOfSeq DEF ToSet
  <2>3. QED
    BY <2>1, <2>2
<1>5. /\ AptDate = CASE rec.removed -> [says |-> "notInstalled", date |-> rec.date]
                     [] ~rec.removed /\ rec.action \in Arrivals ->
                          [says |-> "installed", date |-> rec.date, upgraded |-> rec.upgraded]
                     [] OTHER -> [says |-> "upgraded", date |-> rec.date]
      /\ rec.removed \in BOOLEAN
  BY <1>2, <1>4 DEF AptDate, Sums, PackageRecords
<1>6. \A actions : Dates(a, actions) = {s.date : s \in {x \in D : x.action \in actions}}
  BY DEF Dates
<1> HIDE DEF a, D, rec
<1>7. rec.removed = FALSE
  <2>1. CASE rec.removed = TRUE
    BY <1>5, <2>1
  <2>2. QED
    BY <1>5, <2>1
<1>8. rec.action \in Arrivals
  BY <1>5, <1>7
<1>9. AptDate.date = rec.date /\ AptDate.upgraded = rec.upgraded
  BY <1>5, <1>7, <1>8
<1>10. rec.date = Min(Dates(a, Arrivals))
  <2> DEFINE S == Dates(a, Arrivals)
  <2>1. S \subseteq Nat /\ rec.date \in S /\ \A d \in S : rec.date <= d
    BY <1>4, <1>6, <1>7, <1>8 DEF Sums, Stanzas
  <2> HIDE DEF S
  <2>2. Min(S) \in S /\ \A d \in S : Min(S) <= d
    BY <2>1, LeastChosen
  <2>3. QED
    BY <2>1, <2>2 DEF S
<1>11. Dates(a, {"Remove", "Purge"}) = {}
  BY <1>4, <1>6, <1>7 DEF Sums, Departures
<1>12. rec.upgraded = 0 <=> Dates(a, {"Upgrade"}) = {}
  BY <1>4, <1>6 DEF Sums
<1>13. QED
  BY <1>9, <1>10, <1>11, <1>12

LEMMA PresentSaid == ASSUME AptInv PROVE PresentSaidSo
<1> SUFFICES ASSUME manifest[Archs[1]] # 0, AptDate.says \in {"notInstalled", "nothing"}
             PROVE  /\ AptDate.says = "notInstalled"
                    /\ Dates(Archs[AliasFound], {"Remove", "Purge"}) # {}
  BY DEF PresentSaidSo
<1>1. AliasFound # 0
  <2>1. CASE AliasFound = 0
    <3>1. AptDate = [says |-> "mtime", date |-> manifest[Archs[1]]]
      BY <2>1 DEF AptDate
    <3>2. QED
      BY <3>1
  <2>2. QED
    BY <2>1
<1> DEFINE a == Archs[AliasFound]
           D == {x \in ToSet(LogFiles) : x.arch = a}
           rec == ParseHistory[a]
<1>2. a \in ToSet(Archs) /\ a \in DOMAIN ParseHistory
  BY <1>1, AliasKnown
<1>3. Sums(rec, D)
  BY <1>2, HistoryParsed DEF AptInv
<1>4. /\ AptDate = CASE rec.removed -> [says |-> "notInstalled", date |-> rec.date]
                     [] ~rec.removed /\ rec.action \in Arrivals ->
                          [says |-> "installed", date |-> rec.date, upgraded |-> rec.upgraded]
                     [] OTHER -> [says |-> "upgraded", date |-> rec.date]
      /\ rec.removed \in BOOLEAN
  BY <1>1, <1>3 DEF AptDate, Sums, PackageRecords
<1>5. Dates(a, {"Remove", "Purge"}) = {s.date : s \in {x \in D : x.action \in Departures}}
  BY DEF Dates, Departures
<1> HIDE DEF a, D, rec
<1>6. rec.removed = TRUE
  <2>1. CASE rec.removed = FALSE
    BY <1>4, <2>1
  <2>2. QED
    BY <1>4, <2>1
<1>7. AptDate.says = "notInstalled"
  BY <1>4, <1>6
<1>8. \E s \in D : s.action \in Departures
  BY <1>3, <1>6 DEF Sums
<1>9. QED
  BY <1>5, <1>7, <1>8 DEF a

\* A package that is gone is never given a date while every file can be read, and a date
\* that is given as an install date is that of the earliest install the files still hold,
\* which hold no removal; a package that is there is said to be gone only while they do.
THEOREM DatesAreEarned == AptSpec => []DatesEarned
<1>1. AptInv => DatesEarned
  BY AbsentNotDated, InstallDateEarned, PresentSaid DEF DatesEarned
<1>2. QED
  BY <1>1, AptSound, PTL

-----------------------------------------------------------------------------
(* The upstream cache.                                                     *)

RowsRead == Cardinality(DOMAIN rows)

CacheTypes ==
  /\ hour \in Nat \ {0} /\ mode \in {"idle", "online", "refresh"}
  /\ Latest \in Nat /\ Latest >= Published /\ since \in [1..Latest -> Nat]
  /\ disk \in [Keys -> [ts : Nat, value : Nat]]
  /\ digest \in Nat \cup {Unasked}
  /\ pin \in [UnitNo -> 0..Published] /\ upset \in BOOLEAN
  /\ RowsRead \in Nat /\ DOMAIN rows = 1..RowsRead /\ RowsRead <= NUnits
  /\ \A u \in DOMAIN rows : rows[u].released \in Nat

\* A record on disk is what was there when it was written: a token's hour, and a version that
\* was the newest, so that the next one came no earlier.
DiskSound ==
  /\ \A k \in Keys : disk[k] # Absent => disk[k].ts \in 1..hour
  /\ disk[Token] # Absent => disk[Token].value = disk[Token].ts
  /\ disk[Manifest] # Absent =>
       /\ disk[Manifest].value \in 1..Latest
       /\ disk[Manifest].value < Latest => since[disk[Manifest].value + 1] >= disk[Manifest].ts

\* The next version, if there is one, came so late that d may still be called the released one.
FreshEnough(d) ==
  0 < d /\ d < Latest => since[d + 1] >= hour \/ hour - since[d + 1] < CacheTTL

StaleToken == Fresh(Token) /\ disk[Token].ts < hour

\* The memo of the digest is as fresh, and as well explained, as what it was told in.
RunSound ==
  mode # "idle" =>
    /\ digest # Unasked => FreshEnough(digest)
    /\ \A u \in DOMAIN rows : FreshEnough(rows[u].released)
    /\ upset = FALSE => /\ digest = 0 => StaleToken
                        /\ \A u \in DOMAIN rows : rows[u].released = 0 => StaleToken
    /\ RowsRead = 0 => placed = {}

\* Once the first unit is read, the memo of the pages reaches from the newest version down
\* to its pin.
PagesReach ==
  mode = "refresh" /\ upset = FALSE /\ RowsRead # 0 /\ pin[1] # 0 =>
    /\ placed # {}
    /\ \A v \in pin[1]..Published : v > Latest - HubPages => v \in UNION placed

CacheInv == CacheTypes /\ DiskSound /\ RunSound /\ PagesReach /\ PinNamed

LEMMA CacheInitSound == CacheInit => CacheInv
<1> SUFFICES ASSUME CacheInit PROVE CacheInv
  OBVIOUS
<1>1. DOMAIN since = 1..Published /\ since \in [1..Published -> Nat]
  BY DEF CacheInit
<1>2. Latest = Published
  BY <1>1, CacheAssumption, FS_Interval DEF Latest
<1>3. DOMAIN rows = {} /\ RowsRead = 0
  BY FS_EmptySet DEF CacheInit, RowsRead
<1>4. CacheTypes
  <2>1. disk \in [Keys -> [ts : Nat, value : Nat]] /\ digest \in Nat \cup {Unasked}
    BY DEF CacheInit, Absent
  <2>2. RowsRead \in Nat /\ DOMAIN rows = 1..RowsRead /\ RowsRead <= NUnits
        /\ \A u \in DOMAIN rows : rows[u].released \in Nat
    BY <1>3, CacheAssumption
  <2>3. Latest \in Nat /\ Latest >= Published /\ since \in [1..Latest -> Nat]
    BY <1>1, <1>2, CacheAssumption
  <2>4. hour \in Nat \ {0} /\ mode \in {"idle", "online", "refresh"} /\ upset \in BOOLEAN
        /\ pin \in [UnitNo -> 0..Published]
    <3>1. hour = 1 /\ mode = "idle" /\ upset = FALSE /\ pin \in [UnitNo -> 0..Published]
      BY DEF CacheInit
    <3>2. hour \in Nat \ {0} /\ mode \in {"idle", "online", "refresh"}
      BY <3>1
    <3>3. upset \in BOOLEAN
      BY <3>1
    <3>4. QED
      BY <3>1, <3>2, <3>3
  <2>5. QED
    BY <2>1, <2>2, <2>3, <2>4 DEF CacheTypes
<1>5. DiskSound
  BY CacheAssumption DEF CacheInit, DiskSound, Absent, Keys, Token, Manifest
<1>6. QED
  BY <1>3, <1>4, <1>5 DEF CacheInv, CacheInit, RunSound, PagesReach, PinNamed

LEMMA PublishStep == CacheInv /\ Publish => CacheInv'
<1> SUFFICES ASSUME CacheInv, Publish PROVE CacheInv'
  OBVIOUS
<1>1. /\ UNCHANGED <<hour, disk, mode, digest, placed, pin, rows, upset>>
      /\ since' = [v \in 1..Latest + 1 |-> IF v <= Latest THEN since[v] ELSE hour]
      /\ CacheTypes /\ Latest \in Nat /\ hour \in Nat
  BY DEF Publish, CacheInv, CacheTypes
<1>2. /\ DOMAIN since' = 1..(Latest + 1) /\ since' \in [1..(Latest + 1) -> Nat]
      /\ since'[Latest + 1] = hour /\ \A v \in 1..Latest : since'[v] = since[v]
  BY <1>1 DEF CacheTypes
<1>3. Latest' = Latest + 1
  BY <1>1, <1>2, FS_Interval DEF Latest
<1>4. CacheTypes'
  BY <1>1, <1>2, <1>3, CacheAssumption DEF CacheTypes, RowsRead
<1>5. DiskSound'
  BY <1>1, <1>2, <1>3 DEF CacheInv, CacheTypes, DiskSound, Manifest, Token, Keys, Absent
<1>6. ASSUME NEW d \in Nat, FreshEnough(d) PROVE FreshEnough(d)'
  BY <1>1, <1>2, <1>3, <1>6 DEF FreshEnough, CacheTTL
<1>7. RunSound'
  BY <1>1, <1>6 DEF CacheInv, CacheTypes, RunSound, StaleToken, Fresh, CacheTTL, RowsRead
<1>8. PagesReach' /\ PinNamed'
  <2>1. \A v \in Nat : v > Latest' - HubPages => v > Latest - HubPages
    BY <1>1, <1>3, CacheAssumption
  <2>2. \A u \in UnitNo : pin[u] \in Nat
    BY <1>1 DEF CacheTypes
  <2>3. PinNamed'
    <3>1. \A u \in DOMAIN rows : u \in UnitNo
      BY <1>1, CacheAssumption DEF CacheTypes, UnitNo
    <3>2. QED
      BY <1>1, <2>1, <2>2, <3>1 DEF CacheInv, PinNamed
  <2>4. PagesReach'
    <3>1. 1 \in UnitNo
      BY CacheAssumption DEF UnitNo
    <3>2. \A v \in pin[1]..Published : v \in Nat
      BY <2>2, <3>1
    <3>3. QED
      BY <1>1, <2>1, <3>2 DEF CacheInv, PagesReach, RowsRead
  <2>5. QED
    BY <2>3, <2>4
<1>9. QED
  BY <1>4, <1>5, <1>7, <1>8 DEF CacheInv

LEMMA StartRunStep ==
  ASSUME CacheInv, NEW m \in {"online", "refresh"}, StartRun(m)
  PROVE  CacheInv'
<1>1. DOMAIN rows' = {} /\ RowsRead' = 0
  BY FS_EmptySet DEF StartRun, RowsRead
<1>2. UNCHANGED <<hour, since, disk, pin>> /\ mode' = m /\ digest' = Unasked /\ upset' = FALSE
      /\ placed' = {}
  BY DEF StartRun
<1>3. CacheTypes'
  <2>1. Latest' = Latest
    BY <1>2 DEF Latest
  <2>2. RowsRead' \in Nat /\ DOMAIN rows' = 1..RowsRead' /\ RowsRead' <= NUnits
        /\ \A u \in DOMAIN rows' : rows'[u].released \in Nat
    BY <1>1, CacheAssumption
  <2>3. mode' \in {"idle", "online", "refresh"} /\ upset' \in BOOLEAN
        /\ digest' \in Nat \cup {Unasked}
    BY <1>2
  <2>4. QED
    BY <1>2, <2>1, <2>2, <2>3 DEF CacheInv, CacheTypes
<1>4. DiskSound'
  BY <1>2 DEF CacheInv, DiskSound, Latest
<1>5. RunSound' /\ PagesReach' /\ PinNamed'
  BY <1>1, <1>2, CacheAssumption DEF RunSound, PagesReach, PinNamed
<1>6. QED
  BY <1>3, <1>4, <1>5 DEF CacheInv

LEMMA IdleStep == CacheInv /\ (HourPasses \/ EndRun \/ UNCHANGED cacheVars) => CacheInv'
<1>1. ASSUME CacheInv, HourPasses PROVE CacheInv'
  <2>1. hour' = hour + 1 /\ mode = "idle"
        /\ UNCHANGED <<since, disk, mode, digest, placed, pin, rows, upset>>
    BY <1>1 DEF HourPasses
  <2>2. CacheTypes' /\ DiskSound'
    BY <1>1, <2>1 DEF CacheInv, CacheTypes, DiskSound, Latest, RowsRead
  <2>3. RunSound' /\ PagesReach' /\ PinNamed'
    BY <2>1 DEF RunSound, PagesReach, PinNamed
  <2>4. QED
    BY <2>2, <2>3 DEF CacheInv
<1>2. ASSUME CacheInv, EndRun PROVE CacheInv'
  <2>1. mode' = "idle" /\ UNCHANGED <<hour, since, disk, digest, placed, pin, rows, upset>>
    BY <1>2 DEF EndRun
  <2>2. CacheTypes' /\ DiskSound'
    BY <1>2, <2>1 DEF CacheInv, CacheTypes, DiskSound, Latest, RowsRead
  <2>3. RunSound' /\ PagesReach' /\ PinNamed'
    BY <2>1 DEF RunSound, PagesReach, PinNamed
  <2>4. QED
    BY <2>2, <2>3 DEF CacheInv
<1>3. ASSUME CacheInv, UNCHANGED cacheVars PROVE CacheInv'
  BY <1>3 DEF cacheVars, CacheInv, CacheTypes, DiskSound, RunSound, PagesReach, PinNamed,
     Latest, RowsRead, FreshEnough, StaleToken, Fresh, CacheTTL
<1>4. QED
  BY <1>1, <1>2, <1>3

-----------------------------------------------------------------------------
(* One unit.                                                               *)

\* What is stored of the fetches of a unit, whichever pages are read.
LEMMA StoredSound ==
  ASSUME CacheTypes, DiskSound, NEW ok \in SUBSET Keys, NEW asked \in SUBSET Keys,
         disk' = CacheWrite(asked, [k \in Keys |-> IF k = Token THEN hour ELSE Latest], ok),
         UNCHANGED <<hour, since, mode>>
  PROVE  /\ disk' \in [Keys -> [ts : Nat, value : Nat]] /\ DiskSound'
         /\ StaleToken => StaleToken'
<1>1. /\ Token \in Keys /\ Manifest \in Keys /\ Token # Manifest
      /\ hour \in Nat \ {0} /\ Latest \in Nat /\ Latest >= 1
  BY CacheAssumption DEF CacheTypes, Keys, Token, Manifest
<1>2. Latest' = Latest /\ CacheTTL' = CacheTTL
  BY DEF Latest, CacheTTL
<1>3. ASSUME NEW k \in Keys
      PROVE  \/ disk'[k] = disk[k]
             \/ k = Token /\ disk'[k] = [ts |-> hour, value |-> hour] /\ ~ Fresh(k)
             \/ k # Token /\ disk'[k] = [ts |-> hour, value |-> Latest] /\ ~ Fresh(k)
  BY DEF CacheWrite
<1>4. disk' \in [Keys -> [ts : Nat, value : Nat]]
  <2>1. \A k \in Keys : disk'[k] \in [ts : Nat, value : Nat]
    <3>1. /\ [ts |-> hour, value |-> hour] \in [ts : Nat, value : Nat]
          /\ [ts |-> hour, value |-> Latest] \in [ts : Nat, value : Nat]
      BY <1>1
    <3>2. \A k \in Keys : disk[k] \in [ts : Nat, value : Nat]
      BY DEF CacheTypes
    <3>3. QED
      BY <1>3, <3>1, <3>2
  <2>2. disk' = [k \in Keys |-> disk'[k]]
    BY DEF CacheWrite
  <2>3. QED
    BY <2>1, <2>2
<1>5. ASSUME NEW k \in Keys, disk'[k] # Absent PROVE disk'[k].ts \in 1..hour
  <2>1. CASE disk'[k] = disk[k]
    BY <1>5, <2>1 DEF DiskSound
  <2>2. CASE disk'[k] # disk[k]
    <3>1. disk'[k].ts = hour
      BY <1>3, <2>2
    <3>2. QED
      BY <1>1, <3>1
  <2>3. QED
    BY <2>1, <2>2
<1>6. disk'[Token] # Absent => disk'[Token].value = disk'[Token].ts
  <2>1. disk'[Token] = disk[Token] \/ disk'[Token] = [ts |-> hour, value |-> hour]
    BY <1>1, <1>3
  <2>2. QED
    BY <2>1 DEF DiskSound
<1>7. disk'[Manifest] # Absent =>
        /\ disk'[Manifest].value \in 1..Latest
        /\ disk'[Manifest].value < Latest => since[disk'[Manifest].value + 1] >= disk'[Manifest].ts
  <2>1. disk'[Manifest] = disk[Manifest] \/ disk'[Manifest] = [ts |-> hour, value |-> Latest]
    BY <1>1, <1>3
  <2>2. CASE disk'[Manifest] = disk[Manifest]
    BY <2>2 DEF DiskSound
  <2>3. CASE disk'[Manifest] = [ts |-> hour, value |-> Latest]
    <3>1. disk'[Manifest].value = Latest
      BY <2>3
    <3>2. QED
      BY <1>1, <3>1
  <2>4. QED
    BY <2>1, <2>2, <2>3
<1>8. StaleToken => StaleToken'
  BY <1>1, <1>2, <1>3 DEF StaleToken, Fresh
<1>9. QED
  BY <1>2, <1>4, <1>5, <1>6, <1>7, <1>8 DEF DiskSound

\* The digest a unit is told.
LEMMA DigestSound ==
  ASSUME CacheInv, mode # "idle", NEW ok \in SUBSET Keys
  PROVE  /\ RegistryDigest(ok) \in Nat /\ FreshEnough(RegistryDigest(ok))
         /\ (upset = FALSE /\ {k \in Fetched : ~ Fresh(k)} \subseteq ok /\ RegistryDigest(ok) = 0)
               => StaleToken
<1> DEFINE rel == RegistryDigest(ok)
<1>1. /\ Token \in Keys /\ Manifest \in Keys
      /\ hour \in Nat \ {0} /\ Latest \in Nat /\ Latest >= 1 /\ CacheTTL \in Nat
      /\ disk \in [Keys -> [ts : Nat, value : Nat]] /\ DiskSound /\ RunSound
      /\ digest \in Nat \cup {Unasked} /\ since \in [1..Latest -> Nat]
  BY CacheAssumption DEF CacheInv, CacheTypes, Keys, Token, Manifest, CacheTTL
<1>2. CASE digest # Unasked
  <2>1. rel = digest
    BY <1>2 DEF RegistryDigest
  <2>2. QED
    BY <1>1, <1>2, <2>1 DEF RunSound
<1>3. CASE digest = Unasked /\ Fresh(Manifest)
  <2>1. rel = disk[Manifest].value
    BY <1>3 DEF RegistryDigest
  <2>2. disk[Manifest] # Absent /\ hour - disk[Manifest].ts < CacheTTL
    BY <1>3 DEF Fresh
  <2>3. rel \in 1..Latest /\ (rel < Latest => since[rel + 1] >= disk[Manifest].ts)
        /\ disk[Manifest].ts \in 1..hour
    BY <1>1, <2>1, <2>2 DEF DiskSound
  <2>4. FreshEnough(rel)
    <3>1. SUFFICES ASSUME rel < Latest PROVE hour - since[rel + 1] < CacheTTL
      BY DEF FreshEnough
    <3>2. since[rel + 1] \in Nat
      BY <1>1, <2>3, <3>1
    <3>3. QED
      BY <1>1, <2>2, <2>3, <3>1, <3>2
  <2>5. QED
    BY <2>3, <2>4
<1>4. CASE digest = Unasked /\ ~ Fresh(Manifest)
  <2>1. rel = IF Manifest \in ok /\ TokenTaken(ok) THEN Latest ELSE 0
    BY <1>4 DEF RegistryDigest
  <2>2. rel \in Nat /\ FreshEnough(rel)
    BY <1>1, <2>1 DEF FreshEnough
  <2>3. ASSUME {k \in Fetched : ~ Fresh(k)} \subseteq ok, rel = 0 PROVE StaleToken
    <3>1. Manifest \in ok /\ (~ Fresh(Token) => Token \in ok)
      BY <1>4, <2>3 DEF Fetched
    <3>2. ~ TokenTaken(ok)
      BY <1>1, <2>1, <2>3, <3>1
    <3>3. Fresh(Token) /\ disk[Token].value # hour
      BY <3>1, <3>2 DEF TokenTaken, GetJson
    <3>4. disk[Token].value = disk[Token].ts /\ disk[Token].ts \in 1..hour
      BY <1>1, <3>3 DEF DiskSound, Fresh
    <3>5. QED
      BY <1>1, <3>3, <3>4 DEF StaleToken
  <2>4. QED
    BY <2>2, <2>3
<1>5. QED
  BY <1>2, <1>3, <1>4

LEMMA LastPageStops ==
  ASSUME NEW want, NEW ok
  PROVE  LET last == LastPage(want, ok)
         IN  /\ last \in Pages
             /\ \/ last = HubPages
                \/ \E q \in 1..last : OnPage(q, ok) = want
                \/ OnPage(last, ok) <= 1
<1> DEFINE stops == {p \in Pages : \/ p = HubPages
                                   \/ \E q \in 1..p : OnPage(q, ok) = want
                                   \/ OnPage(p, ok) <= 1}
<1>1. HubPages \in stops /\ stops \subseteq Nat
  BY CacheAssumption DEF Pages
<1>2. Min(stops) \in stops
  BY <1>1, LeastChosen
<1>3. LastPage(want, ok) = Min(stops)
  BY DEF LastPage
<1>4. QED
  BY <1>2, <1>3

\* In a refresh nothing on disk is used, so the pages that were all served show the newest
\* versions in turn, down to the version that was asked for.
LEMMA PagesDownTo ==
  ASSUME CacheInv, mode = "refresh", NEW ok \in SUBSET Keys, NEW want \in 1..Published,
         {p \in 1..LastPage(want, ok) : ~ Fresh(p)} \subseteq ok,
         NEW v \in want..Published, v > Latest - HubPages
  PROVE  v \in {OnPage(p, ok) : p \in 1..LastPage(want, ok)} \ {0}
<1> DEFINE last == LastPage(want, ok)
           nr   == Latest - v + 1
<1>1. /\ Latest \in Nat /\ Published \in Nat /\ v \in Nat /\ v # 0 /\ v <= Latest
      /\ want \in Nat /\ want <= v /\ want # 0 /\ HubPages \in Nat /\ HubPages # 0
      /\ hour \in Nat /\ disk \in [Keys -> [ts : Nat, value : Nat]]
      /\ \A k \in Keys : disk[k] # Absent => disk[k].ts \in 1..hour
  BY CacheAssumption DEF CacheInv, CacheTypes, DiskSound
<1>2. ASSUME NEW k \in Keys PROVE ~ Fresh(k)
  <2>1. disk[k] # Absent => hour - disk[k].ts >= 0
    BY <1>1
  <2>2. hour - disk[k].ts \in Int /\ CacheTTL = 0
    BY <1>1 DEF CacheTTL
  <2>3. QED
    BY <2>1, <2>2 DEF Fresh
<1>3. /\ last \in Pages
      /\ last = HubPages \/ (\E q \in 1..last : OnPage(q, ok) = want) \/ OnPage(last, ok) <= 1
  BY LastPageStops
<1> HIDE DEF last
<1>4. ASSUME NEW p \in 1..last PROVE OnPage(p, ok) = Latest - p + 1
  <2>1. p \in Keys /\ p \in Nat
    BY <1>1, <1>3 DEF Keys, Pages
  <2>2. p \in ok
    BY <1>2, <2>1 DEF last
  <2>3. QED
    BY <1>2, <2>1, <2>2 DEF OnPage, GetJson
<1>5. last \in Nat /\ last \in 1..last /\ last <= HubPages
  BY <1>1, <1>3 DEF Pages
<1>6. nr \in Nat /\ 1 <= nr /\ nr <= HubPages
  BY <1>1
<1>7. nr <= last
  <2>1. CASE last = HubPages
    BY <1>6, <2>1
  <2>2. CASE \E q \in 1..last : OnPage(q, ok) = want
    <3>1. PICK q \in 1..last : Latest - q + 1 = want
      BY <1>4, <2>2
    <3>2. QED
      BY <1>1, <1>5, <3>1
  <2>3. CASE OnPage(last, ok) <= 1
    <3>1. Latest - last + 1 <= 1
      BY <1>4, <1>5, <2>3
    <3>2. QED
      BY <1>1, <1>5, <3>1
  <2>4. QED
    BY <1>3, <2>1, <2>2, <2>3
<1>8. nr \in 1..last /\ OnPage(nr, ok) = v
  <2>1. nr \in 1..last
    BY <1>5, <1>6, <1>7
  <2>2. OnPage(nr, ok) = Latest - nr + 1
    BY <1>4, <2>1
  <2>3. QED
    BY <1>1, <2>1, <2>2
<1>9. QED
  BY <1>1, <1>8 DEF last

LEMMA ReadUnitStep == CacheInv /\ ReadUnit => CacheInv'
<1> SUFFICES ASSUME CacheInv, ReadUnit PROVE CacheInv'
  OBVIOUS
<1> DEFINE u == RowsRead + 1
<1>1. PICK ok \in SUBSET Keys :
        LET rel   == RegistryDigest(ok)
            want  == AskedFor(u, ok)
            pages == IF want = 0 THEN {} ELSE 1..LastPage(want, ok)
            asked == {k \in Fetched \cup pages : ~Fresh(k)}
            found == HubTags(u, ok)
            row   == [released |-> rel, pinNamed |-> pin[u] \in UNION found]
        IN  /\ digest' = rel /\ placed' = found
            /\ disk' = CacheWrite(Kept(ok) \cup pages,
                                  [k \in Keys |-> IF k = Token THEN hour ELSE Latest], ok)
            /\ rows' = [v \in 1..u |-> IF v = u THEN row ELSE rows[v]]
            /\ upset' = (upset \/ ~(asked \subseteq ok))
  BY DEF ReadUnit, RowsRead
<1> DEFINE rel   == RegistryDigest(ok)
           want  == AskedFor(u, ok)
           pages == IF want = 0 THEN {} ELSE 1..LastPage(want, ok)
           asked == {k \in Fetched \cup pages : ~Fresh(k)}
           found == HubTags(u, ok)
           row   == [released |-> rel, pinNamed |-> pin[u] \in UNION found]
<1>2. /\ mode # "idle" /\ RowsRead < NUnits /\ UNCHANGED <<hour, since, mode, pin>>
      /\ CacheTypes /\ DiskSound /\ RunSound /\ PagesReach /\ PinNamed
  BY DEF ReadUnit, RowsRead, CacheInv
<1>3. /\ RowsRead \in Nat /\ DOMAIN rows = 1..RowsRead /\ u \in UnitNo /\ u \in Nat
      /\ NUnits \in Nat /\ pin \in [UnitNo -> 0..Published]
  BY <1>2, CacheAssumption DEF CacheTypes, UnitNo
<1>4. /\ rel \in Nat /\ FreshEnough(rel)
      /\ (upset = FALSE /\ {k \in Fetched : ~ Fresh(k)} \subseteq ok /\ rel = 0) => StaleToken
  BY <1>2, DigestSound
<1>5. /\ DOMAIN rows' = 1..u /\ rows'[u] = row /\ \A v \in DOMAIN rows : rows'[v] = rows[v]
      /\ \A v \in DOMAIN rows' : v \in DOMAIN rows \/ v = u
  BY <1>1, <1>3
<1>6. RowsRead' = u
  BY <1>3, <1>5, FS_Interval DEF RowsRead
<1>7. upset' \in BOOLEAN /\ (upset' = FALSE => upset = FALSE /\ asked \subseteq ok)
  BY <1>1, <1>2 DEF CacheTypes
<1>8. Kept(ok) \cup pages \in SUBSET Keys
  <2>1. Kept(ok) \subseteq Keys
    BY DEF Kept, Fetched, Keys
  <2>2. pages \subseteq Keys
    <3>1. LastPage(want, ok) \in Pages
      BY LastPageStops
    <3>2. QED
      BY <3>1, CacheAssumption DEF Pages, Keys
  <2>3. QED
    BY <2>1, <2>2
<1>9. /\ disk' \in [Keys -> [ts : Nat, value : Nat]] /\ DiskSound'
      /\ StaleToken => StaleToken'
  BY <1>1, <1>2, <1>8, StoredSound
<1>10. digest' = rel /\ placed' = found
  BY <1>1
<1>11. Latest' = Latest /\ CacheTTL' = CacheTTL
  BY <1>2 DEF Latest, CacheTTL
<1>12. row.released = rel /\ row.pinNamed = (pin[u] \in UNION found)
  OBVIOUS
<1> HIDE DEF rel, row, found, want, pages, asked, u
<1>13. CacheTypes'
  <2>1. \A v \in DOMAIN rows' : rows'[v].released \in Nat
    BY <1>2, <1>4, <1>5, <1>12 DEF CacheTypes
  <2>2. u <= NUnits
    BY <1>2, <1>3 DEF u
  <2>3. QED
    BY <1>2, <1>3, <1>4, <1>5, <1>6, <1>7, <1>9, <1>10, <1>11, <2>1, <2>2 DEF CacheTypes
<1>14. RunSound'
  <2>1. \A v \in DOMAIN rows' : FreshEnough(rows'[v].released)
    BY <1>2, <1>4, <1>5, <1>12 DEF RunSound
  <2>2. ASSUME upset' = FALSE
        PROVE  /\ rel = 0 => StaleToken'
               /\ \A v \in DOMAIN rows' : rows'[v].released = 0 => StaleToken'
    <3>1. {k \in Fetched : ~ Fresh(k)} \subseteq ok /\ upset = FALSE
      BY <1>7, <2>2 DEF asked
    <3>2. rel = 0 => StaleToken'
      BY <1>4, <1>9, <3>1
    <3>3. \A v \in DOMAIN rows : rows[v].released = 0 => StaleToken'
      BY <1>2, <1>9, <3>1 DEF RunSound
    <3>4. QED
      BY <1>5, <1>12, <3>2, <3>3
  <2>3. (digest # Unasked => FreshEnough(digest))'
    BY <1>2, <1>4, <1>10, <1>11 DEF FreshEnough
  <2>4. (\A v \in DOMAIN rows : FreshEnough(rows[v].released))'
    BY <1>2, <1>11, <2>1 DEF FreshEnough
  <2>5. RowsRead' # 0
    BY <1>3, <1>6 DEF u
  <2>6. QED
    BY <1>10, <2>2, <2>3, <2>4, <2>5 DEF RunSound
<1>15. PagesReach'
  <2>1. SUFFICES ASSUME mode = "refresh", upset' = FALSE, pin[1] # 0
                 PROVE  /\ found # {}
                        /\ \A v \in pin[1]..Published : v > Latest - HubPages => v \in UNION found
    BY <1>2, <1>10, <1>11 DEF PagesReach
  <2>2. upset = FALSE /\ asked \subseteq ok /\ 1 \in UnitNo
    BY <1>7, <2>1, CacheAssumption DEF UnitNo
  <2>3. CASE RowsRead = 0
    <3>1. placed = {} /\ u = 1
      BY <1>2, <2>3 DEF RunSound, u
    <3>2. want = pin[1] /\ want # 0
      BY <2>1, <3>1 DEF want, AskedFor
    <3>3. want \in 1..Published
      BY <1>3, <2>2, <3>2, CacheAssumption
    <3>4. found = {{OnPage(p, ok) : p \in 1..LastPage(want, ok)} \ {0}}
      BY <3>2 DEF found, HubTags, want
    <3>5. {p \in 1..LastPage(want, ok) : ~ Fresh(p)} \subseteq ok
      BY <2>2, <3>2 DEF asked, pages
    <3>6. ASSUME NEW v \in want..Published, v > Latest - HubPages PROVE v \in UNION found
      <4>1. v \in {OnPage(p, ok) : p \in 1..LastPage(want, ok)} \ {0}
        BY <2>1, <3>3, <3>5, <3>6, PagesDownTo
      <4>2. QED
        BY <3>4, <4>1
    <3>7. QED
      BY <3>2, <3>4, <3>6
  <2>4. CASE RowsRead # 0
    <3>1. /\ placed # {}
          /\ \A v \in pin[1]..Published : v > Latest - HubPages => v \in UNION placed
      BY <1>2, <2>1, <2>2, <2>4 DEF PagesReach
    <3>2. found = placed
      BY <3>1 DEF found, HubTags, want, AskedFor
    <3>3. QED
      BY <3>1, <3>2
  <2>5. QED
    BY <2>3, <2>4
<1>16. PinNamed'
  <2>1. SUFFICES ASSUME mode = "refresh", upset' = FALSE, NEW v \in DOMAIN rows',
                        pin[v] > Latest - HubPages, pin[v] # 0,
                        ~ \E w \in 1..v - 1 : pin[w] = 0 \/ pin[w] > pin[v]
                 PROVE  rows'[v].pinNamed
    <3>1. ~ upset' => upset' = FALSE
      BY <1>7
    <3>2. mode' = mode /\ pin' = pin /\ Latest' = Latest
      BY <1>2, <1>11
    <3>3. QED
      BY <3>1, <3>2, Zenon DEF PinNamed
  <2>2. CASE v \in DOMAIN rows
    <3>1. rows[v].pinNamed
      BY <1>2, <1>7, <2>1, <2>2 DEF PinNamed
    <3>2. QED
      BY <1>5, <2>2, <3>1
  <2>3. CASE v = u
    <3>1. 1 \in UnitNo /\ pin[1] \in 0..Published /\ pin[v] \in 0..Published
      BY <1>3, <2>3, CacheAssumption DEF UnitNo
    <3>2. pin[1] # 0 /\ pin[1] <= pin[v]
      <4>1. CASE v = 1
        BY <2>1, <3>1, <4>1
      <4>2. CASE v # 1
        <5>1. 1 \in 1..(v - 1)
          BY <1>3, <2>3, <4>2 DEF u
        <5>2. QED
          BY <2>1, <3>1, <5>1
      <4>3. QED
        BY <4>1, <4>2
    <3>3. pin[v] \in pin[1]..Published
      BY <3>1, <3>2, CacheAssumption
    <3>4. RowsRead' # 0
      BY <1>3, <1>6 DEF u
    <3>5. pin[v] \in UNION found
      BY <1>2, <1>10, <1>11, <1>15, <2>1, <3>2, <3>3, <3>4 DEF PagesReach
    <3>6. rows'[v] = row /\ row.pinNamed = (pin[v] \in UNION found)
      BY <1>5, <1>12, <2>3
    <3>7. QED
      BY <3>5, <3>6
  <2>4. QED
    BY <1>5, <2>2, <2>3
<1>17. QED
  BY <1>9, <1>13, <1>14, <1>15, <1>16 DEF CacheInv

LEMMA CacheSound == CacheSpec => []CacheInv
<1>1. CacheInv /\ [CacheNext]_cacheVars => CacheInv'
  BY PublishStep, StartRunStep, IdleStep, ReadUnitStep DEF CacheNext
<1>2. QED
  BY <1>1, CacheInitSound, PTL DEF CacheSpec

\* A digest that a run calls released was what the tag named less than the TTL ago, and now
\* in a refresh (collector.py:34, :153-180).
LEMMA ReleasedIsFresh == CacheSpec => []ReleasedFresh
<1>1. CacheInv => ReleasedFresh
  <2> SUFFICES ASSUME CacheInv, mode # "idle", NEW v \in DOMAIN rows,
                      rows[v].released + 1 \in DOMAIN since, rows[v].released + 1 > 1
               PROVE  \/ since[rows[v].released + 1] >= hour
                      \/ hour - since[rows[v].released + 1] < CacheTTL
    BY DEF ReleasedFresh
  <2>1. rows[v].released \in Nat /\ DOMAIN since = 1..Latest /\ Latest \in Nat
        /\ FreshEnough(rows[v].released)
    BY DEF CacheInv, CacheTypes, RunSound
  <2>2. 0 < rows[v].released /\ rows[v].released < Latest
    BY <2>1
  <2>3. QED
    BY <2>1, <2>2 DEF FreshEnough
<1>2. QED
  BY <1>1, CacheSound, PTL

\* Without a failure in the run, only a token kept longer than the registry takes it leaves
\* a digest unresolved (:177).
LEMMA UnresolvedIsExplained == CacheSpec => []UnresolvedExplained
<1>1. CacheInv => UnresolvedExplained
  <2> SUFFICES ASSUME CacheInv, mode # "idle", ~ upset, NEW v \in DOMAIN rows,
                      rows[v].released = 0
               PROVE  Fresh(Token) /\ disk[Token].ts < hour
    BY DEF UnresolvedExplained
  <2>1. upset = FALSE
    BY DEF CacheInv, CacheTypes
  <2>2. QED
    BY <2>1 DEF CacheInv, RunSound, StaleToken
<1>2. QED
  BY <1>1, CacheSound, PTL

\* A digest is told only fresh, and is missing only for a cause (collector.py:153-180); when
\* nothing fails and nothing cached is used, a pin within AO_HUB_PAGES is given its version,
\* unless a unit read earlier stopped the paging before it (:200-202): for any number of
\* units, versions and pages, any TTL and any failures.
THEOREM CacheIsEarned == CacheSpec => []CacheEarned
<1>1. CacheInv => PinNamed
  BY DEF CacheInv
<1>2. ReleasedFresh /\ UnresolvedExplained /\ PinNamed => CacheEarned
  BY DEF CacheEarned
<1>3. QED
  BY <1>1, <1>2, CacheSound, ReleasedIsFresh, UnresolvedIsExplained, PTL

-----------------------------------------------------------------------------
(* The scrape of the databases.                                            *)

Kinds == {"none", "unreachable", "midway", "exception", "absent", "stat", "open", "check"}
Names == {"timestamp", "reachable", "scrape_error", "answer", "size_bytes", "tables",
          "integrity_ok", "integrity_unknown"}
Samples == [name : Names, query : 0..NQueries, target : 0..(NPostgres + NSqlite), value : {0, 1}]

\* What a file says of a target, and what it says twice.
Shows(ls, t, fault) ==
  IF fault \in {"none", "check"}
  THEN /\ Contains(ls, Sample("reachable", t, 1)) /\ Contains(ls, Sample("scrape_error", t, 0))
       /\ fault = "check" => Contains(ls, Sample("integrity_unknown", t, 1))
  ELSE Contains(ls, Sample("reachable", t, 0)) \/ Contains(ls, Sample("scrape_error", t, 1))
Repeats(ls, t) == \E i, j \in DOMAIN ls :
                    /\ i < j /\ ls[i].target = t /\ ls[j].target = t
                    /\ ls[i].name = ls[j].name /\ ls[i].query = ls[j].query
TargetTold(ls, t, fault) == Shows(ls, t, fault) /\ (Repeats(ls, t) => fault = "midway")

SecurityTypes ==
  /\ scraping \in 0..(NPostgres + NSqlite + 1)
  /\ lines \in Seq(Samples) /\ prom \in Seq(Samples)
  /\ faults \in [Targets -> Kinds] /\ promFaults \in [Targets -> Kinds]

\* The lines so far are of the targets before the one the pass is at, and tell of each.
PassTold ==
  scraping # 0 =>
    /\ \A i \in DOMAIN lines : lines[i].target < scraping
    /\ \A t \in Targets : t < scraping => TargetTold(lines, t, faults[t])

FileTold == prom # <<>> => \A t \in Targets : TargetTold(prom, t, promFaults[t])

SecurityInv == SecurityTypes /\ PassTold /\ FileTold

LEMMA SampleType ==
  ASSUME NEW nm \in Names, NEW t \in 0..(NPostgres + NSqlite), NEW v \in {0, 1}
  PROVE  /\ Sample(nm, t, v) \in Samples
         /\ Sample(nm, t, v).name = nm /\ Sample(nm, t, v).query = 0
         /\ Sample(nm, t, v).target = t /\ Sample(nm, t, v).value = v
BY SecurityAssumption DEF Sample, Samples

\* What the lines of one target add to those of the targets before it.
LEMMA LinesAdded ==
  ASSUME SecurityInv, NEW t \in Targets, scraping = t, NEW fault \in Kinds,
         NEW new \in Seq(Samples), \A i \in DOMAIN new : new[i].target = t,
         TargetTold(new, t, fault), Emit(new, fault)
  PROVE  SecurityInv'
<1>1. /\ lines' = lines \o new /\ scraping' = t + 1 /\ prom' = prom /\ promFaults' = promFaults
      /\ faults' = [faults EXCEPT ![t] = fault]
  BY DEF Emit
<1>2. lines \in Seq(Samples) /\ t \in Nat /\ t # 0 /\ faults \in [Targets -> Kinds]
  BY SecurityAssumption DEF SecurityInv, SecurityTypes, Targets
<1>3. /\ lines' \in Seq(Samples) /\ Len(lines') = Len(lines) + Len(new)
      /\ \A i \in 1..Len(lines) : lines'[i] = lines[i]
      /\ \A i \in 1..Len(new) : lines'[Len(lines) + i] = new[i]
      /\ \A i \in 1..Len(lines') : i > Len(lines) => lines'[i] = new[i - Len(lines)]
  <2>1. lines \o new \in Seq(Samples) /\ Len(lines \o new) = Len(lines) + Len(new)
        /\ \A i \in 1..Len(lines \o new) :
             (lines \o new)[i] = IF i <= Len(lines) THEN lines[i] ELSE new[i - Len(lines)]
    BY <1>2, ConcatProperties
  <2>2. Len(lines) \in Nat /\ Len(new) \in Nat
    BY <1>2, LenProperties
  <2>3. QED
    BY <1>1, <2>1, <2>2
<1>4. /\ DOMAIN lines = 1..Len(lines) /\ DOMAIN lines' = 1..Len(lines') /\ DOMAIN new = 1..Len(new)
      /\ Len(lines) \in Nat /\ Len(new) \in Nat /\ Len(lines') \in Nat
  BY <1>2, <1>3, LenProperties
<1>5. \A i \in DOMAIN lines : lines[i].target < t
  BY <1>2 DEF SecurityInv, PassTold
<1>6. \A i \in DOMAIN lines' : i \in DOMAIN lines \/ (i > Len(lines) /\ i - Len(lines) \in DOMAIN new)
  BY <1>3, <1>4
<1>7. \A i \in DOMAIN lines' : lines'[i].target < t + 1
  <2>1. \A i \in DOMAIN lines : lines[i] \in Samples
    BY <1>2, <1>4, ElementOfSeq
  <2>2. \A i \in DOMAIN lines : lines[i].target \in Nat
    BY <2>1, SecurityAssumption DEF Samples
  <2>3. QED
    BY <1>2, <1>3, <1>4, <1>5, <1>6, <2>2
<1>8. \A i \in DOMAIN lines' : lines'[i].target = t => i > Len(lines)
  <2>1. \A i \in DOMAIN lines : lines[i].target # t
    BY <1>2, <1>5
  <2>2. QED
    BY <1>3, <1>4, <1>6, <2>1
<1>9. ASSUME NEW u \in Targets, u < t PROVE TargetTold(lines', u, faults'[u])
  <2>1. u # t /\ u \in Nat /\ faults'[u] = faults[u] /\ TargetTold(lines, u, faults[u])
    BY <1>1, <1>2, <1>9, SecurityAssumption DEF SecurityInv, PassTold, Targets
  <2>2. \A x : Contains(lines, x) => Contains(lines', x)
    BY <1>3, <1>4 DEF Contains
  <2>3. Shows(lines', u, faults[u])
    BY <2>1, <2>2 DEF TargetTold, Shows
  <2>4. \A i \in DOMAIN lines' : lines'[i].target = u => i \in DOMAIN lines
    BY <1>3, <1>4, <1>6, <2>1
  <2>5. Repeats(lines', u) => Repeats(lines, u)
    BY <1>3, <1>4, <2>4 DEF Repeats
  <2>6. QED
    BY <2>1, <2>3, <2>5 DEF TargetTold
<1>10. TargetTold(lines', t, faults'[t])
  <2>1. faults'[t] = fault
    BY <1>1, <1>2
  <2>2. \A x : Contains(new, x) => Contains(lines', x)
    BY <1>3, <1>4 DEF Contains
  <2>3. Shows(lines', t, fault)
    BY <2>2 DEF TargetTold, Shows
  <2>4. Repeats(lines', t) => Repeats(new, t)
    <3>1. SUFFICES ASSUME NEW i \in DOMAIN lines', NEW j \in DOMAIN lines', i < j,
                          lines'[i].target = t, lines'[j].target = t,
                          lines'[i].name = lines'[j].name, lines'[i].query = lines'[j].query
                   PROVE  Repeats(new, t)
      BY DEF Repeats
    <3>2. i > Len(lines) /\ j > Len(lines)
      BY <1>8, <3>1
    <3>3. i - Len(lines) \in DOMAIN new /\ j - Len(lines) \in DOMAIN new
      BY <1>4, <1>6, <3>2
    <3>4. i - Len(lines) < j - Len(lines)
      BY <1>4, <3>1, <3>2
    <3>5. lines'[i] = new[i - Len(lines)] /\ lines'[j] = new[j - Len(lines)]
      BY <1>3, <1>4, <3>2
    <3>6. QED
      BY <3>1, <3>3, <3>4, <3>5 DEF Repeats
  <2>5. QED
    BY <2>1, <2>3, <2>4 DEF TargetTold
<1>11. SecurityTypes'
  BY <1>1, <1>2, <1>3, SecurityAssumption DEF SecurityInv, SecurityTypes, Targets
<1>12. PassTold'
  <2>1. \A u \in Targets : u < t + 1 => u < t \/ u = t
    BY <1>2, SecurityAssumption DEF Targets
  <2>2. QED
    BY <1>1, <1>7, <1>9, <1>10, <2>1 DEF PassTold
<1>13. QED
  BY <1>1, <1>11, <1>12 DEF SecurityInv, FileTold

\* What each of the two collectors says of one target, whatever failed.
LEMMA PostgresTold ==
  ASSUME NEW t \in Postgres, NEW k \in 0..NQueries
  PROVE  LET new   == PostgresLines(t, k)
             fault == IF k = NQueries THEN "none" ELSE IF k = 0 THEN "unreachable" ELSE "midway"
         IN  /\ new \in Seq(Samples) /\ \A i \in DOMAIN new : new[i].target = t
             /\ TargetTold(new, t, fault)
<1> DEFINE up      == IF k > 0 THEN <<Sample("reachable", t, 1)>> ELSE <<>>
           answers == [n \in 1..k |-> Answer(n, t)]
           end     == IF k = NQueries THEN <<Sample("scrape_error", t, 0)>> ELSE Failed(t)
           new     == PostgresLines(t, k)
<1>1. t \in 0..(NPostgres + NSqlite) /\ k \in Nat /\ NQueries \in Nat /\ NQueries > 0
  BY SecurityAssumption DEF Postgres
<1>2. ASSUME NEW n \in 1..k
      PROVE  /\ Answer(n, t) \in Samples
             /\ Answer(n, t).query = n /\ Answer(n, t).target = t /\ Answer(n, t).name = "answer"
  <2>1. Sample("answer", t, 1) \in Samples /\ Sample("answer", t, 1).name = "answer"
        /\ Sample("answer", t, 1).target = t
    BY <1>1, SampleType DEF Names
  <2>2. n \in 0..NQueries
    BY <1>1
  <2>3. QED
    BY <2>1, <2>2 DEF Answer, Samples
<1>3. up \in Seq(Samples) /\ Len(up) = (IF k > 0 THEN 1 ELSE 0)
      /\ (k > 0 => up[1] = Sample("reachable", t, 1))
  <2>1. Sample("reachable", t, 1) \in Samples
    BY <1>1, SampleType DEF Names
  <2>2. QED
    BY <1>1, <2>1
<1>4. answers \in Seq(Samples) /\ Len(answers) = k /\ \A n \in 1..k : answers[n] = Answer(n, t)
  BY <1>1, <1>2
<1>5. end \in Seq(Samples)
      /\ (k = NQueries => Len(end) = 1 /\ end[1] = Sample("scrape_error", t, 0))
      /\ (k # NQueries => /\ Len(end) = 2 /\ end[1] = Sample("reachable", t, 0)
                          /\ end[2] = Sample("scrape_error", t, 1))
  <2>1. Sample("reachable", t, 0) \in Samples /\ Sample("scrape_error", t, 1) \in Samples
        /\ Sample("scrape_error", t, 0) \in Samples
    BY <1>1, SampleType DEF Names
  <2>2. QED
    BY <1>1, <2>1 DEF Failed
<1>6. new = (up \o answers) \o end
  BY DEF PostgresLines
<1> HIDE DEF up, answers, end, new
<1> DEFINE read == up \o answers
<1>7. /\ read \in Seq(Samples) /\ Len(read) = Len(up) + k
      /\ \A i \in 1..Len(read) : read[i] = IF i <= Len(up) THEN up[i] ELSE answers[i - Len(up)]
  BY <1>3, <1>4, ConcatProperties
<1>8. new = read \o end
  BY <1>6
<1> HIDE DEF read
<1>9. /\ new \in Seq(Samples) /\ Len(new) = Len(read) + Len(end)
      /\ \A i \in 1..Len(new) : new[i] = IF i <= Len(read) THEN read[i] ELSE end[i - Len(read)]
  <2>1. end \in Seq(Samples) /\ read \in Seq(Samples)
    BY <1>5, <1>7
  <2>2. QED
    BY <1>8, <2>1, ConcatProperties
<1>10. DOMAIN new = 1..Len(new)
  BY <1>9, LenProperties
<1> USE DEF Names
<1>11. CASE k = 0
  <2>1. Len(up) = 0 /\ Len(read) = 0 /\ Len(end) = 2 /\ Len(new) = 2
    BY <1>1, <1>3, <1>5, <1>7, <1>9, <1>11
  <2>2. new[1] = Sample("reachable", t, 0) /\ new[2] = Sample("scrape_error", t, 1)
    BY <1>1, <1>5, <1>9, <1>11, <2>1
  <2>3. /\ new[1].target = t /\ new[2].target = t
        /\ new[1].name = "reachable" /\ new[2].name = "scrape_error"
    BY <2>2 DEF Sample
  <2>4. \A i \in DOMAIN new : i = 1 \/ i = 2
    BY <1>10, <2>1
  <2>5. Shows(new, t, "unreachable") /\ ~ Repeats(new, t)
    BY <1>10, <2>1, <2>2, <2>3, <2>4 DEF Shows, Repeats, Contains
  <2>6. QED
    BY <1>1, <1>9, <1>11, <2>3, <2>4, <2>5 DEF TargetTold, new
<1>12. CASE k = NQueries
  <2>1. Len(up) = 1 /\ Len(read) = k + 1 /\ Len(end) = 1 /\ Len(new) = k + 2
    <3>1. Len(up) = 1 /\ Len(end) = 1
      BY <1>1, <1>3, <1>5, <1>12
    <3>2. QED
      BY <1>1, <1>7, <1>9, <1>12, <3>1
  <2>2. /\ new[1] = Sample("reachable", t, 1) /\ new[k + 2] = Sample("scrape_error", t, 0)
        /\ \A i \in 2..(k + 1) : new[i] = Answer(i - 1, t)
    <3>1. read[1] = up[1] /\ \A i \in 2..(k + 1) : read[i] = answers[i - 1]
      BY <1>1, <1>7, <2>1
    <3>2. new[1] = read[1] /\ new[k + 2] = end[1] /\ \A i \in 2..(k + 1) : new[i] = read[i]
      BY <1>1, <1>9, <2>1
    <3>3. \A i \in 2..(k + 1) : i - 1 \in 1..k
      BY <1>1
    <3>4. QED
      BY <1>1, <1>3, <1>4, <1>5, <1>12, <3>1, <3>2, <3>3
  <2>3. /\ new[1].target = t /\ new[k + 2].target = t
        /\ new[1].name = "reachable" /\ new[k + 2].name = "scrape_error"
    BY <2>2 DEF Sample
  <2>4. \A i \in 2..(k + 1) : new[i].target = t /\ new[i].name = "answer" /\ new[i].query = i - 1
    <3>1. \A i \in 2..(k + 1) : i - 1 \in 1..k
      BY <1>1
    <3>2. QED
      BY <1>2, <2>2, <3>1
  <2>5. \A i \in DOMAIN new : i = 1 \/ i = k + 2 \/ i \in 2..(k + 1)
    BY <1>1, <1>10, <2>1
  <2>6. Shows(new, t, "none")
    BY <1>1, <2>1, <2>2 DEF Shows, Contains
  <2>7. ~ Repeats(new, t)
    <3>1. SUFFICES ASSUME NEW i \in DOMAIN new, NEW j \in DOMAIN new, i < j,
                          new[i].name = new[j].name, new[i].query = new[j].query
                   PROVE  FALSE
      BY DEF Repeats
    <3>2. i \in 2..(k + 1) /\ j \in 2..(k + 1)
      BY <1>1, <1>10, <2>1, <2>3, <2>4, <2>5, <3>1
    <3>3. QED
      BY <1>1, <2>4, <3>1, <3>2
  <2>8. QED
    BY <1>1, <1>9, <1>12, <2>3, <2>4, <2>5, <2>6, <2>7 DEF TargetTold, new
<1>13. CASE k # 0 /\ k # NQueries
  <2>1. Len(up) = 1 /\ Len(read) = k + 1 /\ Len(end) = 2 /\ Len(new) = k + 3
    <3>1. Len(up) = 1 /\ Len(end) = 2
      BY <1>1, <1>3, <1>5, <1>13
    <3>2. QED
      BY <1>1, <1>7, <1>9, <1>13, <3>1
  <2>2. \A i \in 1..(k + 1) : read[i].target = t
    <3>1. read[1] = Sample("reachable", t, 1) /\ \A i \in 2..(k + 1) : read[i] = answers[i - 1]
      BY <1>1, <1>3, <1>7, <1>13, <2>1
    <3>2. \A i \in 2..(k + 1) : i - 1 \in 1..k
      BY <1>1
    <3>3. \A i \in 1..(k + 1) : i = 1 \/ i \in 2..(k + 1)
      BY <1>1
    <3>4. Sample("reachable", t, 1).target = t
      BY DEF Sample
    <3>5. QED
      BY <1>2, <1>4, <3>1, <3>2, <3>3, <3>4
  <2>3. end[1].target = t /\ end[2].target = t
    BY <1>5, <1>13 DEF Sample
  <2>4. \A i \in DOMAIN new : new[i].target = t
    <3>1. \A i \in DOMAIN new : i \in 1..(k + 1) \/ i - Len(read) = 1 \/ i - Len(read) = 2
      BY <1>1, <1>10, <2>1
    <3>2. QED
      BY <1>1, <1>9, <1>10, <2>1, <2>2, <2>3, <3>1
  <2>5. new[k + 2] = Sample("reachable", t, 0)
    BY <1>1, <1>5, <1>9, <1>13, <2>1
  <2>6. Shows(new, t, "midway")
    BY <1>1, <2>1, <2>5 DEF Shows, Contains
  <2>7. QED
    BY <1>1, <1>9, <1>13, <2>4, <2>6 DEF TargetTold, new
<1>14. QED
  BY <1>11, <1>12, <1>13

\* Some lines of one target, no two of a name.
LEMMA DistinctTold ==
  ASSUME NEW t \in Targets, NEW fault, NEW new \in Seq(Samples),
         \A i \in DOMAIN new : new[i].target = t,
         \A i, j \in DOMAIN new : new[i].name = new[j].name => i = j,
         Shows(new, t, fault)
  PROVE  TargetTold(new, t, fault)
<1>1. DOMAIN new = 1..Len(new) /\ Len(new) \in Nat
  BY LenProperties
<1>2. ~ Repeats(new, t)
  BY <1>1 DEF Repeats
<1>3. QED
  BY <1>2 DEF TargetTold

LEMMA SqliteTold ==
  ASSUME NEW t \in Targets, NEW fault \in {"absent", "stat", "open", "check", "none"}
  PROVE  LET new == SqliteLines(t, fault)
         IN  /\ new \in Seq(Samples) /\ \A i \in DOMAIN new : new[i].target = t
             /\ TargetTold(new, t, fault)
<1> DEFINE new == SqliteLines(t, fault)
<1>1. \A name \in Names, v \in {0, 1} :
        Sample(name, t, v) \in Samples /\ Sample(name, t, v).name = name
        /\ Sample(name, t, v).target = t
  BY SampleType, SecurityAssumption DEF Targets
<1> DEFINE up == Sample("reachable", t, 1)
           size == Sample("size_bytes", t, 1)
           down == Sample("reachable", t, 0)
           error == Sample("scrape_error", t, 1)
           clean == Sample("scrape_error", t, 0)
           tables == Sample("tables", t, 1)
           whole == Sample("integrity_ok", t, 1)
           unread == Sample("integrity_unknown", t, 1)
<1>2. /\ up \in Samples /\ size \in Samples /\ down \in Samples /\ error \in Samples
      /\ clean \in Samples /\ tables \in Samples /\ whole \in Samples /\ unread \in Samples
  BY <1>1 DEF Names
<1>3. /\ up.target = t /\ size.target = t /\ down.target = t /\ error.target = t
      /\ clean.target = t /\ tables.target = t /\ whole.target = t /\ unread.target = t
      /\ up.name = "reachable" /\ size.name = "size_bytes" /\ down.name = "reachable"
      /\ error.name = "scrape_error" /\ clean.name = "scrape_error"
      /\ tables.name = "tables" /\ whole.name = "integrity_ok"
      /\ unread.name = "integrity_unknown"
  BY DEF Sample
<1>4. new = CASE fault = "absent" -> <<down, error>>
              [] fault = "stat"   -> <<up, error>>
              [] fault = "open"   -> <<up, size, error>>
              [] fault = "check"  -> <<up, size, tables, unread, clean>>
              [] OTHER            -> <<up, size, tables, whole, clean>>
  BY DEF SqliteLines, Failed
<1>5. Shows(new, t, fault) <=>
        IF fault \in {"none", "check"}
        THEN /\ Contains(new, up) /\ Contains(new, clean)
             /\ fault = "check" => Contains(new, unread)
        ELSE Contains(new, down) \/ Contains(new, error)
  BY DEF Shows
<1> HIDE DEF up, size, down, error, clean, tables, whole, unread, new
<1>6. /\ new \in Seq(Samples) /\ \A i \in DOMAIN new : new[i].target = t
      /\ \A i, j \in DOMAIN new : new[i].name = new[j].name => i = j
  <2>1. CASE fault = "absent"
    <3>1. new = <<down, error>>
      BY <1>4, <2>1
    <3>2. QED
      BY <1>2, <1>3, <3>1
  <2>2. CASE fault = "stat"
    <3>1. new = <<up, error>>
      BY <1>4, <2>2
    <3>2. QED
      BY <1>2, <1>3, <3>1
  <2>3. CASE fault = "open"
    <3>1. new = <<up, size, error>>
      BY <1>4, <2>3
    <3>2. QED
      BY <1>2, <1>3, <3>1
  <2>4. CASE fault = "none"
    <3>1. new = <<up, size, tables, whole, clean>>
      BY <1>4, <2>4
    <3>2. QED
      BY <1>2, <1>3, <3>1
  <2>5. CASE fault = "check"
    <3>1. new = <<up, size, tables, unread, clean>>
      BY <1>4, <2>5
    <3>2. QED
      BY <1>2, <1>3, <3>1
  <2>6. QED
    BY <2>1, <2>2, <2>3, <2>4, <2>5
<1>7. Shows(new, t, fault)
  <2>1. fault = "none" => new = <<up, size, tables, whole, clean>>
    BY <1>4
  <2>2. fault = "check" => new = <<up, size, tables, unread, clean>>
    BY <1>4
  <2>3. QED
    BY <1>4, <1>5, <2>1, <2>2 DEF Contains
<1>8. QED
  BY <1>6, <1>7, DistinctTold DEF new

LEMMA ExceptionTold ==
  ASSUME NEW t \in Targets
  PROVE  LET new == AfterException(t)
         IN  /\ new \in Seq(Samples) /\ \A i \in DOMAIN new : new[i].target = t
             /\ TargetTold(new, t, "exception")
<1> DEFINE new == AfterException(t)
           down == Sample("reachable", t, 0)
           error == Sample("scrape_error", t, 1)
<1>1. down \in Samples /\ error \in Samples
  BY SampleType, SecurityAssumption DEF Targets, Names
<1>2. /\ down.target = t /\ error.target = t
      /\ down.name = "reachable" /\ error.name = "scrape_error"
  BY DEF Sample
<1>3. new = <<down, error>> \/ new = <<down>>
  BY DEF AfterException, Failed
<1>4. Contains(new, down) => Shows(new, t, "exception")
  BY DEF Shows
<1> HIDE DEF down, error, new
<1>5. /\ new \in Seq(Samples) /\ \A i \in DOMAIN new : new[i].target = t
      /\ \A i, j \in DOMAIN new : new[i].name = new[j].name => i = j
      /\ Contains(new, down)
  <2>1. CASE new = <<down, error>>
    <3>1. /\ new \in Seq(Samples) /\ \A i \in DOMAIN new : new[i].target = t
          /\ \A i, j \in DOMAIN new : new[i].name = new[j].name => i = j
      BY <1>1, <1>2, <2>1
    <3>2. Len(new) = 2 /\ new[1] = down
      BY <2>1
    <3>3. QED
      BY <3>1, <3>2 DEF Contains
  <2>2. CASE new = <<down>>
    <3>1. /\ new \in Seq(Samples) /\ \A i \in DOMAIN new : new[i].target = t
          /\ \A i, j \in DOMAIN new : new[i].name = new[j].name => i = j
      BY <1>1, <1>2, <2>2
    <3>2. Len(new) = 1 /\ new[1] = down
      BY <2>2
    <3>3. QED
      BY <3>1, <3>2 DEF Contains
  <2>3. QED
    BY <1>3, <2>1, <2>2
<1>6. QED
  BY <1>4, <1>5, DistinctTold DEF new

LEMMA SecurityInitSound == SecurityInit => SecurityInv
BY SecurityAssumption DEF SecurityInit, SecurityInv, SecurityTypes, PassTold, FileTold, Kinds

LEMMA SecurityStepSound == SecurityInv /\ [SecurityNext]_securityVars => SecurityInv'
<1> SUFFICES ASSUME SecurityInv, [SecurityNext]_securityVars PROVE SecurityInv'
  OBVIOUS
<1>1. CASE StartScrape
  <2>1. Stamp \in Samples /\ Stamp.target = 0
    BY SampleType, SecurityAssumption DEF Stamp, Names
  <2> HIDE DEF Stamp
  <2>2. lines' \in Seq(Samples) /\ \A i \in DOMAIN lines' : lines'[i].target < 1
    BY <1>1, <2>1 DEF StartScrape
  <2>3. \A t \in Targets : ~ (t < 1)
    BY SecurityAssumption DEF Targets
  <2>4. faults' \in [Targets -> Kinds] /\ scraping' = 1 /\ UNCHANGED <<prom, promFaults>>
    BY <1>1 DEF StartScrape, Kinds
  <2>5. QED
    BY <2>2, <2>3, <2>4, SecurityAssumption
       DEF SecurityInv, SecurityTypes, PassTold, FileTold
<1>2. CASE ScrapePostgres
  <2>1. PICK k \in 0..NQueries :
          Emit(PostgresLines(scraping, k),
               IF k = NQueries THEN "none" ELSE IF k = 0 THEN "unreachable" ELSE "midway")
    BY <1>2 DEF ScrapePostgres
  <2> DEFINE new   == PostgresLines(scraping, k)
             fault == IF k = NQueries THEN "none" ELSE IF k = 0 THEN "unreachable" ELSE "midway"
  <2>2. scraping \in Postgres /\ scraping \in Targets /\ fault \in Kinds
    BY <1>2, SecurityAssumption DEF ScrapePostgres, Postgres, Targets, Kinds
  <2>3. /\ new \in Seq(Samples) /\ \A i \in DOMAIN new : new[i].target = scraping
        /\ TargetTold(new, scraping, fault)
    BY <2>2, PostgresTold
  <2>4. Emit(new, fault)
    BY <2>1
  <2> HIDE DEF new, fault
  <2>5. QED
    BY <2>2, <2>3, <2>4, LinesAdded
<1>3. CASE ScrapeSqlite
  <2>1. PICK fault \in {"absent", "stat", "open", "check", "none"} :
          Emit(SqliteLines(scraping, fault), fault)
    BY <1>3 DEF ScrapeSqlite
  <2> DEFINE new == SqliteLines(scraping, fault)
  <2>2. scraping \in Targets /\ fault \in Kinds
    BY <1>3 DEF ScrapeSqlite, Kinds
  <2>3. /\ new \in Seq(Samples) /\ \A i \in DOMAIN new : new[i].target = scraping
        /\ TargetTold(new, scraping, fault)
    BY <2>2, SqliteTold
  <2>4. Emit(new, fault)
    BY <2>1
  <2> HIDE DEF new
  <2>5. QED
    BY <2>2, <2>3, <2>4, LinesAdded
<1>4. CASE ScrapeException
  <2> DEFINE new == AfterException(scraping)
  <2>1. scraping \in Targets /\ "exception" \in Kinds /\ Emit(new, "exception")
    BY <1>4 DEF ScrapeException, Kinds
  <2>2. /\ new \in Seq(Samples) /\ \A i \in DOMAIN new : new[i].target = scraping
        /\ TargetTold(new, scraping, "exception")
    BY <2>1, ExceptionTold
  <2> HIDE DEF new
  <2>3. QED
    BY <2>1, <2>2, LinesAdded
<1>5. CASE ReplaceProm
  <2>1. \A t \in Targets : t < scraping
    BY <1>5, SecurityAssumption DEF ReplaceProm, Targets
  <2>2. scraping # 0
    BY <1>5, SecurityAssumption DEF ReplaceProm
  <2>3. \A t \in Targets : TargetTold(lines, t, faults[t])
    BY <2>1, <2>2 DEF SecurityInv, PassTold
  <2>4. FileTold'
    BY <1>5, <2>3 DEF ReplaceProm, FileTold
  <2>5. QED
    BY <1>5, <2>4, SecurityAssumption DEF ReplaceProm, SecurityInv, SecurityTypes, PassTold
<1>6. CASE AbandonScrape
  BY <1>6, SecurityAssumption DEF AbandonScrape, SecurityInv, SecurityTypes, PassTold, FileTold
<1>7. CASE UNCHANGED securityVars
  BY <1>7 DEF securityVars, SecurityInv, SecurityTypes, PassTold, FileTold
<1>8. QED
  BY <1>1, <1>2, <1>3, <1>4, <1>5, <1>6, <1>7 DEF SecurityNext

LEMMA SecuritySound == SecuritySpec => []SecurityInv
BY SecurityInitSound, SecurityStepSound, PTL DEF SecuritySpec

\* Every target is in every file, and one that was not read to the end shows it, by a label
\* alone if it was its integrity (collect-db-security.py:254-283).
LEMMA FaultsAreVisible == SecuritySpec => []FaultVisible
<1>1. SecurityInv => FaultVisible
  BY DEF SecurityInv, FileTold, TargetTold, Shows, FaultVisible, Has
<1>2. QED
  BY <1>1, SecuritySound, PTL

\* Only a PostgreSQL target that stopped answering between two queries has a series twice
\* (:186-188).
LEMMA OnlyMidwayIsTwice == SecuritySpec => []TwiceOnlyMidway
<1>1. SecurityInv => TwiceOnlyMidway
  <2> SUFFICES ASSUME SecurityInv, NEW t \in Targets, Twice(t) PROVE promFaults[t] = "midway"
    BY DEF TwiceOnlyMidway
  <2>1. prom # <<>> /\ Repeats(prom, t)
    BY DEF Twice, Repeats
  <2>2. QED
    BY <2>1 DEF SecurityInv, FileTold, TargetTold
<1>2. QED
  BY <1>1, SecuritySound, PTL

\* Prometheus takes the file, but for a target that broke off midway, and finds every failure
\* in it, a failed integrity check by its label, for any number of targets and of
\* queries (collect-db-security.py:186-283).
THEOREM ScrapeIsTold == SecuritySpec => []ScrapeTold
<1>1. FaultVisible /\ TwiceOnlyMidway => ScrapeTold
  BY DEF ScrapeTold
<1>2. QED
  BY <1>1, FaultsAreVisible, OnlyMidwayIsTwice, PTL

-----------------------------------------------------------------------------
(* The progress metrics.                                                   *)

Trackers == [Entries -> [Sections -> Cells]]
Records  == [is : {"record"}, hour : 0..LastHour, open : Nat, done : Nat, of : Trackers]
Lines    == [is : {"cut", "unended"}] \cup Records

Appends  == [of : Records, as : {"unended", "cut", "whole"}]

\* The items whose rows a reader of the tracker sees.
ItemsIn(t) == {e \in Entries : \E s \in Sections : t[e][s] # "noRow"}
Reconciles(p) == p.open + p.done = Cardinality(ItemsIn(p.of))

ProgressTypes ==
  /\ tracker \in Trackers /\ clock \in 0..LastHour
  /\ history \in Seq(Lines)
  /\ appends \in Seq(Appends)

RecordsReconcile == \A k \in Parsed : Reconciles(history[k])

\* The point of each hour; and that an append which has one is told by it.
Plots == [h \in 0..LastHour |-> Points(h)]
Plotted(n) ==
  appends[n].as = "whole" =>
    \E k \in n..Len(appends) : /\ appends[k].of.hour = appends[n].of.hour
                               /\ appends[k].as = "whole"
                               /\ Plots[appends[n].of.hour] = {appends[k].of}

ProgressInv == ProgressTypes /\ RecordsReconcile /\ \A n \in 1..Len(appends) : Plotted(n)

LEMMA ParsedLines ==
  ASSUME ProgressTypes
  PROVE  /\ Parsed \subseteq 1..Len(history) /\ Len(history) \in Nat
         /\ \A k \in Parsed : history[k] \in Records
<1>1. /\ Len(history) \in Nat /\ DOMAIN history = 1..Len(history)
      /\ \A k \in 1..Len(history) : history[k] \in Lines
  BY LenProperties, ElementOfSeq DEF ProgressTypes
<1>2. \A x \in Lines : x.is = "record" => x \in Records
  BY DEF Lines
<1>3. QED
  BY <1>1, <1>2 DEF Parsed

\* The record of an hour that is plotted is one of that hour.
LEMMA PointIsParsed ==
  ASSUME ProgressTypes, NEW h, NEW p \in Points(h)
  PROVE  \E k \in Parsed : p = history[k] /\ history[k].hour = h
<1> DEFINE those == {k \in Parsed : history[k].hour = h}
<1>1. those # {} /\ p = history[Max(those)]
  BY DEF Points
<1>2. those \subseteq 0..Len(history) /\ Len(history) \in Nat
  BY ParsedLines
<1>3. Max(those) \in those
  BY <1>1, <1>2, GreatestChosen
<1>4. QED
  BY <1>1, <1>3

\* A step that leaves the whole records where they are plots the same points.
LEMMA PointsStay ==
  ASSUME ProgressTypes, Parsed' = Parsed, \A k \in Parsed : history'[k] = history[k]
  PROVE  Plots' = Plots
<1> SUFFICES ASSUME NEW h \in 0..LastHour PROVE Points(h)' = Points(h)
  BY DEF Plots
<1> DEFINE those == {k \in Parsed : history[k].hour = h}
           then  == {k \in Parsed' : history'[k].hour = h}
<1>1. then = those
  OBVIOUS
<1>2. Points(h) = IF those = {} THEN {} ELSE {history[Max(those)]}
  BY DEF Points
<1>3. Points(h)' = IF then = {} THEN {} ELSE {history'[Max(then)]}
  BY DEF Points
<1>4. CASE those # {}
  <2>1. those \subseteq 0..Len(history) /\ Len(history) \in Nat
    BY ParsedLines
  <2>2. Max(those) \in those
    BY <1>4, <2>1, GreatestChosen
  <2> HIDE DEF then
  <2>3. history'[Max(then)] = history[Max(those)]
    BY <1>1, <2>2
  <2>4. QED
    BY <1>1, <1>2, <1>3, <2>3
<1>5. QED
  BY <1>1, <1>2, <1>3, <1>4

\* What the guard lets through counts every item once.
LEMMA RecordMade ==
  ASSUME ProgressTypes, Cardinality(WorkIds) = Cardinality(Counted)
  PROVE  ProgressRecord \in Records /\ Reconciles(ProgressRecord)
<1>1. IsFiniteSet(Entries)
  BY ProgressAssumption, FS_Interval DEF Entries
<1>2. IsFiniteSet(Counted) /\ Done \subseteq Counted
  BY <1>1, FS_Subset DEF Counted, RowsIn, Done
<1>3. IsFiniteSet(Done) /\ IsFiniteSet(Counted \ Done)
  BY <1>2, FS_Subset
<1>4. Cardinality(Counted \ Done) = Cardinality(Counted) - Cardinality(Counted \cap Done)
      /\ Cardinality(Counted \ Done) \in Nat /\ Cardinality(Done) \in Nat
      /\ Cardinality(Counted) \in Nat
  BY <1>2, <1>3, FS_Difference, FS_CardinalityType
<1>5. Counted \cap Done = Done
  BY <1>2
<1>6. ItemsIn(tracker) = WorkIds
  BY DEF ItemsIn, WorkIds
<1>7. Cardinality(Counted \ Done) + Cardinality(Done) = Cardinality(WorkIds)
  BY <1>4, <1>5
<1>8. QED
  BY <1>4, <1>6, <1>7 DEF ProgressRecord, Reconciles, Records, ProgressTypes

\* A record at the end is the point of its hour, and no other hour's point changes.
LEMMA PointsGrow ==
  ASSUME NEW N \in Nat, NEW p \in Records, Parsed \subseteq 1..N, Parsed' = Parsed \cup {N + 1},
         history'[N + 1] = p, \A k \in Parsed : history'[k] = history[k]
  PROVE  Plots' = [Plots EXCEPT ![p.hour] = {p}]
<1>1. Points(p.hour)' = {p}
  <2> DEFINE those == {k \in Parsed' : history'[k].hour = p.hour}
  <2>1. N + 1 \in those
    <3>1. N + 1 \in Parsed'
      OBVIOUS
    <3>2. QED
      BY <3>1
  <2>2. those \subseteq 0..(N + 1)
    <3>1. \A k \in Parsed' : k \in 0..(N + 1)
      OBVIOUS
    <3>2. QED
      BY <3>1
  <2>3. Points(p.hour)' = {history'[Max(those)]}
    BY <2>1 DEF Points
  <2> HIDE DEF those
  <2>4. Max(those) \in those /\ N + 1 <= Max(those)
    <3>1. N + 1 \in Nat /\ those # {}
      BY <2>1
    <3>2. QED
      BY <2>1, <2>2, <3>1, GreatestChosen
  <2>5. Max(those) = N + 1
    <3>1. Max(those) \in 0..(N + 1)
      BY <2>2, <2>4
    <3>2. QED
      BY <2>4, <3>1
  <2>6. QED
    BY <2>3, <2>5
<1>2. ASSUME NEW h, h # p.hour PROVE Points(h)' = Points(h)
  <2> DEFINE those == {k \in Parsed : history[k].hour = h}
             new   == {k \in Parsed' : history'[k].hour = h}
  <2>1. new = those /\ those \subseteq Parsed
    BY <1>2
  <2>2. Points(h) = IF those = {} THEN {} ELSE {history[Max(those)]}
    BY DEF Points
  <2>3. Points(h)' = IF new = {} THEN {} ELSE {history'[Max(new)]}
    BY DEF Points
  <2> HIDE DEF those, new
  <2>4. CASE those # {}
    <3>1. those \subseteq 0..N
      <4>1. 1..N \subseteq 0..N
        OBVIOUS
      <4>2. QED
        BY <2>1, <4>1, Zenon
    <3>2. Max(those) \in Parsed
      BY <2>1, <2>4, <3>1, GreatestChosen
    <3>3. QED
      BY <2>1, <2>2, <2>3, <2>4, <3>2
  <2>5. QED
    BY <2>1, <2>2, <2>3, <2>4
<1>3. QED
  BY <1>1, <1>2 DEF Plots

\* An append leaves the earlier ones plotted if it changes no point, or is itself the point
\* of its hour and changes no other.
LEMMA StillPlotted ==
  ASSUME NEW N \in Nat, Len(appends) = N, Len(appends') = N + 1,
         NEW a \in Appends, appends'[N + 1] = a,
         \A n \in 1..N : appends[n] \in Appends /\ appends'[n] = appends[n],
         \A n \in 1..N : Plotted(n),
         \/ a.as # "whole" /\ Plots' = Plots
         \/ a.as = "whole" /\ Plots' = [Plots EXCEPT ![a.of.hour] = {a.of}]
  PROVE  \A n \in 1..(N + 1) : Plotted(n)'
<1>1. SUFFICES ASSUME NEW n \in 1..(N + 1), appends'[n].as = "whole"
               PROVE  \E k \in n..(N + 1) : /\ appends'[k].of.hour = appends'[n].of.hour
                                            /\ appends'[k].as = "whole"
                                            /\ Plots'[appends'[n].of.hour] = {appends'[k].of}
  BY DEF Plotted
<1> DEFINE h == appends'[n].of.hour
<1>2. DOMAIN Plots = 0..LastHour /\ a.of.hour \in 0..LastHour
  BY DEF Plots, Appends, Records
<1>3. CASE a.as = "whole" /\ h = a.of.hour
  <2>1. N + 1 \in n..(N + 1)
    OBVIOUS
  <2>2. Plots'[h] = {a.of}
    BY <1>2, <1>3
  <2>3. QED
    BY <1>3, <2>1, <2>2
<1>4. CASE a.as # "whole" \/ h # a.of.hour
  <2>1. n \in 1..N /\ appends'[n] = appends[n] /\ appends[n] \in Appends
    BY <1>1, <1>4
  <2>2. h \in 0..LastHour /\ Plots'[h] = Plots[h]
    <3>1. h \in 0..LastHour
      BY <2>1 DEF Appends, Records
    <3>2. QED
      BY <1>2, <1>4, <3>1
  <2>3. PICK k \in n..N : /\ appends[k].of.hour = appends[n].of.hour
                          /\ appends[k].as = "whole"
                          /\ Plots[appends[n].of.hour] = {appends[k].of}
    BY <1>1, <2>1 DEF Plotted
  <2>4. k \in n..(N + 1) /\ appends'[k] = appends[k]
    BY <2>1, <2>3
  <2>5. QED
    BY <2>1, <2>2, <2>3, <2>4
<1>5. QED
  BY <1>3, <1>4

LEMMA AppendsGrow ==
  ASSUME ProgressTypes, NEW a \in Appends, appends' = Append(appends, a)
  PROVE  /\ Len(appends) \in Nat /\ Len(appends') = Len(appends) + 1
         /\ appends' \in Seq(Appends) /\ appends'[Len(appends) + 1] = a
         /\ \A n \in 1..Len(appends) : appends[n] \in Appends /\ appends'[n] = appends[n]
BY AppendProperties, LenProperties, ElementOfSeq DEF ProgressTypes

\* A whole record after a whole line is the last of its hour.
LEMMA AppendStep ==
  ASSUME ProgressInv, NEW p \in Records, Reconciles(p),
         history' = Append(history, p), appends' = Append(appends, [of |-> p, as |-> "whole"]),
         UNCHANGED <<tracker, clock>>
  PROVE  ProgressInv'
<1> DEFINE a == [of |-> p, as |-> "whole"]
<1>1. ProgressTypes /\ p \in Lines /\ a \in Appends /\ p.is = "record"
  BY DEF ProgressInv, Records, Lines, Appends
<1>2. /\ Len(history) \in Nat /\ DOMAIN history = 1..Len(history)
      /\ history' \in Seq(Lines) /\ DOMAIN history' = 1..(Len(history) + 1)
      /\ history'[Len(history) + 1] = p
      /\ \A k \in 1..Len(history) : history'[k] = history[k]
  BY <1>1, AppendProperties, LenProperties DEF ProgressTypes
<1>3. Parsed' = Parsed \cup {Len(history) + 1} /\ Parsed \subseteq 1..Len(history)
  BY <1>1, <1>2 DEF Parsed
<1>4. \A k \in Parsed : history'[k] = history[k]
  BY <1>2, <1>3
<1>5. Plots' = [Plots EXCEPT ![p.hour] = {p}]
  BY <1>2, <1>3, <1>4, PointsGrow
<1>6. /\ Len(appends) \in Nat /\ Len(appends') = Len(appends) + 1
      /\ appends' \in Seq(Appends) /\ appends'[Len(appends) + 1] = a
      /\ \A n \in 1..Len(appends) : appends[n] \in Appends /\ appends'[n] = appends[n]
  BY <1>1, AppendsGrow
<1>7. a.as = "whole" /\ a.of = p
  OBVIOUS
<1> HIDE DEF a
<1>8. \A n \in 1..(Len(appends) + 1) : Plotted(n)'
  BY <1>1, <1>5, <1>6, <1>7, StillPlotted DEF ProgressInv
<1>9. RecordsReconcile'
  BY <1>2, <1>3, <1>4 DEF ProgressInv, RecordsReconcile
<1>10. ProgressTypes'
  BY <1>1, <1>2, <1>6 DEF ProgressTypes
<1>11. QED
  BY <1>6, <1>8, <1>9, <1>10 DEF ProgressInv

\* Any other append leaves the whole records, and so every point, as they were.
LEMMA CutStep ==
  ASSUME ProgressInv, NEW p \in Records, NEW as \in {"unended", "cut"},
         history' \in Seq(Lines), Parsed' = Parsed,
         \A k \in Parsed : history'[k] = history[k],
         appends' = Append(appends, [of |-> p, as |-> as]),
         UNCHANGED <<tracker, clock>>
  PROVE  ProgressInv'
<1> DEFINE a == [of |-> p, as |-> as]
<1>1. ProgressTypes /\ a \in Appends
  BY DEF ProgressInv, Appends
<1>2. Plots' = Plots
  BY <1>1, PointsStay
<1>3. /\ Len(appends) \in Nat /\ Len(appends') = Len(appends) + 1
      /\ appends' \in Seq(Appends) /\ appends'[Len(appends) + 1] = a
      /\ \A n \in 1..Len(appends) : appends[n] \in Appends /\ appends'[n] = appends[n]
  BY <1>1, AppendsGrow
<1>4. a.as # "whole"
  OBVIOUS
<1> HIDE DEF a
<1>5. \A n \in 1..(Len(appends) + 1) : Plotted(n)'
  BY <1>1, <1>2, <1>3, <1>4, StillPlotted DEF ProgressInv
<1>6. RecordsReconcile'
  BY DEF ProgressInv, RecordsReconcile
<1>7. ProgressTypes'
  BY <1>1, <1>3 DEF ProgressTypes
<1>8. QED
  BY <1>3, <1>5, <1>6, <1>7 DEF ProgressInv

LEMMA CollectStep ==
  ASSUME ProgressInv, Collect
  PROVE  ProgressInv'
<1>1. PICK whole \in BOOLEAN :
        LET last  == Len(history)
            glued == last > 0 /\ history[last].is = "unended"
            as    == IF ~whole THEN "unended" ELSE IF glued THEN "cut" ELSE "whole"
            line  == IF as = "whole" THEN ProgressRecord ELSE [is |-> as]
        IN  /\ Cardinality(WorkIds) = Cardinality(Counted)
            /\ history' = IF glued THEN [history EXCEPT ![last] = line] ELSE Append(history, line)
            /\ appends' = Append(appends, [of |-> ProgressRecord, as |-> as])
            /\ UNCHANGED <<tracker, clock>>
  BY DEF Collect
<1> DEFINE p     == ProgressRecord
           last  == Len(history)
           glued == last > 0 /\ history[last].is = "unended"
           as    == IF ~whole THEN "unended" ELSE IF glued THEN "cut" ELSE "whole"
<1>2. ProgressTypes /\ p \in Records /\ Reconciles(p)
  BY <1>1, RecordMade DEF ProgressInv
<1> HIDE DEF p
<1>3. last \in Nat /\ DOMAIN history = 1..last /\ history \in Seq(Lines)
  BY <1>2, LenProperties DEF ProgressTypes
<1>4. CASE whole /\ ~ glued
  <2>1. history' = Append(history, p) /\ appends' = Append(appends, [of |-> p, as |-> "whole"])
        /\ UNCHANGED <<tracker, clock>>
    BY <1>1, <1>4 DEF p
  <2>2. QED
    BY <1>2, <2>1, AppendStep
<1>5. CASE glued
  <2>1. PICK word \in {"unended", "cut"} :
          /\ history' = [history EXCEPT ![last] = [is |-> word]]
          /\ appends' = Append(appends, [of |-> p, as |-> word])
          /\ UNCHANGED <<tracker, clock>>
    BY <1>1, <1>5 DEF p
  <2>2. [is |-> word] \in Lines /\ [is |-> word].is # "record"
    BY DEF Lines
  <2>3. last \in 1..last
    BY <1>3, <1>5
  <2>4. history' \in Seq(Lines) /\ DOMAIN history' = 1..last
    <3> DEFINE new == [history EXCEPT ![last] = [is |-> word]]
    <3>1. new \in Seq(Lines) /\ Len(new) = last
      BY <1>3, <2>2, <2>3, ExceptSeq
    <3>2. history' = new
      BY <2>1
    <3> HIDE DEF new
    <3>3. QED
      BY <3>1, <3>2, LenProperties
  <2>5. history'[last] = [is |-> word] /\ \A k \in 1..last : k # last => history'[k] = history[k]
    BY <1>3, <2>1, <2>3
  <2>6. Parsed' = Parsed /\ \A k \in Parsed : history'[k] = history[k]
    <3>1. \A k \in 1..last : history'[k].is = "record" <=> history[k].is = "record"
      BY <1>5, <2>2, <2>5
    <3>2. \A k \in Parsed : k \in 1..last /\ k # last
      BY <1>3, <1>5 DEF Parsed
    <3>3. QED
      BY <1>3, <2>4, <2>5, <3>1, <3>2 DEF Parsed
  <2>7. QED
    BY <1>2, <2>1, <2>4, <2>6, CutStep
<1>6. CASE ~ whole /\ ~ glued
  <2> DEFINE line == [is |-> "unended"]
  <2>1. history' = Append(history, line)
        /\ appends' = Append(appends, [of |-> p, as |-> "unended"]) /\ UNCHANGED <<tracker, clock>>
    BY <1>1, <1>6 DEF p
  <2>2. line \in Lines /\ line.is # "record"
    BY DEF Lines
  <2> HIDE DEF line
  <2>3. /\ history' \in Seq(Lines) /\ DOMAIN history' = 1..(last + 1)
        /\ history'[last + 1] = line /\ \A k \in 1..last : history'[k] = history[k]
    BY <1>3, <2>1, <2>2, AppendProperties, LenProperties
  <2>4. Parsed' = Parsed /\ \A k \in Parsed : history'[k] = history[k]
    BY <1>3, <2>2, <2>3 DEF Parsed
  <2>5. QED
    BY <1>2, <2>1, <2>3, <2>4, CutStep
<1>7. QED
  BY <1>4, <1>5, <1>6

LEMMA ProgressInitSound == ProgressInit => ProgressInv
<1> SUFFICES ASSUME ProgressInit PROVE ProgressInv
  OBVIOUS
<1>1. [is |-> "cut"] \in Lines /\ [is |-> "cut"].is # "record"
  BY DEF Lines
<1> DEFINE line == [is |-> "cut"]
<1> HIDE DEF line
<1>2. history \in {<<>>, <<line>>} /\ line \in Lines /\ line.is # "record"
  BY <1>1 DEF ProgressInit, line
<1>3. history \in Seq(Lines) /\ Parsed = {}
  <2>1. CASE history = <<>>
    BY <2>1 DEF Parsed
  <2>2. CASE history = <<line>>
    <3>1. history \in Seq(Lines) /\ DOMAIN history = {1} /\ history[1] = line
      BY <1>2, <2>2
    <3>2. QED
      BY <1>2, <3>1 DEF Parsed
  <2>3. QED
    BY <1>2, <2>1, <2>2
<1>4. appends = <<>> /\ tracker \in Trackers /\ clock \in 0..LastHour
  BY ProgressAssumption DEF ProgressInit, Trackers
<1>5. QED
  BY <1>3, <1>4 DEF ProgressInv, ProgressTypes, RecordsReconcile

LEMMA ProgressStepSound == ProgressInv /\ [ProgressNext]_progressVars => ProgressInv'
<1> SUFFICES ASSUME ProgressInv, [ProgressNext]_progressVars PROVE ProgressInv'
  OBVIOUS
<1>1. CASE UNCHANGED <<history, appends>> /\ tracker' \in Trackers /\ clock' \in 0..LastHour
  <2>1. ProgressTypes /\ Parsed' = Parsed /\ \A k \in Parsed : history'[k] = history[k]
    BY <1>1 DEF Parsed, ProgressInv
  <2>2. Plots' = Plots
    BY <2>1, PointsStay
  <2>3. ProgressTypes' /\ RecordsReconcile'
    BY <1>1, <2>1 DEF ProgressInv, ProgressTypes, RecordsReconcile
  <2>4. \A n \in 1..Len(appends) : Plotted(n)'
    BY <1>1, <2>2 DEF ProgressInv, Plotted
  <2>5. QED
    BY <1>1, <2>3, <2>4 DEF ProgressInv
<1>2. CASE Edit
  <2>1. PICK e \in Entries, s \in Sections, c \in Cells : tracker' = [tracker EXCEPT ![e][s] = c]
    BY <1>2 DEF Edit
  <2>2. tracker \in Trackers /\ tracker' \in Trackers
    BY <2>1 DEF ProgressInv, ProgressTypes, Trackers
  <2>3. QED
    BY <1>1, <1>2, <2>2 DEF Edit, ProgressInv, ProgressTypes
<1>3. CASE NextHour
  BY <1>1, <1>3, ProgressAssumption DEF NextHour, ProgressInv, ProgressTypes
<1>4. CASE Collect
  BY <1>4, CollectStep
<1>5. CASE UNCHANGED progressVars
  BY <1>1, <1>5 DEF progressVars, ProgressInv, ProgressTypes
<1>6. QED
  BY <1>2, <1>3, <1>4, <1>5 DEF ProgressNext

LEMMA ProgressSound == ProgressSpec => []ProgressInv
BY ProgressInitSound, ProgressStepSound, PTL DEF ProgressSpec

\* Every point plotted counts each item a reader of the tracker could see exactly once
\* (collect-metrics.py:181-205).
LEMMA PointsAreCounts == ProgressSpec => []PointsReconcile
<1>1. ProgressInv => PointsReconcile
  <2> SUFFICES ASSUME ProgressInv, NEW h \in 0..LastHour, NEW p \in Points(h)
               PROVE  Reconciles(p)
    BY DEF PointsReconcile, Reconciles, ItemsIn
  <2>1. PICK k \in Parsed : p = history[k]
    BY PointIsParsed DEF ProgressInv
  <2>2. QED
    BY <2>1 DEF ProgressInv, RecordsReconcile
<1>2. QED
  BY <1>1, ProgressSound, PTL

\* An hour is plotted from its last record that was appended whole after a whole one
\* (render-dashboard.py:129-145).
LEMMA HoursArePlotted == ProgressSpec => []HourPlotted
<1>1. ProgressInv => HourPlotted
  <2> SUFFICES ASSUME ProgressInv, NEW n \in DOMAIN appends, appends[n].as = "whole"
               PROVE  \E k \in n..Len(appends) : /\ appends[k].of.hour = appends[n].of.hour
                                                 /\ appends[k].as = "whole"
                                                 /\ Points(appends[n].of.hour) = {appends[k].of}
    BY DEF HourPlotted
  <2>1. n \in 1..Len(appends) /\ appends[n] \in Appends
    BY LenProperties, ElementOfSeq DEF ProgressInv, ProgressTypes
  <2>2. Plots[appends[n].of.hour] = Points(appends[n].of.hour)
    BY <2>1 DEF Plots, Appends, Records
  <2>3. QED
    BY <2>1, <2>2 DEF ProgressInv, Plotted
<1>2. QED
  BY <1>1, ProgressSound, PTL

\* The graph is made of the tracker as it was, and of every whole record, for any number of
\* items, edits, hours and appends cut short (collect-metrics.py:181-205).
THEOREM PlotAlwaysReconciles == ProgressSpec => []PlotReconciles
<1>1. PointsReconcile /\ HourPlotted => PlotReconciles
  BY DEF PlotReconciles
<1>2. QED
  BY <1>1, PointsAreCounts, HoursArePlotted, PTL

-----------------------------------------------------------------------------
(* The dashboard.                                                          *)

Stages == {"free", "sent", "read", "open", "flushed"}
Texts  == [Questions -> 0..typed]
Posts  == [stage : Stages, rows : Texts, cur : Texts, fd : Inodes, ours : BOOLEAN]

BoardTypes ==
  /\ typed \in Nat /\ open \subseteq Questions /\ settled \subseteq Questions
  /\ files \in [Inodes -> [torn : BOOLEAN, of : Texts]]
  /\ ans \in Inodes /\ tmp \in Inodes \cup {0} /\ mixed \subseteq Inodes
  /\ page \in [items : SUBSET Questions, value : Texts]
  /\ shown \subseteq Questions /\ field \in Texts /\ saved \in Texts
  /\ thread \in [Threads -> Posts]
  /\ unsent \subseteq Questions /\ posted \subseteq Questions /\ overlapped \in BOOLEAN

\* A text that no post has carried keeps the tab from reloading until the answer to another
\* post marks it, and while a post of the tab is under way all of them were typed meanwhile.
UnsentHeld ==
  /\ \A i \in unsent : i \in shown /\ field[i] # 0
  /\ \A i \in unsent : field[i] = saved[i] => field[i] \in marked
  /\ \A k \in Threads :
       thread[k].stage # "free" /\ thread[k].ours = TRUE => unsent \subseteq midpost
  /\ lost \subseteq marked

\* A thread that has opened the temporary file is the one that has it, and what it merged has
\* an answer for every item saved.
PostSound(k) ==
  LET post == thread[k]
  IN  /\ post.stage = "free" => post = Free
      /\ post.stage \in {"open", "flushed"} => tmp = post.fd /\ post.fd # ans
      /\ post.stage \in {"read", "open", "flushed"} =>
           \A i \in Questions : i \in posted \/ post.rows[i] # 0 => post.cur[i] # 0
      /\ post.stage = "flushed" => files[post.fd] = [torn |-> FALSE, of |-> post.cur]

\* Posts that were answered before the next was sent.
InTurn ==
  overlapped = FALSE =>
    /\ \A k, l \in Threads : thread[k] # Free /\ thread[l] # Free => k = l
    /\ \A k \in Threads : PostSound(k)
    /\ tmp # 0 => \E k \in Threads : thread[k].stage \in {"open", "flushed"}
    /\ mixed = {}
    /\ files[ans].torn = FALSE /\ \A i \in posted : files[ans].of[i] # 0

BoardInv == BoardTypes /\ UnsentHeld /\ InTurn

LEMMA FreeIsPost == ASSUME typed \in Nat PROVE Blank \in Texts /\ Free \in Posts
BY DEF Blank, Free, Texts, Posts, Stages, Inodes

LEMMA BoardInitSound == BoardInit => BoardInv
<1> SUFFICES ASSUME BoardInit PROVE BoardInv
  OBVIOUS
<1>1. typed = 0 /\ Blank \in Texts /\ Free \in Posts
  BY FreeIsPost DEF BoardInit
<1>2. Free.stage = "free" /\ Free.ours = TRUE
  BY DEF Free
<1>3. BoardTypes
  <2>1. [torn |-> FALSE, of |-> Blank] \in [torn : BOOLEAN, of : Texts]
    BY <1>1
  <2>2. files \in [Inodes -> [torn : BOOLEAN, of : Texts]]
    BY <2>1 DEF BoardInit
  <2>3. thread \in [Threads -> Posts] /\ page \in [items : SUBSET Questions, value : Texts]
    BY <1>1 DEF BoardInit
  <2>4. ans \in Inodes /\ overlapped \in BOOLEAN
    <3>1. ans = 1 /\ overlapped = FALSE
      BY DEF BoardInit
    <3>2. overlapped \in BOOLEAN
      BY <3>1
    <3>3. ans \in Inodes
      BY <3>1 DEF Inodes
    <3>4. QED
      BY <3>2, <3>3
  <2>5. QED
    BY <1>1, <2>2, <2>3, <2>4 DEF BoardInit, BoardTypes
<1>4. UnsentHeld
  BY DEF BoardInit, UnsentHeld
<1>5. InTurn
  <2>1. \A k \in Threads : thread[k] = Free
    BY DEF BoardInit
  <2>2. \A k \in Threads : PostSound(k)
    BY <1>2, <2>1 DEF PostSound
  <2>3. files[ans].torn = FALSE
    BY DEF BoardInit, Inodes
  <2>4. QED
    BY <2>1, <2>2, <2>3 DEF BoardInit, InTurn
<1>6. QED
  BY <1>3, <1>4, <1>5 DEF BoardInv

\* What is written may be written still after another text is typed.
LEMMA TextsGrow ==
  ASSUME typed \in Nat, typed' \in Nat, typed <= typed'
  PROVE  Texts \subseteq Texts' /\ Posts \subseteq Posts'
         /\ [torn : BOOLEAN, of : Texts] \subseteq [torn : BOOLEAN, of : Texts']
<1>1. Texts \subseteq Texts'
  BY DEF Texts
<1>2. Posts \subseteq Posts'
  BY <1>1 DEF Posts
<1>3. QED
  BY <1>1, <1>2

\* The steps of the tracker, the coordinator and the renderer.
LEMMA PageStep ==
  ASSUME BoardInv, Close \/ Settle \/ Render
  PROVE  BoardInv'
<1>1. /\ UNCHANGED <<files, ans, tmp, mixed, thread, shown, field, saved, typed,
                     unsent, midpost, marked, lost, posted, overlapped>>
      /\ BoardTypes
  BY DEF BoardInv, Close, Settle, Render, writerVars, tabVars, ghosts, typedGhosts
<1>2. /\ open' \subseteq Questions /\ settled' \subseteq Questions
      /\ page' \in [items : SUBSET Questions, value : Texts]
  <2>1. CASE Close
    BY <1>1, <2>1 DEF Close, BoardTypes
  <2>2. CASE Settle
    BY <1>1, <2>2 DEF Settle, BoardTypes
  <2>3. CASE Render
    <3> DEFINE asked == Questions \ settled
    <3>1. page' = [items |-> asked, value |-> Prefill(asked)] /\ UNCHANGED <<open, settled>>
          /\ \A i \in asked : \E j \in asked \cap open : j <= i
      BY <2>3 DEF Render
    <3>2. LoadAnswers \in Texts
      BY <1>1, FreeIsPost DEF BoardTypes, LoadAnswers, Stored, Whole
    <3>3. ASSUME NEW i \in asked PROVE LoadAnswers[Max({j \in asked \cap open : j <= i})] \in 0..typed
      <4> DEFINE S == {j \in asked \cap open : j <= i}
      <4>1. S # {} /\ S \subseteq 0..NItems /\ S \subseteq Questions
        BY <3>1, BoardAssumption DEF Questions
      <4> HIDE DEF S
      <4>2. Max(S) \in S
        BY <4>1, BoardAssumption, GreatestChosen
      <4>3. QED
        BY <3>2, <4>1, <4>2 DEF Texts, S
    <3>4. Prefill(asked) \in Texts
      BY <1>1, <3>3 DEF Prefill, Texts, BoardTypes
    <3>5. QED
      BY <1>1, <3>1, <3>4 DEF BoardTypes
  <2>4. QED
    BY <2>1, <2>2, <2>3
<1>3. BoardTypes'
  BY <1>1, <1>2 DEF BoardTypes, Texts, Posts
<1>4. UnsentHeld' /\ InTurn'
  BY <1>1 DEF BoardInv, UnsentHeld, InTurn, PostSound
<1>5. QED
  BY <1>3, <1>4 DEF BoardInv

LEMMA TypeStep == BoardInv /\ Type => BoardInv'
<1> SUFFICES ASSUME BoardInv, Type PROVE BoardInv'
  OBVIOUS
<1>1. PICK i \in shown : /\ field' = [field EXCEPT ![i] = typed']
                         /\ unsent' = unsent \cup {i}
                         /\ midpost' = IF InFlight THEN midpost \cup {i} ELSE midpost \ {i}
  BY DEF Type
<1>2. /\ UNCHANGED <<open, settled, files, ans, tmp, mixed, thread, page, shown, saved, marked,
                     lost, posted, overlapped>>
      /\ typed' = typed + 1 /\ BoardTypes /\ UnsentHeld /\ InTurn
  BY DEF Type, BoardInv, writerVars
<1>3. /\ typed \in Nat /\ typed' \in Nat /\ typed <= typed' /\ i \in Questions
      /\ field \in Texts /\ saved \in Texts
  BY <1>1, <1>2 DEF BoardTypes
<1>4. Texts \subseteq Texts' /\ Posts \subseteq Posts'
      /\ [torn : BOOLEAN, of : Texts] \subseteq [torn : BOOLEAN, of : Texts']
  BY <1>3, TextsGrow
<1>5. field' \in Texts' /\ field'[i] = typed + 1
      /\ \A j \in Questions : j # i => field'[j] = field[j]
  BY <1>1, <1>2, <1>3 DEF Texts
<1>6. unsent' \subseteq Questions
  BY <1>1, <1>2, <1>3 DEF BoardTypes
<1>7. BoardTypes'
  <2>1. files' \in [Inodes -> [torn : BOOLEAN, of : Texts']]
    BY <1>2, <1>4 DEF BoardTypes
  <2>2. thread' \in [Threads -> Posts']
    BY <1>2, <1>4 DEF BoardTypes
  <2>3. page' \in [items : SUBSET Questions, value : Texts']
    BY <1>2, <1>4 DEF BoardTypes
  <2>4. QED
    BY <1>2, <1>3, <1>4, <1>5, <1>6, <2>1, <2>2, <2>3 DEF BoardTypes
<1>8. UnsentHeld'
  <2>1. saved[i] # typed + 1 /\ typed + 1 # 0
    BY <1>3 DEF Texts
  <2>2. /\ \A j \in unsent' : j \in shown /\ field'[j] # 0
        /\ \A j \in unsent' : field'[j] = saved[j] => field'[j] \in marked
    BY <1>1, <1>2, <1>5, <1>6, <2>1 DEF UnsentHeld
  <2>3. ASSUME NEW k \in Threads, thread[k].stage # "free", thread[k].ours = TRUE
        PROVE  unsent' \subseteq midpost'
    <3>1. InFlight
      BY <2>3 DEF InFlight
    <3>2. unsent \subseteq midpost
      BY <1>2, <2>3 DEF UnsentHeld
    <3>3. QED
      BY <1>1, <3>1, <3>2
  <2>4. QED
    BY <1>2, <2>2, <2>3 DEF UnsentHeld
<1>9. InTurn'
  BY <1>2 DEF InTurn, PostSound
<1>10. QED
  BY <1>7, <1>8, <1>9 DEF BoardInv

LEMMA ClearStep == BoardInv /\ Clear => BoardInv'
<1> SUFFICES ASSUME BoardInv, Clear PROVE BoardInv'
  OBVIOUS
<1>1. /\ field' = Blank /\ unsent' = {}
      /\ UNCHANGED <<open, settled, files, ans, tmp, mixed, thread, page, shown, saved, typed,
                     marked, lost, posted, overlapped>>
  BY DEF Clear, writerVars
<1>2. BoardTypes'
  BY <1>1, FreeIsPost DEF BoardInv, BoardTypes, Texts, Posts
<1>3. UnsentHeld' /\ InTurn'
  BY <1>1 DEF BoardInv, UnsentHeld, InTurn, PostSound
<1>4. QED
  BY <1>2, <1>3 DEF BoardInv

LEMMA SaveStep == BoardInv /\ Save => BoardInv'
<1> SUFFICES ASSUME BoardInv, Save PROVE BoardInv'
  OBVIOUS
<1>1. PICK k \in Threads :
        /\ thread[k] = Free
        /\ thread' = [thread EXCEPT ![k] = [Free EXCEPT !.stage = "sent", !.rows = field]]
        /\ unsent' = {}
        /\ overlapped' = (overlapped \/ \E l \in Threads : thread[l] # Free)
        /\ UNCHANGED <<open, settled, files, ans, tmp, mixed, page, shown, field, saved, typed,
                       marked, lost, posted>>
  BY DEF Save, tabVars
<1> DEFINE post == [Free EXCEPT !.stage = "sent", !.rows = field]
<1>2. BoardTypes /\ UnsentHeld /\ InTurn
  BY DEF BoardInv
<1>3. post \in Posts /\ post.stage = "sent" /\ Free.stage = "free"
  BY <1>2, FreeIsPost DEF BoardTypes, Free, Posts, Stages
<1> HIDE DEF post
<1>4. thread'[k] = post /\ \A l \in Threads : l # k => thread'[l] = thread[l]
  BY <1>1, <1>2 DEF post, BoardTypes
<1>5. BoardTypes'
  <2>1. thread' \in [Threads -> Posts]
    BY <1>1, <1>2, <1>3 DEF post, BoardTypes
  <2>2. overlapped' \in BOOLEAN
    BY <1>1
  <2>3. QED
    BY <1>1, <1>2, <2>1, <2>2 DEF BoardTypes, Texts, Posts
<1>6. UnsentHeld'
  BY <1>1, <1>2 DEF UnsentHeld
<1>7. InTurn'
  <2>1. SUFFICES ASSUME overlapped' = FALSE
                 PROVE  /\ \A l, m \in Threads : thread'[l] # Free /\ thread'[m] # Free => l = m
                        /\ \A l \in Threads : PostSound(l)'
                        /\ tmp # 0 => \E l \in Threads : thread'[l].stage \in {"open", "flushed"}
                        /\ mixed = {}
                        /\ files[ans].torn = FALSE /\ \A i \in posted : files[ans].of[i] # 0
    BY <1>1 DEF InTurn
  <2>2. overlapped = FALSE /\ \A l \in Threads : thread[l] = Free
    BY <1>1, <1>2, <2>1 DEF BoardTypes
  <2>3. \A l \in Threads : l # k => thread'[l] = Free
    BY <1>4, <2>2
  <2>4. \A l \in Threads : PostSound(l)'
    BY <1>3, <1>4, <2>3 DEF PostSound
  <2>5. tmp = 0
    BY <1>2, <1>3, <2>2 DEF InTurn
  <2>6. QED
    BY <1>2, <2>2, <2>3, <2>4, <2>5 DEF InTurn
<1>8. QED
  BY <1>5, <1>6, <1>7 DEF BoardInv

LEMMA ReloadStep == BoardInv /\ Reload => BoardInv'
<1> SUFFICES ASSUME BoardInv, Reload PROVE BoardInv'
  OBVIOUS
<1>1. /\ shown' = page.items /\ field' = page.value /\ saved' = page.value
      /\ lost' = lost \cup {field[i] : i \in unsent} /\ unsent' = {}
      /\ thread' = [k \in Threads |-> IF thread[k] = Free THEN Free ELSE [thread[k] EXCEPT !.ours = FALSE]]
      /\ UNCHANGED <<open, settled, files, ans, tmp, mixed, page, typed, marked, posted,
                     overlapped>>
      /\ \A i \in shown : ~ (field[i] # saved[i] /\ field[i] # 0)
  BY DEF Reload, Dirty
<1>2. BoardTypes /\ UnsentHeld /\ InTurn
  BY DEF BoardInv
<1>3. ASSUME NEW k \in Threads
      PROVE  /\ thread'[k] \in Posts
             /\ thread'[k].stage = thread[k].stage /\ thread'[k].rows = thread[k].rows
             /\ thread'[k].cur = thread[k].cur /\ thread'[k].fd = thread[k].fd
             /\ thread[k] = Free => thread'[k] = Free
  <2>1. thread[k] \in Posts
    BY <1>2 DEF BoardTypes
  <2>2. CASE thread[k] = Free
    BY <1>1, <2>1, <2>2
  <2>3. CASE thread[k] # Free
    <3>1. thread'[k] = [thread[k] EXCEPT !.ours = FALSE]
      BY <1>1, <2>3
    <3>2. QED
      BY <2>1, <2>3, <3>1 DEF Posts
  <2>4. QED
    BY <2>2, <2>3
<1>4. BoardTypes'
  <2>1. thread' \in [Threads -> Posts]
    BY <1>1, <1>3
  <2>2. QED
    BY <1>1, <1>2, <2>1 DEF BoardTypes, Texts, Posts
<1>5. UnsentHeld'
  <2>1. \A i \in unsent : field[i] \in marked
    BY <1>1, <1>2 DEF UnsentHeld
  <2>2. QED
    BY <1>1, <1>2, <2>1 DEF UnsentHeld
<1>6. InTurn'
  <2>1. SUFFICES ASSUME overlapped = FALSE
                 PROVE  /\ \A l, m \in Threads : thread'[l] # Free /\ thread'[m] # Free => l = m
                        /\ \A l \in Threads : PostSound(l)'
                        /\ tmp # 0 => \E l \in Threads : thread'[l].stage \in {"open", "flushed"}
                        /\ mixed = {}
                        /\ files[ans].torn = FALSE /\ \A i \in posted : files[ans].of[i] # 0
    BY <1>1 DEF InTurn
  <2>2. \A l, m \in Threads : thread'[l] # Free /\ thread'[m] # Free => l = m
    BY <1>2, <1>3, <2>1 DEF InTurn
  <2>3. ASSUME NEW l \in Threads PROVE PostSound(l)'
    <3>1. PostSound(l)
      BY <1>2, <2>1 DEF InTurn
    <3>2. QED
      BY <1>1, <1>3, <3>1 DEF PostSound
  <2>4. tmp # 0 => \E l \in Threads : thread'[l].stage \in {"open", "flushed"}
    BY <1>2, <1>3, <2>1 DEF InTurn
  <2>5. QED
    BY <1>2, <2>1, <2>2, <2>3, <2>4 DEF InTurn
<1>7. QED
  BY <1>4, <1>5, <1>6 DEF BoardInv

-----------------------------------------------------------------------------
(* The writer.                                                             *)

\* A step of one thread: what it must leave so that the tab's texts stay held, the other
\* threads as they were, and everything bounded.
LEMMA ThreadTypes ==
  ASSUME BoardTypes, NEW k \in Threads, NEW post \in Posts,
         thread' = [thread EXCEPT ![k] = post]
  PROVE  thread' \in [Threads -> Posts] /\ thread'[k] = post
         /\ \A l \in Threads : l # k => thread'[l] = thread[l]
BY DEF BoardTypes

\* A thread that is serving a post, unless posts have overlapped, is alone.
LEMMA AloneServing ==
  ASSUME BoardInv, overlapped = FALSE, NEW k \in Threads, thread[k].stage # "free"
  PROVE  /\ \A l \in Threads : l # k => thread[l] = Free
         /\ \A l \in Threads : thread[l].stage \in {"open", "flushed"} => l = k
         /\ PostSound(k)
<1>1. /\ \A l, m \in Threads : thread[l] # Free /\ thread[m] # Free => l = m
      /\ PostSound(k)
  BY DEF BoardInv, InTurn
<1>2. Free.stage = "free"
  BY DEF Free
<1>3. thread[k] # Free
  BY <1>2
<1>4. \A l \in Threads : l # k => thread[l] = Free
  BY <1>1, <1>3
<1>5. \A l \in Threads : thread[l].stage \in {"open", "flushed"} => l = k
  BY <1>2, <1>4
<1>6. QED
  BY <1>1, <1>4, <1>5

LEMMA ReadStep == ASSUME BoardInv, NEW k \in Threads, ReadAnswers(k),
                         UNCHANGED <<open, settled, page, shown, field, typed, unsent, midpost, lost>>
                  PROVE  BoardInv'
<1> DEFINE post == [thread[k] EXCEPT !.stage = "read", !.cur = Merged(LoadAnswers, thread[k].rows)]
<1>1. /\ thread[k].stage = "sent" /\ UNCHANGED <<files, ans, tmp, mixed, saved, marked, posted, overlapped>>
      /\ BoardTypes /\ UnsentHeld /\ InTurn
  BY DEF ReadAnswers, AtStage, BoardInv
<1>2. thread' = [thread EXCEPT ![k] = post]
  BY <1>1 DEF ReadAnswers, BoardTypes
<1>3. thread[k] \in Posts
  BY <1>1 DEF BoardTypes
<1>4. LoadAnswers \in Texts
  BY <1>1, FreeIsPost DEF BoardTypes, LoadAnswers, Stored, Whole
<1>5. Merged(LoadAnswers, thread[k].rows) \in Texts
      /\ \A i \in Questions : Merged(LoadAnswers, thread[k].rows)[i] =
            IF thread[k].rows[i] # 0 THEN thread[k].rows[i] ELSE LoadAnswers[i]
  BY <1>3, <1>4 DEF Merged, Texts, Posts
<1>6. /\ post \in Posts /\ post.stage = "read" /\ post.rows = thread[k].rows /\ post.ours = thread[k].ours
      /\ post.cur = Merged(LoadAnswers, thread[k].rows)
  BY <1>3, <1>5 DEF Posts, Stages
<1> HIDE DEF post
<1>7. thread' \in [Threads -> Posts] /\ thread'[k] = post
      /\ \A l \in Threads : l # k => thread'[l] = thread[l]
  BY <1>1, <1>2, <1>6, ThreadTypes
<1>8. BoardTypes'
  BY <1>1, <1>7 DEF BoardTypes, Texts, Posts
<1>9. UnsentHeld'
  BY <1>1, <1>6, <1>7 DEF UnsentHeld
<1>10. InTurn'
  <2>1. SUFFICES ASSUME overlapped = FALSE
                 PROVE  /\ \A l, m \in Threads : thread'[l] # Free /\ thread'[m] # Free => l = m
                        /\ \A l \in Threads : PostSound(l)'
                        /\ tmp # 0 => \E l \in Threads : thread'[l].stage \in {"open", "flushed"}
                        /\ mixed = {}
                        /\ files[ans].torn = FALSE /\ \A i \in posted : files[ans].of[i] # 0
    BY <1>1 DEF InTurn
  <2>2. /\ \A l \in Threads : l # k => thread'[l] = Free
        /\ \A l \in Threads : thread[l].stage \in {"open", "flushed"} => l = k
    BY <1>1, <1>7, <2>1, AloneServing
  <2>3. tmp = 0 /\ mixed = {} /\ files[ans].torn = FALSE /\ \A i \in posted : files[ans].of[i] # 0
    BY <1>1, <2>1, <2>2 DEF InTurn
  <2>4. LoadAnswers = files[ans].of
    BY <2>3 DEF LoadAnswers, Whole, Stored
  <2>5. \A i \in Questions : i \in posted \/ post.rows[i] # 0 => post.cur[i] # 0
    BY <1>5, <1>6, <2>3, <2>4
  <2>6. PostSound(k)'
    BY <1>1, <1>6, <1>7, <2>5 DEF PostSound
  <2>7. ASSUME NEW l \in Threads, l # k PROVE PostSound(l)'
    <3>1. thread'[l] = Free /\ Free.stage = "free"
      BY <2>2, <2>7 DEF Free
    <3>2. QED
      BY <3>1 DEF PostSound
  <2>8. QED
    BY <2>2, <2>3, <2>6, <2>7
<1>11. QED
  BY <1>8, <1>9, <1>10 DEF BoardInv

LEMMA OpenStep == ASSUME BoardInv, NEW k \in Threads, OpenTmp(k),
                         UNCHANGED <<open, settled, page, shown, field, typed, unsent, midpost, lost>>
                  PROVE  BoardInv'
<1> DEFINE others == {thread[l].fd : l \in {l \in Threads : AtStage(l, "open")}}
           n      == IF tmp # 0 THEN tmp ELSE Min(Inodes \ ({ans} \cup others))
           post   == [thread[k] EXCEPT !.stage = "open", !.fd = n]
<1>1. /\ thread[k].stage = "read" /\ tmp' = n
      /\ files' = [files EXCEPT ![n] = [torn |-> TRUE, of |-> Blank]]
      /\ \/ mixed' = mixed \ {n}
         \/ mixed' = mixed \cup {n} /\ \E l \in Threads \ {k} : thread[l].stage = "open"
      /\ UNCHANGED <<ans, saved, marked, posted, overlapped>>
      /\ BoardTypes /\ UnsentHeld /\ InTurn
  BY DEF OpenTmp, AtStage, BoardInv
<1>2. thread' = [thread EXCEPT ![k] = post] /\ thread[k] \in Posts
  BY <1>1 DEF OpenTmp, BoardTypes
<1>3. n \in Inodes /\ (tmp = 0 => n # ans)
  <2>1. CASE tmp # 0
    BY <1>1, <2>1 DEF BoardTypes
  <2>2. CASE tmp = 0
    <3>1. \E f \in Inodes : others \subseteq {f}
      <4>1. PICK l \in Threads : l # k /\ \A m \in Threads : m = k \/ m = l
        BY DEF Threads
      <4>2. others \subseteq {thread[l].fd}
        BY <1>1, <4>1 DEF AtStage
      <4>3. thread[l].fd \in Inodes
        BY <1>1 DEF BoardTypes, Posts
      <4>4. QED
        BY <4>2, <4>3
    <3>2. PICK f \in Inodes : others \subseteq {f}
      BY <3>1
    <3> DEFINE unused == Inodes \ ({ans} \cup others)
    <3>3. unused # {} /\ unused \subseteq Nat
      <4>1. \A e \in {ans} \cup others : e = ans \/ e = f
        BY <3>2
      <4>2. 1 \in Inodes /\ 2 \in Inodes /\ 3 \in Inodes
        BY DEF Inodes
      <4>3. 1 \in unused \/ 2 \in unused \/ 3 \in unused
        BY <4>1, <4>2
      <4>4. QED
        BY <4>3 DEF Inodes
    <3>4. Min(unused) \in unused
      BY <3>3, LeastChosen
    <3>5. QED
      BY <2>2, <3>4
  <2>3. QED
    BY <2>1, <2>2
<1>4. /\ post \in Posts /\ post.stage = "open" /\ post.fd = n /\ post.rows = thread[k].rows
      /\ post.cur = thread[k].cur /\ post.ours = thread[k].ours
  BY <1>2, <1>3 DEF Posts, Stages
<1> HIDE DEF post, n
<1>5. thread' \in [Threads -> Posts] /\ thread'[k] = post
      /\ \A l \in Threads : l # k => thread'[l] = thread[l]
  BY <1>1, <1>2, <1>4, ThreadTypes
<1>6. files' \in [Inodes -> [torn : BOOLEAN, of : Texts]]
      /\ \A m \in Inodes : m # n => files'[m] = files[m]
  <2>1. [torn |-> TRUE, of |-> Blank] \in [torn : BOOLEAN, of : Texts]
    BY <1>1, FreeIsPost DEF BoardTypes
  <2>2. QED
    BY <1>1, <2>1 DEF BoardTypes
<1>7. BoardTypes'
  <2>1. mixed' \subseteq Inodes
    BY <1>1, <1>3 DEF BoardTypes
  <2>2. QED
    BY <1>1, <1>3, <1>5, <1>6, <2>1 DEF BoardTypes, Texts, Posts
<1>8. UnsentHeld'
  BY <1>1, <1>4, <1>5 DEF UnsentHeld
<1>9. InTurn'
  <2>1. SUFFICES ASSUME overlapped = FALSE
                 PROVE  /\ \A l, m \in Threads : thread'[l] # Free /\ thread'[m] # Free => l = m
                        /\ \A l \in Threads : PostSound(l)'
                        /\ \E l \in Threads : thread'[l].stage \in {"open", "flushed"}
                        /\ mixed' = {}
                        /\ files'[ans].torn = FALSE /\ \A i \in posted : files'[ans].of[i] # 0
    BY <1>1 DEF InTurn
  <2>2. /\ \A l \in Threads : l # k => thread[l] = Free /\ thread'[l] = Free
        /\ \A l \in Threads : thread[l].stage \in {"open", "flushed"} => l = k
        /\ PostSound(k)
    BY <1>1, <1>5, <2>1, AloneServing
  <2>3. tmp = 0 /\ mixed = {} /\ files[ans].torn = FALSE /\ \A i \in posted : files[ans].of[i] # 0
    BY <1>1, <2>1, <2>2 DEF InTurn
  <2>4. n # ans /\ ans \in Inodes
    BY <1>1, <1>3, <2>3 DEF BoardTypes
  <2>5. files'[ans] = files[ans]
    BY <1>6, <2>4
  <2>6. mixed' = {}
    BY <1>1, <2>2, <2>3
  <2>7. PostSound(k)'
    BY <1>1, <1>4, <1>5, <2>2, <2>4 DEF PostSound
  <2>8. ASSUME NEW l \in Threads, l # k PROVE PostSound(l)'
    <3>1. thread'[l] = Free /\ Free.stage = "free"
      BY <2>2, <2>8 DEF Free
    <3>2. QED
      BY <3>1 DEF PostSound
  <2>9. QED
    BY <1>4, <1>5, <2>2, <2>3, <2>5, <2>6, <2>7, <2>8
<1>10. QED
  BY <1>7, <1>8, <1>9 DEF BoardInv

LEMMA FlushStep == ASSUME BoardInv, NEW k \in Threads, Flush(k),
                          UNCHANGED <<open, settled, page, shown, field, typed, unsent, midpost, lost>>
                   PROVE  BoardInv'
<1>1. PICK cut \in BOOLEAN :
        /\ cut => thread[k].fd \in mixed
        /\ files' = [files EXCEPT ![thread[k].fd] =
                       [torn |-> cut, of |-> IF cut THEN Blank ELSE thread[k].cur]]
  BY DEF Flush
<1> DEFINE post    == [thread[k] EXCEPT !.stage = "flushed"]
           written == [torn |-> cut, of |-> IF cut THEN Blank ELSE thread[k].cur]
<1>2. /\ thread[k].stage = "open" /\ UNCHANGED <<ans, tmp, mixed, saved, marked, posted, overlapped>>
      /\ BoardTypes /\ UnsentHeld /\ InTurn
  BY DEF Flush, AtStage, BoardInv
<1>3. thread[k] \in Posts
  BY <1>2 DEF BoardTypes
<1>4. thread' = [thread EXCEPT ![k] = post]
  BY <1>2 DEF Flush, BoardTypes
<1>5. /\ post \in Posts /\ post.stage = "flushed" /\ post.rows = thread[k].rows
      /\ post.cur = thread[k].cur /\ post.fd = thread[k].fd /\ post.ours = thread[k].ours
  BY <1>3 DEF Posts, Stages
<1>6. /\ written \in [torn : BOOLEAN, of : Texts]
      /\ ~ cut => written = [torn |-> FALSE, of |-> thread[k].cur]
  <2>1. CASE cut = TRUE
    BY <1>2, <2>1, FreeIsPost DEF BoardTypes
  <2>2. CASE cut = FALSE
    BY <1>3, <2>2 DEF Posts
  <2>3. QED
    BY <2>1, <2>2
<1> HIDE DEF post, written
<1>7. files' = [files EXCEPT ![thread[k].fd] = written]
  BY <1>1 DEF written
<1>8. /\ thread' \in [Threads -> Posts] /\ thread'[k] = post
      /\ \A l \in Threads : l # k => thread'[l] = thread[l]
  BY <1>2, <1>4, <1>5, ThreadTypes
<1>9. /\ files' \in [Inodes -> [torn : BOOLEAN, of : Texts]]
      /\ files'[thread[k].fd] = written
      /\ \A m \in Inodes : m # thread[k].fd => files'[m] = files[m]
  BY <1>2, <1>3, <1>6, <1>7 DEF BoardTypes, Posts
<1>10. BoardTypes'
  BY <1>2, <1>8, <1>9 DEF BoardTypes, Texts, Posts
<1>11. UnsentHeld'
  BY <1>2, <1>5, <1>8 DEF UnsentHeld
<1>12. InTurn'
  <2>1. SUFFICES ASSUME overlapped = FALSE
                 PROVE  /\ \A l, m \in Threads : thread'[l] # Free /\ thread'[m] # Free => l = m
                        /\ \A l \in Threads : PostSound(l)'
                        /\ \E l \in Threads : thread'[l].stage \in {"open", "flushed"}
                        /\ mixed = {}
                        /\ files'[ans].torn = FALSE /\ \A i \in posted : files'[ans].of[i] # 0
    BY <1>2 DEF InTurn
  <2>2. /\ \A l \in Threads : l # k => thread'[l] = Free
        /\ PostSound(k)
    BY <1>2, <1>8, <2>1, AloneServing
  <2>3. mixed = {} /\ files[ans].torn = FALSE /\ \A i \in posted : files[ans].of[i] # 0
    BY <1>2, <2>1 DEF InTurn
  <2>4. /\ tmp = thread[k].fd /\ thread[k].fd # ans
        /\ \A i \in Questions : i \in posted \/ thread[k].rows[i] # 0 => thread[k].cur[i] # 0
    BY <1>2, <2>2 DEF PostSound
  <2>5. files'[ans] = files[ans]
    BY <1>2, <1>9, <2>4 DEF BoardTypes
  <2>6. files'[thread[k].fd] = [torn |-> FALSE, of |-> thread[k].cur]
    BY <1>1, <1>6, <1>9, <2>3
  <2>7. PostSound(k)'
    BY <1>2, <1>5, <1>8, <2>4, <2>6 DEF PostSound
  <2>8. ASSUME NEW l \in Threads, l # k PROVE PostSound(l)'
    <3>1. thread'[l] = Free /\ Free.stage = "free"
      BY <2>2, <2>8 DEF Free
    <3>2. QED
      BY <3>1 DEF PostSound
  <2>9. QED
    BY <1>5, <1>8, <2>2, <2>3, <2>5, <2>7, <2>8
<1>13. QED
  BY <1>10, <1>11, <1>12 DEF BoardInv

LEMMA ReplaceStep == ASSUME BoardInv, NEW k \in Threads, Replace(k),
                            UNCHANGED <<open, settled, page, shown, field, typed, unsent, midpost, lost>>
                     PROVE  BoardInv'
<1>1. /\ thread[k].stage = "flushed" /\ UNCHANGED <<files, mixed, overlapped>>
      /\ thread' = [thread EXCEPT ![k] = Free]
      /\ BoardTypes /\ UnsentHeld /\ InTurn
  BY DEF Replace, AtStage, BoardInv
<1>2. \/ tmp = 0 /\ UNCHANGED <<ans, tmp, saved, marked, posted>>
      \/ /\ tmp # 0 /\ ans' = tmp /\ tmp' = 0
         /\ saved' = IF thread[k].ours THEN Marked ELSE saved
         /\ marked' = IF thread[k].ours THEN marked \cup {field[i] : i \in midpost} ELSE marked
         /\ posted' = posted \cup {i \in Questions : thread[k].rows[i] # 0}
  BY DEF Replace
<1>3. thread[k] \in Posts /\ Free \in Posts /\ Free.stage = "free"
  BY <1>1, FreeIsPost DEF BoardTypes, Free
<1>4. /\ thread' \in [Threads -> Posts] /\ thread'[k] = Free
      /\ \A l \in Threads : l # k => thread'[l] = thread[l]
  BY <1>1, <1>3, ThreadTypes
<1>5. Marked \in Texts
  BY <1>1 DEF BoardTypes, Marked, Texts
<1>6. BoardTypes'
  <2>1. ans' \in Inodes /\ tmp' \in Inodes \cup {0} /\ posted' \subseteq Questions
    BY <1>1, <1>2 DEF BoardTypes
  <2>2. saved' \in Texts
    BY <1>1, <1>2, <1>5 DEF BoardTypes
  <2>3. QED
    BY <1>1, <1>4, <2>1, <2>2 DEF BoardTypes, Texts, Posts
<1>7. UnsentHeld'
  <2>1. \A l \in Threads :
          thread'[l].stage # "free" /\ thread'[l].ours = TRUE => unsent \subseteq midpost
    BY <1>1, <1>3, <1>4 DEF UnsentHeld
  <2>2. marked \subseteq marked'
    BY <1>2
  <2>3. \A i \in unsent : field[i] = saved'[i] => field[i] \in marked'
    <3>1. CASE tmp # 0 /\ thread[k].ours = TRUE
      <4>1. unsent \subseteq midpost
        BY <1>1, <3>1 DEF UnsentHeld
      <4>2. marked' = marked \cup {field[i] : i \in midpost}
        BY <1>2, <3>1
      <4>3. QED
        BY <4>1, <4>2
    <3>2. CASE tmp = 0 \/ thread[k].ours = FALSE
      <4>1. saved' = saved
        BY <1>2, <3>2
      <4>2. QED
        BY <1>1, <2>2, <4>1 DEF UnsentHeld
    <3>3. thread[k].ours = TRUE \/ thread[k].ours = FALSE
      BY <1>3 DEF Posts
    <3>4. QED
      BY <3>1, <3>2, <3>3
  <2>4. (\A i \in unsent : i \in shown /\ field[i] # 0) /\ lost \subseteq marked'
    BY <1>1, <2>2 DEF UnsentHeld
  <2>5. UNCHANGED <<unsent, midpost, shown, field, lost>>
    OBVIOUS
  <2>6. QED
    BY <2>1, <2>3, <2>4, <2>5 DEF UnsentHeld
<1>8. InTurn'
  <2>1. SUFFICES ASSUME overlapped = FALSE
                 PROVE  /\ \A l, m \in Threads : thread'[l] # Free /\ thread'[m] # Free => l = m
                        /\ \A l \in Threads : PostSound(l)'
                        /\ tmp' = 0 /\ mixed = {}
                        /\ files[ans'].torn = FALSE /\ \A i \in posted' : files[ans'].of[i] # 0
    BY <1>1 DEF InTurn
  <2>2. /\ \A l \in Threads : l # k => thread'[l] = Free
        /\ PostSound(k)
    BY <1>1, <1>4, <2>1, AloneServing
  <2>3. mixed = {}
    BY <1>1, <2>1 DEF InTurn
  <2>4. /\ tmp = thread[k].fd /\ files[thread[k].fd] = [torn |-> FALSE, of |-> thread[k].cur]
        /\ \A i \in Questions : i \in posted \/ thread[k].rows[i] # 0 => thread[k].cur[i] # 0
    BY <1>1, <2>2 DEF PostSound
  <2>5. tmp # 0
    BY <1>3, <2>4 DEF Posts, Inodes
  <2>6. /\ ans' = tmp /\ tmp' = 0
        /\ posted' = posted \cup {i \in Questions : thread[k].rows[i] # 0}
    BY <1>2, <2>5
  <2>7. files[ans'].torn = FALSE /\ files[ans'].of = thread[k].cur
    BY <2>4, <2>6
  <2>8. \A i \in posted' : i \in Questions /\ (i \in posted \/ thread[k].rows[i] # 0)
    BY <1>1, <2>6 DEF BoardTypes
  <2>9. ASSUME NEW l \in Threads PROVE PostSound(l)'
    <3>1. thread'[l] = Free
      BY <1>4, <2>2
    <3>2. QED
      BY <1>3, <3>1 DEF PostSound
  <2>10. \A l \in Threads : thread'[l] = Free
    BY <1>4, <2>2
  <2>11. QED
    BY <2>3, <2>4, <2>6, <2>7, <2>8, <2>9, <2>10
<1>9. QED
  BY <1>6, <1>7, <1>8 DEF BoardInv

LEMMA BoardStep == BoardInv /\ [BoardNext]_boardVars => BoardInv'
<1> SUFFICES ASSUME BoardInv, [BoardNext]_boardVars PROVE BoardInv'
  OBVIOUS
<1>1. CASE Close \/ Settle \/ Render
  BY <1>1, PageStep
<1>2. CASE Type
  BY <1>2, TypeStep
<1>3. CASE Clear
  BY <1>3, ClearStep
<1>4. CASE Save
  BY <1>4, SaveStep
<1>5. CASE Reload
  BY <1>5, ReloadStep
<1>6. CASE Serve
  <2>1. UNCHANGED <<open, settled, page, shown, field, typed, unsent, midpost, lost>>
    BY <1>6 DEF Serve
  <2>2. PICK k \in Threads : ReadAnswers(k) \/ OpenTmp(k) \/ Flush(k) \/ Replace(k)
    BY <1>6 DEF Serve
  <2>3. QED
    BY <2>1, <2>2, ReadStep, OpenStep, FlushStep, ReplaceStep
<1>7. CASE UNCHANGED boardVars
  <2>1. UNCHANGED <<open, settled, files, ans, tmp, mixed, page, shown, field, saved, thread,
                    typed, unsent, midpost, marked, lost, posted, overlapped>>
    BY <1>7 DEF boardVars
  <2>2. QED
    BY <2>1 DEF BoardInv, BoardTypes, UnsentHeld, InTurn, PostSound, Texts, Posts
<1>8. QED
  BY <1>1, <1>2, <1>3, <1>4, <1>5, <1>6, <1>7 DEF BoardNext

LEMMA BoardSound == BoardSpec => []BoardInv
<1>1. QED
  BY BoardInitSound, BoardStep, PTL DEF BoardSpec

\* What the operator typed is in a field, in a post or in answers.json, for any number of items,
\* texts and posts, but for two exceptions: posts that overlapped (dashboard-writer.py:164-188)
\* and a text typed while a post was under way, which its answer marked as saved
\* (render-dashboard.py:505-513).
THEOREM NothingTypedIsLost == BoardSpec => []NothingTypedLost
<1>1. BoardInv => NothingTypedLost
  <2> SUFFICES ASSUME BoardInv PROVE AnswersKept /\ TypedKept
    BY DEF NothingTypedLost
  <2>1. TypedKept
    BY DEF BoardInv, UnsentHeld, TypedKept
  <2>2. overlapped = TRUE \/ overlapped = FALSE
    BY DEF BoardInv, BoardTypes
  <2>3. AnswersKept
    BY <2>2 DEF BoardInv, InTurn, AnswersKept, Whole, Stored
  <2>4. QED
    BY <2>1, <2>3
<1>2. QED
  BY <1>1, BoardSound, PTL
=============================================================================
