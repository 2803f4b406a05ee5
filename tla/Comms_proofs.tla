---------------------------- MODULE Comms_proofs ----------------------------
(***************************************************************************)
(* Theorems about the radio link, for any table of commands, any beacon    *)
(* schedule, any bound of the queue and any lines heard.                   *)
(*                                                                         *)
(* The lines of one wake are relayed one after another, which the model    *)
(* writes as a recursive function over the inbox; what holds of the whole  *)
(* wake is proved by looking for the first line after which it would not   *)
(* (Least).  The queue is the heart of the rest: what it keeps, in which   *)
(* order, and how long an entry may wait in it.                            *)
(***************************************************************************)
EXTENDS Comms, FiniteSetTheorems, SequenceTheorems, WellFoundedInduction, TLAPS

(***************************************************************************)
(* Numbers.                                                                *)
(***************************************************************************)

\* A set of numbers has a least one: induction, for provers that cannot be
\* given a predicate.
LEMMA Least ==
  ASSUME NEW S \in SUBSET Nat, S # {}
  PROVE  \E m \in S : \A k \in S : m <= k
<1> DEFINE R == {ss \in Nat \X Nat : ss[1] < ss[2]}
<1>1. IsWellFoundedOn(R, Nat)
  BY NatLessThanWellFounded, Zenon DEF OpToRel
<1>2. \E x \in S : \A y \in S : ~(<<y, x>> \in R)
  <2> HIDE DEF R
  <2> QED BY <1>1, WFMin, Zenon
<1>3. PICK m \in S : \A y \in S : ~(<<y, m>> \in R)
  BY <1>2
<1>4. ASSUME NEW k \in S
      PROVE  m <= k
  <2>1. k \in Nat /\ m \in Nat
    OBVIOUS
  <2>2. <<k, m>> \notin R
    <3> HIDE DEF R
    <3> QED BY <1>3
  <2> QED BY <2>1, <2>2
<1> QED BY <1>4

LEMMA MinIsLeast ==
  ASSUME NEW S \in SUBSET Nat, S # {}
  PROVE  Min(S) \in S /\ \A k \in S : Min(S) <= k
BY Least DEF Min

\* A finite set of numbers has a largest one.
LEMMA Largest ==
  ASSUME NEW S \in SUBSET Nat, S # {}, IsFiniteSet(S)
  PROVE  \E m \in S : \A k \in S : m >= k
<1> DEFINE Lacks(T) == T # {} /\ \A m \in T : \E k \in T : ~(m >= k)
           Sizes == {n \in Nat : \E T \in SUBSET S : Cardinality(T) = n /\ Lacks(T)}
<1> SUFFICES ASSUME Lacks(S)
             PROVE  FALSE
  OBVIOUS
<1>1. Cardinality(S) \in Sizes
  BY FS_CardinalityType
<1>2. PICK n \in Sizes : \A k \in Sizes : n <= k
  <2> HIDE DEF Sizes
  <2>1. Sizes \in SUBSET Nat
    BY DEF Sizes
  <2> QED BY <1>1, <2>1, Least
<1>3. PICK T \in SUBSET S : Cardinality(T) = n /\ Lacks(T)
  OBVIOUS
<1>4. PICK x \in T : TRUE
  BY <1>3
<1> DEFINE U == T \ {x}
<1>5. IsFiniteSet(T) /\ IsFiniteSet(U) /\ Cardinality(U) = n - 1
  BY <1>3, <1>4, FS_Subset, FS_RemoveElement
<1>6. Lacks(U)
  <2>1. PICK y \in T : ~(x >= y)
    BY <1>3, <1>4
  <2>2. U # {}
    BY <2>1
  <2>3. ASSUME NEW m \in U
        PROVE  \E k \in U : ~(m >= k)
    <3>1. PICK k \in T : ~(m >= k)
      BY <1>3
    <3>2. CASE k # x
      BY <3>1, <3>2
    <3>3. CASE k = x
      BY <2>1, <3>1, <3>3
    <3> QED BY <3>2, <3>3
  <2> QED BY <2>2, <2>3
<1>7. n - 1 \in Sizes
  BY <1>5, <1>6, FS_CardinalityType
<1> QED BY <1>2, <1>7

\* Every interval of the schedule is a number, and over beyond Longest.
LEMMA Schedules ==
  /\ Longest \in Nat \ {0}
  /\ \A s \in DOMAIN Interval : Interval[s] \in 1 .. Longest
<1> DEFINE S == {Interval[s] : s \in DOMAIN Interval}
<1>1. S \in SUBSET (Nat \ {0}) /\ S # {} /\ IsFiniteSet(S)
  <2>1. IsFiniteSet(S)
    <3> DEFINE f == [s \in DOMAIN Interval |-> Interval[s]]
    <3>1. f \in Surjection(DOMAIN Interval, S)
      BY DEF Surjection
    <3> HIDE DEF f, S
    <3> QED BY <3>1, CommsAssumption, FS_Surjection
  <2> QED BY <2>1, CommsAssumption
<1>2. Longest \in S /\ \A k \in S : Longest >= k
  <2> HIDE DEF S
  <2>1. Longest = Max(S)
    BY DEF Longest, S
  <2> QED BY <1>1, <2>1, Largest DEF Max
<1> QED BY <1>1, <1>2

(***************************************************************************)
(* The queue without its queries.                                          *)
(***************************************************************************)

\* What Effects computes for the first n entries.
KeptUpTo(queue, n, f) ==
  f = [i \in 0 .. n |->
         IF i = 0 THEN <<>>
         ELSE IF queue[i].query THEN f[i - 1] ELSE Append(f[i - 1], queue[i])]

LEMMA KeptExists ==
  ASSUME NEW queue, NEW n \in Nat
  PROVE  \E f : KeptUpTo(queue, n, f)
<1> DEFINE Missing == {k \in Nat : ~ \E f : KeptUpTo(queue, k, f)}
<1> SUFFICES ASSUME n \in Missing
             PROVE  FALSE
  OBVIOUS
<1>1. PICK m \in Missing : \A k \in Missing : m <= k
  <2> HIDE DEF Missing
  <2>1. Missing \in SUBSET Nat
    BY DEF Missing
  <2> QED BY <2>1, Least
<1>2. CASE m = 0
  <2> DEFINE f == [i \in 0 .. 0 |-> <<>>]
  <2>1. KeptUpTo(queue, 0, f)
    BY DEF KeptUpTo
  <2> QED BY <1>1, <1>2, <2>1
<1>3. CASE m # 0
  <2>1. m \in Nat /\ m - 1 \in Nat /\ m - 1 \notin Missing
    BY <1>1, <1>3
  <2>2. PICK f : KeptUpTo(queue, m - 1, f)
    BY <2>1
  <2> DEFINE last == IF queue[m].query THEN f[m - 1]
                     ELSE Append(f[m - 1], queue[m])
             g == [i \in 0 .. m |-> IF i < m THEN f[i] ELSE last]
  <2>3. \A i \in 0 .. m - 1 : g[i] = f[i]
    BY <2>1
  <2>4. g[m] = last
    BY <2>1
  <2>5. \A i \in 0 .. m :
          g[i] = IF i = 0 THEN <<>>
                 ELSE IF queue[i].query THEN g[i - 1]
                 ELSE Append(g[i - 1], queue[i])
    <3> TAKE i \in 0 .. m
    <3> HIDE DEF g
    <3>1. CASE i = m
      <4>1. g[m - 1] = f[m - 1]
        BY <2>1, <2>3
      <4> QED BY <1>3, <2>4, <3>1, <4>1
    <3>2. CASE i # m /\ i # 0
      <4>1. i \in 0 .. m - 1 /\ i - 1 \in 0 .. m - 1
        BY <2>1, <3>2
      <4>2. f[i] = IF queue[i].query THEN f[i - 1] ELSE Append(f[i - 1], queue[i])
        BY <2>2, <3>2, <4>1 DEF KeptUpTo
      <4> QED BY <2>3, <3>2, <4>1, <4>2
    <3>3. CASE i = 0
      <4>1. f[0] = <<>>
        BY <2>1, <2>2 DEF KeptUpTo
      <4> QED BY <1>3, <2>1, <2>3, <3>3, <4>1
    <3> QED BY <3>1, <3>2, <3>3
  <2>6. KeptUpTo(queue, m, g)
    <3>1. g = [i \in 0 .. m |-> g[i]]
      OBVIOUS
    <3> HIDE DEF g
    <3> QED BY <2>5, <3>1 DEF KeptUpTo
  <2> QED BY <1>1, <2>6
<1> QED BY <1>2, <1>3

LEMMA EffectsComputed ==
  ASSUME NEW queue, Len(queue) \in Nat
  PROVE  \E f : KeptUpTo(queue, Len(queue), f) /\ Effects(queue) = f[Len(queue)]
<1> DEFINE f == CHOOSE f : KeptUpTo(queue, Len(queue), f)
<1>1. KeptUpTo(queue, Len(queue), f)
  BY KeptExists
<1>2. Effects(queue) = f[Len(queue)]
  BY Zenon DEF Effects, KeptUpTo
<1> QED BY <1>1, <1>2

\* Without its queries a queue keeps everything else, in its order, and no
\* entry moves back.
Thinned(queue, n, s) ==
  /\ s \in Seq(Entries) /\ Len(s) <= n
  /\ \A k \in 1 .. Len(s) :
       /\ ~s[k].query
       /\ \E j \in k .. n : s[k] = queue[j]
  /\ \A k, l \in 1 .. Len(s) : k < l =>
       \E i, j \in 1 .. n : i < j /\ s[k] = queue[i] /\ s[l] = queue[j]
  /\ \A j \in 1 .. n : ~queue[j].query => \E k \in 1 .. Len(s) : s[k] = queue[j]

LEMMA EffectsThin ==
  ASSUME NEW queue \in Seq(Entries)
  PROVE  Thinned(queue, Len(queue), Effects(queue))
<1>0. Len(queue) \in Nat
  OBVIOUS
<1>1. PICK f : KeptUpTo(queue, Len(queue), f) /\ Effects(queue) = f[Len(queue)]
  BY <1>0, EffectsComputed
<1> DEFINE Wrong == {n \in 0 .. Len(queue) : ~Thinned(queue, n, f[n])}
<1> SUFFICES ASSUME Wrong # {}
             PROVE  FALSE
  BY <1>0, <1>1
<1>2. PICK m \in Wrong : \A k \in Wrong : m <= k
  <2> HIDE DEF Wrong
  <2>1. Wrong \in SUBSET Nat
    BY <1>0 DEF Wrong
  <2> QED BY <2>1, Least
<1>3. m \in 0 .. Len(queue) /\ m \in Nat
  BY <1>0
<1>4. CASE m = 0
  <2>1. f[0] = <<>>
    BY <1>0, <1>1 DEF KeptUpTo
  <2>2. Thinned(queue, 0, <<>>)
    BY DEF Thinned
  <2> QED BY <1>4, <2>1, <2>2
<1>5. CASE m # 0
  <2>1. m - 1 \in 0 .. Len(queue) /\ m \in 1 .. Len(queue)
    BY <1>0, <1>3, <1>5
  <2> DEFINE s == f[m - 1]
             e == queue[m]
  <2>2. Thinned(queue, m - 1, s)
    <3>1. m - 1 \notin Wrong
      <4> HIDE DEF Wrong
      <4> QED BY <1>2, <1>3
    <3> QED BY <2>1, <3>1
  <2>3. f[m] = IF e.query THEN s ELSE Append(s, e)
    BY <1>1, <1>3, <1>5 DEF KeptUpTo
  <2>4. e \in Entries
    BY <2>1
  <2> HIDE DEF s
  <2>5. CASE e.query
    <3>1. f[m] = s
      BY <2>3, <2>5
    <3>2. Thinned(queue, m, s)
      BY <1>3, <2>1, <2>2, <2>5 DEF Thinned
    <3> QED BY <3>1, <3>2
  <2>6. CASE ~e.query
    <3> DEFINE t == Append(s, e)
    <3>1. f[m] = t
      BY <2>3, <2>6
    <3>2. s \in Seq(Entries) /\ Len(s) \in Nat /\ Len(s) <= m - 1
      BY <2>2 DEF Thinned
    <3>3. /\ t \in Seq(Entries) /\ Len(t) = Len(s) + 1 /\ t[Len(s) + 1] = e
          /\ \A k \in 1 .. Len(s) : t[k] = s[k]
      BY <2>4, <3>2
    <3> HIDE DEF t
    <3>4. ASSUME NEW k \in 1 .. Len(t)
          PROVE  ~t[k].query /\ \E j \in k .. m : t[k] = queue[j]
      <4>1. CASE k \in 1 .. Len(s)
        <5>1. PICK j \in k .. m - 1 : s[k] = queue[j]
          BY <2>2, <4>1 DEF Thinned
        <5>2. j \in k .. m /\ t[k] = queue[j]
          BY <1>3, <3>3, <4>1, <5>1
        <5>3. ~s[k].query
          BY <2>2, <4>1 DEF Thinned
        <5> QED BY <3>3, <4>1, <5>2, <5>3
      <4>2. CASE k = Len(s) + 1
        <5>1. m \in k .. m
          BY <1>3, <3>2, <4>2
        <5> QED BY <2>6, <3>3, <4>2, <5>1
      <4> QED BY <3>2, <3>3, <4>1, <4>2
    <3>5. ASSUME NEW k \in 1 .. Len(t), NEW l \in 1 .. Len(t), k < l
          PROVE  \E i, j \in 1 .. m : i < j /\ t[k] = queue[i] /\ t[l] = queue[j]
      <4>1. k \in 1 .. Len(s) /\ t[k] = s[k]
        BY <3>2, <3>3, <3>5
      <4>2. CASE l \in 1 .. Len(s)
        <5>1. PICK i \in 1 .. m - 1, j \in 1 .. m - 1 :
                i < j /\ s[k] = queue[i] /\ s[l] = queue[j]
          BY <2>2, <3>5, <4>1, <4>2 DEF Thinned
        <5>2. i \in 1 .. m /\ j \in 1 .. m /\ t[l] = s[l]
          BY <1>3, <3>3, <4>2, <5>1
        <5> QED BY <4>1, <5>1, <5>2
      <4>3. CASE l = Len(s) + 1
        <5>1. PICK i \in k .. m - 1 : s[k] = queue[i]
          BY <2>2, <4>1 DEF Thinned
        <5>2. i \in 1 .. m /\ m \in 1 .. m /\ i < m
          BY <1>3, <1>5, <5>1
        <5> QED BY <3>3, <4>1, <4>3, <5>1, <5>2
      <4> QED BY <3>2, <3>3, <4>2, <4>3
    <3>6. ASSUME NEW j \in 1 .. m, ~queue[j].query
          PROVE  \E k \in 1 .. Len(t) : t[k] = queue[j]
      <4>1. CASE j = m
        <5>1. Len(s) + 1 \in 1 .. Len(t)
          BY <3>2, <3>3
        <5> QED BY <3>3, <4>1, <5>1
      <4>2. CASE j # m
        <5>1. j \in 1 .. m - 1
          BY <1>3, <4>2
        <5>2. PICK k \in 1 .. Len(s) : s[k] = queue[j]
          BY <2>2, <3>6, <5>1 DEF Thinned
        <5>3. k \in 1 .. Len(t)
          BY <3>2, <3>3
        <5> QED BY <3>3, <5>2, <5>3
      <4> QED BY <4>1, <4>2
    <3>7. Len(t) <= m
      BY <1>3, <3>2, <3>3
    <3>8. Thinned(queue, m, t)
      BY <3>3, <3>4, <3>5, <3>6, <3>7 DEF Thinned
    <3> QED BY <3>1, <3>8
  <2> QED BY <2>5, <2>6
<1> QED BY <1>4, <1>5

(***************************************************************************)
(* The queue of replies.                                                   *)
(***************************************************************************)

\* A due reply has seen no more wakes go by than there are places before it:
\* what RepliesAreTried rests on.
Patient(queue) ==
  /\ queue \in Seq(Entries)
  /\ \A i \in 1 .. Len(queue) :
       /\ i + queue[i].wakes <= MaxPending
       /\ queue[i].wait > 0 => queue[i].wakes = 0

\* The numbers of a sequence of lines, or of replies, rise.
Rising(s) == \A i, j \in 1 .. Len(s) : i < j => s[i].n < s[j].n

\* A part of a queue, in its order, with no entry moved back.
PartOf(part, queue) ==
  /\ part \in Seq(Entries) /\ Len(part) <= Len(queue)
  /\ \A k \in 1 .. Len(part) : \E j \in k .. Len(queue) : part[k] = queue[j]
  /\ \A k, l \in 1 .. Len(part) : k < l =>
       \E i, j \in 1 .. Len(queue) : i < j /\ part[k] = queue[i] /\ part[l] = queue[j]

\* An entry has joined the queue: it is the last, what was before it keeps its
\* order, and whatever went is a query that a newer one replaces or the oldest
\* of a full queue.
Joined(queue, entry, s) ==
  /\ s \in Seq(Entries) /\ Len(s) >= 1 /\ s[Len(s)] = entry
  /\ \A k \in 1 .. Len(s) - 1 : \E j \in k .. Len(queue) : s[k] = queue[j]
  /\ \A k, l \in 1 .. Len(s) - 1 : k < l =>
       \E i, j \in 1 .. Len(queue) : i < j /\ s[k] = queue[i] /\ s[l] = queue[j]
  /\ \A j \in 1 .. Len(queue) :
       \/ \E k \in 1 .. Len(s) - 1 : s[k] = queue[j]
       \/ queue[j].query /\ entry.query
       \/ /\ Len(s) = MaxPending
          /\ \A k \in 1 .. Len(s) - 1 :
               \E i, l \in 1 .. Len(queue) :
                 i < l /\ queue[i] = queue[j] /\ s[k] = queue[l]

\* A queue within its bound.
Trimmed(all) == IF Len(all) > MaxPending THEN Tail(all) ELSE all

LEMMA PartJoined ==
  ASSUME NEW queue \in Seq(Entries), Len(queue) <= MaxPending,
         NEW part, PartOf(part, queue), NEW entry \in Entries,
         \A j \in 1 .. Len(queue) :
           \/ \E k \in 1 .. Len(part) : part[k] = queue[j]
           \/ queue[j].query /\ entry.query
  PROVE  /\ Joined(queue, entry, Trimmed(Append(part, entry)))
         /\ Len(Trimmed(Append(part, entry))) <= MaxPending
<1> DEFINE all == Append(part, entry)
           n == Len(part)
<1>1. /\ n \in Nat /\ Len(queue) \in Nat /\ MaxPending \in Nat \ {0}
      /\ n <= Len(queue) /\ part \in Seq(Entries)
  BY CommsAssumption DEF PartOf
<1>2. /\ all \in Seq(Entries) /\ Len(all) = n + 1 /\ all[n + 1] = entry
      /\ \A k \in 1 .. n : all[k] = part[k]
  BY <1>1
<1> HIDE DEF all
<1>3. CASE n + 1 <= MaxPending
  <2>1. Trimmed(all) = all
    BY <1>1, <1>2, <1>3 DEF Trimmed
  <2>2. Joined(queue, entry, all)
    <3>1. Len(all) - 1 = n /\ Len(all) >= 1
      BY <1>1, <1>2
    <3>2. ASSUME NEW k \in 1 .. n
          PROVE  \E j \in k .. Len(queue) : all[k] = queue[j]
      BY <1>2 DEF PartOf
    <3>3. ASSUME NEW k \in 1 .. n, NEW l \in 1 .. n, k < l
          PROVE  \E i, j \in 1 .. Len(queue) :
                   i < j /\ all[k] = queue[i] /\ all[l] = queue[j]
      BY <1>2, <3>3 DEF PartOf
    <3>4. ASSUME NEW j \in 1 .. Len(queue)
          PROVE  \/ \E k \in 1 .. n : all[k] = queue[j]
                 \/ queue[j].query /\ entry.query
      BY <1>2
    <3> QED BY <1>2, <3>1, <3>2, <3>3, <3>4 DEF Joined
  <2> QED BY <1>2, <1>3, <2>1, <2>2 DEF all
<1>4. CASE n + 1 > MaxPending
  <2> DEFINE s == Tail(all)
  <2>1. n = MaxPending /\ n >= 1
    BY <1>1, <1>4
  <2>2. /\ s \in Seq(Entries) /\ Len(s) = n /\ s[n] = entry
        /\ \A k \in 1 .. n - 1 : s[k] = part[k + 1]
    BY <1>1, <1>2, <2>1
  <2>3. Trimmed(all) = s
    BY <1>1, <1>2, <1>4 DEF Trimmed
  <2> HIDE DEF s
  <2>4. ASSUME NEW k \in 1 .. n - 1
        PROVE  \E j \in k .. Len(queue) : s[k] = queue[j]
    <3>1. k + 1 \in 1 .. n
      BY <1>1
    <3>2. PICK j \in k + 1 .. Len(queue) : part[k + 1] = queue[j]
      BY <3>1 DEF PartOf
    <3>3. j \in k .. Len(queue)
      BY <1>1, <3>2
    <3> QED BY <2>2, <3>2, <3>3
  <2>5. ASSUME NEW k \in 1 .. n - 1, NEW l \in 1 .. n - 1, k < l
        PROVE  \E i, j \in 1 .. Len(queue) :
                 i < j /\ s[k] = queue[i] /\ s[l] = queue[j]
    <3>1. k + 1 \in 1 .. n /\ l + 1 \in 1 .. n /\ k + 1 < l + 1
      BY <1>1, <2>5
    <3>2. PICK i \in 1 .. Len(queue), j \in 1 .. Len(queue) :
            i < j /\ part[k + 1] = queue[i] /\ part[l + 1] = queue[j]
      BY <3>1 DEF PartOf
    <3> QED BY <2>2, <3>2
  <2>6. ASSUME NEW j \in 1 .. Len(queue)
        PROVE  \/ \E k \in 1 .. n - 1 : s[k] = queue[j]
               \/ queue[j].query /\ entry.query
               \/ \A k \in 1 .. n - 1 :
                    \E i, l \in 1 .. Len(queue) :
                      i < l /\ queue[i] = queue[j] /\ s[k] = queue[l]
    <3>1. CASE \E k \in 1 .. n : part[k] = queue[j]
      <4>1. PICK k \in 1 .. n : part[k] = queue[j]
        BY <3>1
      <4>2. CASE k = 1
        <5>1. ASSUME NEW m \in 1 .. n - 1
              PROVE  \E i, l \in 1 .. Len(queue) :
                       i < l /\ queue[i] = queue[j] /\ s[m] = queue[l]
          <6>1. 1 \in 1 .. n /\ m + 1 \in 1 .. n /\ 1 < m + 1
            BY <1>1, <2>1
          <6>2. PICK i \in 1 .. Len(queue), l \in 1 .. Len(queue) :
                  i < l /\ part[1] = queue[i] /\ part[m + 1] = queue[l]
            BY <6>1 DEF PartOf
          <6> QED BY <2>2, <4>1, <4>2, <6>2
        <5> QED BY <5>1
      <4>3. CASE k # 1
        <5>1. k - 1 \in 1 .. n - 1
          BY <1>1, <4>3
        <5>2. s[k - 1] = part[k]
          BY <1>1, <2>2, <5>1
        <5> QED BY <4>1, <5>1, <5>2
      <4> QED BY <4>2, <4>3
    <3>2. CASE ~ \E k \in 1 .. n : part[k] = queue[j]
      BY <3>2
    <3> QED BY <3>1, <3>2
  <2>7. Joined(queue, entry, s)
    <3>1. Len(s) - 1 = n - 1 /\ Len(s) >= 1
      BY <1>1, <2>1, <2>2
    <3> QED BY <2>1, <2>2, <2>4, <2>5, <2>6, <3>1 DEF Joined
  <2> QED BY <1>1, <2>1, <2>2, <2>3, <2>7 DEF all
<1> QED BY <1>1, <1>3, <1>4

\* A reply is scheduled, and the queue stays as patient as it was.
LEMMA ScheduleJoins ==
  ASSUME NEW c, Patient(c.queue), NEW entry \in Entries, entry.wakes = 0
  PROVE  LET s == Schedule(c, entry)
         IN  /\ s = [c EXCEPT !.queue = s.queue]
             /\ Joined(c.queue, entry, s.queue) /\ Patient(s.queue)
<1> DEFINE queue == c.queue
           part == IF entry.query THEN Effects(queue) ELSE queue
           new == Trimmed(Append(part, entry))
<1>1. queue \in Seq(Entries) /\ Len(queue) \in Nat /\ MaxPending \in Nat \ {0}
  BY CommsAssumption DEF Patient
<1>2. Len(queue) <= MaxPending
  <2>1. CASE Len(queue) > 0
    <3>1. Len(queue) \in 1 .. Len(queue)
      BY <1>1, <2>1
    <3>2. queue[Len(queue)] \in Entries /\ queue[Len(queue)].wakes \in Nat
      <4>1. queue[Len(queue)] \in Entries
        BY <1>1, <3>1
      <4> QED BY <4>1 DEF Entries
    <3>3. Len(queue) + queue[Len(queue)].wakes <= MaxPending
      BY <3>1 DEF Patient
    <3> HIDE DEF queue
    <3> QED BY <1>1, <3>2, <3>3
  <2> QED BY <1>1, <2>1
<1>3. Schedule(c, entry) = [c EXCEPT !.queue = new]
  BY DEF Schedule, Trimmed
<1>4. /\ PartOf(part, queue)
      /\ \A j \in 1 .. Len(queue) :
           \/ \E k \in 1 .. Len(part) : part[k] = queue[j]
           \/ queue[j].query /\ entry.query
  <2> HIDE DEF queue
  <2>1. CASE entry.query
    <3>1. Thinned(queue, Len(queue), Effects(queue))
      BY <1>1, EffectsThin
    <3>2. part = Effects(queue)
      BY <2>1
    <3> HIDE DEF part
    <3> QED BY <2>1, <3>1, <3>2 DEF Thinned, PartOf
  <2>2. CASE ~entry.query
    <3>1. part = queue
      BY <2>2
    <3> HIDE DEF part
    <3> QED BY <1>1, <3>1 DEF PartOf
  <2> QED BY <2>1, <2>2
<1>5. Joined(queue, entry, new) /\ Len(new) <= MaxPending
  <2> HIDE DEF part, queue
  <2> QED BY <1>1, <1>2, <1>4, PartJoined
<1>6. Patient(new)
  <2> HIDE DEF new
  <2>1. new \in Seq(Entries) /\ Len(new) \in Nat
    BY <1>5 DEF Joined
  <2>2. ASSUME NEW i \in 1 .. Len(new)
        PROVE  /\ i + new[i].wakes <= MaxPending
               /\ new[i].wait > 0 => new[i].wakes = 0
    <3>1. CASE i = Len(new)
      <4>1. new[i] = entry
        BY <1>5, <3>1 DEF Joined
      <4> QED BY <1>1, <1>5, <2>1, <3>1, <4>1
    <3>2. CASE i # Len(new)
      <4>1. i \in 1 .. Len(new) - 1
        BY <2>1, <3>2
      <4>2. PICK j \in i .. Len(queue) : new[i] = queue[j]
        BY <1>5, <4>1 DEF Joined
      <4>3. j \in 1 .. Len(queue) /\ j >= i
        BY <1>1, <4>2
      <4>4. j + queue[j].wakes <= MaxPending /\ (queue[j].wait > 0 => queue[j].wakes = 0)
        BY <4>3 DEF Patient
      <4>5. queue[j].wakes \in Nat
        <5>1. queue[j] \in Entries
          BY <1>1, <4>3
        <5> QED BY <5>1 DEF Entries
      <4> HIDE DEF queue
      <4> QED BY <1>1, <4>2, <4>3, <4>4, <4>5
    <3> QED BY <3>1, <3>2
  <2> QED BY <2>1, <2>2 DEF Patient
<1> HIDE DEF new
<1>7. [c EXCEPT !.queue = new].queue = new \/ "queue" \notin DOMAIN c
  OBVIOUS
<1> QED BY <1>3, <1>5, <1>6, <1>7

(***************************************************************************)
(* The state, in four parts: what a method leaves alone is said of a part. *)
(***************************************************************************)

\* What decides: the process, the envelope, the environment.
SameBase(c, r) ==
  /\ r.phase = c.phase /\ r.profile = c.profile /\ r.state = c.state
  /\ r.absorbing = c.absorbing /\ r.resolved = c.resolved
  /\ r.downlink = c.downlink /\ r.requested = c.requested
  /\ r.bootSaid = c.bootSaid /\ r.photo = c.photo /\ r.told = c.told
  /\ r.boots = c.boots /\ r.frame = c.frame /\ r.taken = c.taken /\ r.node = c.node

\* What leaves on the air, and the budget.
SameAir(c, r) ==
  /\ r.age = c.age /\ r.present = c.present /\ r.port = c.port
  /\ r.quiet = c.quiet /\ r.sent = c.sent

\* What the broker retains of COMMS.
SameSaid(c, r) == r.published = c.published /\ r.said = c.said

\* What came in, and is owed.
SameUplink(c, r) ==
  /\ r.queue = c.queue /\ r.orders = c.orders /\ r.asked = c.asked
  /\ r.inbox = c.inbox

LEMMA CommsShape ==
  ASSUME NEW c \in CommsState
  PROVE  /\ c.queue \in Seq(Entries) /\ c.orders \in Seq({"on", "off"})
         /\ c.asked \in Seq(Numbers) /\ c.inbox \in Seq(Heard)
         /\ c.taken \in Numbers /\ c.boots \in Boots
         /\ c.age \in SomeAge /\ c.quiet \in Ages
         /\ c.present \in BOOLEAN /\ c.port \in BOOLEAN /\ c.node \in BOOLEAN
         /\ c.requested \in BOOLEAN
         /\ c.downlink \in Downlinks
         /\ c.downlink.lora \in BOOLEAN /\ c.downlink.beacon \in BOOLEAN
         /\ c.photo \in SomeFrame /\ c.frame \in SomeFrame
         /\ c.sent \in Seq(Replies)
         /\ c.told \in Statuses
<1>1. /\ c.queue \in Seq(Entries) /\ c.orders \in Seq({"on", "off"})
      /\ c.asked \in Seq(Numbers) /\ c.inbox \in Seq(Heard)
      /\ c.taken \in Numbers /\ c.boots \in Boots
      /\ c.age \in SomeAge /\ c.quiet \in Ages
  BY DEF CommsState
<1>2. /\ c.present \in BOOLEAN /\ c.port \in BOOLEAN /\ c.node \in BOOLEAN
      /\ c.requested \in BOOLEAN
      /\ c.downlink \in Downlinks
      /\ c.photo \in SomeFrame /\ c.frame \in SomeFrame
      /\ c.sent \in Seq(Replies)
      /\ c.told \in Statuses
  BY Zenon DEF CommsState
<1> QED BY <1>1, <1>2 DEF Downlinks

LEMMA Numbered ==
  /\ Limits.heard \in Nat /\ Limits.says \in Nat /\ Limits.rare \in Nat
  /\ Numbers = 0 .. Limits.heard
  /\ MaxPending \in Nat \ {0} /\ AckDelay \in Nat \ {0}
  /\ None \notin Nat /\ None \notin Booleans /\ None \notin Frames
BY CommsAssumption DEF Kinds, Numbers, Frames

LEMMA EntryShape ==
  ASSUME NEW e \in Entries
  PROVE  /\ e.n \in Numbers /\ e.wait \in 0 .. AckDelay /\ e.query \in BOOLEAN
         /\ e.since \in Numbers \cup {None} /\ e.wakes \in Nat
BY Zenon DEF Entries

LEMMA SetQueue ==
  ASSUME NEW c \in CommsState, NEW queue \in Seq(Entries)
  PROVE  LET r == [c EXCEPT !.queue = queue]
         IN  /\ r \in CommsState /\ SameBase(c, r) /\ SameAir(c, r) /\ SameSaid(c, r)
             /\ r.queue = queue /\ r.orders = c.orders /\ r.asked = c.asked
             /\ r.inbox = c.inbox
<1> DEFINE r == [c EXCEPT !.queue = queue]
<1>1. r \in CommsState
  BY Zenon DEF CommsState
<1>2. SameBase(c, r) /\ SameAir(c, r) /\ SameSaid(c, r)
  BY Zenon DEF CommsState, SameBase, SameAir, SameSaid
<1>3. /\ r.queue = queue /\ r.orders = c.orders /\ r.asked = c.asked
      /\ r.inbox = c.inbox
  BY Zenon DEF CommsState
<1> QED BY <1>1, <1>2, <1>3

LEMMA SetOrders ==
  ASSUME NEW c \in CommsState, NEW orders \in Seq({"on", "off"})
  PROVE  LET r == [c EXCEPT !.orders = orders]
         IN  /\ r \in CommsState /\ SameBase(c, r) /\ SameAir(c, r) /\ SameSaid(c, r)
             /\ r.queue = c.queue /\ r.orders = orders
             /\ r.asked = c.asked /\ r.inbox = c.inbox
<1> DEFINE r == [c EXCEPT !.orders = orders]
<1>1. r \in CommsState
  BY Zenon DEF CommsState
<1>2. SameBase(c, r) /\ SameAir(c, r) /\ SameSaid(c, r)
  BY Zenon DEF CommsState, SameBase, SameAir, SameSaid
<1>3. /\ r.queue = c.queue /\ r.orders = orders
      /\ r.asked = c.asked /\ r.inbox = c.inbox
  BY Zenon DEF CommsState
<1> QED BY <1>1, <1>2, <1>3

LEMMA SetAsked ==
  ASSUME NEW c \in CommsState, NEW asked \in Seq(Numbers)
  PROVE  LET r == [c EXCEPT !.asked = asked]
         IN  /\ r \in CommsState /\ SameBase(c, r) /\ SameAir(c, r) /\ SameSaid(c, r)
             /\ r.queue = c.queue /\ r.orders = c.orders
             /\ r.asked = asked /\ r.inbox = c.inbox
<1> DEFINE r == [c EXCEPT !.asked = asked]
<1>1. r \in CommsState
  BY Zenon DEF CommsState
<1>2. SameBase(c, r) /\ SameAir(c, r) /\ SameSaid(c, r)
  BY Zenon DEF CommsState, SameBase, SameAir, SameSaid
<1>3. /\ r.queue = c.queue /\ r.orders = c.orders
      /\ r.asked = asked /\ r.inbox = c.inbox
  BY Zenon DEF CommsState
<1> QED BY <1>1, <1>2, <1>3

LEMMA SetInbox ==
  ASSUME NEW c \in CommsState, NEW inbox \in Seq(Heard)
  PROVE  LET r == [c EXCEPT !.inbox = inbox]
         IN  /\ r \in CommsState /\ SameBase(c, r) /\ SameAir(c, r) /\ SameSaid(c, r)
             /\ r.queue = c.queue /\ r.orders = c.orders /\ r.asked = c.asked
             /\ r.inbox = inbox
<1> DEFINE r == [c EXCEPT !.inbox = inbox]
<1>1. r \in CommsState
  BY Zenon DEF CommsState
<1>2. SameBase(c, r) /\ SameAir(c, r) /\ SameSaid(c, r)
  BY Zenon DEF CommsState, SameBase, SameAir, SameSaid
<1>3. /\ r.queue = c.queue /\ r.orders = c.orders /\ r.asked = c.asked
      /\ r.inbox = inbox
  BY Zenon DEF CommsState
<1> QED BY <1>1, <1>2, <1>3

(***************************************************************************)
(* What goes on the air.                                                   *)
(***************************************************************************)
\* A method that changes the radio and the budget at most.
OnlyAir(c, r) ==
  r \in CommsState /\ SameBase(c, r) /\ SameSaid(c, r) /\ SameUplink(c, r)

LEMMA OnlyAirAgain ==
  ASSUME NEW c, NEW q, NEW r, OnlyAir(c, q), OnlyAir(q, r)
  PROVE  OnlyAir(c, r)
BY DEF OnlyAir, SameBase, SameSaid, SameUplink

LEMMA SetPort ==
  ASSUME NEW c \in CommsState, NEW b \in BOOLEAN
  PROVE  LET r == [c EXCEPT !.port = b]
         IN  /\ OnlyAir(c, r)
             /\ r.port = b /\ r.present = c.present /\ r.quiet = c.quiet
             /\ r.age = c.age /\ r.sent = c.sent
<1> DEFINE r == [c EXCEPT !.port = b]
<1>1. r \in CommsState
  BY DEF CommsState
<1>2. SameBase(c, r) /\ SameSaid(c, r) /\ SameUplink(c, r)
  BY Zenon DEF CommsState, SameBase, SameSaid, SameUplink
<1>3. /\ r.port = b /\ r.present = c.present /\ r.quiet = c.quiet
      /\ r.age = c.age /\ r.sent = c.sent
  BY Zenon DEF CommsState
<1> QED BY <1>1, <1>2, <1>3 DEF OnlyAir

LEMMA SetPresent ==
  ASSUME NEW c \in CommsState, NEW b \in BOOLEAN
  PROVE  LET r == [c EXCEPT !.present = b]
         IN  /\ OnlyAir(c, r)
             /\ r.port = c.port /\ r.present = b /\ r.quiet = c.quiet
             /\ r.age = c.age /\ r.sent = c.sent
<1> DEFINE r == [c EXCEPT !.present = b]
<1>1. r \in CommsState
  BY DEF CommsState
<1>2. SameBase(c, r) /\ SameSaid(c, r) /\ SameUplink(c, r)
  BY Zenon DEF CommsState, SameBase, SameSaid, SameUplink
<1>3. /\ r.port = c.port /\ r.present = b /\ r.quiet = c.quiet
      /\ r.age = c.age /\ r.sent = c.sent
  BY Zenon DEF CommsState
<1> QED BY <1>1, <1>2, <1>3 DEF OnlyAir

LEMMA SetQuiet ==
  ASSUME NEW c \in CommsState, NEW n \in Ages
  PROVE  LET r == [c EXCEPT !.quiet = n]
         IN  /\ OnlyAir(c, r)
             /\ r.port = c.port /\ r.present = c.present /\ r.quiet = n
             /\ r.age = c.age /\ r.sent = c.sent
<1> DEFINE r == [c EXCEPT !.quiet = n]
<1>1. r \in CommsState
  BY DEF CommsState
<1>2. SameBase(c, r) /\ SameSaid(c, r) /\ SameUplink(c, r)
  BY Zenon DEF CommsState, SameBase, SameSaid, SameUplink
<1>3. /\ r.port = c.port /\ r.present = c.present /\ r.quiet = n
      /\ r.age = c.age /\ r.sent = c.sent
  BY Zenon DEF CommsState
<1> QED BY <1>1, <1>2, <1>3 DEF OnlyAir

LEMMA SetAge ==
  ASSUME NEW c \in CommsState, NEW n \in SomeAge
  PROVE  LET r == [c EXCEPT !.age = n]
         IN  /\ OnlyAir(c, r)
             /\ r.port = c.port /\ r.present = c.present /\ r.quiet = c.quiet
             /\ r.age = n /\ r.sent = c.sent
<1> DEFINE r == [c EXCEPT !.age = n]
<1>1. r \in CommsState
  BY DEF CommsState
<1>2. SameBase(c, r) /\ SameSaid(c, r) /\ SameUplink(c, r)
  BY Zenon DEF CommsState, SameBase, SameSaid, SameUplink
<1>3. /\ r.port = c.port /\ r.present = c.present /\ r.quiet = c.quiet
      /\ r.age = n /\ r.sent = c.sent
  BY Zenon DEF CommsState
<1> QED BY <1>1, <1>2, <1>3 DEF OnlyAir

LEMMA SetSent ==
  ASSUME NEW c \in CommsState, NEW lines \in Seq(Replies)
  PROVE  LET r == [c EXCEPT !.sent = lines]
         IN  /\ OnlyAir(c, r)
             /\ r.port = c.port /\ r.present = c.present /\ r.quiet = c.quiet
             /\ r.age = c.age /\ r.sent = lines
<1> DEFINE r == [c EXCEPT !.sent = lines]
<1>1. r \in CommsState
  BY DEF CommsState
<1>2. SameBase(c, r) /\ SameSaid(c, r) /\ SameUplink(c, r)
  BY Zenon DEF CommsState, SameBase, SameSaid, SameUplink
<1>3. /\ r.port = c.port /\ r.present = c.present /\ r.quiet = c.quiet
      /\ r.age = c.age /\ r.sent = lines
  BY Zenon DEF CommsState
<1> QED BY <1>1, <1>2, <1>3 DEF OnlyAir

LEMMA OpenPortAirs ==
  ASSUME NEW c \in CommsState
  PROVE  LET r == OpenPort(c)
         IN  /\ OnlyAir(c, r) /\ r.port \in BOOLEAN
             /\ r.present = c.present /\ r.quiet = c.quiet
             /\ r.age = c.age /\ r.sent = c.sent
<1>1. (c.port \/ c.node) \in BOOLEAN
  OBVIOUS
<1>2. OpenPort(c) = [c EXCEPT !.port = c.port \/ c.node]
  BY DEF OpenPort
<1> QED BY <1>1, <1>2, SetPort

\* A line has been tried: it left, and cost the budget, or the node is absent.
Tried(c, r, line) ==
  \/ /\ c.node /\ r.present = TRUE /\ r.age = 0 /\ r.quiet = 0
     /\ r.sent = Append(c.sent, line)
  \/ /\ ~c.node /\ r.present = FALSE /\ r.age = c.age /\ r.quiet = c.quiet
     /\ r.sent = c.sent

LEMMA TransmitTries ==
  ASSUME NEW c \in CommsState, NEW line \in Replies
  PROVE  OnlyAir(c, Transmit(c, line)) /\ Tried(c, Transmit(c, line), line)
<1> DEFINE o == OpenPort(c)
<1>1. OnlyAir(c, o) /\ o \in CommsState /\ o.sent = c.sent
  BY OpenPortAirs DEF OnlyAir
<1>2. CASE c.node
  <2> DEFINE lines == Append(c.sent, line)
             p == [o EXCEPT !.present = TRUE]
             q == [p EXCEPT !.quiet = 0]
             s == [q EXCEPT !.sent = lines]
             t == [s EXCEPT !.age = 0]
  <2>1. Transmit(c, line) = t
    <3>1. [o EXCEPT !.present = TRUE, !.quiet = 0, !.sent = Append(@, line)]
            = [[[o EXCEPT !.present = TRUE] EXCEPT !.quiet = 0]
                EXCEPT !.sent = Append(o.sent, line)]
      OBVIOUS
    <3> HIDE DEF o
    <3>2. Send(c, line) = s
      BY <1>1, <1>2, <3>1 DEF Send, o
    <3> QED BY <1>2, <3>2 DEF Transmit
  <2>2. lines \in Seq(Replies) /\ 0 \in Ages
    <3>1. c.sent \in Seq(Replies)
      BY CommsShape DEF Replies
    <3> QED BY <3>1, Schedules DEF Ages
  <2> HIDE DEF lines, o
  <2>3. OnlyAir(o, p) /\ p \in CommsState /\ p.present = TRUE
    BY <1>1, SetPresent DEF OnlyAir
  <2> HIDE DEF p
  <2>4. OnlyAir(p, q) /\ q \in CommsState /\ q.present = TRUE /\ q.quiet = 0
    BY <2>2, <2>3, SetQuiet DEF OnlyAir
  <2> HIDE DEF q
  <2>5. /\ OnlyAir(q, s) /\ s \in CommsState /\ s.present = TRUE /\ s.quiet = 0
        /\ s.sent = lines
    BY <2>2, <2>4, SetSent DEF OnlyAir
  <2> HIDE DEF s
  <2>6. /\ OnlyAir(s, t) /\ t.present = TRUE /\ t.quiet = 0 /\ t.sent = lines
        /\ t.age = 0
    <3>1. 0 \in SomeAge
      BY <2>2 DEF SomeAge
    <3> QED BY <2>5, <3>1, SetAge
  <2> HIDE DEF t
  <2>7. OnlyAir(c, t)
    BY <1>1, <2>3, <2>4, <2>5, <2>6, OnlyAirAgain
  <2> QED BY <1>2, <2>1, <2>6, <2>7 DEF Tried, lines
<1>3. CASE ~c.node
  <2>1. Transmit(c, line) = [c EXCEPT !.present = FALSE]
    BY <1>3 DEF Transmit, Send
  <2> QED BY <1>3, <2>1, SetPresent DEF Tried
<1> QED BY <1>2, <1>3

LEMMA LineTyped ==
  ASSUME NEW c \in CommsState, NEW kind \in {"beacon", "down", "boot"}
  PROVE  Line(c, kind) \in Replies
<1>1. 0 \in Numbers /\ c.quiet \in Ages
  BY CommsShape, Numbered
<1> QED BY <1>1 DEF Line, Replies

\* One entry has gone.
LEMMA RemoveOne ==
  ASSUME NEW queue \in Seq(Entries), NEW i \in 1 .. Len(queue)
  PROVE  LET s == RemoveAt(queue, i)
         IN  /\ s \in Seq(Entries) /\ Len(s) = Len(queue) - 1
             /\ \A k \in 1 .. i - 1 : s[k] = queue[k]
             /\ \A k \in i .. Len(s) : s[k] = queue[k + 1]
<1> DEFINE a == SubSeq(queue, 1, i - 1)
           b == SubSeq(queue, i + 1, Len(queue))
           s == a \o b
<1>1. /\ a \in Seq(Entries) /\ Len(a) = i - 1
      /\ \A k \in 1 .. i - 1 : a[k] = queue[k]
  OBVIOUS
<1>2. /\ b \in Seq(Entries) /\ Len(b) = Len(queue) - i
      /\ \A k \in 1 .. Len(queue) - i : b[k] = queue[k + i]
  OBVIOUS
<1> HIDE DEF a, b
<1>3. s \in Seq(Entries) /\ Len(s) = Len(queue) - 1
  <2>1. s \in Seq(Entries)
    BY <1>1, <1>2
  <2>2. Len(s) = Len(a) + Len(b)
    BY <1>1, <1>2, ConcatProperties
  <2>3. Len(queue) \in Nat /\ i \in Nat
    OBVIOUS
  <2> HIDE DEF s
  <2> QED BY <1>1, <1>2, <2>1, <2>2, <2>3
<1>4. \A k \in 1 .. i - 1 : s[k] = queue[k]
  BY <1>1, <1>2, <1>3
<1>5. ASSUME NEW k \in i .. Len(s)
      PROVE  s[k] = queue[k + 1]
  <2>1. k - i + 1 \in 1 .. Len(queue) - i
    BY <1>3
  <2>2. s[k] = b[k - i + 1]
    BY <1>1, <1>2, <1>3, <2>1
  <2>3. b[k - i + 1] = queue[(k - i + 1) + i]
    BY <1>2, <2>1
  <2> QED BY <2>2, <2>3
<1>6. RemoveAt(queue, i) = s
  BY DEF RemoveAt, a, b
<1> QED BY <1>3, <1>4, <1>5, <1>6

\* _maybe_ack: nothing is due, or the first that is due has gone and its reply
\* has been tried; a profile without a radio empties the queue.
FirstDue(queue, i) ==
  /\ i \in 1 .. Len(queue) /\ queue[i].wait = 0
  /\ \A j \in 1 .. Len(queue) : queue[j].wait = 0 => i <= j

Acked(c, r, i, line) ==
  /\ FirstDue(c.queue, i) /\ r.queue = RemoveAt(c.queue, i)
  /\ line \in Replies /\ line.kind = "ack" /\ line.n = c.queue[i].n
  /\ Tried(c, r, line)

LEMMA MaybeAckTyped ==
  ASSUME NEW c \in CommsState
  PROVE  LET r == MaybeAck(c)
         IN  /\ r \in CommsState /\ SameBase(c, r) /\ SameSaid(c, r)
             /\ r.orders = c.orders /\ r.asked = c.asked /\ r.inbox = c.inbox
             /\ \/ ~Listening(c) /\ SameAir(c, r) /\ r.queue = <<>>
                \/ /\ r = c /\ Listening(c)
                   /\ \A j \in 1 .. Len(c.queue) : c.queue[j].wait # 0
                \/ /\ Listening(c)
                   /\ \E i \in 1 .. Len(c.queue), line \in Replies : Acked(c, r, i, line)
<1> DEFINE queue == c.queue
           due == {i \in DOMAIN queue : queue[i].wait = 0}
           r == MaybeAck(c)
<1>0. queue \in Seq(Entries) /\ DOMAIN queue = 1 .. Len(queue) /\ Len(queue) \in Nat
  BY CommsShape
<1>1. CASE ~Listening(c)
  <2>1. r = [c EXCEPT !.queue = <<>>]
    BY <1>1 DEF MaybeAck
  <2>2. <<>> \in Seq(Entries)
    OBVIOUS
  <2> HIDE DEF r, queue, due
  <2>3. /\ r \in CommsState /\ SameBase(c, r) /\ SameAir(c, r) /\ SameSaid(c, r)
        /\ r.queue = <<>> /\ r.orders = c.orders /\ r.asked = c.asked
        /\ r.inbox = c.inbox
    BY <2>1, <2>2, SetQueue
  <2> QED BY <1>1, <2>3 DEF r
<1>2. CASE Listening(c) /\ due = {}
  <2>1. r = c
    BY <1>2 DEF MaybeAck
  <2>2. \A j \in 1 .. Len(queue) : queue[j].wait # 0
    <3> HIDE DEF queue
    <3> QED BY <1>0, <1>2
  <2> HIDE DEF r
  <2> QED BY <1>2, <2>1, <2>2 DEF r, SameBase, SameSaid
<1>3. CASE Listening(c) /\ due # {}
  <2> DEFINE i == Min(due)
             entry == queue[i]
             rest == RemoveAt(queue, i)
             q == [c EXCEPT !.queue = rest]
             photo == PhotoFields(q, entry)
             line == [kind |-> "ack", n |-> entry.n,
                      photo |-> PhotoFields(c, entry), gap |-> c.quiet]
  <2>1. FirstDue(queue, i)
    <3> HIDE DEF queue
    <3>1. due \in SUBSET Nat
      BY <1>0
    <3>2. i \in due /\ \A k \in due : i <= k
      <4> HIDE DEF due
      <4> QED BY <1>3, <3>1, MinIsLeast DEF i
    <3> QED BY <1>0, <3>2 DEF FirstDue
  <2>2. r = Transmit(q, line)
    BY <1>3, Zenon DEF MaybeAck
  <2> HIDE DEF queue, due, r, i
  <2>3. i \in 1 .. Len(queue)
    BY <2>1 DEF FirstDue
  <2>4. rest \in Seq(Entries)
    BY <1>0, <2>3, RemoveOne
  <2>5. entry \in Entries /\ entry.n \in Numbers
    <3>1. entry \in Entries
      BY <1>0, <2>3
    <3> HIDE DEF entry
    <3> QED BY <3>1, EntryShape
  <2> HIDE DEF entry, rest
  <2>6. line \in Replies
    <3>1. PhotoFields(c, entry) \in Numbers \cup {None}
      <4>1. c.photo \in SomeFrame
        BY CommsShape
      <4>2. CASE c.photo = None
        BY <4>2 DEF PhotoFields
      <4>3. CASE c.photo \in Frames
        <5>1. c.photo.n \in Numbers
          BY <4>3 DEF Frames
        <5> QED BY <5>1 DEF PhotoFields
      <4> QED BY <4>1, <4>2, <4>3 DEF SomeFrame
    <3>2. c.quiet \in Ages
      BY CommsShape
    <3> QED BY <2>5, <3>1, <3>2 DEF Replies
  <2>7. line.kind = "ack" /\ line.n = entry.n
    OBVIOUS
  <2> HIDE DEF line
  <2>8. /\ q \in CommsState /\ SameBase(c, q) /\ SameAir(c, q) /\ SameSaid(c, q)
        /\ q.queue = rest /\ q.orders = c.orders /\ q.asked = c.asked
        /\ q.inbox = c.inbox
    BY <2>4, SetQueue
  <2> HIDE DEF q
  <2>9. OnlyAir(q, r) /\ Tried(q, r, line)
    BY <2>2, <2>6, <2>8, TransmitTries
  <2>10. Tried(c, r, line)
    BY <2>8, <2>9 DEF Tried, SameAir, SameBase
  <2>11. Acked(c, r, i, line)
    BY <2>1, <2>6, <2>7, <2>8, <2>9, <2>10
       DEF Acked, OnlyAir, SameUplink, entry, rest, queue
  <2>12. /\ r \in CommsState /\ SameBase(c, r) /\ SameSaid(c, r)
         /\ r.orders = c.orders /\ r.asked = c.asked /\ r.inbox = c.inbox
    BY <2>8, <2>9 DEF OnlyAir, SameBase, SameSaid, SameUplink
  <2> QED BY <1>3, <2>3, <2>6, <2>11, <2>12 DEF r, queue
<1> QED BY <1>1, <1>2, <1>3

\* _maybe_beacon
LEMMA MaybeBeaconTyped ==
  ASSUME NEW c \in CommsState
  PROVE  LET r == MaybeBeacon(c)
         IN  /\ OnlyAir(c, r)
             /\ \/ r = c
                \/ BeaconDue(c) /\ Tried(c, r, Line(c, "beacon"))
<1>1. CASE BeaconDue(c)
  <2>1. MaybeBeacon(c) = Transmit(c, Line(c, "beacon"))
    BY <1>1 DEF MaybeBeacon
  <2>2. Line(c, "beacon") \in Replies
    BY LineTyped
  <2> QED BY <1>1, <2>1, <2>2, TransmitTries
<1>2. CASE ~BeaconDue(c)
  <2>1. MaybeBeacon(c) = c
    BY <1>2 DEF MaybeBeacon
  <2>2. OnlyAir(c, c)
    BY DEF OnlyAir, SameBase, SameSaid, SameUplink
  <2> QED BY <2>1, <2>2
<1> QED BY <1>1, <1>2

(***************************************************************************)
(* What the broker retains.                                                *)
(***************************************************************************)

\* A method that changes the status at most.
OnlySaid(c, r) ==
  r \in CommsState /\ SameBase(c, r) /\ SameAir(c, r) /\ SameUplink(c, r)

LEMMA SnapshotTyped ==
  ASSUME NEW c \in CommsState
  PROVE  Snapshot(c) \in Booleans
<1>1. /\ c.present \in BOOLEAN /\ BeaconEnabled(c) \in BOOLEAN
      /\ Listening(c) \in BOOLEAN
  BY CommsShape DEF BeaconEnabled, Listening
<1> QED BY <1>1 DEF Snapshot, Booleans

LEMMA SetPublished ==
  ASSUME NEW c \in CommsState, NEW status \in Booleans
  PROVE  LET r == [c EXCEPT !.published = status]
         IN  OnlySaid(c, r) /\ r.published = status /\ r.said = c.said
<1> DEFINE r == [c EXCEPT !.published = status]
<1>1. r \in CommsState
  <2>1. status \in SomeStatus
    BY DEF SomeStatus
  <2> QED BY <2>1 DEF CommsState
<1>2. SameBase(c, r) /\ SameAir(c, r) /\ SameUplink(c, r)
  BY Zenon DEF CommsState, SameBase, SameAir, SameUplink
<1>3. r.published = status /\ r.said = c.said
  BY Zenon DEF CommsState
<1> QED BY <1>1, <1>2, <1>3 DEF OnlySaid

LEMMA SetSaid ==
  ASSUME NEW c \in CommsState, NEW status \in Booleans
  PROVE  LET r == [c EXCEPT !.said = status]
         IN  OnlySaid(c, r) /\ r.published = c.published /\ r.said = status
<1> DEFINE r == [c EXCEPT !.said = status]
<1>1. r \in CommsState
  <2>1. status \in SomeStatus
    BY DEF SomeStatus
  <2> QED BY <2>1 DEF CommsState
<1>2. SameBase(c, r) /\ SameAir(c, r) /\ SameUplink(c, r)
  BY Zenon DEF CommsState, SameBase, SameAir, SameUplink
<1>3. r.published = c.published /\ r.said = status
  BY Zenon DEF CommsState
<1> QED BY <1>1, <1>2, <1>3 DEF OnlySaid

LEMMA OnlySaidAgain ==
  ASSUME NEW c, NEW q, NEW r, OnlySaid(c, q), OnlySaid(q, r)
  PROVE  OnlySaid(c, r)
BY DEF OnlySaid, SameBase, SameAir, SameUplink

LEMMA SetStatus ==
  ASSUME NEW c \in CommsState, NEW status \in Booleans
  PROVE  LET r == [c EXCEPT !.published = status, !.said = status]
         IN  OnlySaid(c, r) /\ r.published = status /\ r.said = status
<1> DEFINE q == [c EXCEPT !.published = status]
           r == [q EXCEPT !.said = status]
<1>1. OnlySaid(c, q) /\ q \in CommsState /\ q.published = status
  BY SetPublished DEF OnlySaid
<1>2. [c EXCEPT !.published = status, !.said = status] = r
  OBVIOUS
<1> HIDE DEF q
<1>3. OnlySaid(q, r) /\ r.published = q.published /\ r.said = status
  BY <1>1, SetSaid
<1> HIDE DEF r
<1>4. OnlySaid(c, r) /\ r.published = status /\ r.said = status
  BY <1>1, <1>3, OnlySaidAgain
<1> QED BY <1>2, <1>4

\* The status is what was published last, and it is true but perhaps for the
\* node.
Stated(c) == c.said = Snapshot(c) /\ c.published = c.said

LEMMA SnapshotSame ==
  ASSUME NEW c, NEW r, SameBase(c, r), r.present = c.present
  PROVE  Snapshot(r) = Snapshot(c)
BY DEF SameBase, Snapshot, BeaconEnabled, Listening

LEMMA ForceStates ==
  ASSUME NEW c \in CommsState
  PROVE  OnlySaid(c, ForceStatus(c)) /\ Stated(ForceStatus(c))
<1> DEFINE status == Snapshot(c)
           r == [c EXCEPT !.published = status, !.said = status]
<1>1. ForceStatus(c) = r
  BY DEF ForceStatus
<1>2. status \in Booleans
  BY SnapshotTyped
<1> HIDE DEF status
<1>3. OnlySaid(c, r) /\ r.published = status /\ r.said = status
  BY <1>2, SetStatus
<1> HIDE DEF r
<1>4. Snapshot(r) = status
  BY <1>3, SnapshotSame DEF OnlySaid, SameAir, status
<1> QED BY <1>1, <1>3, <1>4 DEF Stated

LEMMA PublishStates ==
  ASSUME NEW c \in CommsState, c.published = c.said
  PROVE  OnlySaid(c, PublishStatus(c)) /\ Stated(PublishStatus(c))
<1>1. CASE c.published = Snapshot(c)
  BY <1>1 DEF PublishStatus, OnlySaid, Stated, SameBase, SameAir, SameUplink
<1>2. CASE c.published # Snapshot(c)
  BY <1>2, ForceStates DEF PublishStatus
<1> QED BY <1>1, <1>2

(***************************************************************************)
(* What a wake takes in.                                                   *)
(***************************************************************************)

\* A line that is owed a reply.
Deserves(h) == h.line.ours /\ (h.line.bang \/ h.line.verb \in Table)

\* What one line does: nothing, or its reply joins the queue.
Relayed(c, h, r) ==
  \/ r.queue = c.queue /\ r.asked = c.asked /\ ~Deserves(h)
  \/ \E entry \in Entries :
       /\ Joined(c.queue, entry, r.queue)
       /\ Deserves(h) /\ entry.n = h.n /\ (entry.query => h.line.verb \in Queries)

\* A method that takes lines in at most.
OnlyUplink(c, r) ==
  r \in CommsState /\ SameBase(c, r) /\ SameAir(c, r) /\ SameSaid(c, r)

LEMMA OnlyUplinkAgain ==
  ASSUME NEW c, NEW q, NEW r, OnlyUplink(c, q), OnlyUplink(q, r)
  PROVE  OnlyUplink(c, r)
BY DEF OnlyUplink, SameBase, SameAir, SameSaid

\* A state of the radio link that is scheduled in.
LEMMA ScheduleTyped ==
  ASSUME NEW c \in CommsState, Patient(c.queue),
         NEW entry \in Entries, entry.wakes = 0
  PROVE  LET r == Schedule(c, entry)
         IN  /\ OnlyUplink(c, r) /\ Patient(r.queue)
             /\ Joined(c.queue, entry, r.queue)
             /\ r.orders = c.orders /\ r.asked = c.asked /\ r.inbox = c.inbox
<1> DEFINE r == Schedule(c, entry)
           queue == r.queue
           q == [c EXCEPT !.queue = queue]
<1>1. r = q /\ Joined(c.queue, entry, queue) /\ Patient(queue)
  BY ScheduleJoins
<1>2. queue \in Seq(Entries)
  BY <1>1 DEF Patient
<1> HIDE DEF queue
<1>3. /\ q \in CommsState /\ SameBase(c, q) /\ SameAir(c, q) /\ SameSaid(c, q)
      /\ q.queue = queue /\ q.orders = c.orders /\ q.asked = c.asked
      /\ q.inbox = c.inbox
  BY <1>2, SetQueue
<1> HIDE DEF q
<1>4. OnlyUplink(c, q)
  BY <1>3 DEF OnlyUplink
<1> HIDE DEF r
<1> QED BY <1>1, <1>3, <1>4 DEF r

\* One line has been relayed.
LEMMA RelayKeeps ==
  ASSUME NEW c \in CommsState, Patient(c.queue),
         NEW h \in Heard
  PROVE  LET r == Relay(c, h)
         IN  /\ OnlyUplink(c, r) /\ Patient(r.queue) /\ Relayed(c, h, r)
             /\ r.inbox = c.inbox /\ Len(r.asked) <= Len(c.asked) + 1
<1> DEFINE verb == h.line.verb
           r == Relay(c, h)
<1>0. h.n \in Numbers /\ 0 \in 0 .. AckDelay /\ AckDelay \in 0 .. AckDelay
  BY Numbered DEF Heard
<1>1. c.asked \in Seq(Numbers) /\ Len(c.asked) \in Nat /\ c.taken \in Numbers
  BY CommsShape
<1>2. CASE ~Deserves(h)
  <2>1. r = c
    BY <1>2 DEF Relay, Translates, Deserves
  <2>2. OnlyUplink(c, c)
    BY DEF OnlyUplink, SameBase, SameAir, SameSaid
  <2> HIDE DEF r
  <2>3. /\ OnlyUplink(c, r) /\ Patient(r.queue) /\ Relayed(c, h, r)
        /\ r.inbox = c.inbox /\ Len(r.asked) <= Len(c.asked) + 1
    BY <1>1, <1>2, <2>1, <2>2 DEF Relayed
  <2> QED BY <2>3 DEF r
<1>3. CASE Deserves(h) /\ verb \in Table /\ verb \in Queries
  <2> DEFINE e == [n |-> h.n, wait |-> 0, query |-> TRUE, since |-> None,
                   wakes |-> 0]
  <2>1. r = Schedule(c, e)
    BY <1>3 DEF Relay, Translates, RelayCompact, Deserves
  <2>2. e \in Entries /\ e.n = h.n /\ e.wakes = 0
    BY <1>0 DEF Entries
  <2> HIDE DEF e, r
  <2>3. /\ OnlyUplink(c, r) /\ Patient(r.queue) /\ Joined(c.queue, e, r.queue)
        /\ r.orders = c.orders /\ r.asked = c.asked /\ r.inbox = c.inbox
    BY <2>1, <2>2, ScheduleTyped
  <2>4. /\ OnlyUplink(c, r) /\ Patient(r.queue) /\ Relayed(c, h, r)
        /\ r.inbox = c.inbox /\ Len(r.asked) <= Len(c.asked) + 1
    BY <1>1, <1>3, <2>2, <2>3 DEF Relayed
  <2> QED BY <2>4 DEF r
<1>4. CASE Deserves(h) /\ verb \in Table /\ verb \notin Queries
  <2> DEFINE orders == IF verb \in {"on", "off"} THEN Append(c.orders, verb)
                       ELSE c.orders
             asked == IF verb = "photo" THEN Append(c.asked, h.n) ELSE c.asked
             since == IF verb = "photo" THEN c.taken ELSE None
             e == [n |-> h.n, wait |-> AckDelay, query |-> FALSE, since |-> since,
                   wakes |-> 0]
             p == [c EXCEPT !.orders = orders]
             q == [p EXCEPT !.asked = asked]
  <2>1. r = Schedule(q, e)
    <3>1. q = [c EXCEPT !.orders = IF verb \in {"on", "off"} THEN Append(@, verb)
                                   ELSE @,
                        !.asked  = IF verb = "photo" THEN Append(@, h.n) ELSE @]
      OBVIOUS
    <3>2. r = RelayCompact(c, h.n, verb)
      BY <1>4 DEF Relay, Translates, Deserves
    <3> HIDE DEF q, r
    <3> QED BY <1>4, <3>1, <3>2 DEF RelayCompact
  <2>2. e \in Entries /\ e.n = h.n /\ e.wakes = 0 /\ ~e.query
    <3>1. since \in Numbers \cup {None}
      BY <1>1
    <3> HIDE DEF since
    <3> QED BY <1>0, <3>1 DEF Entries
  <2>3. orders \in Seq({"on", "off"})
    <3>1. c.orders \in Seq({"on", "off"})
      BY CommsShape
    <3>2. CASE verb \in {"on", "off"}
      <4> HIDE DEF verb
      <4>1. orders = Append(c.orders, verb)
        BY <3>2
      <4> QED BY <3>1, <3>2, <4>1
    <3>3. CASE verb \notin {"on", "off"}
      BY <3>1, <3>3
    <3> QED BY <3>2, <3>3
  <2>4. asked \in Seq(Numbers) /\ Len(asked) <= Len(c.asked) + 1
    BY <1>0, <1>1
  <2> HIDE DEF orders, asked, e, r
  <2>5. OnlyUplink(c, p) /\ p.queue = c.queue /\ p.inbox = c.inbox
    <3>1. /\ p \in CommsState /\ SameBase(c, p) /\ SameAir(c, p) /\ SameSaid(c, p)
          /\ p.queue = c.queue /\ p.inbox = c.inbox
      BY <2>3, SetOrders
    <3> QED BY <3>1 DEF OnlyUplink
  <2> HIDE DEF p
  <2>6. OnlyUplink(p, q) /\ q.queue = p.queue /\ q.inbox = p.inbox /\ q.asked = asked
    <3>0. p \in CommsState
      BY <2>5 DEF OnlyUplink
    <3>1. /\ q \in CommsState /\ SameBase(p, q) /\ SameAir(p, q) /\ SameSaid(p, q)
          /\ q.queue = p.queue /\ q.inbox = p.inbox /\ q.asked = asked
      BY <2>4, <3>0, SetAsked
    <3> QED BY <3>1 DEF OnlyUplink
  <2> HIDE DEF q
  <2>7. q \in CommsState /\ Patient(q.queue)
    BY <2>5, <2>6 DEF OnlyUplink
  <2>8. /\ OnlyUplink(q, r) /\ Patient(r.queue) /\ Joined(q.queue, e, r.queue)
        /\ r.asked = q.asked /\ r.inbox = q.inbox
    BY <2>1, <2>2, <2>7, ScheduleTyped
  <2>9. OnlyUplink(c, r)
    BY <2>5, <2>6, <2>8, OnlyUplinkAgain
  <2>10. /\ OnlyUplink(c, r) /\ Patient(r.queue) /\ Relayed(c, h, r)
         /\ r.inbox = c.inbox /\ Len(r.asked) <= Len(c.asked) + 1
    BY <1>4, <2>2, <2>4, <2>5, <2>6, <2>8, <2>9 DEF Relayed
  <2> QED BY <2>10 DEF r
<1>5. CASE Deserves(h) /\ verb \notin Table
  <2> DEFINE e == [n |-> h.n, wait |-> AckDelay, query |-> FALSE, since |-> None,
                   wakes |-> 0]
  <2>1. r = Schedule(c, e)
    BY <1>5 DEF Relay, Translates, Deserves
  <2>2. e \in Entries /\ e.n = h.n /\ e.wakes = 0 /\ ~e.query
    BY <1>0 DEF Entries
  <2> HIDE DEF e, r
  <2>3. /\ OnlyUplink(c, r) /\ Patient(r.queue) /\ Joined(c.queue, e, r.queue)
        /\ r.orders = c.orders /\ r.asked = c.asked /\ r.inbox = c.inbox
    BY <2>1, <2>2, ScheduleTyped
  <2>4. /\ OnlyUplink(c, r) /\ Patient(r.queue) /\ Relayed(c, h, r)
        /\ r.inbox = c.inbox /\ Len(r.asked) <= Len(c.asked) + 1
    BY <1>1, <1>5, <2>2, <2>3 DEF Relayed
  <2> QED BY <2>4 DEF r
<1> QED BY <1>2, <1>3, <1>4, <1>5

\* What CollectUplink computes for the first n lines.
RelayedUpTo(c, n, f) ==
  f = [i \in 0 .. n |->
         IF i = 0 THEN [c EXCEPT !.inbox = <<>>]
         ELSE Relay(f[i - 1], c.inbox[i])]

LEMMA RelayedExists ==
  ASSUME NEW c, NEW n \in Nat
  PROVE  \E f : RelayedUpTo(c, n, f)
<1> DEFINE Missing == {k \in Nat : ~ \E f : RelayedUpTo(c, k, f)}
<1> SUFFICES ASSUME n \in Missing
             PROVE  FALSE
  OBVIOUS
<1>1. PICK m \in Missing : \A k \in Missing : m <= k
  <2> HIDE DEF Missing
  <2>1. Missing \in SUBSET Nat
    BY DEF Missing
  <2> QED BY <2>1, Least
<1>2. CASE m = 0
  <2> DEFINE f == [i \in 0 .. 0 |-> [c EXCEPT !.inbox = <<>>]]
  <2>1. RelayedUpTo(c, 0, f)
    BY DEF RelayedUpTo
  <2> QED BY <1>1, <1>2, <2>1
<1>3. CASE m # 0
  <2>1. m \in Nat /\ m - 1 \in Nat /\ m - 1 \notin Missing
    BY <1>1, <1>3
  <2>2. PICK f : RelayedUpTo(c, m - 1, f)
    BY <2>1
  <2> DEFINE g == [i \in 0 .. m |-> IF i < m THEN f[i]
                                    ELSE Relay(f[m - 1], c.inbox[m])]
  <2>3. \A i \in 0 .. m - 1 : g[i] = f[i]
    BY <2>1
  <2>4. g[m] = Relay(f[m - 1], c.inbox[m])
    BY <2>1
  <2>5. \A i \in 0 .. m :
          g[i] = IF i = 0 THEN [c EXCEPT !.inbox = <<>>]
                 ELSE Relay(g[i - 1], c.inbox[i])
    <3> TAKE i \in 0 .. m
    <3> HIDE DEF g
    <3>1. CASE i = m
      <4>1. g[m - 1] = f[m - 1]
        BY <2>1, <2>3
      <4> QED BY <1>3, <2>4, <3>1, <4>1
    <3>2. CASE i # m /\ i # 0
      <4>1. i \in 0 .. m - 1 /\ i - 1 \in 0 .. m - 1
        BY <2>1, <3>2
      <4>2. f[i] = Relay(f[i - 1], c.inbox[i])
        BY <2>2, <3>2, <4>1 DEF RelayedUpTo
      <4>3. g[i] = Relay(g[i - 1], c.inbox[i])
        BY <2>3, <4>1, <4>2
      <4> QED BY <3>2, <4>3
    <3>3. CASE i = 0
      <4>1. f[0] = [c EXCEPT !.inbox = <<>>]
        BY <2>1, <2>2 DEF RelayedUpTo
      <4>2. g[i] = [c EXCEPT !.inbox = <<>>]
        BY <2>1, <2>3, <3>3, <4>1
      <4> QED BY <3>3, <4>2
    <3> QED BY <3>1, <3>2, <3>3
  <2>6. RelayedUpTo(c, m, g)
    <3>1. g = [i \in 0 .. m |-> g[i]]
      OBVIOUS
    <3> HIDE DEF g
    <3> QED BY <2>5, <3>1 DEF RelayedUpTo
  <2> QED BY <1>1, <2>6
<1> QED BY <1>2, <1>3

LEMMA CollectComputed ==
  ASSUME NEW c, Len(c.inbox) \in Nat, Listening(c)
  PROVE  \E f : RelayedUpTo(c, Len(c.inbox), f) /\ CollectUplink(c) = f[Len(c.inbox)]
<1> DEFINE f == CHOOSE f : RelayedUpTo(c, Len(c.inbox), f)
<1>1. RelayedUpTo(c, Len(c.inbox), f)
  BY RelayedExists
<1>2. CollectUplink(c) = f[Len(c.inbox)]
  BY Zenon DEF CollectUplink, RelayedUpTo
<1> QED BY <1>1, <1>2

\* After n lines of the wake.
Uplinked(c, n, r) ==
  /\ OnlyUplink(c, r) /\ Patient(r.queue)
  /\ r.inbox = <<>> /\ Len(r.asked) <= Len(c.asked) + n

LEMMA ElementOf ==
  ASSUME NEW S, NEW s \in Seq(S), NEW i \in 1 .. Len(s)
  PROVE  s[i] \in S
OBVIOUS

LEMMA LengthsOf ==
  ASSUME NEW c \in CommsState
  PROVE  /\ c.inbox \in Seq(Heard) /\ Len(c.inbox) \in Nat
         /\ Len(c.asked) \in Nat
<1>1. c.inbox \in Seq(Heard) /\ c.asked \in Seq(Numbers)
  BY CommsShape
<1>2. Len(c.inbox) \in Nat
  BY <1>1
<1>3. Len(c.asked) \in Nat
  BY <1>1
<1> QED BY <1>1, <1>2, <1>3

\* The first n lines of a wake have been relayed.
LEMMA RelayedKeeps ==
  ASSUME NEW c \in CommsState, Patient(c.queue),
         NEW f, RelayedUpTo(c, Len(c.inbox), f), NEW n \in 0 .. Len(c.inbox)
  PROVE  Uplinked(c, n, f[n])
<1> DEFINE Wrong == {k \in 0 .. Len(c.inbox) : ~Uplinked(c, k, f[k])}
<1> SUFFICES ASSUME n \in Wrong
             PROVE  FALSE
  OBVIOUS
<1>0. /\ c.inbox \in Seq(Heard) /\ Len(c.inbox) \in Nat
      /\ Len(c.asked) \in Nat
  BY LengthsOf
<1>1. PICK m \in Wrong : \A k \in Wrong : m <= k
  <2> HIDE DEF Wrong
  <2>1. Wrong \in SUBSET Nat
    BY <1>0 DEF Wrong
  <2> QED BY <2>1, Least
<1>2. m \in 0 .. Len(c.inbox) /\ m \in Nat
  BY <1>0
<1>3. CASE m = 0
  <2> DEFINE r == [c EXCEPT !.inbox = <<>>]
  <2>1. f[0] = r
    <3>1. 0 \in 0 .. Len(c.inbox)
      BY <1>0
    <3> HIDE DEF r
    <3>2. f[0] = [c EXCEPT !.inbox = <<>>]
      BY <3>1 DEF RelayedUpTo
    <3> QED BY <3>2 DEF r
  <2>2. <<>> \in Seq(Heard)
    OBVIOUS
  <2>3. /\ r \in CommsState /\ SameBase(c, r) /\ SameAir(c, r) /\ SameSaid(c, r)
        /\ r.queue = c.queue /\ r.asked = c.asked /\ r.inbox = <<>>
    BY <2>2, SetInbox
  <2> HIDE DEF r
  <2>4. Uplinked(c, 0, r)
    BY <1>0, <2>3 DEF Uplinked, OnlyUplink
  <2> QED BY <1>1, <1>3, <2>1, <2>4
<1>4. CASE m # 0
  <2>1. m - 1 \in 0 .. Len(c.inbox) /\ m - 1 \notin Wrong /\ m \in 1 .. Len(c.inbox)
    <3> HIDE DEF Wrong
    <3> QED BY <1>0, <1>1, <1>2, <1>4
  <2> DEFINE p == f[m - 1]
             r == f[m]
             h == c.inbox[m]
  <2>2. Uplinked(c, m - 1, p)
    BY <2>1
  <2>3. r = Relay(p, h)
    BY <1>2, <1>4 DEF RelayedUpTo
  <2>4. h \in Heard
    BY <1>0, <2>1, ElementOf
  <2> HIDE DEF p, r, h
  <2>5. p \in CommsState /\ Patient(p.queue)
    BY <2>2 DEF Uplinked, OnlyUplink
  <2>6. /\ OnlyUplink(p, r) /\ Patient(r.queue)
        /\ r.inbox = p.inbox /\ Len(r.asked) <= Len(p.asked) + 1
    BY <2>3, <2>4, <2>5, RelayKeeps
  <2>7. OnlyUplink(c, r)
    BY <2>2, <2>6, OnlyUplinkAgain DEF Uplinked
  <2>8. Len(r.asked) <= Len(c.asked) + m
    <3>1. r \in CommsState
      BY <2>6 DEF OnlyUplink
    <3>2. Len(r.asked) \in Nat /\ Len(p.asked) \in Nat
      <4>1. Len(r.asked) \in Nat
        BY <3>1, LengthsOf
      <4>2. Len(p.asked) \in Nat
        BY <2>5, LengthsOf
      <4> QED BY <4>1, <4>2
    <3> QED BY <1>0, <1>2, <2>2, <2>6, <3>2 DEF Uplinked
  <2>9. Uplinked(c, m, r)
    BY <2>2, <2>6, <2>7, <2>8 DEF Uplinked
  <2> QED BY <1>1, <2>9 DEF r
<1> QED BY <1>3, <1>4

\* _collect_uplink
LEMMA CollectKeeps ==
  ASSUME NEW c \in CommsState, Patient(c.queue)
  PROVE  LET r == CollectUplink(c)
         IN  /\ OnlyUplink(c, r) /\ Patient(r.queue)
             /\ Len(r.asked) + Len(r.inbox) <= Len(c.asked) + Len(c.inbox)
<1> DEFINE r == CollectUplink(c)
<1>0. Len(c.inbox) \in Nat /\ Len(c.asked) \in Nat
  BY LengthsOf
<1>1. CASE Listening(c)
  <2>1. PICK f : RelayedUpTo(c, Len(c.inbox), f) /\ r = f[Len(c.inbox)]
    BY <1>0, <1>1, CollectComputed
  <2>2. Uplinked(c, Len(c.inbox), r)
    <3>1. Len(c.inbox) \in 0 .. Len(c.inbox)
      BY <1>0
    <3> QED BY <2>1, <3>1, RelayedKeeps
  <2> HIDE DEF r
  <2>3. /\ OnlyUplink(c, r) /\ Patient(r.queue)
        /\ Len(r.asked) + Len(r.inbox) <= Len(c.asked) + Len(c.inbox)
    <3>1. Len(r.inbox) = 0
      BY <2>2 DEF Uplinked
    <3>2. Len(r.asked) \in Nat
      <4>1. r \in CommsState
        BY <2>2 DEF Uplinked, OnlyUplink
      <4> QED BY <4>1, LengthsOf
    <3>3. Len(r.asked) <= Len(c.asked) + Len(c.inbox)
      BY <2>2 DEF Uplinked
    <3>4. Len(r.asked) + Len(r.inbox) <= Len(c.asked) + Len(c.inbox)
      <4>1. ASSUME NEW a \in Nat, NEW b, b = 0, NEW x \in Nat, a <= x
            PROVE  a + b <= x
        BY <4>1
      <4> DEFINE x == Len(c.asked)
                 y == Len(c.inbox)
      <4>2. x + y \in Nat
        <5>1. x \in Nat /\ y \in Nat
          BY <1>0
        <5> HIDE DEF x, y
        <5> QED BY <5>1
      <4> HIDE DEF r
      <4> QED BY <3>1, <3>2, <3>3, <4>1, <4>2
    <3> QED BY <2>2, <3>4 DEF Uplinked
  <2> QED BY <2>3 DEF r
<1>2. CASE ~Listening(c)
  <2>1. r = c
    BY <1>2 DEF CollectUplink
  <2>2. OnlyUplink(c, c)
    BY DEF OnlyUplink, SameBase, SameAir, SameSaid
  <2> HIDE DEF r
  <2>3. /\ OnlyUplink(c, r) /\ Patient(r.queue)
        /\ Len(r.asked) + Len(r.inbox) <= Len(c.asked) + Len(c.inbox)
    BY <1>0, <2>1, <2>2
  <2> QED BY <2>3 DEF r
<1> QED BY <1>1, <1>2

(***************************************************************************)
(* What decides: the process, the envelope, the environment.               *)
(***************************************************************************)

\* A method that changes none of the air, the uplink and the status.
OnlyBase(c, r) ==
  r \in CommsState /\ SameAir(c, r) /\ SameSaid(c, r) /\ SameUplink(c, r)

LEMMA OnlyBaseAgain ==
  ASSUME NEW c, NEW q, NEW r, OnlyBase(c, q), OnlyBase(q, r)
  PROVE  OnlyBase(c, r)
BY DEF OnlyBase, SameAir, SameSaid, SameUplink

\* What the numbers of the environment bound.
SameCount(c, r) == r.boots = c.boots /\ r.taken = c.taken

\* What the status shows, but for the node.
SameEnvelope(c, r) ==
  r.downlink = c.downlink /\ r.requested = c.requested /\ r.bootSaid = c.bootSaid

LEMMA SetPhase ==
  ASSUME NEW c \in CommsState,
         NEW phase \in Phases
  PROVE  LET r == [c EXCEPT !.phase = phase]
         IN  /\ OnlyBase(c, r) /\ SameCount(c, r) /\ SameEnvelope(c, r)
             /\ r.phase = phase /\ r.state = c.state
<1> DEFINE r == [c EXCEPT !.phase = phase]
<1>1. r \in CommsState
  BY DEF CommsState
<1>2. SameAir(c, r) /\ SameSaid(c, r) /\ SameUplink(c, r)
  BY Zenon DEF CommsState, SameAir, SameSaid, SameUplink
<1>3. /\ SameCount(c, r) /\ SameEnvelope(c, r)
      /\ r.phase = phase /\ r.state = c.state
  BY Zenon DEF CommsState, SameCount, SameEnvelope
<1> QED BY <1>1, <1>2, <1>3 DEF OnlyBase

\* A name for what is left alone, which the provers match more easily.
SameLife(c, r) == r.phase = c.phase

LEMMA SetAbsorbed ==
  ASSUME NEW c \in CommsState, NEW profile \in SomeProfile,
         NEW state \in SomeState,
         NEW r, r = [c EXCEPT !.profile = profile, !.state = state,
                              !.absorbing = TRUE]
  PROVE  /\ OnlyBase(c, r) /\ SameCount(c, r) /\ SameEnvelope(c, r)
         /\ SameLife(c, r)
<1>1. r \in CommsState
  BY DEF CommsState
<1>2. SameAir(c, r) /\ SameSaid(c, r) /\ SameUplink(c, r)
  BY Zenon DEF CommsState, SameAir, SameSaid, SameUplink
<1>3. /\ SameCount(c, r) /\ SameEnvelope(c, r)
      /\ SameLife(c, r)
  BY Zenon DEF CommsState, SameCount, SameEnvelope, SameLife
<1> QED BY <1>1, <1>2, <1>3 DEF OnlyBase

LEMMA SetAbsorbing ==
  ASSUME NEW c \in CommsState, NEW absorbing \in BOOLEAN
  PROVE  LET r == [c EXCEPT !.absorbing = absorbing]
         IN  /\ OnlyBase(c, r) /\ SameCount(c, r) /\ SameEnvelope(c, r)
             /\ r.phase = c.phase /\ r.state = c.state
<1> DEFINE r == [c EXCEPT !.absorbing = absorbing]
<1>1. r \in CommsState
  BY DEF CommsState
<1>2. SameAir(c, r) /\ SameSaid(c, r) /\ SameUplink(c, r)
  BY Zenon DEF CommsState, SameAir, SameSaid, SameUplink
<1>3. /\ SameCount(c, r) /\ SameEnvelope(c, r)
      /\ r.phase = c.phase /\ r.state = c.state
  BY Zenon DEF CommsState, SameCount, SameEnvelope
<1> QED BY <1>1, <1>2, <1>3 DEF OnlyBase

LEMMA SetTold ==
  ASSUME NEW c \in CommsState, NEW told \in Statuses
  PROVE  LET r == [c EXCEPT !.told = told]
         IN  /\ OnlyBase(c, r) /\ SameCount(c, r) /\ SameEnvelope(c, r)
             /\ r.phase = c.phase /\ r.absorbing = c.absorbing
<1> DEFINE r == [c EXCEPT !.told = told]
<1>1. r \in CommsState
  BY DEF CommsState
<1>2. SameAir(c, r) /\ SameSaid(c, r) /\ SameUplink(c, r)
  BY Zenon DEF CommsState, SameAir, SameSaid, SameUplink
<1>3. /\ SameCount(c, r) /\ SameEnvelope(c, r)
      /\ r.phase = c.phase /\ r.absorbing = c.absorbing
  BY Zenon DEF CommsState, SameCount, SameEnvelope
<1> QED BY <1>1, <1>2, <1>3 DEF OnlyBase

LEMMA SetBoots ==
  ASSUME NEW c \in CommsState, NEW boots \in Boots
  PROVE  LET r == [c EXCEPT !.boots = boots]
         IN  /\ OnlyBase(c, r) /\ SameEnvelope(c, r)
             /\ r.boots = boots /\ r.taken = c.taken
             /\ r.phase = c.phase /\ r.absorbing = c.absorbing
<1> DEFINE r == [c EXCEPT !.boots = boots]
<1>1. r \in CommsState
  BY DEF CommsState
<1>2. SameAir(c, r) /\ SameSaid(c, r) /\ SameUplink(c, r)
  BY Zenon DEF CommsState, SameAir, SameSaid, SameUplink
<1>3. /\ SameEnvelope(c, r) /\ r.boots = boots /\ r.taken = c.taken
      /\ r.phase = c.phase /\ r.absorbing = c.absorbing
  BY Zenon DEF CommsState, SameEnvelope
<1> QED BY <1>1, <1>2, <1>3 DEF OnlyBase

LEMMA SetEnvelope ==
  ASSUME NEW c \in CommsState, NEW resolved \in SomeProfile,
         NEW downlink \in Downlinks,
         NEW requested \in BOOLEAN,
         NEW r, r = [c EXCEPT !.resolved = resolved, !.downlink = downlink,
                  !.requested = requested]
  PROVE  /\ OnlyBase(c, r) /\ SameCount(c, r)
         /\ SameLife(c, r)
<1>1. r \in CommsState
  BY DEF CommsState
<1>2. SameAir(c, r) /\ SameSaid(c, r) /\ SameUplink(c, r)
  BY Zenon DEF CommsState, SameAir, SameSaid, SameUplink
<1>3. /\ SameCount(c, r) /\ SameLife(c, r)
  BY Zenon DEF CommsState, SameCount, SameLife
<1> QED BY <1>1, <1>2, <1>3 DEF OnlyBase

LEMMA SetRequested ==
  ASSUME NEW c \in CommsState, NEW requested \in BOOLEAN
  PROVE  LET r == [c EXCEPT !.requested = requested]
         IN  /\ OnlyBase(c, r) /\ SameCount(c, r)
             /\ r.phase = c.phase /\ r.state = c.state
<1> DEFINE r == [c EXCEPT !.requested = requested]
<1>1. r \in CommsState
  BY DEF CommsState
<1>2. SameAir(c, r) /\ SameSaid(c, r) /\ SameUplink(c, r)
  BY Zenon DEF CommsState, SameAir, SameSaid, SameUplink
<1>3. /\ SameCount(c, r) /\ r.phase = c.phase /\ r.state = c.state
  BY Zenon DEF CommsState, SameCount
<1> QED BY <1>1, <1>2, <1>3 DEF OnlyBase

LEMMA SetBootSaid ==
  ASSUME NEW c \in CommsState, NEW bootSaid \in SomeBoot
  PROVE  LET r == [c EXCEPT !.bootSaid = bootSaid]
         IN  /\ OnlyBase(c, r) /\ SameCount(c, r)
             /\ r.downlink = c.downlink /\ r.requested = c.requested
             /\ r.bootSaid = bootSaid /\ r.phase = c.phase /\ r.state = c.state
<1> DEFINE r == [c EXCEPT !.bootSaid = bootSaid]
<1>1. r \in CommsState
  BY DEF CommsState
<1>2. SameAir(c, r) /\ SameSaid(c, r) /\ SameUplink(c, r)
  BY Zenon DEF CommsState, SameAir, SameSaid, SameUplink
<1>3. /\ SameCount(c, r) /\ r.downlink = c.downlink /\ r.requested = c.requested
      /\ r.bootSaid = bootSaid /\ r.phase = c.phase /\ r.state = c.state
  BY Zenon DEF CommsState, SameCount
<1> QED BY <1>1, <1>2, <1>3 DEF OnlyBase

LEMMA SetPhoto ==
  ASSUME NEW c \in CommsState, NEW photo \in SomeFrame
  PROVE  LET r == [c EXCEPT !.photo = photo]
         IN  /\ OnlyBase(c, r) /\ SameCount(c, r) /\ SameEnvelope(c, r)
             /\ r.phase = c.phase /\ r.state = c.state
<1> DEFINE r == [c EXCEPT !.photo = photo]
<1>1. r \in CommsState
  BY DEF CommsState
<1>2. SameAir(c, r) /\ SameSaid(c, r) /\ SameUplink(c, r)
  BY Zenon DEF CommsState, SameAir, SameSaid, SameUplink
<1>3. /\ SameCount(c, r) /\ SameEnvelope(c, r)
      /\ r.phase = c.phase /\ r.state = c.state
  BY Zenon DEF CommsState, SameCount, SameEnvelope
<1> QED BY <1>1, <1>2, <1>3 DEF OnlyBase

LEMMA SetNode ==
  ASSUME NEW c \in CommsState, NEW node \in BOOLEAN
  PROVE  LET r == [c EXCEPT !.node = node]
         IN  /\ OnlyBase(c, r) /\ SameCount(c, r) /\ SameEnvelope(c, r)
             /\ r.phase = c.phase /\ r.absorbing = c.absorbing
<1> DEFINE r == [c EXCEPT !.node = node]
<1>1. r \in CommsState
  BY DEF CommsState
<1>2. SameAir(c, r) /\ SameSaid(c, r) /\ SameUplink(c, r)
  BY Zenon DEF CommsState, SameAir, SameSaid, SameUplink
<1>3. /\ SameCount(c, r) /\ SameEnvelope(c, r)
      /\ r.phase = c.phase /\ r.absorbing = c.absorbing
  BY Zenon DEF CommsState, SameCount, SameEnvelope
<1> QED BY <1>1, <1>2, <1>3 DEF OnlyBase

\* The broker lost what it retained.
LEMMA SetLost ==
  ASSUME NEW c \in CommsState
  PROVE  LET r == [c EXCEPT !.said = None, !.frame = None]
         IN  /\ r \in CommsState /\ SameAir(c, r) /\ SameUplink(c, r)
             /\ SameCount(c, r) /\ SameEnvelope(c, r)
             /\ r.phase = c.phase /\ r.state = c.state
<1> DEFINE r == [c EXCEPT !.said = None, !.frame = None]
<1>1. r \in CommsState
  <2>1. None \in SomeStatus /\ None \in SomeFrame
    BY DEF SomeStatus, SomeFrame
  <2> QED BY <2>1 DEF CommsState
<1>2. SameAir(c, r) /\ SameUplink(c, r)
  BY Zenon DEF CommsState, SameAir, SameUplink
<1>3. /\ SameCount(c, r) /\ SameEnvelope(c, r)
      /\ r.phase = c.phase /\ r.state = c.state
  BY Zenon DEF CommsState, SameCount, SameEnvelope
<1> QED BY <1>1, <1>2, <1>3

\* PAYLOAD answered.
Answered(c, r, asked, taken) ==
  /\ SameAir(c, r) /\ SameSaid(c, r) /\ SameEnvelope(c, r)
  /\ r.queue = c.queue /\ r.inbox = c.inbox /\ r.boots = c.boots
  /\ r.phase = c.phase /\ r.absorbing = c.absorbing
  /\ r.asked = asked /\ r.taken = taken

LEMMA SetAnswered ==
  ASSUME NEW c \in CommsState, NEW asked \in Seq(Numbers), NEW taken \in Numbers,
         NEW frame \in SomeFrame,
         NEW r, r = [c EXCEPT !.asked = asked, !.taken = taken, !.frame = frame]
  PROVE  r \in CommsState /\ Answered(c, r, asked, taken)
<1>1. r \in CommsState
  BY DEF CommsState
<1>2. Answered(c, r, asked, taken)
  BY Zenon DEF CommsState, Answered, SameAir, SameSaid, SameEnvelope
<1> QED BY <1>1, <1>2

\* Time has passed over the state.
Aged(c, r, age, quiet, queue) ==
  /\ SameBase(c, r) /\ SameSaid(c, r)
  /\ r.present = c.present /\ r.sent = c.sent /\ r.asked = c.asked
  /\ r.inbox = c.inbox
  /\ r.age = age /\ r.quiet = quiet /\ r.queue = queue

LEMMA SetAges ==
  ASSUME NEW c \in CommsState, NEW age \in SomeAge,
         NEW quiet \in Ages, NEW queue \in Seq(Entries),
         NEW r, r = [c EXCEPT !.age = age, !.quiet = quiet, !.queue = queue]
  PROVE  r \in CommsState /\ Aged(c, r, age, quiet, queue)
<1>1. r \in CommsState
  BY DEF CommsState
<1>2. Aged(c, r, age, quiet, queue)
  BY Zenon DEF CommsState, Aged, SameBase, SameSaid
<1> QED BY <1>1, <1>2

LEMMA NoneFits ==
  /\ None \in SomeProfile /\ None \in SomeState /\ None \in SomeBoot
  /\ None \in SomeFrame /\ None \in SomeAge /\ None \in SomeStatus
  /\ "down" \in Phases
BY DEF SomeProfile, SomeState, SomeBoot, SomeFrame, SomeAge, SomeStatus, Phases

\* A process that has not been started.
LEMMA FreshTyped ==
  ASSUME NEW c \in CommsState
  PROVE  LET r == Fresh(c)
         IN  /\ r \in CommsState /\ SameCount(c, r)
             /\ r.phase = "down" /\ ~r.absorbing /\ r.queue = <<>> /\ r.inbox = <<>>
             /\ r.age = None /\ r.quiet = Longest
             /\ r.asked = c.asked /\ r.sent = c.sent
<1> DEFINE r == Fresh(c)
<1>1. Longest \in Ages /\ <<>> \in Seq(Entries)
      /\ <<>> \in Seq(Heard)
      /\ NoDownlink \in Downlinks
  BY Schedules DEF NoDownlink, Downlinks, Ages
<1>2. r \in CommsState
  BY <1>1, NoneFits DEF CommsState, Fresh
<1>3. /\ SameCount(c, r) /\ r.phase = "down" /\ ~r.absorbing /\ r.queue = <<>> /\ r.inbox = <<>>
      /\ r.age = None /\ r.quiet = Longest
      /\ r.asked = c.asked /\ r.sent = c.sent
  BY Zenon DEF CommsState, Fresh, SameCount
<1> QED BY <1>2, <1>3

(***************************************************************************)
(* What the radio keeps.                                                   *)
(***************************************************************************)

\* The budget knows of every line: it is as old as the silence.
Charged(c) == c.quiet = IF c.age = None THEN Longest ELSE c.age

\* AirtimeIsRationed, of a state.
Rationed(c) ==
  /\ Len(c.sent) <= 1
  /\ \A line \in Range(c.sent) :
       line.kind = "beacon" => line.gap >= Interval[c.state]

\* StatusIsTrue, of a process, and it is what the process published last.
Shows(c) ==
  /\ c.said # None /\ c.published = c.said
  /\ c.said.beacon = BeaconEnabled(c) /\ c.said.listening = Listening(c)
  /\ c.said.present = c.present \/ c.bootSaid # None

LEMMA ChargedSame ==
  ASSUME NEW c, NEW r, r.age = c.age, r.quiet = c.quiet, Charged(c)
  PROVE  Charged(r)
BY DEF Charged

LEMMA ShowsSame ==
  ASSUME NEW c, NEW r, SameSaid(c, r), SameEnvelope(c, r),
         r.present = c.present, Shows(c)
  PROVE  Shows(r)
BY DEF SameSaid, SameEnvelope, Shows, BeaconEnabled, Listening

LEMMA StatedShows ==
  ASSUME NEW c \in CommsState, Stated(c)
  PROVE  Shows(c)
<1>1. Snapshot(c) \in Booleans /\ None \notin Booleans
  BY SnapshotTyped, Numbered
<1>2. /\ Snapshot(c).present = c.present /\ Snapshot(c).beacon = BeaconEnabled(c)
      /\ Snapshot(c).listening = Listening(c)
  BY DEF Snapshot
<1> QED BY <1>1, <1>2 DEF Stated, Shows

LEMMA SilenceRationed ==
  ASSUME NEW c, c.sent = <<>>
  PROVE  Rationed(c)
<1>1. Len(<<>>) = 0 /\ Range(<<>>) = {}
  BY DEF Range
<1> QED BY <1>1 DEF Rationed

LEMMA LineRationed ==
  ASSUME NEW c, NEW line, c.sent = <<line>>,
         line.kind = "beacon" => line.gap >= Interval[c.state]
  PROVE  Rationed(c)
<1>1. Len(<<line>>) = 1 /\ Range(<<line>>) = {line}
  BY DEF Range
<1> QED BY <1>1 DEF Rationed

\* A line that is tried is charged, or has not left.
LEMMA TriedKeeps ==
  ASSUME NEW c, NEW r, NEW line, Tried(c, r, line), Charged(c), c.sent = <<>>
  PROVE  Charged(r) /\ (r.sent = <<>> \/ r.sent = <<line>>)
<1>1. CASE c.node
  <2>1. r.age = 0 /\ r.quiet = 0 /\ r.sent = Append(<<>>, line)
    BY <1>1 DEF Tried
  <2>2. None # 0
    BY Numbered
  <2>3. Append(<<>>, line) = <<line>>
    OBVIOUS
  <2> QED BY <2>1, <2>2, <2>3 DEF Charged
<1>2. CASE ~c.node
  BY <1>2 DEF Tried, Charged
<1> QED BY <1>1, <1>2

LEMMA KindOf ==
  ASSUME NEW c, NEW kind
  PROVE  Line(c, kind).kind = kind /\ Line(c, kind).gap = c.quiet
BY DEF Line

\* _going_down_beacon
LEMMA GoingDownKeeps ==
  ASSUME NEW c \in CommsState, Charged(c), c.sent = <<>>, Shows(c)
  PROVE  LET r == GoingDown(c)
         IN  /\ r \in CommsState /\ SameBase(c, r) /\ SameUplink(c, r)
             /\ Charged(r) /\ Rationed(r) /\ Shows(r)
<1> DEFINE r == GoingDown(c)
<1>1. CASE Listening(c)
  <2> DEFINE line == Line(c, "down")
             q == Transmit(c, line)
  <2>1. line \in Replies
    BY LineTyped
  <2>2. line.kind # "beacon"
    BY KindOf
  <2>3. r = PublishStatus(q)
    BY <1>1 DEF GoingDown
  <2> HIDE DEF line, r
  <2>4. OnlyAir(c, q) /\ Tried(c, q, line)
    BY <2>1, TransmitTries
  <2> HIDE DEF q
  <2>5. Charged(q) /\ (q.sent = <<>> \/ q.sent = <<line>>)
    BY <2>4, TriedKeeps
  <2>6. q \in CommsState /\ q.published = q.said
    BY <2>4 DEF OnlyAir, SameSaid, Shows
  <2>7. OnlySaid(q, r) /\ Stated(r)
    BY <2>3, <2>6, PublishStates
  <2>8. Shows(r)
    BY <2>7, StatedShows DEF OnlySaid
  <2>9. Charged(r)
    BY <2>5, <2>7, ChargedSame DEF OnlySaid, SameAir
  <2>10. Rationed(r)
    <3>1. r.sent = <<>> \/ r.sent = <<line>>
      BY <2>5, <2>7 DEF OnlySaid, SameAir
    <3> QED BY <2>2, <3>1, SilenceRationed, LineRationed
  <2>11. r \in CommsState /\ SameBase(c, r) /\ SameUplink(c, r)
    BY <2>4, <2>7 DEF OnlyAir, OnlySaid, SameBase, SameUplink
  <2> QED BY <2>8, <2>9, <2>10, <2>11 DEF r
<1>2. CASE ~Listening(c)
  <2>1. r = c
    BY <1>2 DEF GoingDown
  <2>2. Rationed(c) /\ SameBase(c, c) /\ SameUplink(c, c)
    BY SilenceRationed DEF SameBase, SameUplink
  <2> QED BY <2>1, <2>2
<1> QED BY <1>1, <1>2

\* on_state_change
LEMMA StateChangedKeeps ==
  ASSUME NEW c \in CommsState, Charged(c), c.sent = <<>>, Shows(c)
  PROVE  LET r == StateChanged(c)
         IN  /\ r \in CommsState /\ SameBase(c, r) /\ SameUplink(c, r)
             /\ Charged(r) /\ Rationed(r) /\ Shows(r)
<1> DEFINE r == StateChanged(c)
<1>1. CASE c.state = "CRITICAL"
  <2>1. r = GoingDown(c)
    BY <1>1 DEF StateChanged
  <2> QED BY <2>1, GoingDownKeeps
<1>2. CASE c.state = "DEPLOY"
  <2>1. r = ForceStatus(c)
    BY <1>2 DEF StateChanged
  <2> HIDE DEF r
  <2>2. OnlySaid(c, r) /\ Stated(r)
    BY <2>1, ForceStates
  <2>3. Shows(r)
    BY <2>2, StatedShows DEF OnlySaid
  <2>4. Charged(r) /\ Rationed(r)
    BY <2>2, ChargedSame, SilenceRationed DEF OnlySaid, SameAir
  <2> QED BY <2>2, <2>3, <2>4 DEF OnlySaid, r
<1>3. CASE c.state \notin {"CRITICAL", "DEPLOY"}
  <2>1. r = c
    BY <1>3 DEF StateChanged
  <2>2. Rationed(c) /\ SameBase(c, c) /\ SameUplink(c, c)
    BY SilenceRationed DEF SameBase, SameUplink
  <2> QED BY <2>1, <2>2
<1> QED BY <1>1, <1>2, <1>3

\* What an obc_status leaves of the radio link.
Follower(c, r) ==
  /\ r \in CommsState /\ SameUplink(c, r) /\ SameCount(c, r) /\ r.phase = c.phase
  /\ Charged(r) /\ Rationed(r) /\ Shows(r)

\* The base class absorbs an obc_status.
LEMMA AbsorbKeeps ==
  ASSUME NEW c \in CommsState, Charged(c), c.sent = <<>>, Shows(c)
  PROVE  Follower(c, Absorb(c))
<1> DEFINE profile == c.told.profile
           state == c.told.state
           q == [c EXCEPT !.profile = profile, !.state = state, !.absorbing = TRUE]
           r == Absorb(c)
<1>1. r = IF state = c.state THEN q ELSE StateChanged(q)
  BY DEF Absorb
<1>2. profile \in SomeProfile /\ state \in SomeState
  <2>1. c.told \in Statuses
    BY CommsShape
  <2> QED BY <2>1 DEF Profiles, SomeProfile, SomeState
<1>q. q = [c EXCEPT !.profile = profile, !.state = state, !.absorbing = TRUE]
  OBVIOUS
<1> HIDE DEF profile, state, q, r
<1>3. /\ OnlyBase(c, q) /\ SameCount(c, q) /\ SameEnvelope(c, q)
      /\ SameLife(c, q)
  BY <1>q, <1>2, SetAbsorbed
<1>4. /\ q \in CommsState /\ Charged(q) /\ q.sent = <<>> /\ Shows(q)
  <2>1. q \in CommsState /\ q.sent = <<>> /\ q.present = c.present /\ SameSaid(c, q)
    BY <1>3 DEF OnlyBase, SameAir
  <2>2. Charged(q)
    BY <1>3, ChargedSame DEF OnlyBase, SameAir
  <2>3. Shows(q)
    BY <1>3, <2>1, ShowsSame
  <2> QED BY <2>1, <2>2, <2>3
<1>5. CASE state = c.state
  <2>1. Rationed(q)
    BY <1>4, SilenceRationed
  <2> QED BY <1>1, <1>3, <1>4, <1>5, <2>1 DEF OnlyBase, SameLife, Follower, r
<1>6. CASE state # c.state
  <2>1. r = StateChanged(q)
    BY <1>1, <1>6
  <2>2. /\ r \in CommsState /\ SameBase(q, r) /\ SameUplink(q, r)
        /\ Charged(r) /\ Rationed(r) /\ Shows(r)
    BY <1>4, <2>1, StateChangedKeeps
  <2>3. SameUplink(c, r) /\ SameCount(c, r) /\ r.phase = c.phase
    BY <1>3, <2>2 DEF OnlyBase, SameLife, SameUplink, SameBase, SameCount
  <2> QED BY <2>2, <2>3 DEF Follower, r
<1> QED BY <1>5, <1>6

\* _reconcile_downlink
LEMMA ReconcileKeeps ==
  ASSUME NEW c \in CommsState, Shows(c)
  PROVE  LET r == ReconcileDownlink(c)
         IN  /\ r \in CommsState /\ SameAir(c, r) /\ SameUplink(c, r)
             /\ SameCount(c, r) /\ r.phase = c.phase /\ Shows(r)
<1> DEFINE downlink == IF c.profile \in DOMAIN DownlinkOf THEN DownlinkOf[c.profile]
                       ELSE NoDownlink
           profile == c.profile
           requested == downlink.beacon
           q == [c EXCEPT !.resolved = profile, !.downlink = downlink,
                          !.requested = requested]
           r == ReconcileDownlink(c)
<1>1. CASE c.profile = c.resolved
  <2>1. r = c
    BY <1>1 DEF ReconcileDownlink
  <2>2. SameAir(c, c) /\ SameUplink(c, c) /\ SameCount(c, c)
    BY DEF SameAir, SameUplink, SameCount
  <2> QED BY <2>1, <2>2
<1>2. CASE c.profile # c.resolved
  <2>1. r = PublishStatus(q)
    BY <1>2 DEF ReconcileDownlink
  <2>2. downlink \in Downlinks
    <3>1. NoDownlink \in Downlinks
      BY DEF NoDownlink, Downlinks
    <3> QED BY <3>1, CommsAssumption DEF Downlinks
  <2> HIDE DEF downlink
  <2>3. requested \in BOOLEAN /\ profile \in SomeProfile
    <3>1. profile \in SomeProfile
      BY DEF CommsState, SomeProfile
    <3> QED BY <2>2, <3>1 DEF Downlinks
  <2> HIDE DEF requested, profile, r
  <2>q. q = [c EXCEPT !.resolved = profile, !.downlink = downlink,
                      !.requested = requested]
    OBVIOUS
  <2> HIDE DEF q
  <2>4. OnlyBase(c, q) /\ SameCount(c, q) /\ SameLife(c, q)
    BY <2>q, <2>2, <2>3, SetEnvelope
  <2>5. q \in CommsState /\ q.published = q.said
    BY <2>4 DEF OnlyBase, SameSaid, Shows
  <2>6. OnlySaid(q, r) /\ Stated(r)
    BY <2>1, <2>5, PublishStates
  <2>7. Shows(r)
    BY <2>6, StatedShows DEF OnlySaid
  <2>8. /\ r \in CommsState /\ SameAir(c, r) /\ SameUplink(c, r)
        /\ SameCount(c, r) /\ r.phase = c.phase
    BY <2>4, <2>6 DEF OnlyBase, OnlySaid, SameAir, SameUplink, SameCount, SameBase, SameLife
  <2> QED BY <2>7, <2>8 DEF r
<1> QED BY <1>1, <1>2

\* _on_boot_report
LEMMA BootReportKeeps ==
  ASSUME NEW c \in CommsState, Charged(c), c.sent = <<>>, Shows(c)
  PROVE  Follower(c, BootReport(c))
<1> DEFINE bootSaid == c.boots
           q == [c EXCEPT !.bootSaid = bootSaid]
           line == Line(c, "boot")
           r == BootReport(c)
<1>1. CASE c.boots \in {0, c.bootSaid}
  <2>1. r = c
    BY <1>1 DEF BootReport
  <2>2. Rationed(c) /\ SameUplink(c, c) /\ SameCount(c, c)
    BY SilenceRationed DEF SameUplink, SameCount
  <2> QED BY <2>1, <2>2 DEF Follower
<1>2. CASE c.boots \notin {0, c.bootSaid}
  <2>1. r = IF Listening(c) THEN Transmit(q, line) ELSE q
    BY <1>2 DEF BootReport
  <2>2. bootSaid \in SomeBoot /\ bootSaid # None
    <3>1. bootSaid \in Boots
      BY CommsShape
    <3> QED BY <3>1, Numbered DEF SomeBoot, Boots
  <2>3. line \in Replies /\ line.kind # "beacon"
    BY LineTyped, KindOf
  <2> HIDE DEF bootSaid, line, r
  <2>4. /\ OnlyBase(c, q) /\ SameCount(c, q) /\ q.phase = c.phase
        /\ q.downlink = c.downlink /\ q.requested = c.requested
        /\ q.bootSaid = bootSaid
    BY <2>2, SetBootSaid
  <2> HIDE DEF q
  <2>5. q \in CommsState /\ Charged(q) /\ q.sent = <<>>
    <3>1. Charged(q)
      BY <2>4, ChargedSame DEF OnlyBase, SameAir
    <3> QED BY <2>4, <3>1 DEF OnlyBase, SameAir
  <2>6. Shows(q)
    BY <2>2, <2>4 DEF OnlyBase, SameSaid, Shows, BeaconEnabled, Listening
  <2>7. CASE Listening(c)
    <3>1. OnlyAir(q, r) /\ Tried(q, r, line)
      BY <2>1, <2>3, <2>5, <2>7, TransmitTries
    <3>2. Charged(r) /\ (r.sent = <<>> \/ r.sent = <<line>>)
      BY <2>5, <3>1, TriedKeeps
    <3>3. Rationed(r)
      BY <2>3, <3>2, SilenceRationed, LineRationed
    <3>4. Shows(r)
      BY <2>2, <2>4, <2>6, <3>1
         DEF OnlyAir, SameBase, SameSaid, Shows, BeaconEnabled, Listening
    <3>5. /\ r \in CommsState /\ SameUplink(c, r) /\ SameCount(c, r)
          /\ r.phase = c.phase
      BY <2>4, <3>1 DEF OnlyBase, OnlyAir, SameUplink, SameBase, SameCount
    <3> QED BY <3>2, <3>3, <3>4, <3>5 DEF Follower, r
  <2>8. CASE ~Listening(c)
    <3>1. r = q
      BY <2>1, <2>8
    <3>2. Rationed(q)
      BY <2>5, SilenceRationed
    <3> QED BY <2>4, <2>5, <2>6, <3>1, <3>2 DEF OnlyBase, Follower, r
  <2> QED BY <2>7, <2>8
<1> QED BY <1>1, <1>2

\* MeshChannel.open
LEMMA ProbeAirs ==
  ASSUME NEW c \in CommsState
  PROVE  LET r == ProbeMesh(c)
         IN  /\ OnlyAir(c, r) /\ r.quiet = c.quiet /\ r.age = c.age
             /\ r.sent = c.sent
<1> DEFINE o == OpenPort(c)
           present == o.port
           r == ProbeMesh(c)
<1>1. r = [o EXCEPT !.present = present]
  BY DEF ProbeMesh
<1>2. /\ OnlyAir(c, o) /\ present \in BOOLEAN /\ o.quiet = c.quiet
      /\ o.age = c.age /\ o.sent = c.sent
  BY OpenPortAirs
<1> HIDE DEF present, o, r
<1>3. o \in CommsState
  BY <1>2 DEF OnlyAir
<1>4. /\ OnlyAir(o, r) /\ r.quiet = o.quiet /\ r.age = o.age /\ r.sent = o.sent
  BY <1>1, <1>2, <1>3, SetPresent
<1>5. OnlyAir(c, r)
  BY <1>2, <1>4, OnlyAirAgain
<1> QED BY <1>2, <1>4, <1>5 DEF r

(***************************************************************************)
(* A wake.                                                                 *)
(***************************************************************************)

\* Every reply that is due has a place before it that is about to be free.
Ready(queue) ==
  /\ Patient(queue)
  /\ \A i \in 1 .. Len(queue) :
       queue[i].wait = 0 => i + queue[i].wakes < MaxPending

LEMMA ReadyWaits ==
  ASSUME NEW queue, Ready(queue)
  PROVE  Patient(Waited(queue))
<1> DEFINE new == Waited(queue)
<1>1. /\ queue \in Seq(Entries) /\ Len(queue) \in Nat /\ DOMAIN queue = 1 .. Len(queue)
      /\ MaxPending \in Nat
  BY CommsAssumption DEF Ready, Patient
<1>2. ASSUME NEW i \in 1 .. Len(queue)
      PROVE  /\ new[i] \in Entries /\ i + new[i].wakes <= MaxPending
             /\ new[i].wait > 0 => new[i].wakes = 0
  <2> DEFINE e == queue[i]
  <2>1. e \in Entries /\ e.wakes \in Nat /\ e.wait \in 0 .. AckDelay
    <3>1. e \in Entries
      BY <1>1, ElementOf
    <3> HIDE DEF e
    <3> QED BY <3>1, EntryShape
  <2>2. /\ i + e.wakes <= MaxPending /\ (e.wait > 0 => e.wakes = 0)
        /\ e.wait = 0 => i + e.wakes < MaxPending
    BY DEF Ready, Patient
  <2>3. new[i] = IF e.wait = 0 THEN [e EXCEPT !.wakes = @ + 1] ELSE e
    BY <1>1 DEF Waited
  <2> HIDE DEF new, e
  <2>4. CASE e.wait = 0
    <3> DEFINE wakes == e.wakes + 1
               w == [e EXCEPT !.wakes = wakes]
    <3>1. new[i] = w
      BY <2>3, <2>4
    <3>2. wakes \in Nat /\ i + wakes <= MaxPending
      BY <1>1, <2>1, <2>2, <2>4
    <3> HIDE DEF wakes
    <3>3. w \in Entries /\ w.wakes = wakes /\ w.wait = e.wait
      BY <2>1, <3>2 DEF Entries
    <3> HIDE DEF w
    <3> QED BY <2>4, <3>1, <3>2, <3>3
  <2>5. CASE e.wait # 0
    <3>1. new[i] = e
      BY <2>3, <2>5
    <3> QED BY <2>1, <2>2, <3>1
  <2> QED BY <2>4, <2>5
<1>3. new \in Seq(Entries) /\ Len(new) = Len(queue)
  <2>1. new = [i \in 1 .. Len(queue) |-> new[i]]
    BY <1>1 DEF Waited
  <2> HIDE DEF new
  <2>2. new \in [1 .. Len(queue) -> Entries]
    BY <1>2, <2>1
  <2> QED BY <1>1, <2>2
<1> HIDE DEF new
<1>4. Patient(new)
  BY <1>2, <1>3 DEF Patient
<1> QED BY <1>4 DEF new

\* The first that is due has gone, and every other moves up.
LEMMA FirstGone ==
  ASSUME NEW queue, Patient(queue), NEW i, FirstDue(queue, i)
  PROVE  Ready(RemoveAt(queue, i))
<1> DEFINE rest == RemoveAt(queue, i)
<1>1. /\ queue \in Seq(Entries) /\ Len(queue) \in Nat /\ i \in 1 .. Len(queue)
      /\ MaxPending \in Nat
  BY CommsAssumption DEF Patient, FirstDue
<1>2. /\ rest \in Seq(Entries) /\ Len(rest) = Len(queue) - 1
      /\ \A k \in 1 .. i - 1 : rest[k] = queue[k]
      /\ \A k \in i .. Len(rest) : rest[k] = queue[k + 1]
  BY <1>1, RemoveOne
<1> HIDE DEF rest
<1>3. ASSUME NEW k \in 1 .. Len(rest)
      PROVE  /\ k + rest[k].wakes <= MaxPending
             /\ rest[k].wait > 0 => rest[k].wakes = 0
             /\ rest[k].wait = 0 => k + rest[k].wakes < MaxPending
  <2>0. rest[k].wakes \in Nat
    <3>1. rest[k] \in Entries
      BY <1>2, ElementOf
    <3> QED BY <3>1, EntryShape
  <2>1. CASE k < i
    <3>1. k \in 1 .. i - 1 /\ k \in 1 .. Len(queue)
      BY <1>1, <1>2, <2>1
    <3>2. rest[k] = queue[k]
      BY <1>2, <3>1
    <3>3. queue[k].wait # 0
      BY <1>1, <2>1, <3>1 DEF FirstDue
    <3>4. k + queue[k].wakes <= MaxPending /\ (queue[k].wait > 0 => queue[k].wakes = 0)
      BY <3>1 DEF Patient
    <3> QED BY <3>2, <3>3, <3>4
  <2>2. CASE k >= i
    <3>1. k \in i .. Len(rest) /\ k + 1 \in 1 .. Len(queue)
      BY <1>1, <1>2, <2>2
    <3>2. rest[k] = queue[k + 1]
      BY <1>2, <3>1
    <3>3. /\ k + 1 + queue[k + 1].wakes <= MaxPending
          /\ queue[k + 1].wait > 0 => queue[k + 1].wakes = 0
      BY <3>1 DEF Patient
    <3>4. k \in Nat
      BY <1>2
    <3> QED BY <1>1, <2>0, <3>2, <3>3, <3>4
  <2> QED BY <1>1, <1>2, <2>1, <2>2
<1>4. Ready(rest)
  BY <1>2, <1>3 DEF Ready, Patient
<1> QED BY <1>4 DEF rest

\* tick, but for its last publication.
LEMMA TickKeeps ==
  ASSUME NEW c \in CommsState, Patient(c.queue), Charged(c), c.sent = <<>>, Shows(c)
  PROVE  LET r == Tick(c)
         IN  /\ r \in CommsState /\ SameBase(c, r)
             /\ Ready(r.queue) /\ Charged(r) /\ Rationed(r) /\ Shows(r)
             /\ Len(r.asked) + Len(r.inbox) <= Len(c.asked) + Len(c.inbox)
<1> DEFINE u == CollectUplink(c)
           a == MaybeAck(u)
           b == MaybeBeacon(a)
           r == PublishStatus(b)
<1>0. Tick(c) = r
  BY DEF Tick
<1>1. /\ OnlyUplink(c, u) /\ Patient(u.queue)
      /\ Len(u.asked) + Len(u.inbox) <= Len(c.asked) + Len(c.inbox)
  BY CollectKeeps
<1> HIDE DEF u
<1>2. u \in CommsState /\ Charged(u) /\ u.sent = <<>>
  BY <1>1, ChargedSame DEF OnlyUplink, SameAir
<1>3. /\ a \in CommsState /\ SameBase(u, a) /\ SameSaid(u, a)
      /\ a.asked = u.asked /\ a.inbox = u.inbox
      /\ \/ ~Listening(u) /\ SameAir(u, a) /\ a.queue = <<>>
         \/ /\ a = u /\ Listening(u)
            /\ \A j \in 1 .. Len(u.queue) : u.queue[j].wait # 0
         \/ /\ Listening(u)
            /\ \E i \in 1 .. Len(u.queue), line \in Replies : Acked(u, a, i, line)
  BY <1>2, MaybeAckTyped
<1> HIDE DEF a
<1>4. Ready(a.queue)
  <2>1. CASE a.queue = <<>>
    BY <2>1 DEF Ready, Patient
  <2>2. CASE a = u /\ \A j \in 1 .. Len(u.queue) : u.queue[j].wait # 0
    BY <1>1, <2>2 DEF Ready
  <2>3. ASSUME NEW i, NEW line, Acked(u, a, i, line)
        PROVE  Ready(a.queue)
    BY <1>1, <2>3, FirstGone DEF Acked
  <2> QED BY <1>3, <2>1, <2>2, <2>3
\* Either nothing has left, or the budget is full and the state is an ack's.
<1>5. /\ Charged(a)
      /\ \/ a.sent = <<>>
         \/ \E line : line.kind = "ack" /\ a.sent = <<line>> /\ a.age = 0
  <2>1. CASE SameAir(u, a)
    BY <1>2, <2>1, ChargedSame DEF SameAir
  <2>2. CASE a = u
    BY <1>2, <2>2
  <2>3. ASSUME NEW i, NEW line, Acked(u, a, i, line)
        PROVE  /\ Charged(a)
               /\ \/ a.sent = <<>>
                  \/ line.kind = "ack" /\ a.sent = <<line>> /\ a.age = 0
    <3>1. Tried(u, a, line) /\ line.kind = "ack"
      BY <2>3 DEF Acked
    <3>2. Charged(a) /\ (a.sent = <<>> \/ a.sent = <<line>>)
      BY <1>2, <3>1, TriedKeeps
    <3>3. a.sent = <<>> \/ a.age = 0
      BY <1>2, <3>1 DEF Tried
    <3> QED BY <3>1, <3>2, <3>3
  <2> QED BY <1>3, <2>1, <2>2, <2>3
<1>6. /\ OnlyAir(a, b)
      /\ \/ b = a
         \/ BeaconDue(a) /\ Tried(a, b, Line(a, "beacon"))
  BY <1>3, MaybeBeaconTyped
<1> HIDE DEF b
<1>7. Charged(b) /\ Rationed(b)
  <2>1. CASE b = a
    <3>1. ASSUME NEW line, line.kind = "ack", a.sent = <<line>>
          PROVE  Rationed(a)
      BY <3>1, LineRationed
    <3> QED BY <1>5, <2>1, <3>1, SilenceRationed
  <2>2. CASE BeaconDue(a) /\ Tried(a, b, Line(a, "beacon"))
    <3>1. a.state \in DOMAIN Interval /\ Interval[a.state] \in 1 .. Longest
      BY <2>2, Schedules DEF BeaconDue
    <3>2. a.sent = <<>>
      <4>1. a.age # 0
        <5>1. CASE a.age = None
          BY <5>1, Numbered
        <5>2. CASE a.age # None
          <6>1. a.age >= Interval[a.state]
            BY <2>2, <5>2 DEF BeaconDue
          <6> QED BY <3>1, <6>1
        <5> QED BY <5>1, <5>2
      <4> QED BY <1>5, <4>1
    <3> DEFINE line == Line(a, "beacon")
    <3>3. line.gap = a.quiet
      BY KindOf
    <3> HIDE DEF line
    <3>4. Charged(b) /\ (b.sent = <<>> \/ b.sent = <<line>>)
      BY <1>5, <2>2, <3>2, TriedKeeps DEF line
    <3>5. a.quiet >= Interval[a.state]
      <4>1. CASE a.age = None
        <5>1. a.quiet = Longest /\ Longest \in Nat
          BY <1>5, <4>1, Schedules DEF Charged
        <5> QED BY <3>1, <5>1
      <4>2. CASE a.age # None
        BY <1>5, <2>2, <4>2 DEF Charged, BeaconDue
      <4> QED BY <4>1, <4>2
    <3>6. b.state = a.state
      BY <1>6 DEF OnlyAir, SameBase
    <3>7. Rationed(b)
      BY <3>3, <3>4, <3>5, <3>6, SilenceRationed, LineRationed
    <3> QED BY <3>4, <3>7
  <2> QED BY <1>6, <2>1, <2>2
<1>8. b \in CommsState /\ b.published = b.said
  BY <1>1, <1>3, <1>6 DEF OnlyUplink, OnlyAir, SameSaid, Shows
<1>9. OnlySaid(b, r) /\ Stated(r)
  BY <1>8, PublishStates
<1> HIDE DEF r
<1>10. Shows(r)
  BY <1>9, StatedShows DEF OnlySaid
<1>11. Charged(r)
  BY <1>7, <1>9, ChargedSame DEF OnlySaid, SameAir
<1>12. Rationed(r)
  BY <1>7, <1>9 DEF OnlySaid, SameAir, SameBase, Rationed
<1>13. Ready(r.queue)
  BY <1>4, <1>6, <1>9 DEF OnlyAir, OnlySaid, SameUplink
<1>14. r \in CommsState /\ SameBase(c, r)
  BY <1>1, <1>3, <1>6, <1>9 DEF OnlyUplink, OnlyAir, OnlySaid, SameBase
<1>15. r.asked = u.asked /\ r.inbox = u.inbox
  BY <1>3, <1>6, <1>9 DEF OnlyAir, OnlySaid, SameUplink
<1>16. Len(r.asked) + Len(r.inbox) <= Len(c.asked) + Len(c.inbox)
  BY <1>1, <1>15
<1> QED BY <1>0, <1>10, <1>11, <1>12, <1>13, <1>14, <1>16

(***************************************************************************)
(* The inductive invariant.  Besides what the properties say: a due reply  *)
(* has seen no more wakes go by than there are places before it, which is  *)
(* why it is tried in time (Patient); the budget is as old as the silence, *)
(* which is why the beacon can trust it (Charged); an obc_status is only   *)
(* ever half handled by a process that runs, whose status is what it       *)
(* published last (Shows); and the numbers of the environment fit the      *)
(* bounds of the model (Counted).                                          *)
(***************************************************************************)
Counted(c, l) ==
  /\ c.boots + l["rare"] <= Limits.rare
  /\ c.taken + (Len(c.asked) + Len(c.inbox)) <= Limits.heard - l["heard"]

CommsInv ==
  /\ comms \in CommsState /\ left \in [Kinds -> Nat]
  /\ Patient(comms.queue) /\ Charged(comms) /\ Rationed(comms)
  /\ comms.phase # "down" => Shows(comms)
  /\ comms.absorbing => comms.phase # "down"
  /\ Counted(comms, left)

LEMMA LeftShape ==
  ASSUME NEW l \in [Kinds -> Nat]
  PROVE  l["heard"] \in Nat /\ l["says"] \in Nat /\ l["rare"] \in Nat
BY DEF Kinds

LEMMA CountShape ==
  ASSUME NEW c \in CommsState
  PROVE  /\ Len(c.asked) \in Nat /\ Len(c.inbox) \in Nat
         /\ c.boots \in Nat /\ c.taken \in Nat
<1>1. Len(c.asked) \in Nat /\ Len(c.inbox) \in Nat
  BY LengthsOf
<1>2. c.boots \in Nat /\ c.taken \in Nat
  BY CommsShape, Numbered DEF Boots
<1> QED BY <1>1, <1>2

LEMMA CountedSame ==
  ASSUME NEW c, NEW r, NEW l, SameCount(c, r), SameUplink(c, r), Counted(c, l)
  PROVE  Counted(r, l)
BY DEF SameCount, SameUplink, Counted

LEMMA Spends ==
  ASSUME left \in [Kinds -> Nat], NEW kind \in Kinds, Spend(kind)
  PROVE  /\ left' \in [Kinds -> Nat]
         /\ left[kind] \in Nat \ {0} /\ left'[kind] = left[kind] - 1
         /\ \A k \in Kinds \ {kind} : left'[k] = left[k]
BY DEF Spend

LEMMA CountedSpent ==
  ASSUME NEW c, Counted(c, left), c \in CommsState,
         left \in [Kinds -> Nat], NEW kind \in Kinds, Spend(kind)
  PROVE  left' \in [Kinds -> Nat] /\ Counted(c, left')
<1>1. /\ left' \in [Kinds -> Nat]
      /\ left[kind] \in Nat \ {0} /\ left'[kind] = left[kind] - 1
      /\ \A k \in Kinds \ {kind} : left'[k] = left[k]
  BY Spends
<1>2. left'["heard"] <= left["heard"] /\ left'["rare"] <= left["rare"]
  <2>1. CASE kind = "heard"
    BY <1>1, <2>1, LeftShape DEF Kinds
  <2>2. CASE kind = "rare"
    BY <1>1, <2>2, LeftShape DEF Kinds
  <2>3. CASE kind = "says"
    BY <1>1, <2>3, LeftShape DEF Kinds
  <2> QED BY <2>1, <2>2, <2>3 DEF Kinds
<1>3. /\ left["heard"] \in Nat /\ left["rare"] \in Nat
      /\ left'["heard"] \in Nat /\ left'["rare"] \in Nat
  BY <1>1, LeftShape
<1>4. c.boots \in Nat
  BY CountShape
<1>5. c.boots + left'["rare"] <= Limits.rare
  BY <1>2, <1>3, <1>4, Numbered DEF Counted
<1>6. c.taken + (Len(c.asked) + Len(c.inbox)) <= Limits.heard - left'["heard"]
  <2> DEFINE n == c.taken + (Len(c.asked) + Len(c.inbox))
  <2>1. n \in Nat
    <3> DEFINE x == Len(c.asked)
               y == Len(c.inbox)
               z == c.taken
    <3>1. x \in Nat /\ y \in Nat /\ z \in Nat
      BY CountShape
    <3> HIDE DEF x, y, z
    <3>2. z + (x + y) \in Nat
      BY <3>1
    <3> QED BY <3>2 DEF x, y, z
  <2>2. n <= Limits.heard - left["heard"]
    BY DEF Counted
  <2> HIDE DEF n
  <2>3. n <= Limits.heard - left'["heard"]
    BY <1>2, <1>3, <2>1, <2>2, Numbered
  <2> QED BY <2>3 DEF n
<1> QED BY <1>1, <1>5, <1>6 DEF Counted

\* A step starts with nothing sent, and everything else as it was.
Begun(n) ==
  /\ n \in CommsState /\ n.sent = <<>> /\ Patient(n.queue) /\ Charged(n)
  /\ SameBase(comms, n) /\ SameSaid(comms, n) /\ SameUplink(comms, n)
  /\ comms.phase # "down" => Shows(n)
  /\ Counted(n, left)

LEMMA NowBegins ==
  ASSUME CommsInv
  PROVE  Begun(Now)
<1> DEFINE lines == <<>>
           n == [comms EXCEPT !.sent = lines]
<1>1. comms \in CommsState /\ lines \in Seq(Replies)
  BY DEF CommsInv
<1> HIDE DEF lines
<1>2. /\ OnlyAir(comms, n) /\ n.present = comms.present /\ n.quiet = comms.quiet
      /\ n.age = comms.age /\ n.sent = lines
  BY <1>1, SetSent
<1>3. Now = n
  BY DEF Now, lines
<1> HIDE DEF n
<1>4. /\ n \in CommsState /\ SameBase(comms, n) /\ SameSaid(comms, n)
      /\ SameUplink(comms, n)
  BY <1>2 DEF OnlyAir
<1>5. Patient(n.queue)
  BY <1>4 DEF CommsInv, SameUplink
<1>6. Charged(n)
  BY <1>2, ChargedSame DEF CommsInv
<1>7. ASSUME comms.phase # "down"
      PROVE  Shows(n)
  <2>1. Shows(comms) /\ SameEnvelope(comms, n)
    BY <1>4, <1>7 DEF CommsInv, SameBase, SameEnvelope
  <2> QED BY <1>2, <1>4, <2>1, ShowsSame
<1>8. Counted(n, left)
  <2>1. SameCount(comms, n) /\ Counted(comms, left)
    BY <1>4 DEF CommsInv, SameBase, SameCount
  <2> QED BY <1>4, <2>1, CountedSame
<1>9. Begun(n)
  BY <1>2, <1>4, <1>5, <1>6, <1>7, <1>8 DEF Begun, lines
<1> QED BY <1>3, <1>9

(***************************************************************************)
(* Every step keeps it; and what came in stays untouched by all but a wake,*)
(* a line heard, the clock and the end of the process.                     *)
(***************************************************************************)
Untouched == comms'.queue = comms.queue /\ comms'.inbox = comms.inbox

\* A process that runs goes on as an obc_status leaves it.
LEMMA FollowerKeeps ==
  ASSUME NEW c, c.phase # "down", Patient(c.queue), Counted(c, left'),
         left' \in [Kinds -> Nat], Follower(c, comms')
  PROVE  CommsInv'
<1>1. Patient(comms'.queue)
  BY DEF Follower, SameUplink
<1>2. Counted(comms', left')
  BY CountedSame DEF Follower
<1> QED BY <1>1, <1>2 DEF CommsInv, Follower

LEMMA ConnectsKeeps ==
  ASSUME CommsInv, CommsConnects
  PROVE  CommsInv' /\ Untouched
<1> DEFINE n == Now
           p == [n EXCEPT !.phase = "connected"]
           q == ForceStatus(p)
<1>1. Begun(n)
  BY NowBegins
<1>2. comms' = Absorb(q) /\ left' = left
  BY DEF CommsConnects, Connected
<1> HIDE DEF n
<1>3. /\ OnlyBase(n, p) /\ SameCount(n, p) /\ p.phase = "connected"
  BY <1>1, SetPhase DEF Begun, Phases
<1> HIDE DEF p
<1>4. OnlySaid(p, q) /\ Stated(q)
  BY <1>3, ForceStates DEF OnlyBase
<1> HIDE DEF q
<1>5. Shows(q)
  BY <1>4, StatedShows DEF OnlySaid
<1>6. /\ q \in CommsState /\ q.sent = <<>> /\ Patient(q.queue)
      /\ q.phase = "connected"
  BY <1>1, <1>3, <1>4
     DEF Begun, OnlyBase, OnlySaid, SameAir, SameBase, SameUplink
<1>7. Charged(q)
  BY <1>1, <1>3, <1>4, ChargedSame DEF Begun, OnlyBase, OnlySaid, SameAir
<1>8. Counted(q, left)
  <2>1. SameCount(n, q) /\ SameUplink(n, q)
    BY <1>3, <1>4 DEF SameCount, SameBase, SameUplink, OnlyBase, OnlySaid
  <2> QED BY <1>1, <2>1, CountedSame DEF Begun
<1>9. Follower(q, comms')
  BY <1>2, <1>5, <1>6, <1>7, AbsorbKeeps
<1>10. left' \in [Kinds -> Nat] /\ Counted(q, left')
  BY <1>2, <1>8 DEF CommsInv
<1>11. CommsInv'
  BY <1>6, <1>9, <1>10, FollowerKeeps
<1>12. Untouched
  BY <1>1, <1>3, <1>4, <1>9
     DEF Begun, OnlyBase, OnlySaid, Follower, SameUplink, Untouched
<1> QED BY <1>11, <1>12

LEMMA ProbesKeeps ==
  ASSUME CommsInv, CommsProbes
  PROVE  CommsInv' /\ Untouched
<1> DEFINE n == Now
           p == [n EXCEPT !.phase = "serving"]
           m == ProbeMesh(p)
           r == PublishStatus(m)
<1>1. Begun(n)
  BY NowBegins
<1>2. comms' = r /\ left' = left /\ comms.phase = "connected"
  BY DEF CommsProbes
<1> HIDE DEF n
<1>3. /\ OnlyBase(n, p) /\ SameCount(n, p) /\ p.phase = "serving"
  BY <1>1, SetPhase DEF Begun, Phases
<1> HIDE DEF p
<1>4. OnlyAir(p, m) /\ m.quiet = p.quiet /\ m.age = p.age /\ m.sent = p.sent
  BY <1>3, ProbeAirs DEF OnlyBase
<1> HIDE DEF m
<1>5. m \in CommsState /\ m.published = m.said
  <2>1. n.published = n.said
    BY <1>1, <1>2 DEF Begun, Shows
  <2> QED BY <1>3, <1>4, <2>1 DEF OnlyBase, OnlyAir, SameSaid
<1>6. OnlySaid(m, r) /\ Stated(r)
  BY <1>5, PublishStates
<1> HIDE DEF r
<1>7. Shows(r)
  BY <1>6, StatedShows DEF OnlySaid
<1>8. /\ r \in CommsState /\ Patient(r.queue) /\ r.phase = "serving"
      /\ SameCount(n, r) /\ SameUplink(n, r) /\ r.sent = <<>>
      /\ r.age = n.age /\ r.quiet = n.quiet
  <2>1. /\ r \in CommsState /\ SameUplink(n, r) /\ SameCount(n, r)
        /\ r.phase = "serving"
    BY <1>3, <1>4, <1>6
       DEF OnlyBase, OnlyAir, OnlySaid, SameUplink, SameBase, SameCount
  <2>2. r.sent = <<>> /\ r.age = n.age /\ r.quiet = n.quiet
    BY <1>1, <1>3, <1>4, <1>6 DEF Begun, OnlyBase, OnlySaid, SameAir
  <2>3. Patient(r.queue)
    BY <1>1, <2>1 DEF Begun, SameUplink
  <2> QED BY <2>1, <2>2, <2>3
<1>9. Charged(r) /\ Rationed(r)
  BY <1>1, <1>8, ChargedSame, SilenceRationed DEF Begun
<1>10. Counted(r, left)
  BY <1>1, <1>8, CountedSame DEF Begun
<1>11. CommsInv'
  BY <1>2, <1>7, <1>8, <1>9, <1>10 DEF CommsInv
<1>12. Untouched
  BY <1>1, <1>2, <1>8 DEF Begun, SameUplink, Untouched
<1> QED BY <1>11, <1>12

LEMMA TicksKeeps ==
  ASSUME CommsInv, CommsTicks
  PROVE  CommsInv'
<1> DEFINE n == Now
           t == Tick(n)
           queue == Waited(t.queue)
           r == [t EXCEPT !.queue = queue]
<1>1. Begun(n)
  BY NowBegins
<1>2. comms' = r /\ left' = left /\ comms.phase = "serving"
  <2>1. Woken(t) = r
    <3> HIDE DEF t
    <3> QED BY DEF Woken
  <2> QED BY <2>1 DEF CommsTicks
<1> HIDE DEF n
<1>3. Shows(n) /\ n.phase = "serving"
  BY <1>1, <1>2 DEF Begun, SameBase
<1>4. /\ t \in CommsState /\ SameBase(n, t)
      /\ Ready(t.queue) /\ Charged(t) /\ Rationed(t) /\ Shows(t)
      /\ Len(t.asked) + Len(t.inbox) <= Len(n.asked) + Len(n.inbox)
  BY <1>1, <1>3, TickKeeps DEF Begun
<1> HIDE DEF t
<1>5. Patient(queue) /\ queue \in Seq(Entries)
  BY <1>4, ReadyWaits DEF Patient
<1> HIDE DEF queue
<1>6. /\ r \in CommsState /\ SameBase(t, r) /\ SameAir(t, r) /\ SameSaid(t, r)
      /\ r.queue = queue /\ r.asked = t.asked /\ r.inbox = t.inbox
  BY <1>4, <1>5, SetQueue
<1> HIDE DEF r
<1>7. Charged(r) /\ Rationed(r)
  <2>1. Charged(r)
    BY <1>4, <1>6, ChargedSame DEF SameAir
  <2>2. Rationed(r)
    BY <1>4, <1>6 DEF SameAir, SameBase, Rationed
  <2> QED BY <2>1, <2>2
<1>8. Shows(r)
  BY <1>4, <1>6, ShowsSame DEF SameAir, SameBase, SameEnvelope
<1>9. r.phase = "serving"
  BY <1>3, <1>4, <1>6 DEF SameBase
<1>10. Counted(r, left)
  <2>1. r.boots = n.boots /\ r.taken = n.taken
    BY <1>4, <1>6 DEF SameBase
  <2>2. n.boots + left["rare"] <= Limits.rare
    BY <1>1 DEF Begun, Counted
  <2> DEFINE x == Len(r.asked) + Len(r.inbox)
             y == Len(n.asked) + Len(n.inbox)
             z == n.taken
             b == Limits.heard - left["heard"]
  <2>3. z + y <= b
    BY <1>1 DEF Begun, Counted
  <2>4. x <= y
    BY <1>4, <1>6
  <2>5. z \in Nat /\ b \in Int /\ x \in Int /\ y \in Int
    <3>1. z \in Nat /\ y \in Int
      <4> DEFINE v == Len(n.asked)
                 w == Len(n.inbox)
      <4>1. v \in Nat /\ w \in Nat /\ z \in Nat
        BY <1>1, CountShape DEF Begun
      <4> HIDE DEF v, w, z
      <4>2. v + w \in Int
        BY <4>1
      <4> QED BY <4>1, <4>2 DEF v, w
    <3>2. x \in Int
      <4> DEFINE v == Len(r.asked)
                 w == Len(r.inbox)
      <4>1. v \in Nat /\ w \in Nat
        BY <1>6, CountShape
      <4> HIDE DEF v, w
      <4>2. v + w \in Int
        BY <4>1
      <4> QED BY <4>2 DEF v, w
    <3>3. b \in Int
      BY Numbered, LeftShape DEF CommsInv
    <3> QED BY <3>1, <3>2, <3>3
  <2> HIDE DEF x, y, z, b
  <2>6. z + x <= b
    BY <2>3, <2>4, <2>5
  <2> QED BY <2>1, <2>2, <2>6 DEF Counted, x, z, b
<1> QED BY <1>2, <1>5, <1>6, <1>7, <1>8, <1>9, <1>10 DEF CommsInv

LEMMA StopsKeeps ==
  ASSUME CommsInv, CommsStops
  PROVE  CommsInv' /\ Untouched
<1> DEFINE n == Now
           p == [n EXCEPT !.phase = "stopping"]
           r == [p EXCEPT !.port = FALSE]
<1>1. Begun(n)
  BY NowBegins
<1>2. comms' = r /\ Spend("rare") /\ comms.phase = "serving"
  <2>1. [n EXCEPT !.phase = "stopping", !.port = FALSE] = r
    OBVIOUS
  <2> HIDE DEF r
  <2> QED BY <2>1 DEF CommsStops
<1> HIDE DEF n
<1>3. /\ OnlyBase(n, p) /\ SameCount(n, p) /\ SameEnvelope(n, p)
      /\ p.phase = "stopping"
  BY <1>1, SetPhase DEF Begun, Phases
<1> HIDE DEF p
<1>4. /\ OnlyAir(p, r) /\ r.present = p.present /\ r.quiet = p.quiet
      /\ r.age = p.age /\ r.sent = p.sent
  <2>1. p \in CommsState
    BY <1>3 DEF OnlyBase
  <2> QED BY <2>1, SetPort
<1> HIDE DEF r
<1>5. /\ r \in CommsState /\ SameUplink(n, r) /\ SameCount(n, r)
      /\ SameSaid(n, r) /\ SameEnvelope(n, r) /\ r.phase = "stopping"
  BY <1>3, <1>4
     DEF OnlyBase, OnlyAir, SameUplink, SameBase, SameCount, SameSaid, SameEnvelope
<1>6. r.sent = <<>> /\ r.age = n.age /\ r.quiet = n.quiet /\ r.present = n.present
  BY <1>1, <1>3, <1>4 DEF Begun, OnlyBase, SameAir
<1>7. Patient(r.queue) /\ Charged(r) /\ Rationed(r) /\ Shows(r)
  <2>1. Patient(r.queue)
    BY <1>1, <1>5 DEF Begun, SameUplink
  <2>2. Charged(r) /\ Rationed(r)
    BY <1>1, <1>6, ChargedSame, SilenceRationed DEF Begun
  <2>3. Shows(n)
    BY <1>1, <1>2 DEF Begun
  <2>4. Shows(r)
    BY <1>5, <1>6, <2>3, ShowsSame
  <2> QED BY <2>1, <2>2, <2>4
<1>8. left' \in [Kinds -> Nat] /\ Counted(r, left')
  <2>1. Counted(r, left)
    BY <1>1, <1>5, CountedSame DEF Begun
  <2> QED BY <1>2, <1>5, <2>1, CountedSpent DEF CommsInv, Kinds
<1>9. CommsInv'
  BY <1>2, <1>5, <1>7, <1>8 DEF CommsInv
<1>10. Untouched
  BY <1>1, <1>2, <1>5 DEF Begun, SameUplink, Untouched
<1> QED BY <1>9, <1>10

\* A process that ends, by itself or not.
LEMMA FreshKeeps ==
  ASSUME CommsInv, comms' = Fresh(Now),
         left' = left \/ Spend("rare")
  PROVE  CommsInv'
<1> DEFINE n == Now
           r == Fresh(n)
<1>1. Begun(n)
  BY NowBegins
<1> HIDE DEF n
<1>2. /\ r \in CommsState /\ SameCount(n, r)
      /\ r.phase = "down" /\ ~r.absorbing /\ r.queue = <<>> /\ r.inbox = <<>>
      /\ r.age = None /\ r.quiet = Longest
      /\ r.asked = n.asked /\ r.sent = n.sent
  BY <1>1, FreshTyped DEF Begun
<1> HIDE DEF r
<1>3. Patient(r.queue) /\ Charged(r) /\ Rationed(r)
  <2>1. Patient(<<>>)
    BY DEF Patient
  <2>2. Charged(r)
    BY <1>2 DEF Charged
  <2>3. Rationed(r)
    BY <1>1, <1>2, SilenceRationed DEF Begun
  <2> QED BY <1>2, <2>1, <2>2, <2>3
<1>4. Counted(r, left)
  <2>1. n.boots + left["rare"] <= Limits.rare
    BY <1>1 DEF Begun, Counted
  <2> DEFINE v == Len(n.asked)
             w == Len(n.inbox)
             z == n.taken
             b == Limits.heard - left["heard"]
  <2>2. z + (v + w) <= b
    BY <1>1 DEF Begun, Counted
  <2>3. v \in Nat /\ w \in Nat /\ z \in Nat /\ b \in Int
    <3>1. v \in Nat /\ w \in Nat /\ z \in Nat
      BY <1>1, CountShape DEF Begun
    <3>2. b \in Int
      BY Numbered, LeftShape DEF CommsInv
    <3> QED BY <3>1, <3>2
  <2> HIDE DEF v, w, z, b
  <2>4. z + (v + 0) <= b
    BY <2>2, <2>3
  <2>5. Len(r.inbox) = 0 /\ r.asked = n.asked /\ r.taken = n.taken /\ r.boots = n.boots
    BY <1>2 DEF SameCount
  <2> QED BY <2>1, <2>4, <2>5 DEF Counted, v, z, b
<1>5. left' \in [Kinds -> Nat] /\ Counted(r, left')
  <2>1. CASE left' = left
    BY <1>4, <2>1 DEF CommsInv
  <2>2. CASE Spend("rare")
    BY <1>2, <1>4, <2>2, CountedSpent DEF CommsInv, Kinds
  <2> QED BY <2>1, <2>2
<1>6. comms' = r
  BY DEF r, n
<1> QED BY <1>2, <1>3, <1>5, <1>6 DEF CommsInv

\* A step that leaves the process as it is.
LEMMA StillKeeps ==
  ASSUME CommsInv, NEW n, Begun(n), comms' \in CommsState,
         SameAir(n, comms'), SameSaid(n, comms'), SameEnvelope(n, comms'),
         Patient(comms'.queue),
         comms'.phase = n.phase, comms'.absorbing = n.absorbing,
         left' \in [Kinds -> Nat], Counted(comms', left')
  PROVE  CommsInv'
<1>1. Charged(comms') /\ Rationed(comms')
  BY ChargedSame, SilenceRationed DEF Begun, SameAir
<1>2. ASSUME comms'.phase # "down"
      PROVE  Shows(comms')
  <2>1. Shows(n)
    BY <1>2 DEF Begun, SameBase
  <2> QED BY <2>1, ShowsSame DEF SameAir
<1>3. comms'.absorbing => comms'.phase # "down"
  BY DEF CommsInv, Begun, SameBase
<1> QED BY <1>1, <1>2, <1>3 DEF CommsInv

LEMMA SaysKeeps ==
  ASSUME CommsInv, ObcSays
  PROVE  CommsInv' /\ Untouched
<1> DEFINE n == Now
<1>1. PICK status \in Statuses :
        LET told == [n EXCEPT !.told = status]
        IN  comms' = IF Up THEN Absorb(told) ELSE told
  BY DEF ObcSays
<1>2. Spend("says") /\ ~comms.absorbing
  BY DEF ObcSays
<1> DEFINE q == [n EXCEPT !.told = status]
<1>3. Begun(n)
  BY NowBegins
<1>4. comms' = IF Up THEN Absorb(q) ELSE q
  BY <1>1
<1> HIDE DEF n
<1>5. /\ OnlyBase(n, q) /\ SameCount(n, q) /\ SameEnvelope(n, q)
      /\ q.phase = n.phase /\ q.absorbing = n.absorbing
  BY <1>3, SetTold DEF Begun
<1> HIDE DEF q
<1>6. /\ q \in CommsState /\ q.sent = <<>> /\ Patient(q.queue) /\ Charged(q)
      /\ Counted(q, left)
  <2>1. q \in CommsState /\ q.sent = <<>> /\ Patient(q.queue)
    BY <1>3, <1>5 DEF Begun, OnlyBase, SameAir, SameUplink
  <2>2. Charged(q)
    BY <1>3, <1>5, ChargedSame DEF Begun, OnlyBase, SameAir
  <2>3. Counted(q, left)
    BY <1>3, <1>5, CountedSame DEF Begun, OnlyBase
  <2> QED BY <2>1, <2>2, <2>3
<1>7. left' \in [Kinds -> Nat] /\ Counted(q, left')
  BY <1>2, <1>6, CountedSpent DEF CommsInv, Kinds
<1>8. CASE Up
  <2>1. Shows(n) /\ q.phase # "down"
    BY <1>3, <1>5, <1>8 DEF Begun, SameBase, Up
  <2>2. Shows(q)
    BY <1>5, <2>1, ShowsSame DEF OnlyBase, SameAir
  <2>3. Follower(q, comms')
    BY <1>4, <1>6, <1>8, <2>2, AbsorbKeeps
  <2>4. Untouched
    BY <1>3, <1>5, <2>3 DEF Begun, OnlyBase, Follower, SameUplink, Untouched
  <2> QED BY <1>6, <1>7, <2>1, <2>3, <2>4, FollowerKeeps
<1>9. CASE ~Up
  <2>1. comms' = q
    BY <1>4, <1>9
  <2>2. Untouched
    BY <1>3, <1>5, <2>1 DEF Begun, OnlyBase, SameUplink, Untouched
  <2> QED BY <1>3, <1>5, <1>6, <1>7, <2>1, <2>2, StillKeeps DEF OnlyBase
<1> QED BY <1>8, <1>9

LEMMA BootsKeeps ==
  ASSUME CommsInv, ObcBoots
  PROVE  CommsInv' /\ Untouched
<1> DEFINE n == Now
           boots == n.boots + 1
           q == [n EXCEPT !.boots = boots]
<1>1. /\ comms' = IF Up THEN Absorb(q) ELSE q
      /\ Spend("rare") /\ ~comms.absorbing
  BY DEF ObcBoots
<1>2. Begun(n)
  BY NowBegins
<1> HIDE DEF n
<1>3. /\ left' \in [Kinds -> Nat] /\ left["rare"] \in Nat \ {0}
      /\ left'["rare"] = left["rare"] - 1 /\ left'["heard"] = left["heard"]
  <2>1. left \in [Kinds -> Nat] /\ "rare" \in Kinds /\ "heard" \in Kinds \ {"rare"}
    BY DEF CommsInv, Kinds
  <2> QED BY <1>1, <2>1, Spends
<1>4. /\ n.boots \in Nat /\ n.boots + left["rare"] <= Limits.rare
      /\ Limits.rare \in Nat
  BY <1>2, CountShape, Numbered DEF Begun, Counted
<1>5. boots \in Boots
  BY <1>3, <1>4 DEF Boots
<1>6. boots + left'["rare"] <= Limits.rare
  BY <1>3, <1>4
<1> HIDE DEF boots
<1>7. /\ OnlyBase(n, q) /\ SameEnvelope(n, q)
      /\ q.boots = boots /\ q.taken = n.taken
      /\ q.phase = n.phase /\ q.absorbing = n.absorbing
  BY <1>2, <1>5, SetBoots DEF Begun
<1> HIDE DEF q
<1>8. /\ q \in CommsState /\ q.sent = <<>> /\ Patient(q.queue) /\ Charged(q)
  <2>1. q \in CommsState /\ q.sent = <<>> /\ Patient(q.queue)
    BY <1>2, <1>7 DEF Begun, OnlyBase, SameAir, SameUplink
  <2>2. Charged(q)
    BY <1>2, <1>7, ChargedSame DEF Begun, OnlyBase, SameAir
  <2> QED BY <2>1, <2>2
<1>9. Counted(q, left')
  <2>1. q.asked = n.asked /\ q.inbox = n.inbox
    BY <1>7 DEF OnlyBase, SameUplink
  <2> QED BY <1>2, <1>3, <1>6, <1>7, <2>1 DEF Begun, Counted
<1>10. CASE Up
  <2>1. Shows(n) /\ q.phase # "down"
    BY <1>2, <1>7, <1>10 DEF Begun, SameBase, Up
  <2>2. Shows(q)
    BY <1>7, <2>1, ShowsSame DEF OnlyBase, SameAir
  <2>3. Follower(q, comms')
    BY <1>1, <1>8, <1>10, <2>2, AbsorbKeeps
  <2>4. Untouched
    BY <1>2, <1>7, <2>3 DEF Begun, OnlyBase, Follower, SameUplink, Untouched
  <2> QED BY <1>3, <1>8, <1>9, <2>1, <2>3, <2>4, FollowerKeeps
<1>11. CASE ~Up
  <2>1. comms' = q
    BY <1>1, <1>11
  <2>2. Untouched
    BY <1>2, <1>7, <2>1 DEF Begun, OnlyBase, SameUplink, Untouched
  <2> QED BY <1>2, <1>3, <1>7, <1>8, <1>9, <2>1, <2>2, StillKeeps DEF OnlyBase
<1> QED BY <1>10, <1>11

LEMMA HandlesKeeps ==
  ASSUME CommsInv, HandlesObcStatus
  PROVE  CommsInv' /\ Untouched
<1> DEFINE n == Now
           p == [n EXCEPT !.absorbing = FALSE]
           q == ReconcileDownlink(p)
<1>1. comms' = BootReport(q) /\ left' = left /\ comms.absorbing
  BY DEF HandlesObcStatus
<1>2. Begun(n)
  BY NowBegins
<1> HIDE DEF n
<1>3. /\ OnlyBase(n, p) /\ SameCount(n, p) /\ SameEnvelope(n, p)
      /\ p.phase = n.phase
  BY <1>2, SetAbsorbing DEF Begun
<1> HIDE DEF p
<1>4. Shows(p) /\ p.phase # "down"
  <2>1. Shows(n) /\ n.phase # "down"
    BY <1>1, <1>2 DEF CommsInv, Begun, SameBase
  <2> QED BY <1>3, <2>1, ShowsSame DEF OnlyBase, SameAir
<1>5. /\ q \in CommsState /\ SameAir(p, q) /\ SameUplink(p, q)
      /\ SameCount(p, q) /\ q.phase = p.phase /\ Shows(q)
  BY <1>3, <1>4, ReconcileKeeps DEF OnlyBase
<1> HIDE DEF q
<1>6. /\ Charged(q) /\ q.sent = <<>> /\ Patient(q.queue) /\ q.phase # "down"
      /\ Counted(q, left)
  <2>1. Charged(q)
    BY <1>2, <1>3, <1>5, ChargedSame DEF Begun, OnlyBase, SameAir
  <2>2. q.sent = <<>> /\ Patient(q.queue) /\ q.phase # "down"
    BY <1>2, <1>3, <1>4, <1>5 DEF Begun, OnlyBase, SameAir, SameUplink
  <2>3. Counted(q, left)
    <3>1. SameCount(n, q) /\ SameUplink(n, q)
      BY <1>3, <1>5 DEF OnlyBase, SameCount, SameUplink
    <3> QED BY <1>2, <3>1, CountedSame DEF Begun
  <2> QED BY <2>1, <2>2, <2>3
<1>7. Follower(q, comms')
  BY <1>1, <1>5, <1>6, BootReportKeeps
<1>8. left' \in [Kinds -> Nat] /\ Counted(q, left')
  BY <1>1, <1>6 DEF CommsInv
<1>9. CommsInv'
  BY <1>6, <1>7, <1>8, FollowerKeeps
<1>10. Untouched
  BY <1>2, <1>3, <1>5, <1>7 DEF Begun, OnlyBase, Follower, SameUplink, Untouched
<1> QED BY <1>9, <1>10

LEMMA OrderKeeps ==
  ASSUME CommsInv, TakesOrder
  PROVE  CommsInv' /\ Untouched
<1> DEFINE n == Now
           orders == Tail(n.orders)
           p == [n EXCEPT !.orders = orders]
           requested == Head(comms.orders) = "on"
           q == [p EXCEPT !.requested = requested]
           r == PublishStatus(q)
<1>1. /\ comms' = IF Up THEN r ELSE p
      /\ left' = left /\ comms.orders # <<>>
  BY DEF TakesOrder
<1>2. Begun(n)
  BY NowBegins
<1> HIDE DEF n
<1>3. orders \in Seq({"on", "off"}) /\ requested \in BOOLEAN
  <2>1. n.orders \in Seq({"on", "off"}) /\ n.orders # <<>>
    BY <1>1, <1>2, CommsShape DEF Begun, SameUplink
  <2> QED BY <2>1
<1> HIDE DEF orders, requested
<1>4. /\ p \in CommsState /\ SameBase(n, p) /\ SameAir(n, p) /\ SameSaid(n, p)
      /\ p.queue = n.queue /\ p.asked = n.asked /\ p.inbox = n.inbox
  BY <1>2, <1>3, SetOrders DEF Begun
<1> HIDE DEF p
<1>5. Patient(p.queue) /\ Charged(p) /\ p.sent = <<>> /\ Counted(p, left)
  <2>1. Patient(p.queue) /\ p.sent = <<>>
    BY <1>2, <1>4 DEF Begun, SameAir
  <2>2. Charged(p)
    BY <1>2, <1>4, ChargedSame DEF Begun, SameAir
  <2>3. Counted(p, left)
    BY <1>2, <1>4 DEF Begun, SameBase, Counted
  <2> QED BY <2>1, <2>2, <2>3
<1>6. left' \in [Kinds -> Nat]
  BY <1>1 DEF CommsInv
<1>7. CASE Up
  <2>1. Shows(n) /\ n.phase # "down"
    BY <1>2, <1>7 DEF Begun, SameBase, Up
  <2>2. OnlyBase(p, q) /\ SameCount(p, q) /\ q.phase = p.phase
    BY <1>3, <1>4, SetRequested
  <2> HIDE DEF q
  <2>3. q \in CommsState /\ q.published = q.said
    BY <1>4, <2>1, <2>2 DEF OnlyBase, SameSaid, Shows
  <2>4. OnlySaid(q, r) /\ Stated(r)
    BY <2>3, PublishStates
  <2> HIDE DEF r
  <2>5. Shows(r)
    BY <2>4, StatedShows DEF OnlySaid
  <2>6. Charged(r) /\ Rationed(r)
    <3>1. r.age = p.age /\ r.quiet = p.quiet /\ r.sent = p.sent
      BY <2>2, <2>4 DEF OnlyBase, OnlySaid, SameAir
    <3> QED BY <1>5, <3>1, ChargedSame, SilenceRationed
  <2>7. SameCount(p, r) /\ SameUplink(p, r) /\ r.phase = p.phase
    BY <2>2, <2>4 DEF OnlyBase, OnlySaid, SameBase, SameCount, SameUplink
  <2>8. Follower(p, r)
    BY <2>4, <2>5, <2>6, <2>7 DEF Follower, OnlySaid
  <2>9. p.phase # "down" /\ comms' = r /\ Counted(p, left')
    BY <1>1, <1>4, <1>5, <1>7, <2>1 DEF SameBase
  <2>10. Untouched
    BY <1>2, <1>4, <2>8, <2>9 DEF Begun, Follower, SameUplink, Untouched
  <2> QED BY <1>5, <1>6, <2>8, <2>9, <2>10, FollowerKeeps
<1>8. CASE ~Up
  <2>1. comms' = p
    BY <1>1, <1>8
  <2>2. SameEnvelope(n, p)
    BY <1>4 DEF SameBase, SameEnvelope
  <2>3. p.phase = n.phase /\ p.absorbing = n.absorbing
    BY <1>4 DEF SameBase
  <2>4. Counted(p, left')
    BY <1>1, <1>5
  <2>5. Untouched
    BY <1>2, <1>4, <2>1 DEF Begun, SameUplink, Untouched
  <2> QED BY <1>2, <1>4, <1>5, <1>6, <2>1, <2>2, <2>3, <2>4, <2>5, StillKeeps
<1> QED BY <1>7, <1>8

LEMMA PhotoKeeps ==
  ASSUME CommsInv, PhotoArrives
  PROVE  CommsInv' /\ Untouched
<1> DEFINE n == Now
           photo == comms.frame
           r == [n EXCEPT !.photo = photo]
<1>1. comms' = r /\ left' = left /\ Up /\ ~comms.absorbing
  BY DEF PhotoArrives
<1>2. Begun(n)
  BY NowBegins
<1> HIDE DEF n
<1>3. photo \in SomeFrame
  BY CommsShape DEF CommsInv
<1> HIDE DEF photo
<1>4. /\ OnlyBase(n, r) /\ SameCount(n, r) /\ SameEnvelope(n, r)
      /\ r.phase = n.phase
  BY <1>2, <1>3, SetPhoto DEF Begun
<1> HIDE DEF r
<1>5. Charged(r) /\ Rationed(r) /\ Patient(r.queue)
  BY <1>2, <1>4, ChargedSame, SilenceRationed DEF Begun, OnlyBase, SameAir, SameUplink
<1>6. Shows(r) /\ r.phase # "down"
  <2>1. Shows(n) /\ n.phase # "down"
    BY <1>1, <1>2 DEF Begun, SameBase, Up
  <2> QED BY <1>4, <2>1, ShowsSame DEF OnlyBase, SameAir
<1>7. Counted(r, left)
  BY <1>2, <1>4, CountedSame DEF Begun, OnlyBase
<1>8. CommsInv'
  BY <1>1, <1>4, <1>5, <1>6, <1>7 DEF CommsInv, OnlyBase
<1>9. Untouched
  BY <1>1, <1>2, <1>4 DEF Begun, OnlyBase, SameUplink, Untouched
<1> QED BY <1>8, <1>9

LEMMA BrokerKeeps ==
  ASSUME CommsInv, BrokerReturns
  PROVE  CommsInv' /\ Untouched
<1> DEFINE n == Now
           p == [n EXCEPT !.said = None, !.frame = None]
           r == ForceStatus(p)
<1>1. comms' = r /\ Up /\ Spend("rare")
  BY DEF BrokerReturns, Connected
<1>2. Begun(n)
  BY NowBegins
<1> HIDE DEF n
<1>3. /\ p \in CommsState /\ SameAir(n, p) /\ SameUplink(n, p)
      /\ SameCount(n, p) /\ SameEnvelope(n, p) /\ p.phase = n.phase
  BY <1>2, SetLost DEF Begun
<1> HIDE DEF p
<1>4. OnlySaid(p, r) /\ Stated(r)
  BY <1>3, ForceStates
<1> HIDE DEF r
<1>5. Shows(r) /\ r.phase # "down" /\ r \in CommsState
  <2>1. n.phase # "down"
    BY <1>1, <1>2 DEF Begun, SameBase, Up
  <2> QED BY <1>3, <1>4, <2>1, StatedShows DEF OnlySaid, SameBase
<1>6. SameAir(n, r) /\ SameUplink(n, r) /\ SameCount(n, r)
  BY <1>3, <1>4 DEF OnlySaid, SameAir, SameUplink, SameBase, SameCount
<1>7. Charged(r) /\ Rationed(r) /\ Patient(r.queue)
  BY <1>2, <1>6, ChargedSame, SilenceRationed DEF Begun, SameAir, SameUplink
<1>8. Counted(r, left)
  BY <1>2, <1>6, CountedSame DEF Begun
<1>9. left' \in [Kinds -> Nat] /\ Counted(r, left')
  BY <1>1, <1>5, <1>8, CountedSpent DEF CommsInv, Kinds
<1>10. CommsInv'
  BY <1>1, <1>5, <1>7, <1>9 DEF CommsInv
<1>11. Untouched
  BY <1>1, <1>2, <1>6 DEF Begun, SameUplink, Untouched
<1> QED BY <1>10, <1>11

LEMMA NodeKeeps ==
  ASSUME CommsInv, NodeFails \/ NodeReturns
  PROVE  CommsInv' /\ Untouched
<1> DEFINE n == Now
<1>1. Begun(n)
  BY NowBegins
<1>2. PICK node \in BOOLEAN : comms' = [n EXCEPT !.node = node]
  BY DEF NodeFails, NodeReturns
<1>3. left' = left \/ Spend("rare")
  BY DEF NodeFails, NodeReturns
<1> DEFINE r == [n EXCEPT !.node = node]
<1> HIDE DEF n
<1>4. /\ OnlyBase(n, r) /\ SameCount(n, r) /\ SameEnvelope(n, r)
      /\ r.phase = n.phase /\ r.absorbing = n.absorbing
  BY <1>1, SetNode DEF Begun
<1>5. comms' = r
  BY <1>2
<1> HIDE DEF r
<1>6. Counted(r, left) /\ r \in CommsState /\ Patient(r.queue)
  BY <1>1, <1>4, CountedSame DEF Begun, OnlyBase, SameUplink
<1>7. left' \in [Kinds -> Nat] /\ Counted(r, left')
  <2>1. CASE left' = left
    BY <1>6, <2>1 DEF CommsInv
  <2>2. CASE Spend("rare")
    BY <1>6, <2>2, CountedSpent DEF CommsInv, Kinds
  <2> QED BY <1>3, <2>1, <2>2
<1>8. CommsInv'
  BY <1>1, <1>4, <1>5, <1>6, <1>7, StillKeeps DEF OnlyBase
<1>9. Untouched
  BY <1>1, <1>4, <1>5 DEF Begun, OnlyBase, SameUplink, Untouched
<1> QED BY <1>8, <1>9

LEMMA AnswersKeeps ==
  ASSUME CommsInv, PayloadAnswers
  PROVE  CommsInv' /\ Untouched
<1> DEFINE n == Now
           asked == Tail(n.asked)
           taken == n.taken + 1
           frame == [n |-> Head(comms.asked), at |-> comms.taken + 1]
           r == [n EXCEPT !.asked = asked, !.taken = taken, !.frame = frame]
<1>1. comms' = r /\ left' = left /\ comms.asked # <<>>
  BY DEF PayloadAnswers
<1>2. Begun(n)
  BY NowBegins
<1>q. r = [n EXCEPT !.asked = asked, !.taken = taken, !.frame = frame]
  OBVIOUS
<1> HIDE DEF n, r
<1>3. /\ n.asked \in Seq(Numbers) /\ n.asked # <<>> /\ comms.asked = n.asked
      /\ comms.taken = n.taken
  BY <1>1, <1>2, CommsShape DEF Begun, SameUplink, SameBase
<1>4. /\ asked \in Seq(Numbers) /\ Len(asked) = Len(n.asked) - 1
      /\ Len(n.asked) \in Nat /\ Len(n.asked) > 0 /\ Head(comms.asked) \in Numbers
  BY <1>3
<1>5. taken + (Len(asked) + Len(n.inbox)) <= Limits.heard - left["heard"]
  <2> DEFINE v == Len(n.asked)
             w == Len(n.inbox)
             z == n.taken
             a == Len(asked)
             b == Limits.heard - left["heard"]
  <2>1. z + (v + w) <= b /\ a = v - 1
    BY <1>2, <1>4 DEF Begun, Counted
  <2>2. v \in Nat /\ w \in Nat /\ z \in Nat /\ b \in Int
    <3>1. v \in Nat /\ w \in Nat /\ z \in Nat
      BY <1>2, CountShape DEF Begun
    <3>2. b \in Int
      BY Numbered, LeftShape DEF CommsInv
    <3> QED BY <3>1, <3>2
  <2> HIDE DEF v, w, z, b, a
  <2>3. (z + 1) + (a + w) <= b
    BY <2>1, <2>2
  <2> QED BY <2>3 DEF a, w, z, b
<1>6. taken \in Numbers
  <2> DEFINE w == Len(n.inbox)
             z == n.taken
             a == Len(asked)
             h == Limits.heard
             l == left["heard"]
  <2>1. (z + 1) + (a + w) <= h - l
    BY <1>5
  <2>2. w \in Nat /\ z \in Nat
    BY <1>2, CountShape DEF Begun
  <2>3. a \in Nat
    BY <1>4
  <2>4. h \in Nat /\ l \in Nat
    BY Numbered, LeftShape DEF CommsInv
  <2> HIDE DEF a, w, z, h, l
  <2>5. z + 1 \in 0 .. h
    BY <2>1, <2>2, <2>3, <2>4
  <2> QED BY <2>5, Numbered DEF z, h
<1>7. frame \in SomeFrame
  <2>1. Head(comms.asked) \in Numbers /\ comms.taken + 1 \in Numbers
    BY <1>3, <1>4, <1>6
  <2> QED BY <2>1 DEF Frames, SomeFrame
<1> HIDE DEF asked, taken, frame
<1>8. r \in CommsState /\ Answered(n, r, asked, taken)
  BY <1>q, <1>2, <1>4, <1>6, <1>7, SetAnswered DEF Begun
<1>9. Patient(r.queue)
  BY <1>2, <1>8 DEF Begun, Answered
<1>10. Counted(r, left')
  BY <1>1, <1>2, <1>5, <1>8 DEF Begun, Counted, Answered
<1>11. left' \in [Kinds -> Nat]
  BY <1>1 DEF CommsInv
<1>12. CommsInv'
  BY <1>1, <1>2, <1>8, <1>9, <1>10, <1>11, StillKeeps DEF Answered
<1>13. Untouched
  BY <1>1, <1>2, <1>8 DEF Begun, Answered, SameUplink, Untouched
<1> QED BY <1>12, <1>13

LEMMA HearsKeeps ==
  ASSUME CommsInv, NodeHears
  PROVE  CommsInv'
<1> DEFINE n == Now
           number == Limits.heard - left.heard + 1
<1>1. PICK line \in Lines :
        comms' = [n EXCEPT !.inbox = Append(@, [n |-> number, line |-> line])]
  BY DEF NodeHears
<1>2. Begun(n)
  BY NowBegins
<1>3. /\ left' \in [Kinds -> Nat] /\ left["heard"] \in Nat \ {0}
      /\ left'["heard"] = left["heard"] - 1 /\ left'["rare"] = left["rare"]
  <2>1. /\ left \in [Kinds -> Nat] /\ "heard" \in Kinds /\ "rare" \in Kinds \ {"heard"}
        /\ Spend("heard")
    BY DEF CommsInv, Kinds, NodeHears
  <2> QED BY <2>1, Spends
<1> DEFINE entry == [n |-> number, line |-> line]
           inbox == Append(n.inbox, entry)
           r == [n EXCEPT !.inbox = inbox]
<1>4. comms' = r
  BY <1>1
<1> HIDE DEF n
<1>5. n.inbox \in Seq(Heard)
  BY <1>2, CommsShape DEF Begun
<1>6. Limits.heard \in Nat /\ left["heard"] \in Nat /\ left.heard = left["heard"]
  BY Numbered, LeftShape DEF CommsInv
<1>7. left["heard"] <= Limits.heard
  <2> DEFINE v == Len(n.asked)
             w == Len(n.inbox)
             z == n.taken
             h == Limits.heard
             l == left["heard"]
  <2>1. z + (v + w) <= h - l
    BY <1>2 DEF Begun, Counted
  <2>2. v \in Nat /\ w \in Nat /\ z \in Nat /\ h \in Nat /\ l \in Nat
    BY <1>2, <1>6, CountShape DEF Begun
  <2> HIDE DEF v, w, z, h, l
  <2>3. l <= h
    BY <2>1, <2>2
  <2> QED BY <2>3 DEF l, h
<1>8. entry \in Heard
  <2>1. number \in Numbers
    BY <1>3, <1>6, <1>7, Numbered
  <2> HIDE DEF number
  <2> QED BY <2>1 DEF Heard
<1> HIDE DEF entry
<1>9. inbox \in Seq(Heard) /\ Len(inbox) = Len(n.inbox) + 1
  BY <1>5, <1>8
<1> HIDE DEF inbox
<1>10. /\ r \in CommsState /\ SameBase(n, r) /\ SameAir(n, r) /\ SameSaid(n, r)
       /\ r.queue = n.queue /\ r.asked = n.asked /\ r.inbox = inbox
  BY <1>2, <1>9, SetInbox DEF Begun
<1> HIDE DEF r
<1>11. Counted(r, left')
  <2> DEFINE v == Len(n.asked)
             w == Len(n.inbox)
             x == Len(inbox)
             z == n.taken
             h == Limits.heard
             l == left["heard"]
             ll == left'["heard"]
  <2>1. z + (v + w) <= h - l /\ x = w + 1 /\ ll = l - 1
    BY <1>2, <1>3, <1>9 DEF Begun, Counted
  <2>2. v \in Nat /\ w \in Nat /\ z \in Nat /\ h \in Nat /\ l \in Nat
    BY <1>2, <1>6, CountShape DEF Begun
  <2> HIDE DEF v, w, x, z, h, l, ll
  <2>3. z + (v + x) <= h - ll
    BY <2>1, <2>2
  <2>4. r.taken + (Len(r.asked) + Len(r.inbox)) <= Limits.heard - left'["heard"]
    BY <1>10, <2>3 DEF v, x, z, h, ll, SameBase
  <2>5. r.boots + left'["rare"] <= Limits.rare
    BY <1>2, <1>3, <1>10 DEF Begun, Counted, SameBase
  <2> QED BY <2>4, <2>5 DEF Counted
<1>12. Patient(r.queue) /\ SameEnvelope(n, r)
  BY <1>2, <1>10 DEF Begun, SameBase, SameEnvelope
<1>13. r.phase = n.phase /\ r.absorbing = n.absorbing
  BY <1>10 DEF SameBase
<1> QED BY <1>2, <1>3, <1>4, <1>10, <1>11, <1>12, <1>13, StillKeeps

\* A reply comes nearer.
LEMMA NearerPatient ==
  ASSUME NEW queue, Patient(queue)
  PROVE  Patient(Nearer(queue))
<1> DEFINE new == Nearer(queue)
<1>1. queue \in Seq(Entries) /\ Len(queue) \in Nat /\ DOMAIN queue = 1 .. Len(queue)
  BY DEF Patient
<1>2. ASSUME NEW i \in 1 .. Len(queue)
      PROVE  /\ new[i] \in Entries /\ i + new[i].wakes <= MaxPending
             /\ new[i].wait > 0 => new[i].wakes = 0
  <2> DEFINE e == queue[i]
             wait == IF e.wait > 0 THEN e.wait - 1 ELSE 0
             w == [e EXCEPT !.wait = wait]
  <2>1. e \in Entries /\ e.wakes \in Nat /\ e.wait \in 0 .. AckDelay
    <3>1. e \in Entries
      BY <1>1, ElementOf
    <3> HIDE DEF e
    <3> QED BY <3>1, EntryShape
  <2>2. i + e.wakes <= MaxPending /\ (e.wait > 0 => e.wakes = 0)
    BY DEF Patient
  <2>3. new[i] = w
    BY <1>1 DEF Nearer
  <2> HIDE DEF new, e
  <2>4. wait \in 0 .. AckDelay /\ (wait > 0 => e.wait > 0)
    BY <2>1, Numbered
  <2> HIDE DEF wait
  <2>5. w \in Entries /\ w.wakes = e.wakes /\ w.wait = wait
    BY <2>1, <2>4 DEF Entries
  <2> HIDE DEF w
  <2> QED BY <2>2, <2>3, <2>4, <2>5
<1>3. new \in Seq(Entries) /\ Len(new) = Len(queue)
  <2>1. new = [i \in 1 .. Len(queue) |-> new[i]]
    BY <1>1 DEF Nearer
  <2> HIDE DEF new
  <2>2. new \in [1 .. Len(queue) -> Entries]
    BY <1>2, <2>1
  <2> QED BY <1>1, <2>2
<1> HIDE DEF new
<1>4. Patient(new)
  BY <1>2, <1>3 DEF Patient
<1> QED BY <1>4 DEF new

LEMMA TimeKeeps ==
  ASSUME CommsInv, TimePasses
  PROVE  CommsInv'
<1> DEFINE n == Now
           age == IF n.age = None THEN None ELSE Older(n.age)
           quiet == Older(n.quiet)
           queue == Nearer(n.queue)
           r == [n EXCEPT !.age = age, !.quiet = quiet, !.queue = queue]
<1>1. comms' = r /\ left' = left
  BY DEF TimePasses
<1>2. Begun(n)
  BY NowBegins
<1>q. r = [n EXCEPT !.age = age, !.quiet = quiet, !.queue = queue]
  OBVIOUS
<1> HIDE DEF n, r
<1>3. /\ n.age \in SomeAge /\ n.quiet \in Ages
      /\ Longest \in Nat \ {0}
  BY <1>2, CommsShape, Schedules DEF Begun
<1>4. age \in SomeAge /\ quiet \in Ages
  BY <1>3 DEF Older, SomeAge, Ages
<1>5. quiet = IF age = None THEN Longest ELSE age
  <2>1. CASE n.age = None
    BY <1>2, <1>3, <2>1 DEF Begun, Charged, Older
  <2>2. CASE n.age # None
    <3>1. n.quiet = n.age
      BY <1>2, <2>2 DEF Begun, Charged
    <3>2. age = quiet /\ age # None
      BY <1>4, <2>2, <3>1, Numbered DEF SomeAge, Ages
    <3> QED BY <3>2
  <2> QED BY <2>1, <2>2
<1>6. Patient(queue) /\ queue \in Seq(Entries)
  BY <1>2, NearerPatient DEF Begun, Patient
<1> HIDE DEF age, quiet, queue
<1>7. r \in CommsState /\ Aged(n, r, age, quiet, queue)
  BY <1>q, <1>2, <1>4, <1>6, SetAges DEF Begun
<1>8. Charged(r) /\ Rationed(r) /\ Patient(r.queue)
  <2>1. Charged(r)
    BY <1>5, <1>7 DEF Aged, Charged
  <2>2. Rationed(r)
    BY <1>2, <1>7, SilenceRationed DEF Begun, Aged
  <2> QED BY <1>6, <1>7, <2>1, <2>2 DEF Aged
<1>9. ASSUME r.phase # "down"
      PROVE  Shows(r)
  <2>1. Shows(n)
    BY <1>2, <1>7, <1>9 DEF Begun, Aged, SameBase
  <2> QED BY <1>7, <2>1, ShowsSame DEF Aged, SameBase, SameEnvelope
<1>10. r.absorbing => r.phase # "down"
  BY <1>2, <1>7 DEF CommsInv, Begun, Aged, SameBase
<1>11. Counted(r, left)
  BY <1>2, <1>7 DEF Begun, Aged, SameBase, Counted
<1> QED BY <1>1, <1>7, <1>8, <1>9, <1>10, <1>11 DEF CommsInv

LEMMA CommsStarts ==
  ASSUME InitComms
  PROVE  CommsInv
<1>1. PICK told \in Statuses :
        comms = Fresh(
          [ phase |-> "down", profile |-> None, state |-> None,
            absorbing |-> FALSE, resolved |-> None, downlink |-> NoDownlink,
            requested |-> TRUE, bootSaid |-> None, queue |-> <<>>, photo |-> None,
            age |-> None, published |-> None, present |-> FALSE,
            port |-> FALSE, inbox |-> <<>>, quiet |-> Longest,
            said |-> None, told |-> told, boots |-> 0, orders |-> <<>>,
            asked |-> <<>>, frame |-> None, taken |-> 0, node |-> TRUE,
            sent |-> <<>> ])
  BY DEF InitComms
<1> DEFINE c == [ phase |-> "down", profile |-> None, state |-> None,
                  absorbing |-> FALSE, resolved |-> None, downlink |-> NoDownlink,
                  requested |-> TRUE, bootSaid |-> None, queue |-> <<>>,
                  photo |-> None, age |-> None, published |-> None,
                  present |-> FALSE, port |-> FALSE, inbox |-> <<>>,
                  quiet |-> Longest, said |-> None, told |-> told, boots |-> 0,
                  orders |-> <<>>, asked |-> <<>>, frame |-> None, taken |-> 0,
                  node |-> TRUE, sent |-> <<>> ]
           r == Fresh(c)
<1>2. /\ Longest \in Ages /\ 0 \in Numbers /\ 0 \in Boots
      /\ NoDownlink \in Downlinks
  BY Schedules, Numbered DEF NoDownlink, Downlinks, Ages, Boots
<1>3. /\ <<>> \in Seq(Entries) /\ <<>> \in Seq(Heard)
      /\ <<>> \in Seq({"on", "off"}) /\ <<>> \in Seq(Numbers) /\ <<>> \in Seq(Replies)
  OBVIOUS
<1>4. c \in CommsState
  BY <1>2, <1>3, NoneFits DEF CommsState
<1>5. c.boots = 0 /\ c.taken = 0 /\ c.asked = <<>> /\ c.sent = <<>>
  OBVIOUS
<1>6. comms = r
  BY <1>1
<1> HIDE DEF c
<1>7. /\ r \in CommsState /\ SameCount(c, r)
      /\ r.phase = "down" /\ ~r.absorbing /\ r.queue = <<>> /\ r.inbox = <<>>
      /\ r.age = None /\ r.quiet = Longest
      /\ r.asked = c.asked /\ r.sent = c.sent
  BY <1>4, FreshTyped
<1> HIDE DEF r
<1>8. Patient(r.queue) /\ Charged(r) /\ Rationed(r)
  <2>1. Patient(<<>>)
    BY DEF Patient
  <2>2. Charged(r)
    BY <1>7 DEF Charged
  <2>3. Rationed(r)
    BY <1>5, <1>7, SilenceRationed
  <2> QED BY <1>7, <2>1, <2>2, <2>3
<1>9. left \in [Kinds -> Nat] /\ left = Limits
  BY CommsAssumption DEF InitComms
<1>10. Counted(r, left)
  <2>1. r.boots = 0 /\ r.taken = 0 /\ r.asked = <<>> /\ r.inbox = <<>>
    BY <1>5, <1>7 DEF SameCount
  <2>2. left["rare"] = Limits.rare /\ left["heard"] = Limits.heard
    BY <1>9
  <2>3. /\ 0 + left["rare"] <= Limits.rare
        /\ 0 + (0 + 0) <= Limits.heard - left["heard"]
    BY <2>2, Numbered
  <2>4. Len(<<>>) = 0
    OBVIOUS
  <2> QED BY <2>1, <2>3, <2>4 DEF Counted
<1> QED BY <1>6, <1>7, <1>8, <1>9, <1>10 DEF CommsInv

LEMMA CommsKept ==
  ASSUME CommsInv, [NextComms]_commsVars
  PROVE  CommsInv'
<1>1. CASE UNCHANGED commsVars
  BY <1>1 DEF commsVars, CommsInv
<1>2. CASE CommsConnects
  BY <1>2, ConnectsKeeps
<1>3. CASE CommsProbes
  BY <1>3, ProbesKeeps
<1>4. CASE CommsTicks
  BY <1>4, TicksKeeps
<1>5. CASE CommsStops
  BY <1>5, StopsKeeps
<1>6. CASE CommsEnds
  BY <1>6, FreshKeeps DEF CommsEnds
<1>7. CASE CommsCrashes
  BY <1>7, FreshKeeps DEF CommsCrashes
<1>8. CASE ObcSays
  BY <1>8, SaysKeeps
<1>9. CASE ObcBoots
  BY <1>9, BootsKeeps
<1>10. CASE HandlesObcStatus
  BY <1>10, HandlesKeeps
<1>11. CASE TakesOrder
  BY <1>11, OrderKeeps
<1>12. CASE PhotoArrives
  BY <1>12, PhotoKeeps
<1>13. CASE BrokerReturns
  BY <1>13, BrokerKeeps
<1>14. CASE PayloadAnswers
  BY <1>14, AnswersKeeps
<1>15. CASE NodeHears
  BY <1>15, HearsKeeps
<1>16. CASE NodeFails \/ NodeReturns
  BY <1>16, NodeKeeps
<1>17. CASE TimePasses
  BY <1>17, TimeKeeps
<1> QED BY <1>1, <1>2, <1>3, <1>4, <1>5, <1>6, <1>7, <1>8, <1>9, <1>10, <1>11,
           <1>12, <1>13, <1>14, <1>15, <1>16, <1>17 DEF NextComms

LEMMA CommsHolds == SpecComms => []CommsInv
<1>1. InitComms => CommsInv
  BY CommsStarts
<1>2. CommsInv /\ [NextComms]_commsVars => CommsInv'
  BY CommsKept
<1> QED BY <1>1, <1>2, PTL DEF SpecComms

(***************************************************************************)
(* No reply is lost without a reason.  Lines are numbered as they are      *)
(* heard, and queue and inbox hold them in that order, the queue the older *)
(* ones: that is why whatever pushes a reply out of the queue is newer     *)
(* than the reply.                                                         *)
(***************************************************************************)
InOrder(c) ==
  /\ Rising(c.queue) /\ Rising(c.inbox)
  /\ \A i \in 1 .. Len(c.queue), j \in 1 .. Len(c.inbox) :
       c.queue[i].n < c.inbox[j].n

\* No line has a number above m.
UpTo(c, m) ==
  /\ \A i \in 1 .. Len(c.queue) : c.queue[i].n <= m
  /\ \A i \in 1 .. Len(c.inbox) : c.inbox[i].n <= m

\* What excuses a reply within a wake: Excused, but for the process and the
\* envelope.
Waived(c, n) ==
  LET newer == {m \in Owed(c) : m > n}
  IN  \/ IsQuery(c, n) /\ \E m \in newer : IsQuery(c, m)
      \/ Cardinality(newer) >= MaxPending

LEMMA OwedOf ==
  ASSUME NEW c \in CommsState
  PROVE  /\ Owed(c) \in SUBSET Numbers
         /\ \A n : n \in Accepted(c) <=> \E i \in 1 .. Len(c.queue) : n = c.queue[i].n
         /\ \A n : n \in Deserving(c) <=>
              \E j \in 1 .. Len(c.inbox) : n = c.inbox[j].n /\ Deserves(c.inbox[j])
         /\ \A i \in 1 .. Len(c.queue) :
              c.queue[i].query => IsQuery(c, c.queue[i].n)
         /\ \A j \in 1 .. Len(c.inbox) :
              c.inbox[j].line.verb \in Queries => IsQuery(c, c.inbox[j].n)
<1>1. /\ c.queue \in Seq(Entries) /\ DOMAIN c.queue = 1 .. Len(c.queue)
      /\ c.inbox \in Seq(Heard) /\ DOMAIN c.inbox = 1 .. Len(c.inbox)
  <2>1. c.queue \in Seq(Entries) /\ c.inbox \in Seq(Heard)
    BY CommsShape
  <2> QED BY <2>1
<1>2. \A n : n \in Accepted(c) <=> \E i \in 1 .. Len(c.queue) : n = c.queue[i].n
  BY <1>1 DEF Accepted, Range
<1>3. \A n : n \in Deserving(c) <=>
        \E j \in 1 .. Len(c.inbox) : n = c.inbox[j].n /\ Deserves(c.inbox[j])
  BY <1>1, Zenon DEF Deserving, Range, Deserves
<1>4. \A i \in 1 .. Len(c.queue) : c.queue[i].query => IsQuery(c, c.queue[i].n)
  BY <1>1, Zenon DEF IsQuery, Range
<1>5. \A j \in 1 .. Len(c.inbox) :
        c.inbox[j].line.verb \in Queries => IsQuery(c, c.inbox[j].n)
  BY <1>1, Zenon DEF IsQuery, Range
<1>6. ASSUME NEW n \in Owed(c)
      PROVE  n \in Numbers
  <2>1. CASE n \in Accepted(c)
    <3>1. PICK i \in 1 .. Len(c.queue) : n = c.queue[i].n
      BY <1>2, <2>1
    <3>2. c.queue[i] \in Entries
      BY <1>1, ElementOf
    <3> QED BY <3>1, <3>2, EntryShape
  <2>2. CASE n \in Deserving(c)
    <3>1. PICK j \in 1 .. Len(c.inbox) : n = c.inbox[j].n
      BY <1>3, <2>2
    <3>2. c.inbox[j] \in Heard
      BY <1>1, ElementOf
    <3> QED BY <3>1, <3>2 DEF Heard
  <2> QED BY <2>1, <2>2 DEF Owed
<1> QED BY <1>2, <1>3, <1>4, <1>5, <1>6

\* As many newer replies as the queue has places.
LEMMA Crowded ==
  ASSUME NEW c \in CommsState, NEW s \in Seq(Entries), Rising(s),
         Len(s) = MaxPending, NEW n \in Nat,
         \A k \in 1 .. Len(s) : s[k].n \in Owed(c) /\ s[k].n > n
  PROVE  Waived(c, n)
<1> DEFINE newer == {m \in Owed(c) : m > n}
           f == [k \in 1 .. MaxPending |-> s[k].n]
<1>1. /\ MaxPending \in Nat /\ Limits.heard \in Nat
      /\ Owed(c) \subseteq 0 .. Limits.heard
  BY OwedOf, Numbered
<1>2. IsFiniteSet(newer)
  <2>1. IsFiniteSet(0 .. Limits.heard)
    BY <1>1, FS_Interval
  <2>2. newer \subseteq 0 .. Limits.heard
    BY <1>1
  <2> HIDE DEF newer
  <2> QED BY <2>1, <2>2, FS_Subset
<1>3. f \in Injection(1 .. MaxPending, newer)
  <2>1. f \in [1 .. MaxPending -> newer]
    OBVIOUS
  <2>2. ASSUME NEW i \in 1 .. MaxPending, NEW j \in 1 .. MaxPending, f[i] = f[j]
        PROVE  i = j
    <3>1. i < j => s[i].n < s[j].n
      BY DEF Rising
    <3>2. j < i => s[j].n < s[i].n
      BY DEF Rising
    <3>3. s[i].n = s[j].n /\ s[i].n \in Nat
      BY <1>1, <2>2
    <3> QED BY <1>1, <3>1, <3>2, <3>3
  <2> HIDE DEF f, newer
  <2> QED BY <2>1, <2>2 DEF Injection, IsInjective
<1>4. Cardinality(1 .. MaxPending) = MaxPending
  BY <1>1, FS_Interval, Numbered
<1>5. Cardinality(newer) >= MaxPending
  <2>1. Cardinality(newer) \in Nat
    BY <1>2, FS_CardinalityType
  <2> HIDE DEF f, newer
  <2> QED BY <1>1, <1>2, <1>3, <1>4, <2>1, FS_Injection
<1> QED BY <1>5 DEF Waived

\* After k lines of a wake that began as c: every reply owed so far is in the
\* queue, in its order and before what is still to come, or is waived.
Recalls(c, k, r) ==
  /\ r.queue \in Seq(Entries) /\ Rising(r.queue)
  /\ \A i \in 1 .. Len(r.queue) :
       /\ r.queue[i].n \in Owed(c)
       /\ r.queue[i].query => IsQuery(c, r.queue[i].n)
       /\ \A j \in k + 1 .. Len(c.inbox) : r.queue[i].n < c.inbox[j].n
  /\ \A i \in 1 .. Len(c.queue) :
       c.queue[i].n \in Accepted(r) \/ Waived(c, c.queue[i].n)
  /\ \A j \in 1 .. k :
       Deserves(c.inbox[j]) => \/ c.inbox[j].n \in Accepted(r)
                               \/ Waived(c, c.inbox[j].n)

\* What is in the queue before a line is in it afterwards, or is waived.
LEMMA JoinRecalls ==
  ASSUME NEW c \in CommsState, InOrder(c), NEW k \in 1 .. Len(c.inbox),
         NEW p, Recalls(c, k - 1, p), NEW r, NEW entry \in Entries,
         Joined(p.queue, entry, r.queue), entry.n = c.inbox[k].n,
         Deserves(c.inbox[k]), entry.query => c.inbox[k].line.verb \in Queries
  PROVE  Recalls(c, k, r)
<1> DEFINE old == p.queue
           new == r.queue
           h == c.inbox[k]
<1>1. /\ old \in Seq(Entries) /\ Len(old) \in Nat
      /\ new \in Seq(Entries) /\ Len(new) \in Nat /\ Len(new) >= 1
      /\ k \in Nat /\ Len(c.inbox) \in Nat /\ k >= 1 /\ k <= Len(c.inbox)
      /\ c.inbox \in Seq(Heard)
  <2>1. Len(c.inbox) \in Nat /\ c.inbox \in Seq(Heard)
    BY LengthsOf
  <2> QED BY <2>1 DEF Recalls, Joined
<1>2. /\ h.n \in Owed(c) /\ (entry.query => IsQuery(c, h.n))
      /\ h.n \in Nat /\ Owed(c) \subseteq Nat
  <2>1. h.n \in Deserving(c) /\ (h.line.verb \in Queries => IsQuery(c, h.n))
    BY OwedOf
  <2>2. Owed(c) \subseteq Nat
    BY OwedOf, Numbered
  <2> QED BY <2>1, <2>2 DEF Owed
\* The old ones, and the new one after them.
<1>3. ASSUME NEW i \in 1 .. Len(old)
      PROVE  /\ old[i].n \in Owed(c) /\ old[i].n \in Nat /\ old[i].n < h.n
             /\ old[i].query => IsQuery(c, old[i].n)
             /\ \A j \in k + 1 .. Len(c.inbox) : old[i].n < c.inbox[j].n
  <2>1. /\ old[i].n \in Owed(c)
        /\ old[i].query => IsQuery(c, old[i].n)
        /\ \A j \in (k - 1) + 1 .. Len(c.inbox) : old[i].n < c.inbox[j].n
    BY DEF Recalls
  <2>2. (k - 1) + 1 = k
    BY <1>1
  <2> HIDE DEF old, h
  <2> QED BY <1>1, <1>2, <2>1, <2>2 DEF h
<1>4. \A j \in k + 1 .. Len(c.inbox) : h.n < c.inbox[j].n
  BY <1>1 DEF InOrder, Rising
<1>5. ASSUME NEW i \in 1 .. Len(new)
      PROVE  \/ i = Len(new) /\ new[i] = entry
             \/ i < Len(new) /\ \E j \in 1 .. Len(old) : new[i] = old[j]
  <2>1. CASE i = Len(new)
    BY <2>1 DEF Joined
  <2>2. CASE i # Len(new)
    <3>1. i \in 1 .. Len(new) - 1 /\ i < Len(new)
      BY <1>1, <2>2
    <3>2. PICK j \in i .. Len(old) : new[i] = old[j]
      BY <3>1 DEF Joined
    <3>3. j \in 1 .. Len(old)
      BY <1>1, <3>2
    <3> QED BY <3>1, <3>2, <3>3
  <2> QED BY <2>1, <2>2
<1>6. ASSUME NEW i \in 1 .. Len(new)
      PROVE  /\ new[i].n \in Owed(c)
             /\ new[i].query => IsQuery(c, new[i].n)
             /\ \A j \in k + 1 .. Len(c.inbox) : new[i].n < c.inbox[j].n
  <2> HIDE DEF new, old, h
  <2>1. CASE new[i] = entry
    BY <1>2, <1>4, <2>1 DEF h
  <2>2. CASE \E j \in 1 .. Len(old) : new[i] = old[j]
    BY <1>3, <2>2
  <2> QED BY <1>5, <2>1, <2>2
<1>7. Rising(new)
  <2> SUFFICES ASSUME NEW i \in 1 .. Len(new), NEW j \in 1 .. Len(new), i < j
               PROVE  new[i].n < new[j].n
    BY DEF Rising
  <2>1. i \in 1 .. Len(new) - 1
    BY <1>1
  <2>2. CASE j = Len(new)
    <3>1. new[j] = entry
      BY <2>2 DEF Joined
    <3>2. PICK l \in i .. Len(old) : new[i] = old[l]
      BY <2>1 DEF Joined
    <3>3. l \in 1 .. Len(old)
      BY <1>1, <3>2
    <3> HIDE DEF new, old, h
    <3> QED BY <1>3, <3>1, <3>2, <3>3 DEF h
  <2>3. CASE j # Len(new)
    <3>1. j \in 1 .. Len(new) - 1
      BY <1>1, <2>3
    <3>2. PICK x, y \in 1 .. Len(old) : x < y /\ new[i] = old[x] /\ new[j] = old[y]
      BY <2>1, <3>1 DEF Joined
    <3>3. old[x].n < old[y].n
      BY <3>2 DEF Recalls, Rising
    <3> QED BY <3>2, <3>3
  <2> QED BY <2>2, <2>3
<1>8. entry.n \in Accepted(r)
  <2>1. DOMAIN new = 1 .. Len(new) /\ Len(new) \in 1 .. Len(new)
    BY <1>1
  <2>2. new[Len(new)] = entry
    BY DEF Joined
  <2> QED BY <2>1, <2>2 DEF Accepted, Range
\* What went.
<1>9. ASSUME NEW l \in 1 .. Len(old)
      PROVE  old[l].n \in Accepted(r) \/ Waived(c, old[l].n)
  <2>1. CASE \E i \in 1 .. Len(new) - 1 : new[i] = old[l]
    <3>1. PICK i \in 1 .. Len(new) - 1 : new[i] = old[l]
      BY <2>1
    <3>2. i \in DOMAIN new
      BY <1>1
    <3> QED BY <3>1, <3>2 DEF Accepted, Range
  <2>2. CASE old[l].query /\ entry.query
    <3>1. IsQuery(c, old[l].n) /\ IsQuery(c, h.n) /\ h.n \in Owed(c) /\ h.n > old[l].n
      BY <1>2, <1>3, <2>2
    <3> HIDE DEF old, h
    <3> QED BY <3>1 DEF Waived
  <2>3. CASE /\ Len(new) = MaxPending
             /\ \A i \in 1 .. Len(new) - 1 :
                  \E x, y \in 1 .. Len(old) :
                    x < y /\ old[x] = old[l] /\ new[i] = old[y]
    <3>1. ASSUME NEW i \in 1 .. Len(new)
          PROVE  new[i].n \in Owed(c) /\ new[i].n > old[l].n
      <4>1. CASE i = Len(new)
        <5>1. new[i] = entry
          BY <4>1 DEF Joined
        <5> HIDE DEF new, old, h
        <5> QED BY <1>2, <1>3, <5>1 DEF h
      <4>2. CASE i # Len(new)
        <5>1. i \in 1 .. Len(new) - 1
          BY <1>1, <4>2
        <5>2. PICK x, y \in 1 .. Len(old) :
                x < y /\ old[x] = old[l] /\ new[i] = old[y]
          BY <2>3, <5>1
        <5>3. old[x].n < old[y].n
          BY <5>2 DEF Recalls, Rising
        <5> HIDE DEF new, old
        <5> QED BY <1>6, <5>2, <5>3
      <4> QED BY <4>1, <4>2
    <3>2. old[l].n \in Nat
      BY <1>3
    <3> HIDE DEF old
    <3> QED BY <1>1, <1>7, <2>3, <3>1, <3>2, Crowded
  <2> QED BY <2>1, <2>2, <2>3 DEF Joined
<1>10. ASSUME NEW n \in Accepted(p)
       PROVE  n \in Accepted(r) \/ Waived(c, n)
  <2>1. PICK l \in DOMAIN old : n = old[l].n
    BY DEF Accepted, Range
  <2>2. l \in 1 .. Len(old)
    BY <1>1
  <2> HIDE DEF old
  <2> QED BY <1>9, <2>1, <2>2
<1>11. ASSUME NEW i \in 1 .. Len(c.queue)
       PROVE  c.queue[i].n \in Accepted(r) \/ Waived(c, c.queue[i].n)
  BY <1>10 DEF Recalls
<1>12. ASSUME NEW j \in 1 .. k, Deserves(c.inbox[j])
       PROVE  c.inbox[j].n \in Accepted(r) \/ Waived(c, c.inbox[j].n)
  <2>1. CASE j = k
    BY <1>8, <2>1
  <2>2. CASE j # k
    <3>1. j \in 1 .. k - 1
      BY <1>1, <2>2
    <3> QED BY <1>10, <1>12, <3>1 DEF Recalls
  <2> QED BY <2>1, <2>2
<1> QED BY <1>1, <1>6, <1>7, <1>11, <1>12 DEF Recalls

LEMMA RelayRecalls ==
  ASSUME NEW c \in CommsState, InOrder(c), NEW k \in 1 .. Len(c.inbox),
         NEW p, Recalls(c, k - 1, p), NEW r, r.queue \in Seq(Entries),
         Relayed(p, c.inbox[k], r)
  PROVE  Recalls(c, k, r)
<1>1. CASE r.queue = p.queue /\ ~Deserves(c.inbox[k])
  <2>1. k \in Nat /\ Len(c.inbox) \in Nat /\ k >= 1
    BY LengthsOf
  <2>2. Accepted(r) = Accepted(p)
    BY <1>1 DEF Accepted
  <2>3. ASSUME NEW j \in 1 .. k, Deserves(c.inbox[j])
        PROVE  c.inbox[j].n \in Accepted(r) \/ Waived(c, c.inbox[j].n)
    <3>1. j \in 1 .. k - 1
      BY <1>1, <2>1, <2>3
    <3> QED BY <2>2, <2>3, <3>1 DEF Recalls
  <2>4. ASSUME NEW i \in 1 .. Len(r.queue), NEW j \in k + 1 .. Len(c.inbox)
        PROVE  r.queue[i].n < c.inbox[j].n
    <3>1. j \in (k - 1) + 1 .. Len(c.inbox)
      BY <2>1
    <3> QED BY <1>1, <3>1 DEF Recalls
  <2>5. \A i \in 1 .. Len(r.queue) :
          /\ r.queue[i].n \in Owed(c)
          /\ r.queue[i].query => IsQuery(c, r.queue[i].n)
    BY <1>1 DEF Recalls
  <2>6. \A i \in 1 .. Len(c.queue) :
          c.queue[i].n \in Accepted(r) \/ Waived(c, c.queue[i].n)
    BY <2>2 DEF Recalls
  <2>7. Rising(r.queue)
    BY <1>1 DEF Recalls
  <2> QED BY <2>3, <2>4, <2>5, <2>6, <2>7 DEF Recalls
<1>2. ASSUME NEW entry \in Entries, Joined(p.queue, entry, r.queue),
             Deserves(c.inbox[k]), entry.n = c.inbox[k].n,
             entry.query => c.inbox[k].line.verb \in Queries
      PROVE  Recalls(c, k, r)
  BY <1>2, JoinRecalls
<1> QED BY <1>1, <1>2 DEF Relayed

\* Nothing has been relayed yet.
LEMMA WakeBegins ==
  ASSUME NEW c \in CommsState, InOrder(c), NEW r, r.queue = c.queue
  PROVE  Recalls(c, 0, r)
<1>1. c.queue \in Seq(Entries) /\ Len(c.inbox) \in Nat
  BY CommsShape, LengthsOf
<1>2. Accepted(r) = Accepted(c)
  BY DEF Accepted
<1>3. ASSUME NEW i \in 1 .. Len(r.queue)
      PROVE  /\ r.queue[i].n \in Owed(c)
             /\ r.queue[i].query => IsQuery(c, r.queue[i].n)
             /\ \A j \in 0 + 1 .. Len(c.inbox) : r.queue[i].n < c.inbox[j].n
             /\ c.queue[i].n \in Accepted(r)
  <2>1. r.queue[i].n \in Accepted(c)
    BY OwedOf
  <2>2. r.queue[i].query => IsQuery(c, r.queue[i].n)
    BY OwedOf
  <2>3. \A j \in 0 + 1 .. Len(c.inbox) : r.queue[i].n < c.inbox[j].n
    BY DEF InOrder
  <2> QED BY <1>2, <2>1, <2>2, <2>3 DEF Owed
<1>4. Rising(r.queue)
  BY DEF InOrder
<1> QED BY <1>1, <1>3, <1>4 DEF Recalls

\* The first n lines of a wake have been relayed.
LEMMA WakeRecalls ==
  ASSUME NEW c \in CommsState, Patient(c.queue), InOrder(c),
         NEW f, RelayedUpTo(c, Len(c.inbox), f), NEW n \in 0 .. Len(c.inbox)
  PROVE  Recalls(c, n, f[n])
<1> DEFINE Wrong == {k \in 0 .. Len(c.inbox) : ~Recalls(c, k, f[k])}
<1> SUFFICES ASSUME n \in Wrong
             PROVE  FALSE
  OBVIOUS
<1>0. c.inbox \in Seq(Heard) /\ Len(c.inbox) \in Nat
  BY LengthsOf
<1>1. PICK m \in Wrong : \A k \in Wrong : m <= k
  <2> HIDE DEF Wrong
  <2>1. Wrong \in SUBSET Nat
    BY <1>0 DEF Wrong
  <2> QED BY <2>1, Least
<1>2. m \in 0 .. Len(c.inbox) /\ m \in Nat
  BY <1>0
<1>3. CASE m = 0
  <2> DEFINE r == [c EXCEPT !.inbox = <<>>]
  <2>1. f[0] = r
    <3>1. 0 \in 0 .. Len(c.inbox)
      BY <1>0
    <3> HIDE DEF r
    <3>2. f[0] = [c EXCEPT !.inbox = <<>>]
      BY <3>1 DEF RelayedUpTo
    <3> QED BY <3>2 DEF r
  <2>2. <<>> \in Seq(Heard)
    OBVIOUS
  <2>3. r.queue = c.queue
    BY <2>2, SetInbox
  <2> HIDE DEF r
  <2>4. Recalls(c, 0, r)
    BY <2>3, WakeBegins
  <2> QED BY <1>1, <1>3, <2>1, <2>4
<1>4. CASE m # 0
  <2>1. m - 1 \in 0 .. Len(c.inbox) /\ m - 1 \notin Wrong /\ m \in 1 .. Len(c.inbox)
    <3> HIDE DEF Wrong
    <3> QED BY <1>0, <1>1, <1>2, <1>4
  <2> DEFINE p == f[m - 1]
             r == f[m]
             h == c.inbox[m]
  <2>2. Recalls(c, m - 1, p)
    BY <2>1
  <2>3. r = Relay(p, h)
    BY <1>2, <1>4 DEF RelayedUpTo
  <2>4. h \in Heard
    BY <1>0, <2>1, ElementOf
  <2>5. p \in CommsState /\ Patient(p.queue)
    <3>1. Uplinked(c, m - 1, p)
      BY <2>1, RelayedKeeps
    <3> QED BY <3>1 DEF Uplinked, OnlyUplink
  <2> HIDE DEF p, r
  <2>6. Relayed(p, h, r) /\ r.queue \in Seq(Entries)
    <3> HIDE DEF h
    <3> QED BY <2>3, <2>4, <2>5, RelayKeeps DEF Patient
  <2>7. Recalls(c, m, r)
    BY <2>1, <2>2, <2>6, RelayRecalls
  <2> QED BY <1>1, <2>7 DEF r
<1> QED BY <1>3, <1>4

\* _collect_uplink, while it reads the inbox.
LEMMA CollectRecalls ==
  ASSUME NEW c \in CommsState, Patient(c.queue), InOrder(c), Listening(c)
  PROVE  /\ Recalls(c, Len(c.inbox), CollectUplink(c))
         /\ CollectUplink(c).inbox = <<>>
<1>1. Len(c.inbox) \in Nat /\ Len(c.inbox) \in 0 .. Len(c.inbox)
  BY LengthsOf
<1>2. PICK f : RelayedUpTo(c, Len(c.inbox), f) /\ CollectUplink(c) = f[Len(c.inbox)]
  BY <1>1, CollectComputed
<1>3. Uplinked(c, Len(c.inbox), f[Len(c.inbox)])
  BY <1>1, <1>2, RelayedKeeps
<1> QED BY <1>1, <1>2, <1>3, WakeRecalls DEF Uplinked

\* One entry of a queue has gone, and no other.
LEMMA OneGoes ==
  ASSUME NEW queue \in Seq(Entries), Rising(queue), NEW i \in 1 .. Len(queue)
  PROVE  LET rest == RemoveAt(queue, i)
         IN  /\ rest \in Seq(Entries) /\ Rising(rest)
             /\ \A k \in 1 .. Len(rest) : \E j \in 1 .. Len(queue) : rest[k] = queue[j]
             /\ \A j \in 1 .. Len(queue) :
                  j = i \/ \E k \in 1 .. Len(rest) : rest[k] = queue[j]
<1> DEFINE rest == RemoveAt(queue, i)
           At(k) == IF k < i THEN k ELSE k + 1
<1>1. /\ rest \in Seq(Entries) /\ Len(rest) = Len(queue) - 1
      /\ \A k \in 1 .. i - 1 : rest[k] = queue[k]
      /\ \A k \in i .. Len(rest) : rest[k] = queue[k + 1]
      /\ Len(queue) \in Nat
  BY RemoveOne
<1> HIDE DEF rest
<1>2. ASSUME NEW k \in 1 .. Len(rest)
      PROVE  At(k) \in 1 .. Len(queue) /\ rest[k] = queue[At(k)]
  <2>1. CASE k < i
    <3>1. k \in 1 .. i - 1 /\ k \in 1 .. Len(queue)
      BY <1>1, <2>1
    <3> QED BY <1>1, <2>1, <3>1
  <2>2. CASE ~(k < i)
    <3>1. k \in i .. Len(rest) /\ k + 1 \in 1 .. Len(queue)
      BY <1>1, <2>2
    <3> QED BY <1>1, <2>2, <3>1
  <2> QED BY <2>1, <2>2
<1>3. \A k, l \in 1 .. Len(rest) : k < l => At(k) < At(l)
  BY <1>1
<1>4. \A j \in 1 .. Len(queue) : j = i \/ \E k \in 1 .. Len(rest) : At(k) = j
  <2> TAKE j \in 1 .. Len(queue)
  <2>1. CASE j < i
    <3>1. j \in 1 .. Len(rest) /\ At(j) = j
      BY <1>1, <2>1
    <3> QED BY <3>1
  <2>2. CASE j > i
    <3>1. j - 1 \in 1 .. Len(rest) /\ At(j - 1) = j
      BY <1>1, <2>2
    <3> QED BY <3>1
  <2> QED BY <1>1, <2>1, <2>2
<1> HIDE DEF At
<1>5. Rising(rest)
  BY <1>2, <1>3 DEF Rising
<1>6. /\ \A k \in 1 .. Len(rest) : \E j \in 1 .. Len(queue) : rest[k] = queue[j]
      /\ \A j \in 1 .. Len(queue) :
           j = i \/ \E k \in 1 .. Len(rest) : rest[k] = queue[j]
  BY <1>2, <1>4
<1> QED BY <1>1, <1>5, <1>6 DEF rest

\* What a wake leaves of the replies owed: each is still in the queue, has been
\* answered or is waived, but for one that has been tried in vain.
Settles(c, r) ==
  \/ \A n \in Owed(c) : n \in Accepted(r) \/ n \in Answers(r) \/ Waived(c, n)
  \/ /\ r.present = FALSE
     /\ \E x : \A n \in Owed(c) : n = x \/ n \in Accepted(r) \/ Waived(c, n)

LEMMA TickSettles ==
  ASSUME NEW c \in CommsState, Patient(c.queue), Charged(c), c.sent = <<>>,
         Shows(c), InOrder(c), Listening(c)
  PROVE  LET r == Tick(c)
         IN  /\ r.inbox = <<>> /\ Rising(r.queue) /\ Settles(c, r)
             /\ \A k \in 1 .. Len(r.queue) : r.queue[k].n \in Owed(c)
<1> DEFINE u == CollectUplink(c)
           a == MaybeAck(u)
           b == MaybeBeacon(a)
           r == PublishStatus(b)
<1>0. Tick(c) = r
  BY DEF Tick
<1>1. /\ OnlyUplink(c, u) /\ Recalls(c, Len(c.inbox), u) /\ u.inbox = <<>>
  BY CollectKeeps, CollectRecalls
<1> HIDE DEF u
<1>2. u \in CommsState /\ u.sent = <<>> /\ Listening(u)
  BY <1>1 DEF OnlyUplink, SameAir, SameBase, Listening
<1>3. ASSUME NEW n \in Owed(c)
      PROVE  n \in Accepted(u) \/ Waived(c, n)
  <2>1. CASE n \in Accepted(c)
    <3>1. PICK i \in 1 .. Len(c.queue) : n = c.queue[i].n
      BY <2>1, OwedOf
    <3> QED BY <1>1, <3>1 DEF Recalls
  <2>2. CASE n \in Deserving(c)
    <3>1. PICK j \in 1 .. Len(c.inbox) : n = c.inbox[j].n /\ Deserves(c.inbox[j])
      BY <2>2, OwedOf
    <3> QED BY <1>1, <3>1 DEF Recalls
  <2> QED BY <2>1, <2>2 DEF Owed
<1>4. /\ a \in CommsState /\ SameBase(u, a) /\ SameSaid(u, a) /\ a.inbox = u.inbox
      /\ \/ a = u
         \/ \E i \in 1 .. Len(u.queue), line \in Replies : Acked(u, a, i, line)
  BY <1>2, MaybeAckTyped
<1> HIDE DEF a
<1>5. /\ OnlyAir(a, b)
      /\ \/ b = a
         \/ Tried(a, b, Line(a, "beacon"))
  BY <1>4, MaybeBeaconTyped
<1> HIDE DEF b
<1>6. OnlySaid(b, r)
  <2>1. b \in CommsState /\ b.published = b.said
    BY <1>1, <1>4, <1>5 DEF OnlyUplink, OnlyAir, SameSaid, Shows
  <2> QED BY <2>1, PublishStates
<1> HIDE DEF r
<1>7. /\ r.queue = a.queue /\ r.inbox = <<>>
      /\ r.sent = b.sent /\ r.present = b.present
  BY <1>1, <1>4, <1>5, <1>6 DEF OnlyAir, OnlySaid, SameUplink, SameAir
<1>8. Accepted(r) = Accepted(a)
  BY <1>7 DEF Accepted
<1>9. u.queue \in Seq(Entries) /\ Rising(u.queue)
      /\ \A k \in 1 .. Len(u.queue) : u.queue[k].n \in Owed(c)
  BY <1>1 DEF Recalls
<1>10. CASE a = u
  <2>1. Rising(r.queue) /\ \A k \in 1 .. Len(r.queue) : r.queue[k].n \in Owed(c)
    BY <1>7, <1>9, <1>10
  <2>2. Settles(c, r)
    BY <1>3, <1>8, <1>10 DEF Settles
  <2> QED BY <1>0, <1>7, <2>1, <2>2
<1>11. ASSUME NEW i \in 1 .. Len(u.queue), NEW line \in Replies,
              Acked(u, a, i, line)
       PROVE  /\ Rising(r.queue) /\ Settles(c, r)
              /\ \A k \in 1 .. Len(r.queue) : r.queue[k].n \in Owed(c)
  <2> DEFINE rest == RemoveAt(u.queue, i)
  <2>1. rest = a.queue /\ line.n = u.queue[i].n /\ Tried(u, a, line)
    BY <1>11 DEF Acked
  <2>2. /\ rest \in Seq(Entries) /\ Rising(rest)
        /\ \A k \in 1 .. Len(rest) : \E j \in 1 .. Len(u.queue) : rest[k] = u.queue[j]
        /\ \A j \in 1 .. Len(u.queue) :
             j = i \/ \E k \in 1 .. Len(rest) : rest[k] = u.queue[j]
    BY <1>9, OneGoes
  <2> HIDE DEF rest
  <2>3. Rising(r.queue) /\ \A k \in 1 .. Len(r.queue) : r.queue[k].n \in Owed(c)
    BY <1>7, <1>9, <2>1, <2>2
  <2>4. ASSUME NEW n \in Accepted(u)
        PROVE  n = line.n \/ n \in Accepted(r)
    <3>1. PICK j \in 1 .. Len(u.queue) : n = u.queue[j].n
      BY <1>2, OwedOf
    <3>2. CASE j = i
      BY <2>1, <3>1, <3>2
    <3>3. CASE j # i
      <4>1. PICK k \in 1 .. Len(rest) : rest[k] = u.queue[j]
        BY <2>2, <3>3
      <4> QED BY <1>4, <1>8, <2>1, <3>1, <4>1, OwedOf
    <3> QED BY <3>2, <3>3
  <2>5. CASE u.node
    <3>1. a.sent = <<line>> /\ line \in Range(a.sent)
      <4>1. a.sent = <<line>>
        BY <1>2, <2>1, <2>5 DEF Tried
      <4> QED BY <4>1 DEF Range
    <3>2. line \in Range(b.sent)
      <4>1. CASE b = a
        BY <3>1, <4>1
      <4>2. CASE Tried(a, b, Line(a, "beacon"))
        <5> DEFINE beacon == Line(a, "beacon")
        <5>1. b.sent = Append(<<line>>, beacon) \/ b.sent = <<line>>
          BY <3>1, <4>2 DEF Tried
        <5> HIDE DEF beacon
        <5> QED BY <5>1 DEF Range
      <4> QED BY <1>5, <4>1, <4>2
    <3>3. line.n \in Answers(r)
      BY <1>7, <3>2 DEF Answers
    <3>4. Settles(c, r)
      BY <1>3, <2>4, <3>3 DEF Settles
    <3> QED BY <2>3, <3>4
  <2>6. CASE ~u.node
    <3>1. a.present = FALSE /\ ~a.node
      BY <1>4, <2>1, <2>6 DEF Tried, SameBase
    <3>2. r.present = FALSE
      BY <1>5, <1>7, <3>1 DEF Tried
    <3>3. Settles(c, r)
      BY <1>3, <2>4, <3>2 DEF Settles
    <3> QED BY <2>3, <3>3
  <2> QED BY <2>5, <2>6
<1> QED BY <1>0, <1>4, <1>7, <1>10, <1>11

\* Another wake, or a tick of the clock, leaves every reply where it is.
Renumbers(queue, new) ==
  /\ new \in Seq(Entries) /\ Len(new) = Len(queue)
  /\ \A i \in 1 .. Len(queue) : new[i].n = queue[i].n

LEMMA WaitedRenumbers ==
  ASSUME NEW queue, Ready(queue)
  PROVE  Renumbers(queue, Waited(queue))
<1> DEFINE new == Waited(queue)
<1>1. /\ queue \in Seq(Entries) /\ DOMAIN queue = 1 .. Len(queue)
      /\ Len(queue) \in Nat
  BY DEF Ready, Patient
<1>2. new \in Seq(Entries)
  BY ReadyWaits DEF Patient
<1>3. Len(new) = Len(queue)
  BY <1>1 DEF Waited
<1>4. ASSUME NEW i \in 1 .. Len(queue)
      PROVE  new[i].n = queue[i].n
  <2> DEFINE e == queue[i]
  <2>1. e \in Entries
    BY <1>1, ElementOf
  <2>2. new[i] = IF e.wait = 0 THEN [e EXCEPT !.wakes = @ + 1] ELSE e
    BY <1>1 DEF Waited
  <2> HIDE DEF new, e
  <2>3. new[i].n = e.n
    BY <2>1, <2>2 DEF Entries
  <2> QED BY <2>3 DEF e
<1> HIDE DEF new
<1>5. Renumbers(queue, new)
  BY <1>2, <1>3, <1>4 DEF Renumbers
<1> QED BY <1>5 DEF new

LEMMA NearerRenumbers ==
  ASSUME NEW queue, Patient(queue)
  PROVE  Renumbers(queue, Nearer(queue))
<1> DEFINE new == Nearer(queue)
<1>1. /\ queue \in Seq(Entries) /\ DOMAIN queue = 1 .. Len(queue)
      /\ Len(queue) \in Nat
  BY DEF Patient
<1>2. new \in Seq(Entries)
  BY NearerPatient DEF Patient
<1>3. Len(new) = Len(queue)
  BY <1>1 DEF Nearer
<1>4. ASSUME NEW i \in 1 .. Len(queue)
      PROVE  new[i].n = queue[i].n
  <2> DEFINE e == queue[i]
             wait == IF e.wait > 0 THEN e.wait - 1 ELSE 0
  <2>1. e \in Entries
    BY <1>1, ElementOf
  <2>2. new[i] = [e EXCEPT !.wait = wait]
    BY <1>1 DEF Nearer
  <2> HIDE DEF new, e, wait
  <2>3. new[i].n = e.n
    BY <2>1, <2>2 DEF Entries
  <2> QED BY <2>3 DEF e
<1> HIDE DEF new
<1>5. Renumbers(queue, new)
  BY <1>2, <1>3, <1>4 DEF Renumbers
<1> QED BY <1>5 DEF new

\* A wake that finds the radio forbidden: the queue is emptied, the inbox not
\* read.
LEMMA TickEmpties ==
  ASSUME NEW c \in CommsState, c.published = c.said, ~Listening(c)
  PROVE  Tick(c).queue = <<>> /\ Tick(c).inbox = c.inbox
<1> DEFINE a == MaybeAck(c)
           b == MaybeBeacon(a)
           r == PublishStatus(b)
<1>0. Tick(c) = r
  BY DEF Tick, CollectUplink
<1>1. /\ a \in CommsState /\ SameSaid(c, a) /\ a.queue = <<>> /\ a.inbox = c.inbox
  <2>1. /\ a \in CommsState /\ SameSaid(c, a) /\ a.inbox = c.inbox
        /\ ~Listening(c) => a.queue = <<>>
    BY MaybeAckTyped
  <2> QED BY <2>1
<1> HIDE DEF a
<1>2. OnlyAir(a, b)
  BY <1>1, MaybeBeaconTyped
<1> HIDE DEF b
<1>3. OnlySaid(b, r)
  <2>1. b \in CommsState /\ b.published = b.said
    BY <1>1, <1>2 DEF OnlyAir, SameSaid
  <2> QED BY <2>1, PublishStates
<1> HIDE DEF r
<1> QED BY <1>0, <1>1, <1>2, <1>3 DEF OnlyAir, OnlySaid, SameUplink

(***************************************************************************)
(* One step per action.                                                    *)
(***************************************************************************)
Ordered(c, l) == InOrder(c) /\ UpTo(c, Limits.heard - l["heard"])

LEMMA NoneLost ==
  ASSUME \A n \in Owed(comms) :
           n \in Owed(comms') \/ n \in Answers(comms') \/ Excused(n)
  PROVE  LossIsExcused
<1> DEFINE lost == {n \in Owed(comms) \ (Owed(comms') \cup Answers(comms')) :
                      ~Excused(n)}
<1>1. lost = {}
  OBVIOUS
<1> HIDE DEF lost
<1>2. Cardinality(lost) = 0
  BY <1>1, FS_EmptySet
<1>3. Cardinality(lost) <= IF comms'.present THEN 0 ELSE 1
  BY <1>2
<1> QED BY <1>3 DEF LossIsExcused, lost

LEMMA OneLost ==
  ASSUME comms'.present = FALSE, NEW x,
         \A n \in Owed(comms) : n = x \/ n \in Owed(comms') \/ Excused(n)
  PROVE  LossIsExcused
<1> DEFINE lost == {n \in Owed(comms) \ (Owed(comms') \cup Answers(comms')) :
                      ~Excused(n)}
<1>1. lost \subseteq {x}
  OBVIOUS
<1> HIDE DEF lost
<1>2. Cardinality(lost) <= 1
  <2>1. IsFiniteSet({x}) /\ Cardinality({x}) = 1
    BY FS_Singleton
  <2> QED BY <1>1, <2>1, FS_Subset
<1>3. Cardinality(lost) <= IF comms'.present THEN 0 ELSE 1
  BY <1>2
<1> QED BY <1>3 DEF LossIsExcused, lost

\* A step that touches neither queue nor inbox.
LEMMA UntouchedOwes ==
  ASSUME Ordered(comms, left), Untouched, left'["heard"] = left["heard"]
  PROVE  Ordered(comms', left') /\ LossIsExcused
<1>1. Ordered(comms', left')
  BY DEF Ordered, InOrder, UpTo, Untouched
<1>2. Owed(comms') = Owed(comms)
  BY DEF Untouched, Owed, Accepted, Deserving
<1> QED BY <1>1, <1>2, NoneLost

\* The lines heard are counted by NodeHears alone.
LEMMA HeardStays ==
  ASSUME left \in [Kinds -> Nat], left' = left \/ Spend("rare") \/ Spend("says")
  PROVE  left'["heard"] = left["heard"]
<1>1. CASE left' = left
  BY <1>1
<1>2. CASE Spend("rare")
  BY <1>2, Spends DEF Kinds
<1>3. CASE Spend("says")
  BY <1>3, Spends DEF Kinds
<1> QED BY <1>1, <1>2, <1>3

\* The process ends, and the queue with it.
LEMMA FreshOwes ==
  ASSUME CommsInv, comms' = Fresh(Now)
  PROVE  Ordered(comms', left') /\ LossIsExcused
<1>1. Now \in CommsState
  BY NowBegins DEF Begun
<1>2. comms'.phase = "down" /\ comms'.queue = <<>> /\ comms'.inbox = <<>>
  BY <1>1, FreshTyped
<1>3. Ordered(comms', left')
  BY <1>2 DEF Ordered, InOrder, UpTo, Rising
<1>4. \A n : Excused(n)
  BY <1>2 DEF Excused
<1> QED BY <1>3, <1>4, NoneLost

LEMMA TimeOwes ==
  ASSUME CommsInv, Ordered(comms, left), TimePasses
  PROVE  Ordered(comms', left') /\ LossIsExcused
<1> DEFINE n == Now
           queue == Nearer(n.queue)
           age == IF n.age = None THEN None ELSE Older(n.age)
           quiet == Older(n.quiet)
<1>1. Begun(n)
  BY NowBegins
<1>2. /\ comms' = [n EXCEPT !.age = age, !.quiet = quiet, !.queue = queue]
      /\ left' = left
  BY DEF TimePasses
<1> HIDE DEF n
<1>3. Renumbers(comms.queue, queue) /\ comms.queue \in Seq(Entries)
  BY <1>1, NearerRenumbers DEF Begun, Patient, SameUplink
<1> HIDE DEF queue, age, quiet
<1>4. comms'.queue = queue /\ comms'.inbox = comms.inbox
  BY <1>1, <1>2 DEF Begun, CommsState, SameUplink
<1>5. Ordered(comms', left')
  BY <1>2, <1>3, <1>4 DEF Ordered, InOrder, UpTo, Rising, Renumbers
<1>6. comms \in CommsState /\ comms' \in CommsState
  BY TimeKeeps DEF CommsInv
<1>7. ASSUME NEW m \in Owed(comms)
      PROVE  m \in Owed(comms')
  <2>1. CASE m \in Accepted(comms)
    <3>1. PICK i \in 1 .. Len(comms.queue) : m = comms.queue[i].n
      BY <1>6, <2>1, OwedOf
    <3>2. i \in DOMAIN queue /\ m = queue[i].n
      BY <1>3, <3>1 DEF Renumbers
    <3> QED BY <1>4, <3>2 DEF Owed, Accepted, Range
  <2>2. CASE m \in Deserving(comms)
    BY <1>4, <2>2 DEF Owed, Deserving
  <2> QED BY <2>1, <2>2 DEF Owed
<1> QED BY <1>5, <1>7, NoneLost

LEMMA HearsOwes ==
  ASSUME CommsInv, Ordered(comms, left), NodeHears
  PROVE  Ordered(comms', left') /\ LossIsExcused
<1> DEFINE n == Now
           number == Limits.heard - left.heard + 1
<1>1. PICK line \in Lines :
        comms' = [n EXCEPT !.inbox = Append(@, [n |-> number, line |-> line])]
  BY DEF NodeHears
<1> DEFINE entry == [n |-> number, line |-> line]
           inbox == Append(n.inbox, entry)
<1>2. Begun(n)
  BY NowBegins
<1>3. comms' = [n EXCEPT !.inbox = inbox]
  BY <1>1
<1> HIDE DEF n, inbox
<1>4. comms'.inbox = inbox /\ comms'.queue = comms.queue
  BY <1>2, <1>3 DEF Begun, CommsState, SameUplink
<1>5. comms \in CommsState /\ comms' \in CommsState
  BY HearsKeeps DEF CommsInv
<1>6. /\ comms.inbox \in Seq(Heard) /\ Len(comms.inbox) \in Nat
      /\ inbox = Append(comms.inbox, entry)
  BY <1>2, <1>5, CommsShape, LengthsOf DEF Begun, SameUplink, inbox
<1>7. /\ left["heard"] \in Nat \ {0} /\ left'["heard"] = left["heard"] - 1
      /\ Limits.heard \in Nat /\ left.heard = left["heard"]
  <2>1. left \in [Kinds -> Nat] /\ "heard" \in Kinds /\ Spend("heard")
    BY DEF CommsInv, Kinds, NodeHears
  <2> QED BY <2>1, Spends, Numbered
<1> DEFINE m == Limits.heard - left["heard"]
<1>8. m \in Int /\ number = m + 1 /\ Limits.heard - left'["heard"] = m + 1
  BY <1>7
<1>9. entry.n = m + 1
  BY <1>8
<1> HIDE DEF number, entry, m
<1>10. InOrder(comms) /\ UpTo(comms, m)
  BY DEF Ordered, m
<1> DEFINE len == Len(comms.inbox)
<1>11. /\ Len(inbox) = len + 1 /\ len \in Nat /\ inbox[len + 1] = entry
       /\ \A i \in 1 .. len : inbox[i] = comms.inbox[i]
  BY <1>6
<1>12. \A i \in 1 .. len + 1 : i = len + 1 \/ i \in 1 .. len
  BY <1>11
<1> HIDE DEF inbox, len
<1>13. ASSUME NEW i \in 1 .. len
       PROVE  comms.inbox[i].n <= m /\ comms.inbox[i].n \in Nat
  <2>1. comms.inbox[i] \in Heard
    BY <1>6, ElementOf DEF len
  <2> QED BY <1>10, <2>1, Numbered DEF UpTo, Heard, len
<1>14. ASSUME NEW i \in 1 .. Len(comms.queue)
       PROVE  comms.queue[i].n <= m /\ comms.queue[i].n \in Nat
  <2>1. comms.queue[i] \in Entries
    BY <1>5, CommsShape, ElementOf
  <2> QED BY <1>10, <2>1, EntryShape, Numbered DEF UpTo
<1>15. Rising(comms'.inbox)
  <2> SUFFICES ASSUME NEW i \in 1 .. len + 1, NEW j \in 1 .. len + 1, i < j
               PROVE  inbox[i].n < inbox[j].n
    BY <1>4, <1>11 DEF Rising
  <2>1. i \in 1 .. len
    BY <1>11
  <2>2. CASE j = len + 1
    <3>1. inbox[i] = comms.inbox[i] /\ inbox[j] = entry
      BY <1>11, <2>1, <2>2
    <3>2. comms.inbox[i].n <= m /\ comms.inbox[i].n \in Nat
      BY <1>13, <2>1
    <3> QED BY <1>8, <1>9, <3>1, <3>2
  <2>3. CASE j \in 1 .. len
    <3>1. inbox[i] = comms.inbox[i] /\ inbox[j] = comms.inbox[j]
      BY <1>11, <2>1, <2>3
    <3>2. comms.inbox[i].n < comms.inbox[j].n
      BY <1>10, <2>1, <2>3 DEF InOrder, Rising, len
    <3> QED BY <3>1, <3>2
  <2> QED BY <1>12, <2>2, <2>3
<1>16. ASSUME NEW i \in 1 .. Len(comms'.queue), NEW j \in 1 .. Len(comms'.inbox)
       PROVE  comms'.queue[i].n < comms'.inbox[j].n
  <2>1. j \in 1 .. len + 1 /\ i \in 1 .. Len(comms.queue)
    BY <1>4, <1>11
  <2>2. CASE j = len + 1
    BY <1>4, <1>8, <1>9, <1>11, <1>14, <2>1, <2>2
  <2>3. CASE j \in 1 .. len
    <3>1. inbox[j] = comms.inbox[j]
      BY <1>11, <2>3
    <3>2. comms.queue[i].n < comms.inbox[j].n
      BY <1>10, <2>1, <2>3 DEF InOrder, len
    <3> QED BY <1>4, <3>1, <3>2
  <2> QED BY <1>12, <2>1, <2>2, <2>3
<1>17. UpTo(comms', m + 1)
  <2>1. ASSUME NEW i \in 1 .. Len(comms'.queue)
        PROVE  comms'.queue[i].n <= m + 1
    BY <1>4, <1>8, <1>14
  <2>2. ASSUME NEW j \in 1 .. Len(comms'.inbox)
        PROVE  comms'.inbox[j].n <= m + 1
    <3>1. j \in 1 .. len + 1
      BY <1>4, <1>11
    <3>2. CASE j = len + 1
      BY <1>4, <1>8, <1>9, <1>11, <3>2
    <3>3. CASE j \in 1 .. len
      BY <1>4, <1>8, <1>11, <1>13, <3>3
    <3> QED BY <1>12, <3>1, <3>2, <3>3
  <2> QED BY <2>1, <2>2 DEF UpTo
<1>18. Ordered(comms', left')
  BY <1>4, <1>8, <1>10, <1>15, <1>16, <1>17 DEF Ordered, InOrder
<1>19. ASSUME NEW k \in Owed(comms)
       PROVE  k \in Owed(comms')
  <2>1. CASE k \in Accepted(comms)
    BY <1>4, <2>1 DEF Owed, Accepted
  <2>2. CASE k \in Deserving(comms)
    <3>1. PICK j \in 1 .. len : k = comms.inbox[j].n /\ Deserves(comms.inbox[j])
      BY <1>5, <2>2, OwedOf DEF len
    <3>2. j \in 1 .. Len(comms'.inbox) /\ comms'.inbox[j] = comms.inbox[j]
      BY <1>4, <1>11
    <3>3. k \in Deserving(comms')
      BY <1>5, <3>1, <3>2, OwedOf
    <3> QED BY <3>3 DEF Owed
  <2> QED BY <2>1, <2>2 DEF Owed
<1> QED BY <1>18, <1>19, NoneLost

LEMMA TicksOwes ==
  ASSUME CommsInv, Ordered(comms, left), CommsTicks
  PROVE  Ordered(comms', left') /\ LossIsExcused
<1> DEFINE n == Now
           t == Tick(n)
           queue == Waited(t.queue)
<1>1. Begun(n)
  BY NowBegins
<1>2. /\ comms' = [t EXCEPT !.queue = queue]
      /\ left' = left /\ comms.phase = "serving"
  <2>1. Woken(t) = [t EXCEPT !.queue = queue]
    <3> HIDE DEF t
    <3> QED BY DEF Woken
  <2> QED BY <2>1 DEF CommsTicks
<1> HIDE DEF n
<1>3. n.queue = comms.queue /\ n.inbox = comms.inbox /\ SameBase(comms, n) /\ Shows(n)
  BY <1>1, <1>2 DEF Begun, SameUplink
<1>4. /\ Owed(n) = Owed(comms) /\ (Listening(n) <=> Listening(comms))
      /\ InOrder(n) /\ UpTo(n, Limits.heard - left["heard"])
  BY <1>3 DEF Owed, Accepted, Deserving, Listening, SameBase, Ordered, InOrder, UpTo
<1>5. ASSUME NEW m, Waived(n, m)
      PROVE  Excused(m)
  <2>1. \A k : IsQuery(n, k) <=> IsQuery(comms, k)
    BY <1>3 DEF IsQuery
  <2> QED BY <1>4, <1>5, <2>1, Zenon DEF Waived, Excused
<1>6. t \in CommsState /\ Ready(t.queue)
  BY <1>1, <1>3, TickKeeps DEF Begun
<1>7. /\ Listening(n) =>
           /\ t.inbox = <<>> /\ Rising(t.queue) /\ Settles(n, t)
           /\ \A k \in 1 .. Len(t.queue) : t.queue[k].n \in Owed(n)
      /\ ~Listening(n) => t.queue = <<>> /\ t.inbox = n.inbox
  <2>1. CASE Listening(n)
    BY <1>1, <1>3, <1>4, <2>1, TickSettles DEF Begun
  <2>2. CASE ~Listening(n)
    BY <1>1, <1>3, <2>2, TickEmpties DEF Begun, Shows
  <2> QED BY <2>1, <2>2
<1> HIDE DEF t
<1>8. Renumbers(t.queue, queue) /\ queue \in Seq(Entries)
  BY <1>6, WaitedRenumbers DEF Renumbers
<1> HIDE DEF queue
<1>9. /\ comms' \in CommsState /\ comms'.queue = queue /\ comms'.inbox = t.inbox
      /\ comms'.sent = t.sent /\ comms'.present = t.present
  BY <1>2, <1>6, <1>8, SetQueue DEF SameAir
<1>10. t.queue \in Seq(Entries) /\ Len(t.queue) \in Nat
  BY <1>6, CommsShape
<1>11. ASSUME NEW m \in Accepted(t)
       PROVE  m \in Owed(comms')
  <2>1. PICK i \in 1 .. Len(t.queue) : m = t.queue[i].n
    BY <1>6, OwedOf
  <2>2. i \in DOMAIN queue /\ m = queue[i].n
    BY <1>8, <1>10, <2>1 DEF Renumbers
  <2> QED BY <1>9, <2>2 DEF Owed, Accepted, Range
<1>12. Answers(comms') = Answers(t)
  BY <1>9 DEF Answers
<1>13. CASE Listening(n)
  <2>1. LossIsExcused
    <3>1. CASE \A m \in Owed(n) : m \in Accepted(t) \/ m \in Answers(t) \/ Waived(n, m)
      <4>1. \A m \in Owed(comms) :
              m \in Owed(comms') \/ m \in Answers(comms') \/ Excused(m)
        BY <1>4, <1>5, <1>11, <1>12, <3>1
      <4> QED BY <4>1, NoneLost
    <3>2. ASSUME NEW x, \A m \in Owed(n) : m = x \/ m \in Accepted(t) \/ Waived(n, m),
                 t.present = FALSE
          PROVE  LossIsExcused
      <4>1. \A m \in Owed(comms) : m = x \/ m \in Owed(comms') \/ Excused(m)
        BY <1>4, <1>5, <1>11, <3>2
      <4>2. comms'.present = FALSE
        BY <1>9, <3>2
      <4> QED BY <4>1, <4>2, OneLost
    <3> QED BY <1>7, <1>13, <3>1, <3>2 DEF Settles
  <2>2. Rising(queue)
    BY <1>7, <1>8, <1>13 DEF Renumbers, Rising
  <2>3. \A k \in 1 .. Len(queue) : queue[k].n \in Owed(n)
    BY <1>7, <1>8, <1>13 DEF Renumbers
  <2>4. \A m \in Owed(n) : m <= Limits.heard - left["heard"]
    <3> TAKE m \in Owed(n)
    <3>1. n \in CommsState
      BY <1>1 DEF Begun
    <3>2. CASE m \in Accepted(n)
      BY <1>4, <3>1, <3>2, OwedOf DEF UpTo
    <3>3. CASE m \in Deserving(n)
      BY <1>4, <3>1, <3>3, OwedOf DEF UpTo
    <3> QED BY <3>2, <3>3 DEF Owed
  <2>5. Ordered(comms', left')
    <3>1. Len(comms'.inbox) = 0 /\ Rising(comms'.inbox)
      BY <1>7, <1>9, <1>13 DEF Rising
    <3> QED BY <1>2, <1>9, <2>2, <2>3, <2>4, <3>1 DEF Ordered, InOrder, UpTo
  <2> QED BY <2>1, <2>5
<1>14. CASE ~Listening(n)
  <2>1. \A m : Excused(m)
    BY <1>4, <1>14 DEF Excused
  <2>2. queue = <<>>
    BY <1>7, <1>8, <1>14 DEF Renumbers
  <2>3. Len(comms'.queue) = 0 /\ comms'.inbox = n.inbox
    BY <1>7, <1>9, <1>14, <2>2
  <2>4. Ordered(comms', left')
    BY <1>2, <1>4, <2>3 DEF Ordered, InOrder, UpTo, Rising
  <2> QED BY <2>1, <2>4, NoneLost
<1> QED BY <1>13, <1>14

\* A step that is neither a wake, a line heard, a tick of the clock nor the end
\* of the process.
LEMMA QuietOwes ==
  ASSUME CommsInv, Ordered(comms, left), Untouched,
         left' = left \/ Spend("rare") \/ Spend("says")
  PROVE  Ordered(comms', left') /\ LossIsExcused
<1>1. left \in [Kinds -> Nat]
  BY DEF CommsInv
<1>2. left'["heard"] = left["heard"]
  BY <1>1, HeardStays
<1> QED BY <1>2, UntouchedOwes

LEMMA StepOwes ==
  ASSUME CommsInv, Ordered(comms, left), NextComms
  PROVE  Ordered(comms', left') /\ LossIsExcused
<1>1. CASE CommsConnects
  BY <1>1, ConnectsKeeps, QuietOwes DEF CommsConnects
<1>2. CASE CommsProbes
  BY <1>2, ProbesKeeps, QuietOwes DEF CommsProbes
<1>3. CASE CommsTicks
  BY <1>3, TicksOwes
<1>4. CASE CommsStops
  BY <1>4, StopsKeeps, QuietOwes DEF CommsStops
<1>5. CASE CommsEnds
  BY <1>5, FreshOwes DEF CommsEnds
<1>6. CASE CommsCrashes
  BY <1>6, FreshOwes DEF CommsCrashes
<1>7. CASE ObcSays
  BY <1>7, SaysKeeps, QuietOwes DEF ObcSays
<1>8. CASE ObcBoots
  BY <1>8, BootsKeeps, QuietOwes DEF ObcBoots
<1>9. CASE HandlesObcStatus
  BY <1>9, HandlesKeeps, QuietOwes DEF HandlesObcStatus
<1>10. CASE TakesOrder
  BY <1>10, OrderKeeps, QuietOwes DEF TakesOrder
<1>11. CASE PhotoArrives
  BY <1>11, PhotoKeeps, QuietOwes DEF PhotoArrives
<1>12. CASE BrokerReturns
  BY <1>12, BrokerKeeps, QuietOwes DEF BrokerReturns
<1>13. CASE PayloadAnswers
  BY <1>13, AnswersKeeps, QuietOwes DEF PayloadAnswers
<1>14. CASE NodeHears
  BY <1>14, HearsOwes
<1>15. CASE NodeFails \/ NodeReturns
  BY <1>15, NodeKeeps, QuietOwes DEF NodeFails, NodeReturns
<1>16. CASE TimePasses
  BY <1>16, TimeOwes
<1> QED BY <1>1, <1>2, <1>3, <1>4, <1>5, <1>6, <1>7, <1>8, <1>9, <1>10, <1>11,
           <1>12, <1>13, <1>14, <1>15, <1>16 DEF NextComms

LEMMA OrderStarts ==
  ASSUME InitComms
  PROVE  Ordered(comms, left)
<1>1. comms.queue = <<>> /\ comms.inbox = <<>>
  BY DEF InitComms, Fresh
<1> QED BY <1>1 DEF Ordered, InOrder, UpTo, Rising

LEMMA OwedHolds == SpecComms => [](CommsInv /\ Ordered(comms, left))
<1> DEFINE Inv == CommsInv /\ Ordered(comms, left)
<1>1. InitComms => Inv
  BY CommsStarts, OrderStarts
<1>2. Inv /\ [NextComms]_commsVars => Inv'
  <2>1. ASSUME Inv, UNCHANGED commsVars
        PROVE  Ordered(comms', left')
    BY <2>1 DEF commsVars, Ordered, InOrder, UpTo
  <2>2. Inv /\ [NextComms]_commsVars => Ordered(comms', left')
    BY <2>1, StepOwes
  <2> QED BY <2>2, CommsKept
<1> HIDE DEF Inv
<1>3. SpecComms => []Inv
  BY <1>1, <1>2, PTL DEF SpecComms
<1> QED BY <1>3 DEF Inv

(***************************************************************************)
(* The theorems.                                                           *)
(***************************************************************************)

\* Every step keeps the state of COMMS and of its environment in its type, and
\* the queue of replies within MAX_PENDING_ACKS.
THEOREM RadioTypeCorrect == SpecComms => []CommsTypeOK
<1>1. CommsInv => CommsTypeOK
  <2> SUFFICES ASSUME CommsInv
               PROVE  CommsTypeOK
    OBVIOUS
  <2>1. Len(comms.queue) <= MaxPending
    <3>1. comms.queue \in Seq(Entries) /\ Patient(comms.queue) /\ MaxPending \in Nat
      BY CommsAssumption DEF CommsInv, Patient
    <3>2. ASSUME Len(comms.queue) > 0
          PROVE  Len(comms.queue) <= MaxPending
      <4> DEFINE i == Len(comms.queue)
                 wakes == comms.queue[i].wakes
      <4>1. i \in 1 .. Len(comms.queue) /\ i \in Nat
        BY <3>1, <3>2
      <4>2. wakes \in Nat
        <5>1. comms.queue[i] \in Entries
          BY <3>1, <4>1, ElementOf
        <5> QED BY <5>1, EntryShape
      <4>3. i + wakes <= MaxPending
        BY <3>1, <4>1 DEF Patient
      <4> HIDE DEF wakes
      <4> QED BY <3>1, <4>1, <4>2, <4>3
    <3> QED BY <3>1, <3>2
  <2> QED BY <2>1 DEF CommsInv, CommsTypeOK
<1> QED BY <1>1, CommsHolds, PTL

\* However the wakes, the orders, the boots and the node fall out, a scheduled
\* beacon never follows another line within the interval of the state, and no
\* step sends two lines: the one budget of _maybe_beacon knows of them all.
THEOREM TheAirIsRationed == SpecComms => []AirtimeIsRationed
<1>1. CommsInv => AirtimeIsRationed
  BY DEF CommsInv, Rationed, AirtimeIsRationed
<1> QED BY <1>1, CommsHolds, PTL

\* What the broker retains of the radio is true while COMMS runs, whichever
\* handler published last: on_connected, a state change, the envelope, an order
\* or a wake.
THEOREM TheStatusIsTrue == SpecComms => []StatusIsTrue
<1>1. CommsInv => StatusIsTrue
  BY DEF CommsInv, Shows, StatusIsTrue, Up
<1> QED BY <1>1, CommsHolds, PTL

\* A reply that is due is tried within MAX_PENDING_ACKS wakes, whatever comes
\* in meanwhile: _schedule_ack never puts anything before it.
THEOREM RepliesGoInTime == SpecComms => []RepliesAreTried
<1>1. CommsInv => RepliesAreTried
  <2> SUFFICES ASSUME CommsInv, NEW entry \in Range(comms.queue)
               PROVE  entry.wakes < MaxPending
    BY DEF RepliesAreTried
  <2>1. Patient(comms.queue) /\ comms.queue \in Seq(Entries) /\ MaxPending \in Nat
    BY CommsAssumption DEF CommsInv, Patient
  <2>2. PICK i \in 1 .. Len(comms.queue) : entry = comms.queue[i]
    BY <2>1 DEF Range
  <2>3. entry.wakes \in Nat
    <3>1. entry \in Entries
      BY <2>1, <2>2, ElementOf
    <3> QED BY <3>1, EntryShape
  <2>4. i + entry.wakes <= MaxPending
    BY <2>1, <2>2 DEF Patient
  <2>5. i \in Nat /\ i >= 1
    BY <2>1, <2>2
  <2> QED BY <2>1, <2>3, <2>4, <2>5
<1> QED BY <1>1, CommsHolds, PTL

\* No reply is lost without a reason, whatever is heard in one wake and however
\* many are waiting: what a query, the bound of the queue or a failed line takes
\* out of _schedule_ack's queue is excused by newer replies, and a wake loses at
\* most the one that it tried while the node did not answer.
THEOREM NoReplyIsLost == SpecComms => RepliesAreOwed
<1> DEFINE Inv == CommsInv /\ Ordered(comms, left)
<1>1. Inv /\ [NextComms]_commsVars => [LossIsExcused]_commsVars
  BY StepOwes
<1>2. SpecComms => []Inv
  BY OwedHolds
<1> HIDE DEF Inv, LossIsExcused
<1>3. SpecComms => [][LossIsExcused]_commsVars
  BY <1>1, <1>2, PTL DEF SpecComms
<1> QED BY <1>3 DEF RepliesAreOwed

==============================================================================
