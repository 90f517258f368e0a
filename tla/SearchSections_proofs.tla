----------------------- MODULE SearchSections_proofs ------------------------
(***************************************************************************)
(* Proofs about SearchSections, for any threads, queries, cache size,      *)
(* sections, scores, threshold and top_k.  The query cache holds a query   *)
(* once, keeps its size and evicts only what it must, the query used least *)
(* recently; an answer is the best that the store has.                     *)
(*                                                                         *)
(* CacheBound alone is inductive but for its typing: CacheInv adds that a  *)
(* thread that looks up or embeds has a query.                             *)
(***************************************************************************)
EXTENDS SearchRecency, TLAPS, SequenceTheorems, FiniteSetTheorems, WellFoundedInduction

Distinct(entries) ==
    \A i, j \in DOMAIN entries : entries[i] = entries[j] => i = j

\* Sequence new is old but for q, which is last, and for what new leaves out.
KeepsOrder(old, new, q) ==
    \A i, j \in 1..Len(new) : i < j =>
        /\ new[i] # q
        /\ \E a \in 1..Len(old) :
              /\ old[a] = new[i]
              /\ new[j] = q \/ \E b \in 1..Len(old) : a < b /\ old[b] = new[j]

CacheInv ==
    /\ query \in [Threads -> Queries \cup {NoQuery}]
    /\ at \in [Threads -> Places]
    /\ \A t \in Threads : at[t] # "idle" => query[t] \in Queries
    /\ cache \in Seq(Queries)
    /\ CacheBound

-----------------------------------------------------------------------------
\* move_to_end of a key that is there permutes the entries.
LEMMA MoveToEndPermutes ==
    ASSUME NEW entries \in Seq(Queries), Distinct(entries),
           NEW q \in Queries, \E i \in DOMAIN entries : entries[i] = q
    PROVE  /\ MoveToEnd(entries, q) \in Seq(Queries)
           /\ Len(MoveToEnd(entries, q)) = Len(entries)
           /\ Distinct(MoveToEnd(entries, q))
           /\ ToSet(MoveToEnd(entries, q)) = ToSet(entries)
           /\ KeepsOrder(entries, MoveToEnd(entries, q), q)
<1> DEFINE n == Len(entries)
           k == IndexOf(entries, q)
           front == SubSeq(entries, 1, k - 1)
           back == SubSeq(entries, k + 1, n)
           rest == RemoveAt(entries, k)
           moved == MoveToEnd(entries, q)
<1>1. n \in Nat /\ DOMAIN entries = 1..n /\ \A i \in 1..n : entries[i] \in Queries
  BY LenProperties, ElementOfSeq
<1>2. k \in 1..n /\ entries[k] = q
  BY <1>1 DEF IndexOf
<1> HIDE DEF n, k
<1>3. /\ front \in Seq(Queries) /\ Len(front) = k - 1
      /\ \A i \in 1..(k - 1) : front[i] = entries[i]
  <2>1. \A i \in 1..(k - 1) : entries[i] \in Queries
    BY <1>1, <1>2
  <2>2. /\ front \in Seq(Queries)
        /\ Len(front) = IF 1 <= k - 1 THEN k - 1 - 1 + 1 ELSE 0
        /\ \A i \in 1..(k - 1 - 1 + 1) : front[i] = entries[1 + i - 1]
    BY <1>1, <1>2, <2>1, SubSeqProperties
  <2>3. Len(front) = k - 1
    BY <1>1, <1>2, <2>2
  <2>4. ASSUME NEW i \in 1..(k - 1)
        PROVE  front[i] = entries[i]
    <3>1. i \in 1..(k - 1 - 1 + 1) /\ 1 + i - 1 = i
      BY <1>1, <1>2
    <3> QED BY <2>2, <3>1
  <2> QED BY <2>2, <2>3, <2>4
<1>4. /\ back \in Seq(Queries) /\ Len(back) = n - k
      /\ \A i \in 1..(n - k) : back[i] = entries[k + i]
  <2>1. \A i \in (k + 1)..n : entries[i] \in Queries
    BY <1>1, <1>2
  <2>2. /\ back \in Seq(Queries)
        /\ Len(back) = IF k + 1 <= n THEN n - (k + 1) + 1 ELSE 0
        /\ \A i \in 1..(n - (k + 1) + 1) : back[i] = entries[k + 1 + i - 1]
    BY <1>1, <1>2, <2>1, SubSeqProperties
  <2>3. Len(back) = n - k
    BY <1>1, <1>2, <2>2
  <2>4. ASSUME NEW i \in 1..(n - k)
        PROVE  back[i] = entries[k + i]
    <3>1. i \in 1..(n - (k + 1) + 1) /\ k + 1 + i - 1 = k + i
      BY <1>1, <1>2
    <3> QED BY <2>2, <3>1
  <2> QED BY <2>2, <2>3, <2>4
<1>5. /\ rest \in Seq(Queries) /\ Len(rest) = n - 1
      /\ \A i \in 1..(n - 1) : rest[i] = entries[IF i < k THEN i ELSE i + 1]
  <2>1. rest = front \o back
    BY DEF RemoveAt, n
  <2> HIDE DEF front, back, rest
  <2>2. /\ rest \in Seq(Queries)
        /\ Len(rest) = Len(front) + Len(back)
        /\ \A i \in 1..(Len(front) + Len(back)) :
               rest[i] = IF i <= Len(front) THEN front[i] ELSE back[i - Len(front)]
    BY <1>3, <1>4, <2>1, ConcatProperties
  <2>3. Len(rest) = n - 1
    BY <1>1, <1>2, <1>3, <1>4, <2>2
  <2>4. ASSUME NEW i \in 1..(n - 1)
        PROVE  rest[i] = entries[IF i < k THEN i ELSE i + 1]
    <3>1. i \in 1..(Len(front) + Len(back))
      BY <1>1, <1>2, <1>3, <1>4
    <3>2. CASE i < k
      BY <1>1, <1>2, <1>3, <2>2, <3>1, <3>2
    <3>3. CASE ~(i < k)
      <4>1. i - (k - 1) \in 1..(n - k) /\ k + (i - (k - 1)) = i + 1
        BY <1>1, <1>2, <3>3
      <4>2. rest[i] = back[i - (k - 1)]
        BY <1>1, <1>2, <1>3, <2>2, <3>1, <3>3
      <4> QED BY <1>4, <3>3, <4>1, <4>2
    <3> QED BY <3>2, <3>3
  <2> QED BY <2>2, <2>3, <2>4
<1> HIDE DEF rest
<1>6. moved = Append(rest, q)
  BY DEF MoveToEnd, rest, k
<1> HIDE DEF moved
<1>7. /\ moved \in Seq(Queries) /\ Len(moved) = n
      /\ \A i \in 1..(n - 1) : moved[i] = entries[IF i < k THEN i ELSE i + 1]
      /\ moved[n] = entries[k]
  <2>1. /\ moved \in Seq(Queries) /\ Len(moved) = Len(rest) + 1
        /\ \A i \in 1..Len(rest) : moved[i] = rest[i]
        /\ moved[Len(rest) + 1] = q
    BY <1>5, <1>6, AppendProperties
  <2> QED BY <1>1, <1>2, <1>5, <2>1
<1>8. DOMAIN moved = 1..n
  BY <1>7, LenProperties
<1> DEFINE from(i) == IF i = n THEN k ELSE IF i < k THEN i ELSE i + 1
<1>9. \A i \in 1..n : from(i) \in 1..n /\ moved[i] = entries[from(i)]
  BY <1>1, <1>2, <1>7
<1>10. \A i, j \in 1..n : from(i) = from(j) => i = j
  BY <1>1, <1>2
<1>11. \A j \in 1..n : \E i \in 1..n : from(i) = j
  <2> TAKE j \in 1..n
  <2>1. CASE j = k
    BY <1>1, <1>2, <2>1
  <2>2. CASE j < k
    BY <1>1, <1>2, <2>2
  <2>3. CASE j > k
    <3>1. j - 1 \in 1..n /\ from(j - 1) = j
      BY <1>1, <1>2, <2>3
    <3> QED BY <3>1
  <2> QED BY <1>1, <1>2, <2>1, <2>2, <2>3
<1> HIDE DEF from
<1>12. Distinct(moved)
  BY <1>1, <1>8, <1>9, <1>10 DEF Distinct
<1>13. ToSet(moved) = ToSet(entries)
  <2>1. ASSUME NEW i \in 1..n
        PROVE  moved[i] \in ToSet(entries)
    BY <1>1, <1>9 DEF ToSet
  <2>2. ASSUME NEW j \in 1..n
        PROVE  entries[j] \in ToSet(moved)
    <3>1. PICK i \in 1..n : from(i) = j
      BY <1>11
    <3>2. moved[i] = entries[j]
      BY <1>9, <3>1
    <3> QED BY <1>8, <3>2 DEF ToSet
  <2> QED BY <1>1, <1>8, <2>1, <2>2 DEF ToSet
<1>14. KeepsOrder(entries, moved, q)
  <2> SUFFICES ASSUME NEW i \in 1..n, NEW j \in 1..n, i < j
               PROVE  /\ moved[i] # q
                      /\ \E a \in 1..n :
                            /\ entries[a] = moved[i]
                            /\ moved[j] = q \/ \E b \in 1..n : a < b /\ entries[b] = moved[j]
    BY <1>7 DEF KeepsOrder, n
  <2>1. n \in 1..n /\ i # n /\ moved[n] = q
    BY <1>1, <1>2, <1>7
  <2>2. moved[i] # q
    BY <1>8, <1>12, <2>1 DEF Distinct
  <2>3. j # n => from(i) < from(j)
    BY <1>1, <1>2 DEF from
  <2>4. /\ from(i) \in 1..n /\ moved[i] = entries[from(i)]
        /\ from(j) \in 1..n /\ moved[j] = entries[from(j)]
    BY <1>9
  <2> QED BY <2>1, <2>2, <2>3, <2>4
<1> QED BY <1>7, <1>12, <1>13, <1>14 DEF n, moved

\* An assignment followed by the eviction: the size holds, the entries stay
\* distinct, the new one is there, and one leaves only for another to come
\* into a full cache.
LEMMA PutEvictsOldest ==
    ASSUME NEW entries \in Seq(Queries), Distinct(entries),
           Len(entries) <= CacheSize, NEW q \in Queries
    PROVE  LET new == Evict(Assign(entries, q)) IN
           /\ new \in Seq(Queries)
           /\ Len(new) <= CacheSize
           /\ Distinct(new)
           /\ q \in ToSet(new)
           /\ \A i \in DOMAIN entries :
                 entries[i] \notin ToSet(new) =>
                     Len(entries) = CacheSize /\ Len(new) = CacheSize
<1> DEFINE n == Len(entries)
           assigned == Assign(entries, q)
           new == Evict(assigned)
<1>1. n \in Nat /\ DOMAIN entries = 1..n /\ \A i \in 1..n : entries[i] \in Queries
  BY LenProperties, ElementOfSeq
<1>0. CacheSize \in Nat /\ CacheSize >= 1 /\ n <= CacheSize
  BY CacheSizeAssumption
<1> HIDE DEF n
<1> SUFFICES /\ new \in Seq(Queries)
             /\ Len(new) <= CacheSize
             /\ Distinct(new)
             /\ q \in ToSet(new)
             /\ \A i \in DOMAIN entries :
                   entries[i] \notin ToSet(new) =>
                       n = CacheSize /\ Len(new) = CacheSize
  BY Zenon DEF n
<1>2. CASE \E i \in DOMAIN entries : entries[i] = q
  <2>1. assigned = entries
    BY <1>2 DEF Assign
  <2>2. new = Evict(entries)
    BY <2>1
  <2>3. Len(entries) \in Nat /\ ~(Len(entries) > CacheSize)
    BY <1>0, <1>1 DEF n
  <2>4. new = entries
    BY <2>2, <2>3 DEF Evict
  <2>5. q \in ToSet(entries) /\ \A i \in DOMAIN entries : entries[i] \in ToSet(entries)
    BY <1>2 DEF ToSet
  <2> HIDE DEF new
  <2> QED BY <1>0, <2>4, <2>5 DEF n
<1>3. CASE ~\E i \in DOMAIN entries : entries[i] = q
  <2>1. assigned = Append(entries, q)
    BY <1>3 DEF Assign
  <2> HIDE DEF assigned
  <2>2. /\ assigned \in Seq(Queries) /\ assigned # <<>> /\ Len(assigned) = n + 1
        /\ \A i \in 1..n : assigned[i] = entries[i]
        /\ assigned[n + 1] = q
    BY <2>1, AppendProperties DEF n
  <2>3. DOMAIN assigned = 1..(n + 1)
    BY <2>2, LenProperties
  <2>4. Distinct(assigned)
    BY <1>1, <1>3, <2>2, <2>3 DEF Distinct
  <2>5. CASE n + 1 > CacheSize
    <3>1. n = CacheSize /\ n >= 1
      BY <1>0, <1>1, <2>5
    <3>2. new = Tail(assigned)
      BY <2>2, <2>5 DEF Evict
    <3> HIDE DEF new
    <3>3. /\ new \in Seq(Queries) /\ Len(new) = n
          /\ \A i \in 1..n : new[i] = assigned[i + 1]
      BY <1>1, <2>2, <3>2, HeadTailProperties
    <3>4. DOMAIN new = 1..n
      BY <3>3, LenProperties
    <3>5. Distinct(new)
      <4>1. ASSUME NEW i \in 1..n, NEW j \in 1..n, new[i] = new[j]
            PROVE  i = j
        <5>1. i + 1 \in 1..(n + 1) /\ j + 1 \in 1..(n + 1)
          BY <1>1
        <5>2. assigned[i + 1] = assigned[j + 1]
          BY <3>3, <4>1
        <5>3. i + 1 = j + 1
          BY <2>3, <2>4, <5>1, <5>2 DEF Distinct
        <5> QED BY <1>1, <5>3
      <4> QED BY <3>4, <4>1 DEF Distinct
    <3>6. q \in ToSet(new)
      BY <1>1, <2>2, <3>1, <3>3, <3>4 DEF ToSet
    <3> QED BY <1>0, <3>1, <3>3, <3>5, <3>6
  <2>6. CASE ~(n + 1 > CacheSize)
    <3>1. new = assigned
      BY <2>2, <2>6 DEF Evict
    <3>2. q \in ToSet(new)
      BY <1>1, <2>2, <2>3, <3>1 DEF ToSet
    <3>3. \A i \in DOMAIN entries : entries[i] \in ToSet(new)
      BY <1>1, <2>2, <2>3, <3>1 DEF ToSet
    <3>4. Len(new) <= CacheSize
      BY <1>0, <1>1, <2>2, <2>6, <3>1
    <3> HIDE DEF new
    <3> QED BY <2>2, <2>4, <3>1, <3>2, <3>3, <3>4
  <2> QED BY <2>5, <2>6
<1> QED BY <1>2, <1>3

\* A query that is not there goes last; only the first entry makes room.
LEMMA PutKeepsOrder ==
    ASSUME NEW entries \in Seq(Queries), Distinct(entries),
           NEW q \in Queries, ~\E i \in DOMAIN entries : entries[i] = q
    PROVE  LET new == Evict(Assign(entries, q))
           IN  /\ KeepsOrder(entries, new, q)
               /\ \A i \in DOMAIN entries : entries[i] \notin ToSet(new) => i = 1
<1> DEFINE n == Len(entries)
           assigned == Append(entries, q)
           new == Evict(Assign(entries, q))
<1>1. n \in Nat /\ DOMAIN entries = 1..n
  BY LenProperties
<1>2. new = Evict(assigned)
  BY DEF Assign
<1>3. /\ assigned \in Seq(Queries) /\ assigned # <<>> /\ Len(assigned) = n + 1
      /\ \A i \in 1..n : assigned[i] = entries[i]
      /\ assigned[n + 1] = q
  BY AppendProperties
<1>4. DOMAIN assigned = 1..(n + 1)
  BY <1>3, LenProperties
<1> HIDE DEF n, assigned, new
<1> SUFFICES /\ KeepsOrder(entries, new, q)
             /\ \A i \in 1..n : entries[i] \notin ToSet(new) => i = 1
  BY Zenon, <1>1 DEF new
<1>5. CASE new = Tail(assigned)
  <2>1. /\ new \in Seq(Queries) /\ Len(new) = n
        /\ \A i \in 1..n : new[i] = assigned[i + 1]
    BY <1>1, <1>3, <1>5, HeadTailProperties
  <2>2. DOMAIN new = 1..n
    BY <2>1, LenProperties
  <2>3. ASSUME NEW i \in 1..n
        PROVE  new[i] = IF i = n THEN q ELSE entries[i + 1]
    <3>1. i + 1 \in 1..(n + 1) /\ (i # n => i + 1 \in 1..n)
      BY <1>1
    <3> QED BY <1>3, <2>1, <3>1
  <2>4. ASSUME NEW i \in 1..n, NEW j \in 1..n, i < j
        PROVE  /\ new[i] # q
               /\ \E a \in 1..n :
                     /\ entries[a] = new[i]
                     /\ new[j] = q \/ \E b \in 1..n : a < b /\ entries[b] = new[j]
    <3>1. i # n /\ i + 1 \in 1..n /\ new[i] = entries[i + 1]
      BY <1>1, <2>3, <2>4
    <3>2. j # n => j + 1 \in 1..n /\ new[j] = entries[j + 1] /\ i + 1 < j + 1
      BY <1>1, <2>3, <2>4
    <3>3. j = n => new[j] = q
      BY <2>3
    <3> QED BY <1>1, <3>1, <3>2, <3>3
  <2>5. ASSUME NEW i \in 1..n, i # 1
        PROVE  entries[i] \in ToSet(new)
    <3>1. i - 1 \in 1..n /\ i - 1 # n /\ (i - 1) + 1 = i
      BY <1>1, <2>5
    <3>2. new[i - 1] = entries[i]
      BY <2>3, <3>1
    <3> QED BY <2>2, <3>1, <3>2 DEF ToSet
  <2> QED BY <1>1, <2>1, <2>4, <2>5 DEF KeepsOrder, n
<1>6. CASE new = assigned
  <2>1. ASSUME NEW i \in 1..(n + 1), NEW j \in 1..(n + 1), i < j
        PROVE  /\ new[i] # q
               /\ \E a \in 1..n :
                     /\ entries[a] = new[i]
                     /\ new[j] = q \/ \E b \in 1..n : a < b /\ entries[b] = new[j]
    <3>1. i \in 1..n /\ new[i] = entries[i]
      BY <1>1, <1>3, <1>6, <2>1
    <3>2. j # n + 1 => j \in 1..n /\ new[j] = entries[j]
      BY <1>1, <1>3, <1>6
    <3>3. j = n + 1 => new[j] = q
      BY <1>3, <1>6
    <3> QED BY <1>1, <2>1, <3>1, <3>2, <3>3
  <2>2. ASSUME NEW i \in 1..n
        PROVE  entries[i] \in ToSet(new)
    <3>1. i \in 1..(n + 1) /\ new[i] = entries[i]
      BY <1>1, <1>3, <1>6
    <3> QED BY <1>4, <1>6, <3>1 DEF ToSet
  <2>3. Len(new) = n + 1 /\ Len(entries) = n
    BY <1>3, <1>6 DEF n
  <2>4. KeepsOrder(entries, new, q)
    <3> SUFFICES ASSUME NEW i \in 1..Len(new), NEW j \in 1..Len(new), i < j
                 PROVE  /\ new[i] # q
                        /\ \E a \in 1..Len(entries) :
                              /\ entries[a] = new[i]
                              /\ \/ new[j] = q
                                 \/ \E b \in 1..Len(entries) : a < b /\ entries[b] = new[j]
      BY DEF KeepsOrder
    <3>1. i \in 1..(n + 1) /\ j \in 1..(n + 1)
      BY <2>3
    <3> QED BY <2>1, <2>3, <3>1
  <2> QED BY <2>2, <2>4
<1> QED BY <1>2, <1>5, <1>6 DEF Evict

-----------------------------------------------------------------------------
(* Recursion over the candidates.                                          *)

\* Induction over the natural numbers, as a fact about a set.
LEMMA SetInduction ==
    ASSUME NEW S, 0 \in S, \A n \in Nat : n \in S => n + 1 \in S
    PROVE  Nat \subseteq S
<1> DEFINE R == OpToRel(<, Nat)
           T == Nat \ S
<1>1. R = {ss \in Nat \X Nat : ss[1] < ss[2]}
  BY DEF OpToRel
<1>2. IsWellFoundedOn(R, Nat)
  BY NatLessThanWellFounded
<1> HIDE DEF R
<1>3. SUFFICES ASSUME T # {}
               PROVE  FALSE
  OBVIOUS
<1>4. T \subseteq Nat
  OBVIOUS
<1> HIDE DEF T
<1>5. PICK n \in T : \A m \in T : ~(<<m, n>> \in R)
  BY <1>2, <1>3, <1>4, WFMin
<1> USE DEF T
<1>6. n \in Nat /\ n # 0 /\ n - 1 \in Nat
  BY <1>5
<1>7. <<n - 1, n>> \in Nat \X Nat /\ n - 1 < n
  BY <1>6
<1>8. n - 1 \notin T
  BY <1>1, <1>5, <1>7
<1> QED BY <1>5, <1>6, <1>8

LEMMA FirstOfIs ==
    ASSUME NEW S, NEW s \in Seq(S), NEW n \in Nat
    PROVE  /\ FirstOf(s, n) \in Seq(S)
           /\ Len(FirstOf(s, n)) = IF n < Len(s) THEN n ELSE Len(s)
           /\ \A i \in 1..Len(FirstOf(s, n)) : FirstOf(s, n)[i] = s[i]
<1> DEFINE m == IF n < Len(s) THEN n ELSE Len(s)
<1>1. Len(s) \in Nat /\ m \in Nat /\ m <= Len(s) /\ \A i \in 1..Len(s) : s[i] \in S
  OBVIOUS
<1>2. FirstOf(s, n) = SubSeq(s, 1, m)
  BY DEF FirstOf
<1> HIDE DEF m
<1>3. /\ SubSeq(s, 1, m) \in Seq(S) /\ Len(SubSeq(s, 1, m)) = m
      /\ \A i \in 1..m : SubSeq(s, 1, m)[i] = s[i]
  BY <1>1, SubSeqProperties
<1> QED BY <1>2, <1>3 DEF m

\* The loop keeps a prefix when the candidates come with the relevant ones
\* first: p is how many there are.
LEMMA MappedIsPrefix ==
    ASSUME NEW S, NEW c \in Seq(S), NEW q, NEW p \in Nat, p <= Len(c),
           \A i \in 1..Len(c) : Relevant(q, c[i]) <=> i <= p
    PROVE  /\ Mapped(q, c) \in Seq(S)
           /\ Len(Mapped(q, c)) = p
           /\ \A i \in 1..p : Mapped(q, c)[i] = c[i]
<1> DEFINE N == Len(c)
           Least(n) == IF n < p THEN n ELSE p
           prefix(n) == [i \in 1..Least(n) |-> c[i]]
           f == [n \in 0..N |-> prefix(n)]
           Step(g, n) == IF n = 0 THEN <<>>
                         ELSE IF Relevant(q, c[n]) THEN Append(g[n - 1], c[n]) ELSE g[n - 1]
<1>1. N \in Nat /\ \A i \in 1..N : c[i] \in S
  OBVIOUS
<1>2. ASSUME NEW n \in 0..N
      PROVE  prefix(n) \in Seq(S) /\ Len(prefix(n)) = Least(n)
  OBVIOUS
<1>3. ASSUME NEW n \in 0..N
      PROVE  prefix(n) = Step(f, n)
  <2>1. CASE n = 0
    BY <2>1
  <2>2. CASE n # 0
    <3>1. n - 1 \in 0..N /\ f[n - 1] = prefix(n - 1) /\ n \in 1..N
      BY <1>1, <2>2
    <3>2. CASE n <= p
      <4>1. Step(f, n) = Append(prefix(n - 1), c[n])
        BY <2>2, <3>1, <3>2
      <4>2. Least(n) = n /\ Least(n - 1) = n - 1
        BY <3>2, <3>1
      <4>3. prefix(n) = Append(prefix(n - 1), c[n])
        <5>1. /\ prefix(n - 1) \in Seq(S) /\ Len(prefix(n - 1)) = n - 1
              /\ \A i \in 1..(n - 1) : prefix(n - 1)[i] = c[i]
          BY <1>2, <3>1, <4>2
        <5>2. prefix(n) = [i \in 1..n |-> c[i]] /\ c[n] \in S
          BY <1>1, <3>1, <4>2
        <5> HIDE DEF prefix
        <5>3. /\ Append(prefix(n - 1), c[n]) = [i \in 1..n |->
                    IF i = n THEN c[n] ELSE prefix(n - 1)[i]]
          BY <5>1, <3>1
        <5> QED BY <5>1, <5>2, <5>3
      <4> QED BY <4>1, <4>3
    <3>3. CASE ~(n <= p)
      <4>1. Step(f, n) = prefix(n - 1)
        BY <2>2, <3>1, <3>3
      <4>2. Least(n) = p /\ Least(n - 1) = p
        BY <3>1, <3>3
      <4> QED BY <4>1, <4>2
    <3> QED BY <3>2, <3>3
  <2> QED BY <2>1, <2>2
<1>4. ASSUME NEW g, g = [n \in 0..N |-> Step(g, n)]
      PROVE  g[N] = prefix(N)
  <2> DEFINE Good == {n \in Nat : n <= N => g[n] = prefix(n)}
  <2>1. ASSUME NEW n \in 0..N
        PROVE  g[n] = Step(g, n)
    BY <1>4
  <2>2. 0 \in Good
    <3>1. g[0] = Step(g, 0) /\ prefix(0) = Step(f, 0)
      BY <1>1, <1>3, <2>1
    <3>2. Step(g, 0) = <<>> /\ Step(f, 0) = <<>>
      OBVIOUS
    <3> QED BY <3>1, <3>2
  <2>3. ASSUME NEW n \in Nat, n \in Good, n + 1 <= N
        PROVE  g[n + 1] = prefix(n + 1)
    <3>1. n + 1 \in 0..N /\ n \in 0..N /\ (n + 1) - 1 = n /\ n + 1 # 0
      BY <1>1, <2>3
    <3>2. g[n + 1] = Step(g, n + 1) /\ prefix(n + 1) = Step(f, n + 1)
      BY <1>3, <2>1, <3>1
    <3>3. g[n] = f[n]
      BY <2>3, <3>1
    <3>4. Step(g, n + 1) = Step(f, n + 1)
      BY <3>1, <3>3
    <3> QED BY <3>2, <3>4
  <2> HIDE DEF prefix
  <2>4. \A n \in Nat : n \in Good => n + 1 \in Good
    BY <2>3
  <2> HIDE DEF Good
  <2>5. N \in Good
    BY <1>1, <2>2, <2>4, SetInduction
  <2> QED BY <1>1, <2>5 DEF Good
<1>5. f = [n \in 0..N |-> Step(f, n)]
  <2> HIDE DEF prefix, Step
  <2> QED BY Zenon, <1>3
<1>6. Mapped(q, c) = prefix(N)
  <2> DEFINE g == CHOOSE h : h = [n \in 0..N |-> Step(h, n)]
  <2> HIDE DEF f
  <2>1. g = [n \in 0..N |-> Step(g, n)]
    BY Zenon, <1>5
  <2>2. Mapped(q, c) = g[N]
    BY DEF Mapped
  <2> HIDE DEF g, Step, prefix
  <2> QED BY <1>4, <2>1, <2>2
<1>7. Least(N) = p
  BY <1>1
<1>8. prefix(N) \in Seq(S) /\ Len(prefix(N)) = p /\ \A i \in 1..p : prefix(N)[i] = c[i]
  BY <1>1, <1>2, <1>7
<1> QED BY <1>6, <1>8

-----------------------------------------------------------------------------
\* What the cache is after a step, and the query of the thread that took it.
LEMMA CacheStep ==
    ASSUME CacheInv, NEW t \in Threads, CacheHit(t) \/ Embed(t)
    PROVE  /\ query[t] \in Queries
           /\ cache' \in Seq(Queries)
           /\ Len(cache') <= CacheSize
           /\ Distinct(cache')
           /\ query[t] \in ToSet(cache')
           /\ \A i \in DOMAIN cache :
                 cache[i] \notin ToSet(cache') =>
                     Len(cache) = CacheSize /\ Len(cache') = CacheSize
<1> USE DEF CacheInv, CacheBound
<1>1. query[t] \in Queries /\ cache \in Seq(Queries) /\ Distinct(cache)
  BY DEF CacheHit, Embed, Distinct
<1>2. CASE CacheHit(t)
  <2>1. \E i \in DOMAIN cache : cache[i] = query[t]
    BY <1>2 DEF CacheHit, Cached
  <2>2. /\ cache' \in Seq(Queries) /\ Len(cache') = Len(cache)
        /\ Distinct(cache') /\ ToSet(cache') = ToSet(cache)
    BY <1>1, <1>2, <2>1, MoveToEndPermutes DEF CacheHit
  <2> QED BY <1>1, <2>1, <2>2 DEF ToSet
<1>3. CASE Embed(t)
  BY <1>1, <1>3, PutEvictsOldest DEF Embed
<1> QED BY <1>2, <1>3

\* A thread that does not touch the cache keeps the invariant.
LEMMA OtherStep ==
    ASSUME CacheInv, NEW t \in Threads,
           \/ \E q \in Queries, k \in TopKs : Start(t, q, k)
           \/ CacheMiss(t) \/ Answer(t) \/ Fail(t)
    PROVE  CacheInv' /\ cache' = cache
<1> USE DEF CacheInv, CacheBound, Places
<1>1. CASE \E q \in Queries, k \in TopKs : Start(t, q, k)
  BY <1>1 DEF Start
<1>2. CASE CacheMiss(t)
  BY <1>2 DEF CacheMiss
<1>3. CASE Answer(t)
  BY <1>3 DEF Answer
<1>4. CASE Fail(t)
  BY <1>4 DEF Fail
<1> QED BY <1>1, <1>2, <1>3, <1>4

LEMMA CacheInvStep == CacheInv /\ [Next]_vars => CacheInv'
<1> SUFFICES ASSUME CacheInv, [Next]_vars
             PROVE  CacheInv'
  OBVIOUS
<1>1. ASSUME NEW t \in Threads, CacheHit(t) \/ Embed(t)
      PROVE  CacheInv'
  <2>1. /\ cache' \in Seq(Queries) /\ Len(cache') <= CacheSize /\ Distinct(cache')
    BY <1>1, CacheStep
  <2>2. /\ query' = query /\ at' = [at EXCEPT ![t] = "search"] /\ at[t] # "idle"
    BY <1>1 DEF CacheHit, Embed
  <2>3. /\ at' \in [Threads -> Places]
        /\ \A u \in Threads : at'[u] # "idle" => query'[u] \in Queries
    BY <2>2 DEF CacheInv, Places
  <2> QED BY <2>1, <2>2, <2>3 DEF CacheInv, CacheBound, Distinct
<1>2. CASE IndexChanges
  BY <1>2 DEF IndexChanges, CacheInv, CacheBound
<1>3. CASE UNCHANGED vars
  BY <1>3 DEF vars, CacheInv, CacheBound
<1> QED BY <1>1, <1>2, <1>3, OtherStep DEF Next, Search

-----------------------------------------------------------------------------
(* The answer to a search.                                                 *)

\* A ranking holds every stored section once, the best first.
LEMMA RankingIs ==
    ASSUME NEW q, stored \subseteq Sections, NEW r \in Rankings(q)
    PROVE  /\ r \in Seq(stored)
           /\ stored = {r[i] : i \in 1..Len(r)}
           /\ \A i, j \in 1..Len(r) : r[i] = r[j] => i = j
           /\ \A i, j \in 1..Len(r) : i < j => Score(q, r[i]) >= Score(q, r[j])
<1> DEFINE n == Cardinality(stored)
<1>1. IsFiniteSet(stored) /\ n \in Nat
  BY SectionsAssumption, FS_Subset, FS_CardinalityType
<1>2. /\ r \in [1..n -> stored]
      /\ \A i, j \in 1..n : i # j => r[i] # r[j]
      /\ \A i, j \in DOMAIN r : i < j => Score(q, r[i]) >= Score(q, r[j])
  BY DEF Rankings, SetToSeqs
<1>3. IsFiniteSet(1..n) /\ Cardinality(1..n) = n
  BY <1>1, FS_Interval
<1>4. r \in Injection(1..n, stored)
  BY <1>2 DEF Injection, IsInjective
<1>5. r \in Surjection(1..n, stored)
  BY <1>1, <1>3, <1>4, FS_Injection
<1> HIDE DEF n
<1>6. r \in Seq(stored) /\ Len(r) = n
  BY <1>1, <1>2
<1>7. stored = {r[i] : i \in 1..n}
  BY <1>2, <1>5 DEF Surjection
<1> QED BY <1>2, <1>6, <1>7

\* The first p elements of a sequence that repeats none are p elements.
LEMMA FirstElements ==
    ASSUME NEW S, NEW s \in Seq(S), NEW p \in Nat, p <= Len(s),
           \A i, j \in 1..Len(s) : s[i] = s[j] => i = j
    PROVE  Cardinality({s[i] : i \in 1..p}) = p
<1> DEFINE T == {s[i] : i \in 1..p}
           f == [i \in 1..p |-> s[i]]
<1>1. 1..p \subseteq 1..Len(s)
  OBVIOUS
<1>2. f \in Bijection(1..p, T)
  BY <1>1 DEF Bijection, Injection, Surjection, IsInjective
<1>3. ExistsBijection(1..p, T)
  BY <1>2 DEF ExistsBijection
<1> QED BY <1>3, FS_CountingElements

\* In a ranking the sections that reach the threshold come first.
LEMMA RelevantFirst ==
    ASSUME NEW q \in Queries, NEW r \in Seq(Sections),
           \A i, j \in 1..Len(r) : i < j => Score(q, r[i]) >= Score(q, r[j])
    PROVE  \E p \in 0..Len(r) : \A i \in 1..Len(r) : Relevant(q, r[i]) <=> i <= p
<1> DEFINE N == Len(r)
           Splits(p, n) == \A i \in 1..n : Relevant(q, r[i]) <=> i <= p
           Good == {n \in Nat : n <= N => \E p \in 0..n : Splits(p, n)}
<1>1. N \in Nat
  OBVIOUS
<1>2. ASSUME NEW i \in 1..N, NEW j \in 1..N, i < j, Relevant(q, r[j])
      PROVE  Relevant(q, r[i])
  <2>1. /\ Score(q, r[i]) \in Int /\ Score(q, r[j]) \in Int
        /\ Score(q, r[i]) >= Score(q, r[j])
    BY <1>2, ScoreAssumption
  <2> QED BY <1>2, <2>1, ThresholdAssumption DEF Relevant
<1>3. 0 \in Good
  <2>1. 0 \in 0..0 /\ Splits(0, 0)
    OBVIOUS
  <2> QED BY <2>1
<1>4. ASSUME NEW n \in Nat, n \in Good
      PROVE  n + 1 \in Good
  <2>1. SUFFICES ASSUME n + 1 <= N
                 PROVE  \E p \in 0..(n + 1) : Splits(p, n + 1)
    OBVIOUS
  <2>2. PICK p \in 0..n : Splits(p, n)
    BY <1>1, <1>4, <2>1
  <2>3. \A i \in 1..(n + 1) : i \in 1..n \/ i = n + 1
    OBVIOUS
  <2>4. CASE p = n /\ Relevant(q, r[n + 1])
    <3>1. n + 1 \in 0..(n + 1) /\ Splits(n + 1, n + 1)
      BY <2>2, <2>3, <2>4
    <3> QED BY <3>1
  <2>5. CASE ~Relevant(q, r[n + 1])
    <3>1. p \in 0..(n + 1) /\ Splits(p, n + 1)
      BY <2>2, <2>3, <2>5
    <3> QED BY <3>1
  <2>6. CASE p # n /\ Relevant(q, r[n + 1])
    <3>1. p + 1 \in 1..n /\ p + 1 \in 1..N /\ n + 1 \in 1..N /\ p + 1 < n + 1
      BY <1>1, <2>1, <2>6
    <3>2. ~Relevant(q, r[p + 1])
      BY <2>2, <3>1
    <3> QED BY <1>2, <2>6, <3>1, <3>2
  <2> QED BY <2>4, <2>5, <2>6
<1> HIDE DEF Good
<1>5. N \in Good
  BY <1>1, <1>3, <1>4, SetInduction
<1> QED BY <1>1, <1>5 DEF Good

\* Fetching three times top_k, filtering and cutting leaves the first top_k of
\* the p sections that reach the threshold.
LEMMA ResultsAre ==
    ASSUME NEW q \in Queries, NEW k \in TopKs, NEW r \in Seq(Sections),
           NEW p \in 0..Len(r), \A i \in 1..Len(r) : Relevant(q, r[i]) <=> i <= p
    PROVE  /\ Results(q, k, r) \in Seq(Sections)
           /\ Len(Results(q, k, r)) = IF p < k THEN p ELSE k
           /\ \A i \in 1..Len(Results(q, k, r)) : Results(q, k, r)[i] = r[i]
<1> DEFINE fetch == FetchK(k)
           c == FirstOf(r, fetch)
           m == Mapped(q, c)
           least == IF p < Len(c) THEN p ELSE Len(c)
<1>1. k \in Nat /\ fetch \in Nat /\ fetch >= k /\ Len(r) \in Nat
  BY TopKsAssumption DEF FetchK
<1> HIDE DEF fetch
<1>2. /\ c \in Seq(Sections) /\ Len(c) = IF fetch < Len(r) THEN fetch ELSE Len(r)
      /\ \A i \in 1..Len(c) : c[i] = r[i]
  BY <1>1, FirstOfIs
<1> HIDE DEF c
<1>3. Len(c) \in Nat /\ Len(c) <= Len(r) /\ least \in Nat /\ least <= Len(c)
  BY <1>1, <1>2
<1>4. \A i \in 1..Len(c) : Relevant(q, c[i]) <=> i <= least
  <2> TAKE i \in 1..Len(c)
  <2>1. i \in 1..Len(r) /\ c[i] = r[i]
    BY <1>1, <1>2, <1>3
  <2> QED BY <1>3, <2>1
<1>5. least >= k \/ least = p
  BY <1>1, <1>2, <1>3
<1> HIDE DEF least
<1>6. m \in Seq(Sections) /\ Len(m) = least /\ \A i \in 1..least : m[i] = c[i]
  BY <1>2, <1>3, <1>4, MappedIsPrefix
<1>7. Results(q, k, r) = FirstOf(m, k)
  BY DEF Results, m, c, fetch
<1> HIDE DEF m
<1>8. /\ FirstOf(m, k) \in Seq(Sections)
      /\ Len(FirstOf(m, k)) = IF k < least THEN k ELSE least
      /\ \A i \in 1..Len(FirstOf(m, k)) : FirstOf(m, k)[i] = m[i]
  BY <1>1, <1>6, FirstOfIs
<1>9. (IF k < least THEN k ELSE least) = IF p < k THEN p ELSE k
  BY <1>1, <1>3, <1>5 DEF least
<1>10. ASSUME NEW i \in 1..Len(FirstOf(m, k))
       PROVE  FirstOf(m, k)[i] = r[i]
  <2>1. i \in 1..least /\ i \in 1..Len(c)
    BY <1>1, <1>3, <1>8
  <2> QED BY <1>2, <1>6, <1>8, <2>1
<1> QED BY <1>7, <1>8, <1>9, <1>10

LEMMA AnswerIsBest ==
    ASSUME TypeOK, NEW t \in Threads, query[t] \in Queries, topK[t] \in TopKs,
           NEW r \in Rankings(query[t])
    PROVE  /\ Results(query[t], topK[t], r) \in Seq(Sections)
           /\ Best(t, Results(query[t], topK[t], r))
<1> DEFINE q == query[t]
           k == topK[t]
           res == Results(q, k, r)
           relevant == {s \in stored : Threshold = 0 \/ Score(q, s) >= Threshold}
<1>1. stored \subseteq Sections
  BY DEF TypeOK
<1>2. /\ r \in Seq(stored) /\ r \in Seq(Sections)
      /\ stored = {r[i] : i \in 1..Len(r)}
      /\ \A i, j \in 1..Len(r) : r[i] = r[j] => i = j
      /\ \A i, j \in 1..Len(r) : i < j => Score(q, r[i]) >= Score(q, r[j])
  BY <1>1, RankingIs
<1>3. PICK p \in 0..Len(r) : \A i \in 1..Len(r) : Relevant(q, r[i]) <=> i <= p
  BY <1>2, RelevantFirst
<1>4. /\ res \in Seq(Sections) /\ Len(res) = IF p < k THEN p ELSE k
      /\ \A i \in 1..Len(res) : res[i] = r[i]
  BY <1>2, <1>3, ResultsAre
<1>5. k \in Nat /\ Len(r) \in Nat /\ p \in Nat /\ p <= Len(r)
  <2>1. k \in Nat
    BY TopKsAssumption
  <2>2. Len(r) \in Nat
    BY <1>2, LenProperties
  <2> QED BY <2>1, <2>2
<1>6. Len(res) \in Nat /\ Len(res) <= p /\ Len(res) <= Len(r) /\ DOMAIN res = 1..Len(res)
  BY <1>4, <1>5
<1> HIDE DEF res
<1>7. relevant = {r[i] : i \in 1..p}
  <2>1. ASSUME NEW i \in 1..Len(r)
        PROVE  r[i] \in relevant <=> i <= p
    BY <1>2, <1>3 DEF Relevant
  <2>2. relevant \subseteq stored
    OBVIOUS
  <2> HIDE DEF relevant
  <2>3. 1..p \subseteq 1..Len(r) /\ \A i \in 1..Len(r) : i <= p <=> i \in 1..p
    BY <1>5
  <2>4. \A i \in 1..Len(r) : r[i] \in relevant <=> i \in 1..p
    BY <2>1, <2>3
  <2>5. ASSUME NEW s \in relevant
        PROVE  s \in {r[i] : i \in 1..p}
    <3>1. s \in {r[i] : i \in 1..Len(r)}
      BY <1>2, <2>2
    <3>2. PICK i \in 1..Len(r) : s = r[i]
      BY <3>1
    <3> QED BY <2>4, <3>2
  <2>6. ASSUME NEW i \in 1..p
        PROVE  r[i] \in relevant
    BY <2>3, <2>4
  <2> QED BY <2>5, <2>6
<1>8. Cardinality(relevant) = p
  BY <1>2, <1>5, <1>7, FirstElements
<1>9. ToSet(res) = {r[i] : i \in 1..Len(res)}
  BY <1>4, <1>6 DEF ToSet
<1>10. Cardinality(ToSet(res)) = Len(res)
  BY <1>2, <1>6, <1>9, FirstElements
<1> HIDE DEF relevant
<1>11. ToSet(res) \subseteq relevant
  BY <1>5, <1>6, <1>7, <1>9
<1>12. ASSUME NEW i \in DOMAIN res, NEW j \in DOMAIN res, i < j
       PROVE  Score(q, res[i]) >= Score(q, res[j])
  <2>1. i \in 1..Len(r) /\ j \in 1..Len(r) /\ res[i] = r[i] /\ res[j] = r[j]
    BY <1>4, <1>5, <1>6
  <2> QED BY <1>2, <1>12, <2>1
<1>13. ASSUME NEW i \in DOMAIN res, NEW s \in relevant \ ToSet(res)
       PROVE  Score(q, res[i]) >= Score(q, s)
  <2>1. PICK j \in 1..p : s = r[j]
    BY <1>7
  <2>2. j > Len(res) /\ i \in 1..Len(res) /\ j \in 1..Len(r) /\ i \in 1..Len(r)
    BY <1>5, <1>6, <1>9, <2>1
  <2>3. i < j
    BY <1>6, <2>2
  <2> QED BY <1>2, <1>4, <2>1, <2>2, <2>3
<1> QED BY <1>4, <1>8, <1>10, <1>11, <1>12, <1>13 DEF Best, relevant, res

-----------------------------------------------------------------------------
(* Types.                                                                  *)

LEMMA TypeStep ==
    ASSUME TypeOK, CacheInv, CacheInv', [Next]_vars
    PROVE  TypeOK'
<1> USE DEF TypeOK, Places
<1>1. cache' \in Seq(Queries)
  BY DEF CacheInv
<1>2. ASSUME NEW t \in Threads, NEW q \in Queries, NEW k \in TopKs, Start(t, q, k)
      PROVE  TypeOK'
  BY <1>1, <1>2, EmptySeq DEF Start
<1>3. ASSUME NEW t \in Threads, CacheHit(t) \/ CacheMiss(t) \/ Embed(t) \/ Fail(t)
      PROVE  TypeOK'
  <2>1. /\ UNCHANGED <<query, topK, results, stored>> /\ at[t] # "idle"
        /\ \E p \in Places : at' = [at EXCEPT ![t] = p]
    BY <1>3 DEF CacheHit, CacheMiss, Embed, Fail
  <2> QED BY <1>1, <2>1
<1>4. ASSUME NEW t \in Threads, Answer(t)
      PROVE  TypeOK'
  <2>1. query[t] \in Queries /\ topK[t] \in TopKs
    BY <1>4 DEF Answer
  <2>2. PICK r \in Rankings(query[t]) :
           results' = [results EXCEPT ![t] = Results(query[t], topK[t], r)]
    BY <1>4 DEF Answer
  <2>3. Results(query[t], topK[t], r) \in Seq(Sections)
    BY <2>1, AnswerIsBest
  <2>4. results' \in [Threads -> Seq(Sections)]
    BY <2>2, <2>3
  <2>5. at' = [at EXCEPT ![t] = "idle"] /\ UNCHANGED <<query, topK, stored>>
    BY <1>4 DEF Answer
  <2> QED BY <1>1, <2>4, <2>5
<1>5. CASE IndexChanges
  BY <1>1, <1>5 DEF IndexChanges
<1>6. CASE UNCHANGED vars
  BY <1>6 DEF vars
<1> QED BY <1>2, <1>3, <1>4, <1>5, <1>6 DEF Next, Search

\* CacheInv holds in every reachable state.
THEOREM CacheInvariance == Spec => []CacheInv
<1>1. Init => CacheInv
  BY EmptySeq, CacheSizeAssumption DEF Init, CacheInv, CacheBound, Places
<1> QED BY <1>1, CacheInvStep, PTL DEF Spec

\* The cache never exceeds SEARCH_QUERY_CACHE_SIZE nor holds a query twice,
\* whatever the number of threads that missed the same query.
THEOREM CacheKeepsSize == Spec => []CacheBound
<1>1. CacheInv => CacheBound
  BY DEF CacheInv
<1> QED BY <1>1, CacheInvariance, PTL

\* Only a full cache evicts, and never the query just embedded.
THEOREM Eviction == Spec => EvictionExact
<1> DEFINE Exact ==
      /\ \A i \in DOMAIN cache :
             cache[i] \notin ToSet(cache') =>
                 /\ Len(cache) = CacheSize
                 /\ Len(cache') = CacheSize
      /\ \A t \in Threads :
             at[t] = "embed" /\ at'[t] = "search" => query[t] \in ToSet(cache')
<1>1. CacheInv /\ [Next]_vars => [Exact]_vars
  <2> SUFFICES ASSUME CacheInv, Next
               PROVE  Exact
    OBVIOUS
  <2>1. ASSUME NEW t \in Threads, CacheHit(t)
        PROVE  Exact
    <3>1. at[t] = "lookup" /\ at' = [at EXCEPT ![t] = "search"] /\ at \in [Threads -> Places]
      BY <2>1 DEF CacheHit, CacheInv
    <3>2. \A u \in Threads : ~(at[u] = "embed" /\ at'[u] = "search")
      BY <3>1
    <3> QED BY <2>1, <3>2, CacheStep
  <2>2. ASSUME NEW t \in Threads, Embed(t)
        PROVE  Exact
    <3>1. at' = [at EXCEPT ![t] = "search"] /\ at \in [Threads -> Places]
      BY <2>2 DEF Embed, CacheInv
    <3>2. \A u \in Threads : at[u] = "embed" /\ at'[u] = "search" => u = t
      BY <3>1
    <3> QED BY <2>2, <3>2, CacheStep
  <2>3. ASSUME cache' = cache,
               \A u \in Threads : ~(at[u] = "embed" /\ at'[u] = "search")
        PROVE  Exact
    <3>1. \A i \in DOMAIN cache : cache[i] \in ToSet(cache')
      BY <2>3 DEF ToSet
    <3> QED BY <2>3, <3>1
  <2>4. ASSUME NEW t \in Threads,
               \/ \E q \in Queries, k \in TopKs : Start(t, q, k)
               \/ CacheMiss(t) \/ Answer(t) \/ Fail(t)
        PROVE  Exact
    <3>1. /\ cache' = cache /\ at \in [Threads -> Places]
          /\ \E p \in {"lookup", "embed", "idle"} : at' = [at EXCEPT ![t] = p]
      BY <2>4 DEF Start, CacheMiss, Answer, Fail, CacheInv
    <3> QED BY <2>3, <3>1
  <2>5. CASE IndexChanges
    BY <2>3, <2>5 DEF IndexChanges
  <2> QED BY <2>1, <2>2, <2>4, <2>5 DEF Next, Search
<1> QED BY <1>1, CacheInvariance, PTL DEF Spec, EvictionExact

\* Every variable keeps its type, and a thread past its start has a query.
THEOREM Typing == Spec => []TypeOK
<1>1. Init => TypeOK
  BY EmptySeq DEF Init, TypeOK, Places
<1>2. TypeOK /\ CacheInv /\ CacheInv' /\ [Next]_vars => TypeOK'
  BY TypeStep
<1> QED BY <1>1, <1>2, CacheInvariance, PTL DEF Spec

\* A search returns the top_k best of the sections that reach the threshold,
\* whatever the store holds, the scores, their ties and top_k: the filter over
\* three times as many candidates loses none of them.
THEOREM BestResults == Spec => ResultsAreBest
<1>1. ASSUME TypeOK, NEW t \in Threads, Answer(t)
      PROVE  Best(t, results'[t])
  <2>1. query[t] \in Queries /\ topK[t] \in TopKs /\ results \in [Threads -> Seq(Sections)]
    BY <1>1 DEF Answer, TypeOK
  <2>2. PICK r \in Rankings(query[t]) :
           results' = [results EXCEPT ![t] = Results(query[t], topK[t], r)]
    BY <1>1 DEF Answer
  <2>3. results'[t] = Results(query[t], topK[t], r)
    BY <2>1, <2>2
  <2> QED BY <1>1, <2>1, <2>3, AnswerIsBest
<1>2. TypeOK => [\A t \in Threads : Answer(t) => Best(t, results'[t])]_vars
  BY <1>1
<1> QED BY <1>2, Typing, PTL DEF ResultsAreBest

-----------------------------------------------------------------------------
(* The order of use.                                                       *)

\* Each query of the cache was used since those that come before it were.
CacheInOrder ==
    \A i, j \in 1..Len(cache) : i < j => <<cache[i], cache[j]>> \in since

RecencyInv ==
    /\ since \subseteq Queries \X Queries
    /\ \A a, b \in Queries : <<a, b>> \in since => <<b, a>> \notin since
    /\ CacheInOrder

\* The cache changes by a use only: the query goes last, the others keep their
\* order, and only the first of them makes room.
LEMMA CacheOrderStep ==
    ASSUME CacheInv, Next
    PROVE  \/ UNCHANGED cache
           \/ \E t \in Threads :
                 /\ UsedBy(t) /\ query[t] \in Queries
                 /\ \A u \in Threads : UsedBy(u) => u = t
                 /\ cache' \in Seq(Queries)
                 /\ KeepsOrder(cache, cache', query[t])
                 /\ \A i \in DOMAIN cache : cache[i] \notin ToSet(cache') => i = 1
                 /\ query[t] \in ToSet(cache')
<1> USE DEF CacheInv, CacheBound
<1>1. cache \in Seq(Queries) /\ Distinct(cache) /\ at \in [Threads -> Places]
  BY DEF Distinct
<1>2. ASSUME NEW t \in Threads, NEW u \in Threads, at' = [at EXCEPT ![t] = "search"], UsedBy(u)
      PROVE  u = t
  BY <1>1, <1>2 DEF UsedBy
<1>3. ASSUME NEW t \in Threads, CacheHit(t)
      PROVE  /\ UsedBy(t) /\ query[t] \in Queries
             /\ \A u \in Threads : UsedBy(u) => u = t
             /\ cache' \in Seq(Queries)
             /\ KeepsOrder(cache, cache', query[t])
             /\ \A i \in DOMAIN cache : cache[i] \notin ToSet(cache') => i = 1
             /\ query[t] \in ToSet(cache')
  <2>1. /\ at' = [at EXCEPT ![t] = "search"] /\ at[t] = "lookup" /\ query[t] \in Queries
        /\ cache' = MoveToEnd(cache, query[t])
        /\ \E i \in DOMAIN cache : cache[i] = query[t]
    BY <1>3 DEF CacheHit, Cached
  <2>2. /\ cache' \in Seq(Queries) /\ ToSet(cache') = ToSet(cache)
        /\ KeepsOrder(cache, cache', query[t])
    BY <1>1, <2>1, MoveToEndPermutes
  <2>3. UsedBy(t)
    BY <1>1, <2>1 DEF UsedBy
  <2>4. /\ \A i \in DOMAIN cache : cache[i] \in ToSet(cache')
        /\ query[t] \in ToSet(cache')
    BY <2>1, <2>2 DEF ToSet
  <2> QED BY <1>2, <2>1, <2>2, <2>3, <2>4
<1>4. ASSUME NEW t \in Threads, Embed(t), ~UNCHANGED cache
      PROVE  /\ UsedBy(t) /\ query[t] \in Queries
             /\ \A u \in Threads : UsedBy(u) => u = t
             /\ cache' \in Seq(Queries)
             /\ KeepsOrder(cache, cache', query[t])
             /\ \A i \in DOMAIN cache : cache[i] \notin ToSet(cache') => i = 1
             /\ query[t] \in ToSet(cache')
  <2>1. /\ at' = [at EXCEPT ![t] = "search"] /\ at[t] = "embed" /\ query[t] \in Queries
        /\ cache' = Evict(Assign(cache, query[t]))
    BY <1>4 DEF Embed
  <2>2. ~\E i \in DOMAIN cache : cache[i] = query[t]
    BY <1>1, <1>4, <2>1, LenProperties, CacheSizeAssumption DEF Assign, Evict
  <2>3. /\ KeepsOrder(cache, cache', query[t])
        /\ \A i \in DOMAIN cache : cache[i] \notin ToSet(cache') => i = 1
    BY <1>1, <2>1, <2>2, PutKeepsOrder
  <2>4. UsedBy(t)
    BY <1>1, <2>1, <2>2 DEF UsedBy, Cached
  <2>5. cache' \in Seq(Queries) /\ query[t] \in ToSet(cache')
    BY <1>4, CacheStep
  <2> QED BY <1>2, <2>1, <2>3, <2>4, <2>5
<1>5. CASE IndexChanges
  BY <1>5 DEF IndexChanges
<1> QED BY <1>3, <1>4, <1>5, OtherStep DEF Next, Search

LEMMA UseKeeps ==
    ASSUME RecencyInv, CacheInv, NEW q \in Queries, since' = Use(q),
           cache' \in Seq(Queries), KeepsOrder(cache, cache', q)
    PROVE  RecencyInv'
<1> USE DEF RecencyInv
<1>1. since' \subseteq Queries \X Queries
  BY DEF Use
<1>2. ASSUME NEW a \in Queries, NEW b \in Queries
      PROVE  <<a, b>> \in since' <=> (a # q /\ (<<a, b>> \in since \/ b = q))
  BY DEF Use
<1>3. \A a, b \in Queries : <<a, b>> \in since' => <<b, a>> \notin since'
  BY <1>2
<1>4. ASSUME NEW i \in 1..Len(cache'), NEW j \in 1..Len(cache'), i < j
      PROVE  <<cache'[i], cache'[j]>> \in since'
  <2>1. cache'[i] \in Queries /\ cache'[j] \in Queries
    OBVIOUS
  <2>2. /\ cache'[i] # q
        /\ \E a \in 1..Len(cache) :
              /\ cache[a] = cache'[i]
              /\ cache'[j] = q \/ \E b \in 1..Len(cache) : a < b /\ cache[b] = cache'[j]
    BY <1>4 DEF KeepsOrder
  <2>3. cache'[j] = q \/ <<cache'[i], cache'[j]>> \in since
    BY <2>2 DEF CacheInOrder
  <2> QED BY <1>2, <2>1, <2>2, <2>3
<1> QED BY <1>1, <1>3, <1>4 DEF CacheInOrder

LEMMA RecencyStep ==
    ASSUME CacheInv, RecencyInv, [HNext]_allVars
    PROVE  RecencyInv'
<1>1. CASE UNCHANGED <<cache, since>>
  BY <1>1 DEF RecencyInv, CacheInOrder
<1>2. CASE HNext /\ ~UNCHANGED cache
  <2>1. PICK t \in Threads :
           /\ UsedBy(t) /\ query[t] \in Queries
           /\ \A u \in Threads : UsedBy(u) => u = t
           /\ cache' \in Seq(Queries) /\ KeepsOrder(cache, cache', query[t])
    BY <1>2, CacheOrderStep DEF HNext
  <2>2. since' = Use(query[t])
    BY <1>2, <2>1 DEF HNext
  <2> QED BY <2>1, <2>2, UseKeeps
<1>3. CASE HNext /\ UNCHANGED cache /\ ~UNCHANGED since
  <2>1. PICK t \in Threads : UsedBy(t) /\ since' = Use(query[t])
    BY <1>3 DEF HNext
  <2>2. CacheHit(t)
    <3>1. /\ at[t] = "lookup" \/ (at[t] = "embed" /\ ~Cached(query[t]))
          /\ at'[t] = "search" /\ at \in [Threads -> Places]
      BY <2>1 DEF UsedBy, CacheInv
    <3>2. CacheHit(t) \/ (Embed(t) /\ at[t] = "embed")
      BY <1>3, <3>1 DEF HNext, Next, Search, Start, CacheHit, CacheMiss, Embed, Answer,
         Fail, IndexChanges
    <3>3. ~(Embed(t) /\ at[t] = "embed")
      <4>1. SUFFICES ASSUME Embed(t), ~Cached(query[t])
                     PROVE  FALSE
        BY <3>1
      <4>2. query[t] \in ToSet(cache')
        BY <4>1, CacheStep
      <4> QED BY <1>3, <4>1, <4>2 DEF Cached, ToSet
    <3> QED BY <3>2, <3>3
  <2>3. query[t] \in Queries /\ Distinct(cache) /\ cache \in Seq(Queries)
    BY <2>2 DEF CacheHit, CacheInv, CacheBound, Distinct
  <2>4. KeepsOrder(cache, cache', query[t]) /\ cache' \in Seq(Queries)
    BY <2>2, <2>3, MoveToEndPermutes DEF CacheHit, Cached
  <2> QED BY <2>1, <2>3, <2>4, UseKeeps
<1> QED BY <1>1, <1>2, <1>3 DEF allVars, vars

LEMMA HistoryRefines == HSpec => Spec
<1>1. [HNext]_allVars => [Next]_vars
  BY DEF HNext, allVars
<1> QED BY <1>1, PTL DEF HSpec, HInit, Spec

LEMMA RecencyInvariance == HSpec => []RecencyInv
<1>1. HInit => RecencyInv
  BY DEF HInit, Init, RecencyInv, CacheInOrder
<1> QED BY <1>1, RecencyStep, HistoryRefines, CacheInvariance, PTL DEF HSpec

\* The cache evicts the query that was used least recently, whatever the order
\* in which threads look up, embed and insert.
THEOREM Recency == HSpec => LeastRecentlyUsed
<1>1. ASSUME CacheInv, RecencyInv, RecencyInv', HNext,
             NEW q \in ToSet(cache) \ ToSet(cache'), NEW r \in ToSet(cache')
      PROVE  <<q, r>> \in since' /\ <<r, q>> \notin since'
  <2>1. PICK t \in Threads :
           /\ UsedBy(t) /\ query[t] \in Queries
           /\ \A u \in Threads : UsedBy(u) => u = t
           /\ cache' \in Seq(Queries) /\ KeepsOrder(cache, cache', query[t])
           /\ \A i \in DOMAIN cache : cache[i] \notin ToSet(cache') => i = 1
           /\ query[t] \in ToSet(cache')
    BY <1>1, CacheOrderStep DEF HNext
  <2>2. since' = Use(query[t])
    BY <1>1, <2>1 DEF HNext
  <2>3. q # query[t] /\ q \in Queries /\ r \in Queries
    BY <1>1, <2>1 DEF CacheInv, ToSet
  <2>4. PICK i \in DOMAIN cache : cache[i] = q
    BY DEF ToSet
  <2>5. i = 1
    BY <2>1, <2>4
  <2>6. r = query[t] \/ <<q, r>> \in since
    <3>1. SUFFICES ASSUME r # query[t]
                   PROVE  <<q, r>> \in since
      OBVIOUS
    <3>2. \E j \in DOMAIN cache : cache[j] = r
      <4>1. PICK k \in 1..Len(cache') : cache'[k] = r
        BY <2>1, LenProperties DEF ToSet
      <4>2. PICK l \in 1..Len(cache') : cache'[l] = query[t]
        BY <2>1, LenProperties DEF ToSet
      <4>3. k # l /\ k \in Nat /\ l \in Nat
        BY <2>1, <3>1, <4>1, <4>2
      <4>4. ~(l < k)
        BY <2>1, <4>2 DEF KeepsOrder
      <4>5. k < l
        BY <4>3, <4>4
      <4>6. \E a \in 1..Len(cache) : cache[a] = r
        BY <2>1, <4>1, <4>5 DEF KeepsOrder
      <4> QED BY <1>1, <4>6, LenProperties DEF CacheInv
    <3>3. PICK j \in DOMAIN cache : cache[j] = r
      BY <3>2
    <3>4. j # 1
      BY <2>4, <2>5, <3>3
    <3>5. DOMAIN cache = 1..Len(cache) /\ Len(cache) \in Nat
      BY <1>1, LenProperties DEF CacheInv
    <3>6. i < j
      BY <2>5, <3>4, <3>5
    <3> QED BY <1>1, <2>4, <3>3, <3>6 DEF RecencyInv, CacheInOrder
  <2>7. <<q, r>> \in since'
    BY <2>2, <2>3, <2>6 DEF Use
  <2> QED BY <1>1, <2>3, <2>7 DEF RecencyInv
<1>2. CacheInv /\ RecencyInv /\ RecencyInv' /\ [HNext]_allVars =>
         [\A q \in ToSet(cache) \ ToSet(cache'), r \in ToSet(cache') :
              <<q, r>> \in since' /\ <<r, q>> \notin since']_allVars
  BY <1>1
<1> QED BY <1>2, HistoryRefines, CacheInvariance, RecencyInvariance, PTL
        DEF HSpec, LeastRecentlyUsed
=============================================================================
