--------------------- MODULE SubscriptionRegistryProofs ---------------------
(***************************************************************************)
(* Facts about the operators of SubscriptionRegistry, for every path, url, *)
(* session, value and capacity: what the two list operations of the        *)
(* interval queue return, and that each method of the registry keeps it    *)
(* well-formed, its indexes in agreement and its queue sorted.             *)
(***************************************************************************)
EXTENDS SubscriptionRegistry, FiniteSetTheorems, WellFoundedInduction,
        NaturalsInduction, TLAPS

\* A non-empty set of naturals has a least element, which Min returns.
LEMMA MinOfNaturals ==
  ASSUME NEW S \in SUBSET Nat, S # {}
  PROVE  /\ Min(S) \in S
         /\ \A x \in S : Min(S) <= x
<1>. DEFINE below(x) == 1 .. x
            T == {below(x) : x \in S}
<1>1. T \subseteq FiniteSubsetsOf(Nat)
  BY FS_Interval DEF FiniteSubsetsOf
<1>2. PICK t \in T : \A u \in T : ~(<<u, t>> \in StrictSubsetOrdering(Nat))
  <2>1. IsWellFoundedOn(StrictSubsetOrdering(Nat), FiniteSubsetsOf(Nat))
    BY FS_StrictSubsetOrderingWellFounded
  <2>2. T # {}
    OBVIOUS
  <2>. HIDE DEF T
  <2>. QED
    BY <1>1, <2>1, <2>2, WFMin, Zenon
<1>3. PICK m \in S : t = below(m)
  OBVIOUS
<1>4. \A x \in S : m <= x
  <2>. SUFFICES ASSUME NEW x \in S, x < m
                PROVE  FALSE
    OBVIOUS
  <2>1. below(x) \subseteq below(m) /\ m \in below(m) /\ m \notin below(x)
    OBVIOUS
  <2>2. <<below(x), below(m)>> \in StrictSubsetOrdering(Nat)
    BY <2>1 DEF StrictSubsetOrdering
  <2>. QED
    BY <1>2, <1>3, <2>2
<1>. QED
  BY <1>4 DEF Min

-----------------------------------------------------------------------------
\* insert_interval_sorted (subscriptions.rs:336-356) adds one entry: at some
\* place, everything in front of it due no later and the entry behind it, if
\* there is one, due later; all other entries keep their order.
LEMMA InsertedSortedPlace ==
  ASSUME NEW queue \in Seq(Rid), NEW subs, NEW rid \in Rid,
         Ids(queue) \subseteq DOMAIN subs,
         \A r \in DOMAIN subs : subs[r].trigger_time \in Int,
         rid \in DOMAIN subs
  PROVE  \E pos \in 1 .. Len(queue) + 1 :
           /\ InsertedSorted(subs, queue, rid) =
                [i \in 1 .. Len(queue) + 1 |->
                   IF i < pos THEN queue[i]
                   ELSE IF i = pos THEN rid ELSE queue[i - 1]]
           /\ \A i \in 1 .. pos - 1 :
                subs[queue[i]].trigger_time <= subs[rid].trigger_time
           /\ pos <= Len(queue) =>
                subs[queue[pos]].trigger_time > subs[rid].trigger_time
<1>. DEFINE later == {i \in DOMAIN queue :
                        \/ queue[i] \notin DOMAIN subs
                        \/ subs[queue[i]].trigger_time > subs[rid].trigger_time}
            pos == IF later = {} THEN Len(queue) + 1 ELSE Min(later)
<1>1. /\ later \in SUBSET (1 .. Len(queue))
      /\ \A i \in 1 .. Len(queue) : i \notin later =>
           subs[queue[i]].trigger_time <= subs[rid].trigger_time
      /\ \A i \in later : subs[queue[i]].trigger_time > subs[rid].trigger_time
  BY DEF Ids
<1>2. CASE later = {}
  <2>1. pos = Len(queue) + 1
    BY <1>2
  <2>. QED
    BY <1>1, <1>2, <2>1 DEF InsertedSorted
<1>3. CASE later # {}
  <2>1. pos \in later /\ \A i \in later : pos <= i
    <3>1. later \in SUBSET Nat
      BY <1>1
    <3>. QED
      BY <3>1, <1>3, MinOfNaturals
  <2>2. pos \in 1 .. Len(queue) + 1
    BY <1>1, <2>1
  <2>3. \A i \in 1 .. pos - 1 : i \in 1 .. Len(queue) /\ i \notin later
    <3>1. pos \in 1 .. Len(queue) /\ Len(queue) \in Nat
      BY <1>1, <2>1
    <3>. HIDE DEF pos, later
    <3>. QED
      BY <2>1, <3>1
  <2>4. InsertedSorted(subs, queue, rid) =
          [i \in 1 .. Len(queue) + 1 |->
             IF i < pos THEN queue[i] ELSE IF i = pos THEN rid ELSE queue[i - 1]]
    BY DEF InsertedSorted
  <2>. HIDE DEF pos, later
  <2>. QED
    BY <1>1, <2>1, <2>2, <2>3, <2>4
<1>. QED
  BY <1>2, <1>3
-----------------------------------------------------------------------------
\* result has n entries, the k-th of them from place at[k] of queue: all places
\* whose entry is not gone, in the order they were in.
Keeps(result, queue, gone, n, at) ==
  LET kept == {i \in DOMAIN queue : queue[i] \notin gone}
  IN  /\ n \in Nat
      /\ at \in [1 .. n -> kept]
      /\ result = [k \in 1 .. n |-> queue[at[k]]]
      /\ \A k, l \in 1 .. n : k < l => at[k] < at[l]
      /\ \A i \in kept : \E k \in 1 .. n : at[k] = i

\* cancel's retain (subscriptions.rs:251-258) keeps the entries that are not
\* gone, each once and in the order they were in.
LEMMA RetainedPlaces ==
  ASSUME NEW S, NEW queue \in Seq(S), NEW gone
  PROVE  \E n, at : Keeps(Retained(queue, gone), queue, gone, n, at)
<1>. DEFINE kept == {i \in DOMAIN queue : queue[i] \notin gone}
            upTo(i) == {j \in kept : j <= i}
            rank(i) == Cardinality(upTo(i))
            n == Cardinality(kept)
            at == [k \in 1 .. n |-> CHOOSE i \in kept : rank(i) = k]
            ranks == [i \in kept |-> rank(i)]
<1>1. /\ kept \subseteq 1 .. Len(queue)
      /\ IsFiniteSet(kept)
      /\ n \in Nat
  <2>1. kept \in SUBSET (1 .. Len(queue)) /\ Len(queue) \in Nat
    OBVIOUS
  <2>. HIDE DEF kept
  <2>2. IsFiniteSet(1 .. Len(queue))
    BY <2>1, FS_Interval
  <2>3. IsFiniteSet(kept)
    BY <2>1, <2>2, FS_Subset
  <2>. QED
    BY <2>1, <2>3, FS_CardinalityType
<1>2. \A i \in kept : IsFiniteSet(upTo(i)) /\ rank(i) \in Nat /\ rank(i) \in 1 .. n
  <2>. SUFFICES ASSUME NEW i \in kept
                PROVE  IsFiniteSet(upTo(i)) /\ rank(i) \in Nat /\ rank(i) \in 1 .. n
    OBVIOUS
  <2>1. upTo(i) \in SUBSET kept /\ i \in upTo(i)
    BY <1>1
  <2>2. IsFiniteSet(upTo(i)) /\ rank(i) <= n
    BY <1>1, <2>1, FS_Subset
  <2>3. rank(i) \in Nat /\ rank(i) # 0
    BY <2>1, <2>2, FS_CardinalityType, FS_EmptySet
  <2>. QED
    BY <1>1, <2>2, <2>3
<1>3. \A i, j \in kept : i < j => rank(i) < rank(j)
  <2>. SUFFICES ASSUME NEW i \in kept, NEW j \in kept, i < j
                PROVE  rank(i) < rank(j)
    OBVIOUS
  <2>1. upTo(i) \in SUBSET upTo(j) /\ j \in upTo(j) /\ j \notin upTo(i)
    BY <1>1
  <2>2. rank(i) <= rank(j) /\ rank(i) # rank(j)
    BY <1>2, <2>1, FS_Subset
  <2>3. rank(i) \in Int /\ rank(j) \in Int
    <3>1. rank(i) \in Nat /\ rank(j) \in Nat
      BY <1>2
    <3>. HIDE DEF rank
    <3>. QED
      BY <3>1
  <2>. HIDE DEF rank
  <2>. QED
    BY <2>2, <2>3
<1>4. \A k \in 1 .. n : \E i \in kept : rank(i) = k
  <2>1. ranks \in Injection(kept, 1 .. n)
    <3>1. ranks \in [kept -> 1 .. n]
      BY <1>2
    <3>2. \A i, j \in kept : ranks[i] = ranks[j] => i = j
      <4>. SUFFICES ASSUME NEW i \in kept, NEW j \in kept, i # j
                    PROVE  rank(i) # rank(j)
        OBVIOUS
      <4>1. i < j \/ j < i
        BY <1>1
      <4>2. rank(i) \in Int /\ rank(j) \in Int
        <5>1. rank(i) \in Nat /\ rank(j) \in Nat
          BY <1>2
        <5>. HIDE DEF rank
        <5>. QED
          BY <5>1
      <4>. HIDE DEF rank
      <4>. QED
        BY <1>3, <4>1, <4>2
    <3>. QED
      BY <3>1, <3>2 DEF Injection, IsInjective
  <2>2. IsFiniteSet(1 .. n) /\ Cardinality(1 .. n) = n
    BY <1>1, FS_Interval
  <2>3. ranks \in Surjection(kept, 1 .. n)
    BY <2>1, <2>2, FS_Injection
  <2>. QED
    BY <2>3 DEF Surjection
<1>5. \A k \in 1 .. n : at[k] \in kept /\ rank(at[k]) = k
  BY <1>4
<1>6. at \in [1 .. n -> kept]
  BY <1>5
<1>7. Retained(queue, gone) = [k \in 1 .. n |-> queue[at[k]]]
  BY DEF Retained
<1>8. \A k, l \in 1 .. n : k < l => at[k] < at[l]
  <2>. SUFFICES ASSUME NEW k \in 1 .. n, NEW l \in 1 .. n, k < l, ~(at[k] < at[l])
                PROVE  FALSE
    OBVIOUS
  <2>1. at[k] \in kept /\ at[l] \in kept /\ rank(at[k]) = k /\ rank(at[l]) = l
    BY <1>5
  <2>. HIDE DEF rank, at
  <2>2. at[l] = at[k] \/ at[l] < at[k]
    BY <1>1, <2>1
  <2>. QED
    BY <1>1, <1>3, <2>1, <2>2
<1>9. \A i \in kept : \E k \in 1 .. n : at[k] = i
  <2>. SUFFICES ASSUME NEW i \in kept
                PROVE  at[rank(i)] = i
    BY <1>2
  <2>1. rank(i) \in 1 .. n
    BY <1>2
  <2>2. at[rank(i)] \in kept /\ rank(at[rank(i)]) = rank(i)
    BY <1>5, <2>1
  <2>. HIDE DEF rank, at
  <2>3. CASE at[rank(i)] # i
    <3>1. at[rank(i)] < i \/ i < at[rank(i)]
      BY <1>1, <2>2, <2>3
    <3>. QED
      BY <1>1, <1>2, <1>3, <2>1, <2>2, <3>1
  <2>. QED
    BY <2>3
<1>10. n \in Nat
  BY <1>1
<1>. HIDE DEF at, n
<1>11. Keeps(Retained(queue, gone), queue, gone, n, at)
  BY <1>6, <1>7, <1>8, <1>9, <1>10 DEF Keeps
<1>. QED
  BY <1>11
-----------------------------------------------------------------------------
\* What cancel's retain leaves are entries that were there.
LEMMA RetainedType ==
  ASSUME NEW S, NEW queue \in Seq(S), NEW gone
  PROVE  /\ Retained(queue, gone) \in Seq(S)
         /\ \A k \in DOMAIN Retained(queue, gone) :
              \E i \in DOMAIN queue : Retained(queue, gone)[k] = queue[i]
<1>1. PICK n, at : Keeps(Retained(queue, gone), queue, gone, n, at)
  BY RetainedPlaces
<1>. QED
  BY <1>1 DEF Keeps
-----------------------------------------------------------------------------
\* An insertion into a sorted queue without repeats leaves it so.
LEMMA InsertedSortedKeeps ==
  ASSUME NEW queue \in Seq(Rid), NEW subs, NEW rid \in Rid,
         Ids(queue) \subseteq DOMAIN subs,
         \A r \in DOMAIN subs : subs[r].trigger_time \in Int,
         rid \in DOMAIN subs, rid \notin Ids(queue),
         NoRepeats(queue), SortedByTrigger(subs, queue)
  PROVE  LET result == InsertedSorted(subs, queue, rid)
         IN  /\ result \in Seq(Rid)
             /\ Ids(result) = Ids(queue) \cup {rid}
             /\ NoRepeats(result)
             /\ SortedByTrigger(subs, result)
<1>. DEFINE result == InsertedSorted(subs, queue, rid)
            last == Len(queue) + 1
            due(r) == subs[r].trigger_time
<1>1. PICK pos \in 1 .. last :
        /\ result = [i \in 1 .. last |->
             IF i < pos THEN queue[i] ELSE IF i = pos THEN rid ELSE queue[i - 1]]
        /\ \A i \in 1 .. pos - 1 : due(queue[i]) <= due(rid)
        /\ pos <= Len(queue) => due(queue[pos]) > due(rid)
  BY InsertedSortedPlace
<1>2. /\ Len(queue) \in Nat /\ last \in Nat /\ pos \in Nat
      /\ DOMAIN queue = 1 .. Len(queue)
      /\ \A i \in 1 .. Len(queue) :
           queue[i] \in Rid /\ queue[i] # rid /\ due(queue[i]) \in Int
  BY DEF Ids
<1>3. /\ DOMAIN result = 1 .. last
      /\ \A i \in 1 .. last : i < pos => i \in 1 .. Len(queue) /\ result[i] = queue[i]
      /\ result[pos] = rid
      /\ \A i \in 1 .. last : i > pos =>
           i - 1 \in 1 .. Len(queue) /\ i - 1 \in Nat /\ result[i] = queue[i - 1]
  <2>. HIDE DEF result
  <2>. QED
    BY <1>1, <1>2
<1>. HIDE DEF result
<1>4. result \in Seq(Rid)
  <2>1. \A i \in 1 .. last : result[i] \in Rid
    BY <1>2, <1>3
  <2>. QED
    BY <1>1, <1>2, <2>1
<1>5. Ids(result) = Ids(queue) \cup {rid}
  <2>1. \A i \in 1 .. last : result[i] \in Ids(queue) \cup {rid}
    BY <1>2, <1>3, SMTT(30) DEF Ids
  <2>2. \A i \in 1 .. Len(queue) : queue[i] \in Ids(result)
    <3>. SUFFICES ASSUME NEW i \in 1 .. Len(queue)
                  PROVE  \E j \in 1 .. last : result[j] = queue[i]
      BY <1>3 DEF Ids
    <3>1. CASE i < pos
      BY <1>2, <1>3, <3>1
    <3>2. CASE ~(i < pos)
      <4>1. i + 1 \in 1 .. last /\ i + 1 > pos /\ (i + 1) - 1 = i
        BY <1>2, <3>2
      <4>. QED
        BY <1>3, <4>1
    <3>. QED
      BY <3>1, <3>2
  <2>3. rid \in Ids(result)
    BY <1>3 DEF Ids
  <2>. QED
    BY <1>2, <1>3, <2>1, <2>2, <2>3 DEF Ids
<1>6. NoRepeats(result)
  <2>. SUFFICES ASSUME NEW i \in 1 .. last, NEW j \in 1 .. last,
                       i < j, result[i] = result[j]
                PROVE  FALSE
    BY <1>2, <1>3 DEF NoRepeats
  <2>1. \A k, l \in 1 .. Len(queue) : k < l => queue[k] # queue[l]
    BY <1>2 DEF NoRepeats
  <2>2. CASE j < pos
    <3>1. /\ i \in 1 .. Len(queue) /\ j \in 1 .. Len(queue)
          /\ result[i] = queue[i] /\ result[j] = queue[j]
      BY <1>2, <1>3, <2>2
    <3>. QED
      BY <2>1, <3>1
  <2>3. CASE j = pos
    BY <1>2, <1>3, <2>3
  <2>4. CASE i = pos
    BY <1>2, <1>3, <2>4
  <2>5. CASE i < pos /\ j > pos
    <3>1. /\ i \in 1 .. Len(queue) /\ j - 1 \in 1 .. Len(queue)
          /\ result[i] = queue[i] /\ result[j] = queue[j - 1]
      BY <1>2, <1>3, <2>5
    <3>2. i < pos /\ pos <= j - 1
      BY <1>2, <2>5
    <3>3. i < j - 1
      BY <1>2, <3>2
    <3>. QED
      BY <2>1, <3>1, <3>3
  <2>6. CASE i > pos
    <3>1. /\ i - 1 \in 1 .. Len(queue) /\ j - 1 \in 1 .. Len(queue)
          /\ result[i] = queue[i - 1] /\ result[j] = queue[j - 1] /\ i - 1 < j - 1
      BY <1>2, <1>3, <2>6
    <3>. QED
      BY <2>1, <3>1
  <2>. QED
    BY <1>2, <2>2, <2>3, <2>4, <2>5, <2>6
<1>7. SortedByTrigger(subs, result)
  <2>. SUFFICES ASSUME NEW i \in 1 .. last, NEW j \in 1 .. last, i < j
                PROVE  due(result[i]) <= due(result[j])
    BY <1>3 DEF SortedByTrigger
  <2>1. \A k, l \in 1 .. Len(queue) : k <= l => due(queue[k]) <= due(queue[l])
    <3>. SUFFICES ASSUME NEW k \in 1 .. Len(queue), NEW l \in 1 .. Len(queue), k <= l
                  PROVE  due(queue[k]) <= due(queue[l])
      OBVIOUS
    <3>1. CASE k = l
      BY <1>2, <3>1
    <3>2. CASE k < l
      BY <1>2, <3>2 DEF SortedByTrigger
    <3>. QED
      BY <3>1, <3>2
  <2>2. \A k \in 1 .. Len(queue) : k >= pos => due(rid) <= due(queue[k])
    <3>. SUFFICES ASSUME NEW k \in 1 .. Len(queue), k >= pos
                  PROVE  due(rid) <= due(queue[k])
      OBVIOUS
    <3>1. pos \in 1 .. Len(queue) /\ due(queue[pos]) > due(rid)
      BY <1>1, <1>2
    <3>2. due(queue[pos]) <= due(queue[k])
      BY <2>1, <3>1
    <3>3. due(rid) \in Int /\ due(queue[pos]) \in Int /\ due(queue[k]) \in Int
      BY <1>2, <3>1
    <3>. HIDE DEF due
    <3>. QED
      BY <3>1, <3>2, <3>3
  <2>. HIDE DEF due
  <2>3. CASE j < pos
    <3>1. result[i] = queue[i] /\ result[j] = queue[j]
      BY <1>2, <1>3, <2>3
    <3>. QED
      BY <1>2, <1>3, <2>1, <2>3, <3>1
  <2>4. CASE j = pos
    <3>1. result[i] = queue[i] /\ result[j] = rid /\ i \in 1 .. pos - 1
      BY <1>2, <1>3, <2>4
    <3>. QED
      BY <1>1, <3>1
  <2>5. CASE i = pos
    <3>1. /\ result[i] = rid /\ result[j] = queue[j - 1]
          /\ j - 1 \in 1 .. Len(queue) /\ j - 1 >= pos
      BY <1>2, <1>3, <2>5
    <3>. QED
      BY <2>2, <3>1
  <2>6. CASE j > pos /\ i < pos
    <3>1. /\ result[i] = queue[i] /\ result[j] = queue[j - 1]
          /\ i \in 1 .. Len(queue) /\ j - 1 \in 1 .. Len(queue) /\ i <= j - 1
      BY <1>2, <1>3, <2>6
    <3>. QED
      BY <2>1, <3>1
  <2>7. CASE i > pos
    <3>1. /\ result[i] = queue[i - 1] /\ result[j] = queue[j - 1]
          /\ i - 1 \in 1 .. Len(queue) /\ j - 1 \in 1 .. Len(queue)
          /\ i - 1 <= j - 1
      BY <1>2, <1>3, <2>7
    <3>. QED
      BY <2>1, <3>1
  <2>. QED
    BY <1>2, <2>3, <2>4, <2>5, <2>6, <2>7
<1>. QED
  BY <1>4, <1>5, <1>6, <1>7 DEF result

\* A removal leaves a sorted queue without repeats so, and without the removed.
LEMMA RetainedKeeps ==
  ASSUME NEW queue \in Seq(Rid), NEW gone, NoRepeats(queue)
  PROVE  LET result == Retained(queue, gone)
         IN  /\ result \in Seq(Rid)
             /\ Ids(result) = Ids(queue) \ gone
             /\ NoRepeats(result)
             /\ \A subs : SortedByTrigger(subs, queue) => SortedByTrigger(subs, result)
<1>. DEFINE result == Retained(queue, gone)
            kept == {i \in DOMAIN queue : queue[i] \notin gone}
<1>1. PICK n, at : Keeps(result, queue, gone, n, at)
  BY RetainedPlaces
<1>. HIDE DEF result
<1>2. /\ n \in Nat /\ at \in [1 .. n -> kept]
      /\ result = [k \in 1 .. n |-> queue[at[k]]]
      /\ \A k, l \in 1 .. n : k < l => at[k] < at[l]
      /\ \A i \in kept : \E k \in 1 .. n : at[k] = i
  BY <1>1 DEF Keeps
<1>3. /\ DOMAIN result = 1 .. n
      /\ DOMAIN queue = 1 .. Len(queue) /\ Len(queue) \in Nat
      /\ \A k \in 1 .. n : /\ result[k] = queue[at[k]]
                           /\ at[k] \in 1 .. Len(queue)
                           /\ queue[at[k]] \notin gone
                           /\ queue[at[k]] \in Rid
  BY <1>2
<1>4. result \in Seq(Rid)
  BY <1>2, <1>3
<1>5. Ids(result) = Ids(queue) \ gone
  <2>1. \A k \in 1 .. n : result[k] \in Ids(queue) \ gone
    BY <1>3 DEF Ids
  <2>2. \A i \in 1 .. Len(queue) : queue[i] \notin gone => queue[i] \in Ids(result)
    <3>. SUFFICES ASSUME NEW i \in 1 .. Len(queue), queue[i] \notin gone
                  PROVE  \E k \in 1 .. n : result[k] = queue[i]
      BY <1>3 DEF Ids
    <3>1. i \in kept
      BY <1>3
    <3>2. PICK k \in 1 .. n : at[k] = i
      BY <1>2, <3>1
    <3>. QED
      BY <1>3, <3>2
  <2>. QED
    BY <1>3, <2>1, <2>2 DEF Ids
<1>6. NoRepeats(result)
  <2>. SUFFICES ASSUME NEW k \in 1 .. n, NEW l \in 1 .. n, k < l, result[k] = result[l]
                PROVE  FALSE
    BY <1>3 DEF NoRepeats
  <2>. QED
    BY <1>2, <1>3 DEF NoRepeats
<1>7. \A subs : SortedByTrigger(subs, queue) => SortedByTrigger(subs, result)
  BY <1>2, <1>3 DEF SortedByTrigger
<1>. QED
  BY <1>4, <1>5, <1>6, <1>7 DEF result

\* Taking the front off leaves a sorted queue without repeats so.
LEMMA TailKeeps ==
  ASSUME NEW queue \in Seq(Rid), queue # <<>>, NoRepeats(queue)
  PROVE  /\ Head(queue) \in Rid /\ Head(queue) \in Ids(queue)
         /\ Tail(queue) \in Seq(Rid)
         /\ Ids(Tail(queue)) = Ids(queue) \ {Head(queue)}
         /\ NoRepeats(Tail(queue))
         /\ \A subs : SortedByTrigger(subs, queue) => SortedByTrigger(subs, Tail(queue))
<1>. DEFINE rest == Tail(queue)
<1>1. /\ Len(queue) \in Nat \ {0} /\ DOMAIN queue = 1 .. Len(queue)
      /\ rest \in Seq(Rid) /\ DOMAIN rest = 1 .. Len(queue) - 1
      /\ Head(queue) = queue[1] /\ queue[1] \in Rid
      /\ \A i \in 1 .. Len(queue) - 1 :
           rest[i] = queue[i + 1] /\ i + 1 \in 1 .. Len(queue) /\ i + 1 # 1
  OBVIOUS
<1>. HIDE DEF rest
<1>2. \A i \in 2 .. Len(queue) : i - 1 \in 1 .. Len(queue) - 1 /\ queue[i] = rest[i - 1]
  BY <1>1
<1>3. Ids(rest) = Ids(queue) \ {queue[1]}
  <2>1. \A i \in 1 .. Len(queue) : i = 1 \/ i \in 2 .. Len(queue)
    OBVIOUS
  <2>2. \A i \in 1 .. Len(queue) - 1 : rest[i] \in Ids(queue) \ {queue[1]}
    BY <1>1 DEF Ids, NoRepeats
  <2>3. \A i \in 1 .. Len(queue) : queue[i] # queue[1] => queue[i] \in Ids(rest)
    BY <1>1, <1>2, <2>1 DEF Ids
  <2>. QED
    BY <1>1, <2>2, <2>3 DEF Ids
<1>4. NoRepeats(rest)
  <2>. SUFFICES ASSUME NEW i \in 1 .. Len(queue) - 1, NEW j \in 1 .. Len(queue) - 1,
                       rest[i] = rest[j]
                PROVE  i = j
    BY <1>1 DEF NoRepeats
  <2>1. queue[i + 1] = queue[j + 1] /\ i + 1 \in DOMAIN queue /\ j + 1 \in DOMAIN queue
    BY <1>1
  <2>2. i + 1 = j + 1
    BY <2>1 DEF NoRepeats
  <2>. QED
    BY <1>1, <2>2
<1>5. \A subs : SortedByTrigger(subs, queue) => SortedByTrigger(subs, rest)
  BY <1>1, SMTT(30) DEF SortedByTrigger
<1>. QED
  BY <1>1, <1>3, <1>4, <1>5, SMTT(30) DEF rest, Ids
-----------------------------------------------------------------------------
\* What every method of the registry relies on and leaves behind.
WellKept(reg, popped) ==
  /\ RegistryOK(reg)
  /\ Indexed(reg, popped)
  /\ SortedByTrigger(reg.subscriptions, reg.interval_queue)

\* A new registry (subscriptions.rs:155-163) is well kept.
LEMMA EmptyKept == WellKept(EmptyRegistry, {})
  BY DEF WellKept, RegistryOK, Fields, Rid, Indexed, EmptyRegistry, Ids, TimedIn,
         EventsOn, NoRepeats, SortedByTrigger

\* cancel (subscriptions.rs:243-266) takes a subscription out of every place
\* that refers to it, and nothing else out of any.
LEMMA CancelledKept ==
  ASSUME NEW reg, NEW popped, NEW rids, WellKept(reg, popped)
  PROVE  WellKept(Cancelled(reg, rids), popped \ rids)
<1>. DEFINE subs == reg.subscriptions
            gone == rids \cap DOMAIN subs
            timed == {r \in gone : ~IsEvent(subs[r])}
            new == Cancelled(reg, rids)
            queue == reg.interval_queue
<1>1. RegistryOK(reg) /\ Indexed(reg, popped) /\ SortedByTrigger(subs, queue)
  BY DEF WellKept
<1>2. /\ DOMAIN new = Fields
      /\ new.subscriptions = [r \in DOMAIN subs \ gone |-> subs[r]]
      /\ new.event_index = [p \in Path |-> reg.event_index[p] \
            {r \in gone : IsEvent(subs[r]) /\ subs[r].path = p}]
      /\ new.interval_queue = Retained(queue, timed)
      /\ new.poll_buffers = [r \in DOMAIN reg.poll_buffers \ gone |-> reg.poll_buffers[r]]
      /\ new.next_id = reg.next_id
  BY <1>1 DEF RegistryOK, Fields, Cancelled, Restrict
<1>3. /\ new.interval_queue \in Seq(Rid)
      /\ Ids(new.interval_queue) = Ids(queue) \ timed
      /\ NoRepeats(new.interval_queue)
      /\ SortedByTrigger(subs, new.interval_queue)
  BY <1>1, <1>2, RetainedKeeps DEF RegistryOK, Indexed
<1>. HIDE DEF new
<1>4. RegistryOK(new)
  BY <1>1, <1>2, <1>3 DEF RegistryOK
<1>5. Indexed(new, popped \ rids)
  <2>1. \A p \in Path : new.event_index[p] = EventsOn(new.subscriptions, p)
    BY <1>1, <1>2 DEF Indexed, EventsOn
  <2>2. Ids(new.interval_queue) = TimedIn(new.subscriptions) \ (popped \ rids)
    BY <1>1, <1>2, <1>3 DEF Indexed, TimedIn
  <2>3. DOMAIN new.poll_buffers
          = {r \in DOMAIN new.subscriptions : new.subscriptions[r].target = Poll}
    BY <1>1, <1>2 DEF Indexed
  <2>4. \A r \in DOMAIN new.subscriptions : r < new.next_id
    BY <1>1, <1>2 DEF Indexed
  <2>. QED
    BY <1>3, <2>1, <2>2, <2>3, <2>4 DEF Indexed
<1>6. SortedByTrigger(new.subscriptions, new.interval_queue)
  <2>1. \A i \in DOMAIN new.interval_queue :
          /\ new.interval_queue[i] \in DOMAIN new.subscriptions
          /\ new.subscriptions[new.interval_queue[i]] = subs[new.interval_queue[i]]
    <3>. SUFFICES ASSUME NEW i \in DOMAIN new.interval_queue
                  PROVE  /\ new.interval_queue[i] \in DOMAIN subs \ gone
                         /\ new.subscriptions = [r \in DOMAIN subs \ gone |-> subs[r]]
      OBVIOUS
    <3>1. new.interval_queue[i] \in Ids(queue) \ timed
      BY <1>3 DEF Ids
    <3>2. Ids(queue) \subseteq TimedIn(subs)
      BY <1>1 DEF Indexed
    <3>3. TimedIn(subs) \ timed \subseteq DOMAIN subs \ gone
      BY DEF TimedIn
    <3>. QED
      BY <1>2, <3>1, <3>2, <3>3
  <2>. QED
    BY <1>3, <2>1 DEF SortedByTrigger
<1>. QED
  BY <1>4, <1>5, <1>6 DEF WellKept, new
-----------------------------------------------------------------------------
\* A poll buffer never outgrows its capacity (subscriptions.rs:100-112).
LEMMA BufferedBounded ==
  ASSUME NEW buffer \in Seq(Value), Len(buffer) <= PollCapacity,
         NEW values \in Seq(Value), Len(values) <= 1
  PROVE  /\ Buffered(buffer, values) \in Seq(Value)
         /\ Len(Buffered(buffer, values)) <= PollCapacity
<1>1. Len(buffer) \in Nat /\ Len(values) \in Nat /\ PollCapacity \in Nat \ {0}
  BY RegistryAssumption
<1>2. CASE values = <<>>
  BY <1>2 DEF Buffered
<1>3. CASE values # <<>> /\ Len(buffer) < PollCapacity
  <2>1. Buffered(buffer, values) = buffer \o values
    BY <1>3 DEF Buffered
  <2>. QED
    BY <1>1, <1>3, <2>1
<1>4. CASE values # <<>> /\ ~(Len(buffer) < PollCapacity)
  <2>1. Buffered(buffer, values) = Tail(buffer) \o values
    BY <1>4 DEF Buffered
  <2>2. buffer # <<>>
    BY <1>1, <1>4
  <2>3. Tail(buffer) \in Seq(Value) /\ Len(Tail(buffer)) = Len(buffer) - 1
    BY <2>2
  <2>. HIDE DEF Buffered
  <2>. QED
    BY <1>1, <2>1, <2>3
<1>. QED
  BY <1>2, <1>3, <1>4

\* Buffering touches no index.
LEMMA BufferedKept ==
  ASSUME NEW reg, NEW popped, NEW rids, WellKept(reg, popped),
         NEW values \in Seq(Value), Len(values) <= 1
  PROVE  WellKept(WithBuffered(reg, rids, values), popped)
<1>. DEFINE new == WithBuffered(reg, rids, values)
<1>1. RegistryOK(reg) /\ Indexed(reg, popped)
      /\ SortedByTrigger(reg.subscriptions, reg.interval_queue)
  BY DEF WellKept
<1>2. /\ DOMAIN new = Fields
      /\ new.subscriptions = reg.subscriptions
      /\ new.event_index = reg.event_index
      /\ new.interval_queue = reg.interval_queue
      /\ new.poll_buffers = [r \in DOMAIN reg.poll_buffers |->
           IF r \in rids THEN Buffered(reg.poll_buffers[r], values)
                         ELSE reg.poll_buffers[r]]
      /\ new.next_id = reg.next_id
  BY <1>1 DEF RegistryOK, Fields, WithBuffered
<1>. HIDE DEF new
<1>3. RegistryOK(new)
  <2>1. \A r \in DOMAIN new.poll_buffers : /\ new.poll_buffers[r] \in Seq(Value)
                                           /\ Len(new.poll_buffers[r]) <= PollCapacity
    BY <1>1, <1>2, BufferedBounded DEF RegistryOK
  <2>. QED
    BY <1>1, <1>2, <2>1 DEF RegistryOK
<1>4. Indexed(new, popped)
  BY <1>1, <1>2 DEF Indexed
<1>. QED
  BY <1>1, <1>2, <1>3, <1>4 DEF WellKept, new

\* notify_event (subscriptions.rs:289-332)
LEMMA NotifiedKept ==
  ASSUME NEW reg, WellKept(reg, {}), NEW path, NEW now,
         NEW values \in Seq(Value), Len(values) <= 1
  PROVE  WellKept(Notified(reg, path, values, now), {})
<1>. DEFINE expired == ExpiredOf(reg, Watching(reg, path), now)
            buffered == WithBuffered(reg, Watching(reg, path) \ expired, values)
<1>1. WellKept(buffered, {})
  BY BufferedKept
<1>2. WellKept(Cancelled(buffered, expired), {} \ expired)
  BY <1>1, CancelledKept
<1>3. {} \ expired = {}
  OBVIOUS
<1>. QED
  BY <1>2, <1>3 DEF Notified

\* poll (subscriptions.rs:449-466)
LEMMA PolledKept ==
  ASSUME NEW reg, WellKept(reg, {}), NEW rid, NEW now
  PROVE  WellKept(Polled(reg, rid, now), {})
<1>1. CASE PollOutcome(reg, rid, now) = "NotFound"
  <2>1. WellKept(Cancelled(reg, {rid}), {} \ {rid}) /\ {} \ {rid} = {}
    BY CancelledKept
  <2>. QED
    BY <1>1, <2>1 DEF Polled
<1>2. CASE PollOutcome(reg, rid, now) = "Ok"
  <2>. DEFINE new == [reg EXCEPT !.poll_buffers[rid] = <<>>]
  <2>1. rid \in DOMAIN reg.poll_buffers
    BY <1>2 DEF PollOutcome
  <2>2. RegistryOK(reg) /\ Indexed(reg, {})
        /\ SortedByTrigger(reg.subscriptions, reg.interval_queue)
    BY DEF WellKept
  <2>3. /\ DOMAIN new = Fields
        /\ new.subscriptions = reg.subscriptions
        /\ new.event_index = reg.event_index
        /\ new.interval_queue = reg.interval_queue
        /\ new.poll_buffers = [reg.poll_buffers EXCEPT ![rid] = <<>>]
        /\ new.next_id = reg.next_id
    BY <2>2 DEF RegistryOK, Fields
  <2>. HIDE DEF new
  <2>4. RegistryOK(new)
    BY <2>1, <2>2, <2>3, RegistryAssumption DEF RegistryOK
  <2>5. WellKept(new, {})
    BY <2>2, <2>3, <2>4 DEF WellKept, Indexed
  <2>. QED
    BY <1>2, <2>5 DEF Polled, new
<1>3. CASE PollOutcome(reg, rid, now) \notin {"Ok", "NotFound"}
  BY <1>3 DEF Polled
<1>. QED
  BY <1>1, <1>2, <1>3
-----------------------------------------------------------------------------
\* create (subscriptions.rs:177-239)
LEMMA CreatedKept ==
  ASSUME NEW reg, WellKept(reg, {}), NEW path \in Path, NEW interval \in Int,
         NEW target \in Target, NEW ttl \in Nat, NEW now \in Nat,
         CanCreate(reg, interval)
  PROVE  WellKept(Created(reg, path, interval, target, ttl, now), {})
<1>. DEFINE rid == reg.next_id
            new == Created(reg, path, interval, target, ttl, now)
            sub == [path |-> path, interval |-> interval, target |-> target,
                    created_at |-> now, ttl |-> ttl,
                    trigger_time |-> IF interval > 0 THEN now + interval ELSE 0]
            subs == [r \in DOMAIN reg.subscriptions \cup {rid} |->
                       IF r = rid THEN sub ELSE reg.subscriptions[r]]
<1>1. RegistryOK(reg) /\ Indexed(reg, {})
      /\ SortedByTrigger(reg.subscriptions, reg.interval_queue)
  BY DEF WellKept
<1>2. interval = -1 \/ interval >= 1
  BY DEF CanCreate, OnEvent
<1>3. /\ sub \in Subscription
      /\ sub.path = path /\ sub.interval = interval /\ sub.target = target
      /\ sub.trigger_time \in Int
  BY <1>2 DEF Subscription
<1>4. /\ rid \in Rid /\ rid \notin DOMAIN reg.subscriptions
      /\ \A r \in DOMAIN reg.subscriptions : r < rid /\ r \in Rid
  BY <1>1 DEF RegistryOK, Indexed, Rid
<1>. HIDE DEF sub
<1>5. /\ DOMAIN subs = DOMAIN reg.subscriptions \cup {rid}
      /\ subs[rid] = sub
      /\ \A r \in DOMAIN reg.subscriptions : subs[r] = reg.subscriptions[r]
  BY <1>4
<1>6. /\ DOMAIN new = Fields
      /\ new.subscriptions = subs
      /\ new.event_index = IF interval < 0
           THEN [reg.event_index EXCEPT ![path] = @ \cup {rid}] ELSE reg.event_index
      /\ new.interval_queue = IF interval < 0 THEN reg.interval_queue
           ELSE InsertedSorted(subs, reg.interval_queue, rid)
      /\ new.poll_buffers = IF target = Poll
           THEN [r \in DOMAIN reg.poll_buffers \cup {rid} |->
                   IF r = rid THEN <<>> ELSE reg.poll_buffers[r]]
           ELSE reg.poll_buffers
      /\ new.next_id = rid + 1
  BY DEF Created, Fields, sub
<1>. HIDE DEF new, subs
<1>7. \A r \in DOMAIN subs : subs[r] \in Subscription /\ subs[r].trigger_time \in Int
  <2>1. \A r \in DOMAIN reg.subscriptions : reg.subscriptions[r] \in Subscription
    BY <1>1 DEF RegistryOK
  <2>2. \A x \in Subscription : x.trigger_time \in Int
    BY DEF Subscription
  <2>. QED
    BY <1>3, <1>5, <2>1, <2>2
<1>8. /\ Ids(reg.interval_queue) \subseteq DOMAIN reg.subscriptions
      /\ SortedByTrigger(subs, reg.interval_queue)
      /\ NoRepeats(reg.interval_queue) /\ reg.interval_queue \in Seq(Rid)
      /\ rid \notin Ids(reg.interval_queue)
  <2>1. Ids(reg.interval_queue) \subseteq DOMAIN reg.subscriptions
    BY <1>1 DEF Indexed, TimedIn
  <2>2. SortedByTrigger(subs, reg.interval_queue)
    BY <1>1, <1>5, <2>1 DEF SortedByTrigger, Ids
  <2>. QED
    BY <1>1, <1>4, <2>1, <2>2 DEF RegistryOK, Indexed
<1>9. /\ new.interval_queue \in Seq(Rid)
      /\ Ids(new.interval_queue) =
           Ids(reg.interval_queue) \cup (IF interval < 0 THEN {} ELSE {rid})
      /\ NoRepeats(new.interval_queue)
      /\ SortedByTrigger(subs, new.interval_queue)
  <2>1. CASE interval < 0
    BY <1>6, <1>8, <2>1
  <2>2. CASE ~(interval < 0)
    BY <1>4, <1>5, <1>6, <1>7, <1>8, <2>2, InsertedSortedKeeps
  <2>. QED
    BY <2>1, <2>2
<1>10. RegistryOK(new)
  <2>1. /\ new.event_index \in [Path -> SUBSET Rid]
        /\ new.next_id \in Rid
    BY <1>1, <1>4, <1>6 DEF RegistryOK, Rid
  <2>2. /\ DOMAIN new.poll_buffers \in SUBSET Rid
        /\ \A r \in DOMAIN new.poll_buffers :
             /\ new.poll_buffers[r] \in Seq(Value)
             /\ Len(new.poll_buffers[r]) <= PollCapacity
    BY <1>1, <1>4, <1>6, RegistryAssumption DEF RegistryOK
  <2>3. DOMAIN new.subscriptions \in SUBSET Rid
    BY <1>4, <1>5, <1>6
  <2>. QED
    BY <1>6, <1>7, <1>9, <2>1, <2>2, <2>3 DEF RegistryOK
<1>11. Indexed(new, {})
  <2>1. \A p \in Path : new.event_index[p] = EventsOn(subs, p)
    <3>1. \A p \in Path : reg.event_index[p] = EventsOn(reg.subscriptions, p)
      BY <1>1 DEF Indexed
    <3>2. \A p \in Path : EventsOn(subs, p) = EventsOn(reg.subscriptions, p) \cup
            (IF interval < 0 /\ p = path THEN {rid} ELSE {})
      BY <1>3, <1>5 DEF EventsOn, IsEvent
    <3>3. \A p \in Path : new.event_index[p] = reg.event_index[p] \cup
            (IF interval < 0 /\ p = path THEN {rid} ELSE {})
      BY <1>1, <1>6 DEF RegistryOK
    <3>. QED
      BY <3>1, <3>2, <3>3
  <2>2. Ids(new.interval_queue) = TimedIn(subs) \ {}
    BY <1>1, <1>3, <1>5, <1>9 DEF Indexed, TimedIn, IsEvent
  <2>3. DOMAIN new.poll_buffers = {r \in DOMAIN subs : subs[r].target = Poll}
    BY <1>1, <1>3, <1>5, <1>6 DEF Indexed
  <2>4. \A r \in DOMAIN subs : r < new.next_id
    BY <1>4, <1>5, <1>6 DEF Rid
  <2>. QED
    BY <1>6, <1>9, <2>1, <2>2, <2>3, <2>4 DEF Indexed
<1>. QED
  BY <1>6, <1>9, <1>10, <1>11 DEF WellKept, new

-----------------------------------------------------------------------------
\* A turn of tick_intervals that only pops the front (subscriptions.rs:375-400)
LEMMA WithoutFrontKept ==
  ASSUME NEW reg, NEW popped, WellKept(reg, popped), reg.interval_queue # <<>>
  PROVE  LET rid == Head(reg.interval_queue)
         IN  /\ WellKept(WithoutFront(reg), popped \cup {rid})
             /\ rid \in TimedIn(reg.subscriptions) \ popped
<1>. DEFINE queue == reg.interval_queue
            rid == Head(queue)
            new == WithoutFront(reg)
<1>1. RegistryOK(reg) /\ Indexed(reg, popped) /\ SortedByTrigger(reg.subscriptions, queue)
  BY DEF WellKept
<1>2. /\ DOMAIN new = Fields
      /\ new.subscriptions = reg.subscriptions
      /\ new.event_index = reg.event_index
      /\ new.interval_queue = Tail(queue)
      /\ new.poll_buffers = reg.poll_buffers
      /\ new.next_id = reg.next_id
  BY <1>1 DEF RegistryOK, Fields, WithoutFront
<1>3. /\ rid \in Rid /\ rid \in Ids(queue)
      /\ Tail(queue) \in Seq(Rid)
      /\ Ids(Tail(queue)) = Ids(queue) \ {rid}
      /\ NoRepeats(Tail(queue))
      /\ SortedByTrigger(reg.subscriptions, Tail(queue))
  BY <1>1, TailKeeps DEF RegistryOK, Indexed
<1>4. rid \in TimedIn(reg.subscriptions) \ popped
  BY <1>1, <1>3 DEF Indexed
<1>. HIDE DEF new, rid
<1>5. RegistryOK(new)
  BY <1>1, <1>2, <1>3 DEF RegistryOK
<1>6. Indexed(new, popped \cup {rid})
  BY <1>1, <1>2, <1>3 DEF Indexed
<1>. QED
  BY <1>2, <1>3, <1>4, <1>5, <1>6 DEF WellKept, new, rid

\* A turn of tick_intervals that fires the front (subscriptions.rs:402-431)
LEMMA FiredKept ==
  ASSUME NEW reg, NEW popped, WellKept(reg, popped), reg.interval_queue # <<>>,
         NEW values \in Seq(Value), Len(values) <= 1
  PROVE  LET rid == Head(reg.interval_queue)
             sub == reg.subscriptions[rid]
         IN  WellKept(Fired(reg, values),
                      popped \cup (IF IsExpired(sub, NextTrigger(sub)) THEN {rid} ELSE {}))
<1>. DEFINE rid == Head(reg.interval_queue)
            sub == reg.subscriptions[rid]
            mid == WithBuffered(WithoutFront(reg), {rid}, values)
            new == Fired(reg, values)
            subs == [reg.subscriptions EXCEPT ![rid].trigger_time = NextTrigger(sub)]
<1>1. WellKept(mid, popped \cup {rid}) /\ rid \in TimedIn(reg.subscriptions) \ popped
  BY WithoutFrontKept, BufferedKept
<1>2. /\ mid.subscriptions = reg.subscriptions
      /\ mid.event_index = reg.event_index
      /\ mid.interval_queue = Tail(reg.interval_queue)
  BY DEF WellKept, RegistryOK, Fields, WithBuffered, WithoutFront
<1>3. CASE IsExpired(sub, NextTrigger(sub))
  BY <1>1, <1>3 DEF Fired
<1>4. CASE ~IsExpired(sub, NextTrigger(sub))
  <2>1. new = [mid EXCEPT !.subscriptions = subs,
                          !.interval_queue = InsertedSorted(subs, @, rid)]
    BY <1>4 DEF Fired
  <2>. HIDE DEF new, mid
  <2>2. RegistryOK(mid) /\ Indexed(mid, popped \cup {rid})
        /\ SortedByTrigger(mid.subscriptions, mid.interval_queue)
    BY <1>1 DEF WellKept
  <2>3. /\ DOMAIN new = Fields
        /\ new.subscriptions = subs
        /\ new.event_index = mid.event_index
        /\ new.interval_queue = InsertedSorted(subs, mid.interval_queue, rid)
        /\ new.poll_buffers = mid.poll_buffers
        /\ new.next_id = mid.next_id
    BY <2>1, <2>2 DEF RegistryOK, Fields
  <2>4. rid \in DOMAIN mid.subscriptions /\ sub.interval >= 0 /\ rid \in Rid
        /\ sub \in Subscription /\ sub.interval \in Int /\ rid \notin popped
    BY <1>1, <1>2, <2>2 DEF TimedIn, IsEvent, RegistryOK, Subscription
  <2>5. /\ NextTrigger(sub) \in Nat
        /\ \A r \in DOMAIN mid.subscriptions :
             /\ mid.subscriptions[r] \in Subscription
             /\ mid.subscriptions[r].trigger_time \in Int
    <3>1. \A x \in Subscription : x.trigger_time \in Nat
      BY DEF Subscription
    <3>2. \A r \in DOMAIN mid.subscriptions : mid.subscriptions[r] \in Subscription
      BY <2>2 DEF RegistryOK
    <3>. HIDE DEF sub
    <3>3. NextTrigger(sub) \in Nat
      BY <2>4, <3>1 DEF NextTrigger
    <3>. QED
      BY <3>1, <3>2, <3>3
  <2>6. /\ DOMAIN subs = DOMAIN mid.subscriptions
        /\ subs[rid] = [sub EXCEPT !.trigger_time = NextTrigger(sub)]
        /\ \A r \in DOMAIN subs \ {rid} : subs[r] = mid.subscriptions[r]
    BY <1>2, <2>4
  <2>7. /\ subs[rid] \in Subscription /\ subs[rid].trigger_time \in Int
        /\ subs[rid].path = sub.path /\ subs[rid].target = sub.target
        /\ subs[rid].interval = sub.interval
    BY <2>4, <2>5, <2>6, SMTT(30) DEF Subscription
  <2>. HIDE DEF subs, rid
  <2>8. /\ mid.interval_queue \in Seq(Rid) /\ NoRepeats(mid.interval_queue)
        /\ Ids(mid.interval_queue) \subseteq DOMAIN subs
        /\ rid \notin Ids(mid.interval_queue)
        /\ SortedByTrigger(subs, mid.interval_queue)
    <3>1. Ids(mid.interval_queue) \subseteq DOMAIN subs \ {rid}
      BY <2>2, <2>6 DEF Indexed, TimedIn
    <3>2. SortedByTrigger(subs, mid.interval_queue)
      BY <2>2, <2>6, <3>1 DEF SortedByTrigger, Ids
    <3>. QED
      BY <2>2, <3>1, <3>2 DEF RegistryOK, Indexed
  <2>9. \A r \in DOMAIN subs : subs[r] \in Subscription /\ subs[r].trigger_time \in Int
    BY <2>5, <2>6, <2>7
  <2>10. /\ new.interval_queue \in Seq(Rid)
         /\ Ids(new.interval_queue) = Ids(mid.interval_queue) \cup {rid}
         /\ NoRepeats(new.interval_queue)
         /\ SortedByTrigger(subs, new.interval_queue)
    BY <2>3, <2>4, <2>6, <2>8, <2>9, InsertedSortedKeeps
  <2>11. RegistryOK(new)
    BY <2>2, <2>3, <2>6, <2>9, <2>10 DEF RegistryOK
  <2>12. Indexed(new, popped)
    <3>1. TimedIn(subs) = TimedIn(mid.subscriptions)
      BY <1>2, <2>6, <2>7 DEF TimedIn, IsEvent
    <3>2. \A p \in Path : EventsOn(subs, p) = EventsOn(mid.subscriptions, p)
      BY <1>2, <2>6, <2>7, ZenonT(60) DEF EventsOn, IsEvent
    <3>3. {r \in DOMAIN subs : subs[r].target = Poll}
            = {r \in DOMAIN mid.subscriptions : mid.subscriptions[r].target = Poll}
      BY <1>2, <2>6, <2>7
    <3>4. Ids(new.interval_queue) = TimedIn(subs) \ popped
      BY <1>1, <1>2, <2>2, <2>10, <3>1 DEF Indexed
    <3>. QED
      BY <2>2, <2>3, <2>6, <2>10, <3>1, <3>2, <3>3, <3>4 DEF Indexed
  <2>13. WellKept(new, popped)
    BY <2>3, <2>10, <2>11, <2>12 DEF WellKept
  <2>. QED
    BY <1>4, <2>13 DEF new, rid
<1>. QED
  BY <1>3, <1>4

-----------------------------------------------------------------------------
\* cancel removes subscriptions and changes none of the others; so do a
\* notification and a poll.
LEMMA CancelledSubscriptions ==
  ASSUME NEW reg, RegistryOK(reg), NEW rids
  PROVE  /\ Cancelled(reg, rids).subscriptions
              = [r \in DOMAIN reg.subscriptions \ rids |-> reg.subscriptions[r]]
         /\ IsRestriction(Cancelled(reg, rids).subscriptions, reg.subscriptions)
<1>1. Cancelled(reg, rids).subscriptions
        = [r \in DOMAIN reg.subscriptions \ (rids \cap DOMAIN reg.subscriptions) |->
             reg.subscriptions[r]]
  BY DEF Cancelled, Restrict, RegistryOK, Fields
<1>2. DOMAIN reg.subscriptions \ (rids \cap DOMAIN reg.subscriptions)
        = DOMAIN reg.subscriptions \ rids
  OBVIOUS
<1>. HIDE DEF Cancelled
<1>. QED
  BY <1>1, <1>2 DEF IsRestriction

\* notify_event changes no subscription that it keeps (subscriptions.rs:289-332).
LEMMA NotifiedSubscriptions ==
  ASSUME NEW reg, WellKept(reg, {}), NEW path, NEW now,
         NEW values \in Seq(Value), Len(values) <= 1
  PROVE  /\ Notified(reg, path, values, now).subscriptions
              = [r \in DOMAIN reg.subscriptions
                          \ ExpiredOf(reg, Watching(reg, path), now) |->
                   reg.subscriptions[r]]
         /\ IsRestriction(Notified(reg, path, values, now).subscriptions,
                          reg.subscriptions)
<1>. DEFINE expired == ExpiredOf(reg, Watching(reg, path), now)
            buffered == WithBuffered(reg, Watching(reg, path) \ expired, values)
<1>1. RegistryOK(buffered)
  BY BufferedKept DEF WellKept
<1>2. buffered.subscriptions = reg.subscriptions
  BY DEF WithBuffered, WellKept, RegistryOK, Fields
<1>3. Notified(reg, path, values, now) = Cancelled(buffered, expired)
  BY DEF Notified
<1>. HIDE DEF buffered, expired
<1>4. /\ Cancelled(buffered, expired).subscriptions
         = [r \in DOMAIN buffered.subscriptions \ expired |-> buffered.subscriptions[r]]
      /\ IsRestriction(Cancelled(buffered, expired).subscriptions, buffered.subscriptions)
  BY <1>1, CancelledSubscriptions
<1>. QED
  BY <1>2, <1>3, <1>4 DEF expired

\* poll changes no subscription that it keeps (subscriptions.rs:449-466).
LEMMA PolledSubscriptions ==
  ASSUME NEW reg, RegistryOK(reg), NEW rid, NEW now
  PROVE  IsRestriction(Polled(reg, rid, now).subscriptions, reg.subscriptions)
<1>1. CASE PollOutcome(reg, rid, now) = "NotFound"
  <2>1. Polled(reg, rid, now).subscriptions
          = [r \in DOMAIN reg.subscriptions \ {rid} |-> reg.subscriptions[r]]
    BY <1>1, CancelledSubscriptions DEF Polled
  <2>. QED
    BY <2>1 DEF IsRestriction
<1>2. CASE PollOutcome(reg, rid, now) # "NotFound"
  <2>1. Polled(reg, rid, now).subscriptions = reg.subscriptions
    BY <1>2 DEF Polled, RegistryOK, Fields
  <2>. QED
    BY <2>1 DEF IsRestriction
<1>. QED
  BY <1>1, <1>2

\* Neither gives out a number (subscriptions.rs:188 is the only place that does).
LEMMA NextIdKept ==
  ASSUME NEW reg, RegistryOK(reg)
  PROVE  /\ \A rids : Cancelled(reg, rids).next_id = reg.next_id
         /\ \A path, values, now : Notified(reg, path, values, now).next_id = reg.next_id
<1>1. \A rids : Cancelled(reg, rids).next_id = reg.next_id
  BY DEF Cancelled, RegistryOK, Fields
<1>2. ASSUME NEW path, NEW values, NEW now
      PROVE  Notified(reg, path, values, now).next_id = reg.next_id
  <2>. DEFINE expired == ExpiredOf(reg, Watching(reg, path), now)
              buffered == WithBuffered(reg, Watching(reg, path) \ expired, values)
  <2>1. DOMAIN buffered = Fields /\ buffered.next_id = reg.next_id
    BY DEF WithBuffered, RegistryOK, Fields
  <2>. HIDE DEF buffered, expired
  <2>2. Cancelled(buffered, expired).next_id = buffered.next_id
    BY <2>1 DEF Cancelled, Fields
  <2>. QED
    BY <2>1, <2>2 DEF Notified, buffered, expired
<1>. QED
  BY <1>1, <1>2
=============================================================================
