---------------------------- MODULE TablesProofs ----------------------------
(***************************************************************************)
(* Machine-checked proofs about Tables, for every set of files, contents,  *)
(* processes and lookups.                                                  *)
(*                                                                         *)
(* What a recursive function of the model computes is shown in one of two  *)
(* ways: by induction over the numbers it is defined on, or, when a        *)
(* formula for its values is known, by showing that the formula satisfies  *)
(* the definition and that nothing else does.                              *)
(***************************************************************************)
EXTENDS Tables, TLAPS, WellFoundedInduction, FiniteSetTheorems, SequenceTheorems

\* A non-empty set of natural numbers has a least element.
LEMMA LeastElement ==
    ASSUME NEW T, T \subseteq Nat, T # {}
    PROVE  \E n \in T : \A k \in T : n <= k
<1> DEFINE R == {p \in Nat \X Nat : p[1] < p[2]}
<1>1. IsWellFoundedOn(R, Nat)
    BY NatLessThanWellFounded DEF OpToRel
<1>2. \A k, n \in Nat : k < n => <<k, n>> \in R
    OBVIOUS
<1> HIDE DEF R
<1>3. PICK n \in T : \A k \in T : <<k, n>> \notin R
    BY <1>1, WFMin
<1>4. \A k \in T : ~(k < n)
    BY <1>2, <1>3
<1> QED BY <1>4

\* Induction over the natural numbers, for a set of them instead of a predicate.
LEMMA SetInduction ==
    ASSUME NEW S, 0 \in S, \A n \in Nat : n \in S => n + 1 \in S
    PROVE  \A n \in Nat : n \in S
<1> SUFFICES ASSUME Nat \ S # {} PROVE FALSE
    OBVIOUS
<1> DEFINE T == Nat \ S
<1>1. PICK n \in T : \A k \in T : n <= k
    BY LeastElement
<1>2. n - 1 \in Nat /\ n - 1 \in S
    BY <1>1
<1> QED BY <1>1, <1>2

\* The greatest element of a set of natural numbers with a bound.
LEMMA GreatestElement ==
    ASSUME NEW n \in Nat, NEW S, S \subseteq 0 .. n, S # {}
    PROVE  Max(S) \in S /\ \A k \in S : k <= Max(S)
<1> DEFINE T == {n - k : k \in S}
<1>1. \A k \in S : k \in Int /\ n - k \in Nat
    OBVIOUS
<1>2. T \subseteq Nat /\ T # {}
    BY <1>1
<1> HIDE DEF T
<1>3. PICK t \in T : \A u \in T : t <= u
    BY <1>2, LeastElement
<1>4. PICK m \in S : t = n - m
    BY DEF T
<1>5. \A k \in S : m >= k
    <2> TAKE k \in S
    <2>1. t <= n - k
        BY <1>3 DEF T
    <2> QED BY <1>1, <1>4, <2>1
<1>6. Max(S) \in S /\ \A k \in S : Max(S) >= k
    BY <1>5 DEF Max
<1> QED BY <1>1, <1>6

-----------------------------------------------------------------------------
\* Sorting.

\* The list new is the list old with e put at i.
Inserted(new, S, old, i, e) ==
    /\ new \in Seq(S)
    /\ Len(new) = Len(old) + 1
    /\ \A k \in 1 .. Len(old) + 1 :
         new[k] = IF k < i THEN old[k] ELSE IF k = i THEN e ELSE old[k-1]

\* What InsertAt makes of a list.
LEMMA InsertAtList ==
    ASSUME NEW S, NEW list \in Seq(S), NEW i \in 1 .. Len(list) + 1, NEW e \in S
    PROVE  Inserted(InsertAt(list, i, e), S, list, i, e)
<1> DEFINE front == SubSeq(list, 1, i - 1)
           back  == SubSeq(list, i, Len(list))
<1>1. /\ front \in Seq(S) /\ Len(front) = i - 1
      /\ \A k \in 1 .. i - 1 : front[k] = list[k]
    OBVIOUS
<1>2. /\ back \in Seq(S) /\ Len(back) = Len(list) - i + 1
      /\ \A k \in 1 .. Len(list) - i + 1 : back[k] = list[i + k - 1]
    OBVIOUS
<1>3. /\ <<e>> \in Seq(S) /\ Len(<<e>>) = 1 /\ <<e>>[1] = e
    OBVIOUS
<1> HIDE DEF front, back
<1> DEFINE most == front \o <<e>>
<1>4. /\ most \in Seq(S) /\ Len(most) = i
      /\ \A k \in 1 .. i : most[k] = IF k < i THEN list[k] ELSE e
    BY <1>1, <1>3
<1> HIDE DEF most
<1>5. /\ most \o back \in Seq(S) /\ Len(most \o back) = Len(list) + 1
      /\ \A k \in 1 .. Len(list) + 1 :
            (most \o back)[k] = IF k <= i THEN most[k] ELSE back[k - i]
    <2>1. /\ most \o back \in Seq(S)
          /\ Len(most \o back) = Len(most) + Len(back)
          /\ \A k \in 1 .. Len(most) + Len(back) :
                (most \o back)[k] = IF k <= Len(most) THEN most[k] ELSE back[k - Len(most)]
        <3>1. most \in Seq(S) /\ back \in Seq(S)
            BY <1>2, <1>4
        <3> QED BY <3>1, ConcatProperties
    <2>2. Len(most) = i /\ Len(most) + Len(back) = Len(list) + 1
        BY <1>2, <1>4
    <2> QED BY <2>1, <2>2
<1>6. InsertAt(list, i, e) = most \o back
    BY DEF InsertAt, most, front, back
<1> DEFINE new == InsertAt(list, i, e)
<1>7. new \in Seq(S) /\ Len(new) = Len(list) + 1
    BY <1>5, <1>6
<1> HIDE DEF new
<1>8. ASSUME NEW k \in 1 .. Len(list) + 1
      PROVE  new[k] = IF k < i THEN list[k] ELSE IF k = i THEN e ELSE list[k-1]
    <2>1. k <= i => k \in 1 .. i /\ new[k] = most[k]
        BY <1>5, <1>6 DEF new
    <2>2. k > i => k - i \in 1 .. Len(list) - i + 1 /\ new[k] = back[k - i] /\ i + (k - i) - 1 = k - 1
        BY <1>5, <1>6 DEF new
    <2>3. CASE k < i
        BY <1>4, <2>1, <2>3
    <2>4. CASE k = i
        BY <1>4, <2>1, <2>4
    <2>5. CASE k > i
        BY <1>2, <2>2, <2>5
    <2> QED BY <2>3, <2>4, <2>5
<1> QED BY <1>7, <1>8 DEF Inserted, new

\* The list that is sorted grows by one policy at a time: the recursive function
\* that SortStable is made of exists.
LEMMA SortSteps ==
    ASSUME NEW policies, NEW S, NEW list \in Seq(S)
    PROVE  \E f : /\ f[0] = <<>>
                  /\ \A k \in 1 .. Len(list) : f[k] = Insert(policies, f[k-1], list[k])
                  /\ SortStable(policies, list) = f[Len(list)]
<1> DEFINE N == Len(list)
           Step(f, k) == IF k = 0 THEN <<>> ELSE Insert(policies, f[k-1], list[k])
           Starts(f, n) == f[0] = <<>> /\ \A k \in 1 .. n : f[k] = Insert(policies, f[k-1], list[k])
           D == {n \in Nat : \E f : Starts(f, n)}
           Eq(f) == f = [k \in 0 .. N |-> Step(f, k)]
           F == CHOOSE f : Eq(f)
<1>1. 0 \in D
    <2>1. Starts([k \in {0} |-> <<>>], 0)
        OBVIOUS
    <2> QED BY <2>1
<1>2. ASSUME NEW n \in Nat, n \in D
      PROVE  n + 1 \in D
    <2>1. PICK f : Starts(f, n)
        BY <1>2
    <2> DEFINE g == [k \in 0 .. n + 1 |-> IF k = n + 1 THEN Insert(policies, f[n], list[n+1]) ELSE f[k]]
    <2>2. Starts(g, n + 1)
        BY <2>1
    <2> HIDE DEF g, Starts
    <2> QED BY <2>2
<1>3. \A n \in Nat : n \in D
    <2> HIDE DEF D
    <2> QED BY <1>1, <1>2, SetInduction
<1>4. PICK f : Starts(f, N)
    BY <1>3
<1>5. \E g : Eq(g)
    <2> DEFINE g == [k \in 0 .. N |-> f[k]]
    <2>1. \A k \in 0 .. N : g[k] = Step(g, k)
        BY <1>4
    <2>2. g = [k \in 0 .. N |-> g[k]]
        OBVIOUS
    <2> HIDE DEF g
    <2>3. Eq(g)
        BY <2>1, <2>2
    <2> QED BY <2>3
<1>6. Eq(F)
    <2> HIDE DEF Eq
    <2> QED BY <1>5
<1>7. SortStable(policies, list) = F[N]
    BY DEF SortStable
<1> HIDE DEF F
<1>8. Starts(F, N)
    BY <1>6
<1> QED BY <1>7, <1>8

\* A policy is inserted behind the last one it is not more specific than.
LEMMA InsertList ==
    ASSUME NEW policies, NEW S, NEW sorted \in Seq(S), NEW n \in S
    PROVE  \E i \in 1 .. Len(sorted) + 1 :
              /\ Insert(policies, sorted, n) = InsertAt(sorted, i, n)
              /\ i > 1 => ~MoreSpecific(policies[n], policies[sorted[i-1]])
              /\ \A j \in i .. Len(sorted) : MoreSpecific(policies[n], policies[sorted[j]])
<1> DEFINE Stop(j) == ~MoreSpecific(policies[n], policies[sorted[j]])
           stops == {j \in DOMAIN sorted : Stop(j)}
           m == Max({0} \cup stops)
<1>1. Insert(policies, sorted, n) = InsertAt(sorted, 1 + m, n)
    BY DEF Insert
<1>2. DOMAIN sorted = 1 .. Len(sorted) /\ Len(sorted) \in Nat
    OBVIOUS
<1> HIDE DEF Stop
<1>3. m \in {0} \cup stops /\ \A j \in {0} \cup stops : j <= m
    <2>1. {0} \cup stops \subseteq 0 .. Len(sorted) /\ {0} \cup stops # {}
        BY <1>2
    <2> HIDE DEF stops
    <2> QED BY <2>1, <1>2, GreatestElement
<1> HIDE DEF m
<1>4. m \in 0 .. Len(sorted)
    BY <1>2, <1>3
<1>5. 1 + m > 1 => Stop(m)
    BY <1>3, <1>4
<1>6. \A j \in 1 + m .. Len(sorted) : ~Stop(j)
    BY <1>2, <1>3, <1>4
<1> DEFINE i == 1 + m
<1>7. i \in 1 .. Len(sorted) + 1 /\ i - 1 = m
    BY <1>2, <1>4
<1> HIDE DEF i
<1>8. /\ Insert(policies, sorted, n) = InsertAt(sorted, i, n)
      /\ i > 1 => Stop(i - 1)
      /\ \A j \in i .. Len(sorted) : ~Stop(j)
    BY <1>1, <1>5, <1>6, <1>7 DEF i
<1> QED BY <1>7, <1>8 DEF Stop

\* What an insertion has to be.
Grown(new, policies, S, sorted, n) ==
    /\ new \in Seq(S)
    /\ Len(new) = Len(sorted) + 1
    /\ ToSet(new) = ToSet(sorted) \cup {n}
    /\ IsInjective(sorted) /\ n \notin ToSet(sorted) => IsInjective(new)
    /\ InOrder(policies, sorted) => InOrder(policies, new)

\* An insertion adds its policy and keeps neighbours in order.
LEMMA InsertKeeps ==
    ASSUME NEW policies, NEW S, NEW sorted \in Seq(S), NEW n \in S
    PROVE  Grown(Insert(policies, sorted, n), policies, S, sorted, n)
<1>1. PICK i \in 1 .. Len(sorted) + 1 :
          /\ Insert(policies, sorted, n) = InsertAt(sorted, i, n)
          /\ i > 1 => ~MoreSpecific(policies[n], policies[sorted[i-1]])
          /\ \A j \in i .. Len(sorted) : MoreSpecific(policies[n], policies[sorted[j]])
    BY InsertList
<1> DEFINE new == Insert(policies, sorted, n)
           L == Len(sorted)
<1>2. /\ new \in Seq(S)
      /\ Len(new) = L + 1
      /\ \A k \in 1 .. L + 1 :
           new[k] = IF k < i THEN sorted[k] ELSE IF k = i THEN n ELSE sorted[k-1]
    <2> DEFINE ins == InsertAt(sorted, i, n)
    <2>1. /\ ins \in Seq(S)
          /\ Len(ins) = Len(sorted) + 1
          /\ \A k \in 1 .. Len(sorted) + 1 :
               ins[k] = IF k < i THEN sorted[k] ELSE IF k = i THEN n ELSE sorted[k-1]
        BY InsertAtList DEF Inserted
    <2>2. new = ins
        BY <1>1
    <2> HIDE DEF new, ins
    <2> QED BY <2>1, <2>2
<1> HIDE DEF new
<1>3. L \in Nat /\ DOMAIN sorted = 1 .. L /\ DOMAIN new = 1 .. L + 1
    BY <1>2
<1> HIDE DEF L
<1>4. \A k \in 1 .. L : IF k < i THEN new[k] = sorted[k] ELSE new[k+1] = sorted[k]
    <2> TAKE k \in 1 .. L
    <2>1. k \in 1 .. L + 1 /\ k + 1 \in 1 .. L + 1 /\ (k + 1) - 1 = k /\ i \in Nat /\ k \in Nat
        BY <1>3
    <2>2. CASE k < i
        BY <1>2, <2>1, <2>2
    <2>3. CASE ~(k < i)
        <3>1. ~(k + 1 < i) /\ k + 1 # i
            BY <2>1, <2>3
        <3>2. new[k+1] = sorted[(k+1)-1]
            BY <1>2, <2>1, <3>1
        <3> QED BY <2>1, <2>3, <3>2
    <2> QED BY <2>2, <2>3
<1>5. new[i] = n
    BY <1>2, <1>3
<1>6. ToSet(new) = ToSet(sorted) \cup {n}
    <2>1. ASSUME NEW k \in 1 .. L + 1
          PROVE  new[k] \in ToSet(sorted) \cup {n}
        <3>1. (k < i => k \in 1 .. L) /\ (~(k < i) /\ k # i => k - 1 \in 1 .. L)
            BY <1>3 DEF L
        <3> QED BY <1>2, <1>3, <3>1 DEF ToSet
    <2>2. ASSUME NEW k \in 1 .. L
          PROVE  sorted[k] \in ToSet(new)
        <3>1. k \in DOMAIN new /\ k + 1 \in DOMAIN new
            BY <1>3
        <3>2. new[k] = sorted[k] \/ new[k+1] = sorted[k]
            BY <1>4
        <3> QED BY <3>1, <3>2 DEF ToSet
    <2>3. n \in ToSet(new)
        BY <1>1, <1>3, <1>5 DEF ToSet, L
    <2> QED BY <1>3, <2>1, <2>2, <2>3 DEF ToSet
<1>7. ASSUME IsInjective(sorted), n \notin ToSet(sorted)
      PROVE  IsInjective(new)
    <2> SUFFICES ASSUME NEW a \in 1 .. L + 1, NEW b \in 1 .. L + 1, new[a] = new[b] PROVE a = b
        BY <1>3 DEF IsInjective
    <2>1. \A k \in 1 .. L : sorted[k] # n
        BY <1>3, <1>7 DEF ToSet
    <2>2. \A k, l \in 1 .. L : sorted[k] = sorted[l] => k = l
        BY <1>3, <1>7 DEF IsInjective
    <2> QED BY <1>2, <1>3, <2>1, <2>2
<1>8. ASSUME InOrder(policies, sorted)
      PROVE  InOrder(policies, new)
    <2> DEFINE Above(p, q) == MoreSpecific(policies[p], policies[q])
    <2>1. \A k \in 2 .. L : Above(sorted[k], sorted[k-1]) => Above(sorted[k-1], sorted[k])
        BY <1>8 DEF InOrder, L
    <2>2. (i > 1 => ~Above(n, sorted[i-1])) /\ \A j \in i .. L : Above(n, sorted[j])
        BY <1>1 DEF L
    <2> HIDE DEF Above
    <2>3. ASSUME NEW k \in 2 .. L + 1
          PROVE  Above(new[k], new[k-1]) => Above(new[k-1], new[k])
        <3>1. CASE k < i
            BY <1>2, <1>3, <2>1, <3>1
        <3>2. CASE k = i
            BY <1>2, <1>3, <2>2, <3>2
        <3>3. CASE k = i + 1
            BY <1>2, <1>3, <2>2, <3>3
        <3>4. CASE k > i + 1
            <4>1. k \in 1 .. L + 1 /\ k - 1 \in 1 .. L + 1 /\ k - 1 \in 2 .. L /\ i \in Nat
                BY <1>3, <3>4
            <4>2. ~(k < i) /\ k # i /\ ~(k - 1 < i) /\ k - 1 # i
                BY <3>4, <4>1
            <4>3. new[k] = sorted[k-1] /\ new[k-1] = sorted[(k-1)-1]
                BY <1>2, <4>1, <4>2
            <4> QED BY <2>1, <4>1, <4>3
        <3> QED BY <3>1, <3>2, <3>3, <3>4
    <2> QED BY <1>2, <2>3 DEF InOrder, Above
<1> QED BY <1>2, <1>6, <1>7, <1>8 DEF L, new, Grown

\* Sorting rearranges a list, repeats nothing and leaves no policy directly behind
\* one that is only more general.
LEMMA SortList ==
    ASSUME NEW policies, NEW S, NEW list \in Seq(S)
    PROVE  LET new == SortStable(policies, list) IN
           /\ new \in Seq(S)
           /\ Rearranged(new, list)
           /\ IsInjective(list) => IsInjective(new)
           /\ InOrder(policies, new)
<1>1. PICK f : /\ f[0] = <<>>
               /\ \A k \in 1 .. Len(list) : f[k] = Insert(policies, f[k-1], list[k])
               /\ SortStable(policies, list) = f[Len(list)]
    BY SortSteps
<1> DEFINE First(k) == {list[j] : j \in 1 .. k}
           Good(k) == /\ f[k] \in Seq(S)
                      /\ Len(f[k]) = k
                      /\ ToSet(f[k]) = First(k)
                      /\ IsInjective(list) => IsInjective(f[k])
                      /\ InOrder(policies, f[k])
           D == {k \in Nat : k <= Len(list) => Good(k)}
<1>2. Len(list) \in Nat /\ DOMAIN list = 1 .. Len(list) /\ \A k \in 1 .. Len(list) : list[k] \in S
    OBVIOUS
<1>3. 0 \in D
    <2>1. ToSet(<<>>) = First(0)
        BY DEF ToSet
    <2>2. IsInjective(<<>>) /\ InOrder(policies, <<>>)
        BY DEF IsInjective, InOrder
    <2>3. <<>> \in Seq(S) /\ Len(<<>>) = 0
        OBVIOUS
    <2> QED BY <1>1, <2>1, <2>2, <2>3
<1>4. ASSUME NEW k \in Nat, k \in D
      PROVE  k + 1 \in D
    <2> SUFFICES ASSUME k + 1 <= Len(list) PROVE Good(k + 1)
        OBVIOUS
    <2>1. Good(k) /\ k + 1 \in 1 .. Len(list) /\ (k + 1) - 1 = k
        BY <1>2, <1>4
    <2> DEFINE n == list[k+1]
    <2>2. f[k+1] = Insert(policies, f[k], n) /\ n \in S
        BY <1>1, <1>2, <2>1
    <2> HIDE DEF n
    <2>3. /\ f[k+1] \in Seq(S)
          /\ Len(f[k+1]) = Len(f[k]) + 1
          /\ ToSet(f[k+1]) = ToSet(f[k]) \cup {n}
          /\ IsInjective(f[k]) /\ n \notin ToSet(f[k]) => IsInjective(f[k+1])
          /\ InOrder(policies, f[k]) => InOrder(policies, f[k+1])
        <3>1. PICK sorted \in Seq(S) : sorted = f[k]
            BY <2>1
        <3>2. PICK p \in S : p = n
            BY <2>2
        <3>3. Grown(Insert(policies, sorted, p), policies, S, sorted, p)
            BY InsertKeeps
        <3> QED BY <2>2, <3>1, <3>2, <3>3 DEF Grown
    <2>4. First(k + 1) = First(k) \cup {n}
        <3>1. \A j \in 1 .. k + 1 : j \in 1 .. k \/ j = k + 1
            OBVIOUS
        <3>2. \A j \in 1 .. k : j \in 1 .. k + 1
            OBVIOUS
        <3> QED BY <3>1, <3>2 DEF n
    <2>5. IsInjective(list) => n \notin First(k)
        BY <1>2, <2>1 DEF n, IsInjective
    <2> HIDE DEF First
    <2> QED BY <2>1, <2>3, <2>4, <2>5
<1>5. \A k \in Nat : k \in D
    <2> HIDE DEF D
    <2> QED BY <1>3, <1>4, SetInduction
<1>6. Good(Len(list))
    <2> HIDE DEF Good
    <2> QED BY <1>2, <1>5
<1>7. First(Len(list)) = ToSet(list)
    BY <1>2 DEF ToSet
<1> QED BY <1>1, <1>6, <1>7 DEF Rearranged

\* A list that has no policy directly behind one it is more specific than is sorted.
LEMMA SortedStays ==
    ASSUME NEW policies, NEW S, NEW list \in Seq(S),
           \A i \in 2 .. Len(list) : ~MoreSpecific(policies[list[i]], policies[list[i-1]])
    PROVE  SortStable(policies, list) = list
<1>1. PICK f : /\ f[0] = <<>>
               /\ \A k \in 1 .. Len(list) : f[k] = Insert(policies, f[k-1], list[k])
               /\ SortStable(policies, list) = f[Len(list)]
    BY SortSteps
<1> DEFINE Good(k) == f[k] \in Seq(S) /\ Len(f[k]) = k /\ \A j \in 1 .. k : f[k][j] = list[j]
           D == {k \in Nat : k <= Len(list) => Good(k)}
<1>2. Len(list) \in Nat /\ \A k \in 1 .. Len(list) : list[k] \in S
    OBVIOUS
<1>3. 0 \in D
    <2>1. <<>> \in Seq(S) /\ Len(<<>>) = 0
        OBVIOUS
    <2>2. f[0] = <<>>
        BY <1>1
    <2>3. \A j \in 1 .. 0 : f[0][j] = list[j]
        OBVIOUS
    <2>4. Good(0)
        BY <2>1, <2>2, <2>3
    <2> HIDE DEF Good
    <2> QED BY <2>4
<1>4. ASSUME NEW k \in Nat, k \in D
      PROVE  k + 1 \in D
    <2> SUFFICES ASSUME k + 1 <= Len(list) PROVE Good(k + 1)
        OBVIOUS
    <2>1. Good(k) /\ k + 1 \in 1 .. Len(list) /\ (k + 1) - 1 = k
        BY <1>2, <1>4
    <2> DEFINE n == list[k+1]
               sorted == f[k]
               Stop(j) == ~MoreSpecific(policies[n], policies[sorted[j]])
    <2>2. f[k+1] = Insert(policies, sorted, n) /\ n \in S
        BY <1>1, <1>2, <2>1
    <2>3. k > 0 => Stop(k)
        <3> SUFFICES ASSUME k > 0 PROVE Stop(k)
            OBVIOUS
        <3>1. k + 1 \in 2 .. Len(list)
            BY <2>1
        <3>2. sorted[k] = list[(k+1)-1]
            BY <2>1
        <3> QED BY <3>1, <3>2
    <2>4. sorted \in Seq(S) /\ Len(sorted) = k
        BY <2>1
    <2> HIDE DEF sorted
    <2>5. PICK i \in 1 .. Len(sorted) + 1 :
              /\ Insert(policies, sorted, n) = InsertAt(sorted, i, n)
              /\ i > 1 => Stop(i - 1)
              /\ \A j \in i .. Len(sorted) : ~Stop(j)
        BY <2>2, <2>4, InsertList
    <2> HIDE DEF Stop, n
    <2>6. i = k + 1
        BY <2>3, <2>4, <2>5
    <2> DEFINE ins == InsertAt(sorted, i, n)
    <2>7. /\ ins \in Seq(S)
          /\ Len(ins) = k + 1
          /\ \A j \in 1 .. k + 1 :
               ins[j] = IF j < k + 1 THEN sorted[j] ELSE IF j = k + 1 THEN n ELSE sorted[j-1]
        <3>1. PICK q \in Seq(S) : q = sorted
            BY <2>4
        <3>2. PICK p \in S : p = n
            BY <2>2
        <3>3. Inserted(InsertAt(q, i, p), S, q, i, p)
            <4>1. i \in 1 .. Len(q) + 1
                BY <3>1
            <4> QED BY <4>1, InsertAtList
        <3>4. Inserted(ins, S, sorted, i, n)
            BY <3>1, <3>2, <3>3
        <3> HIDE DEF ins
        <3> QED BY <2>4, <2>6, <3>4 DEF Inserted
    <2>8. f[k+1] = ins
        BY <2>2, <2>5, <2>6
    <2> HIDE DEF ins
    <2>9. \A j \in 1 .. k + 1 : ins[j] = list[j]
        BY <2>1, <2>7 DEF n, sorted
    <2> QED BY <2>7, <2>8, <2>9
<1>5. \A k \in Nat : k \in D
    <2> HIDE DEF D
    <2> QED BY <1>3, <1>4, SetInduction
<1>6. Good(Len(list))
    <2> HIDE DEF Good
    <2> QED BY <1>2, <1>5
<1> QED BY <1>1, <1>6, SeqEqual

-----------------------------------------------------------------------------
\* Reading files.

\* What appending adds.
LEMMA AppendList ==
    ASSUME NEW S, NEW s \in Seq(S), NEW e \in S
    PROVE  /\ Append(s, e) \in Seq(S)
           /\ ToSet(Append(s, e)) = ToSet(s) \cup {e}
           /\ IsInjective(s) /\ e \notin ToSet(s) => IsInjective(Append(s, e))
<1> DEFINE t == Append(s, e)
           L == Len(s)
<1>1. /\ L \in Nat /\ DOMAIN s = 1 .. L
      /\ t \in Seq(S) /\ DOMAIN t = 1 .. L + 1
      /\ \A i \in 1 .. L : t[i] = s[i]
      /\ t[L+1] = e
    OBVIOUS
<1> HIDE DEF t, L
<1>2. \A i \in 1 .. L + 1 : i \in 1 .. L \/ i = L + 1
    BY <1>1
<1>3. \A i \in 1 .. L : i \in 1 .. L + 1
    BY <1>1
<1>4. L + 1 \in 1 .. L + 1
    BY <1>1
<1>5. ToSet(t) = ToSet(s) \cup {e}
    BY <1>1, <1>2, <1>3, <1>4 DEF ToSet
<1>6. ASSUME IsInjective(s), e \notin ToSet(s)
      PROVE  IsInjective(t)
    BY <1>1, <1>2, <1>6 DEF IsInjective, ToSet
<1> QED BY <1>1, <1>5, <1>6 DEF t

\* The valid items of a file, each once when no two have the same policy.
LEMMA ValidItemsList ==
    ASSUME NEW content, IsSequence(content.items)
    PROVE  /\ ValidItems(content) \in Seq(ValidBodies(content))
           /\ ToSet(ValidItems(content)) = ValidBodies(content)
           /\ (\A i, j \in DOMAIN content.items :
                  content.items[i].body = content.items[j].body => i = j)
              => IsInjective(ValidItems(content))
<1> DEFINE items == content.items
           N == Len(items)
           B == ValidBodies(content)
           Next1(kept, k) == IF items[k].valid THEN Append(kept, items[k].body) ELSE kept
           Step(f, k) == IF k = 0 THEN <<>> ELSE Next1(f[k-1], k)
           Starts(f, n) == f[0] = <<>> /\ \A k \in 1 .. n : f[k] = Next1(f[k-1], k)
           D == {n \in Nat : \E f : Starts(f, n)}
           Eq(f) == f = [k \in 0 .. N |-> Step(f, k)]
           F == CHOOSE f : Eq(f)
<1>1. N \in Nat /\ DOMAIN items = 1 .. N
    BY DEF IsSequence
<1>2. ValidItems(content) = F[N]
    BY DEF ValidItems
<1>3. B = {items[i].body : i \in {j \in 1 .. N : items[j].valid}}
    BY <1>1 DEF ValidBodies, ToSet
<1> DEFINE Distinct == \A i, j \in 1 .. N : items[i].body = items[j].body => i = j
<1>4. Distinct <=> \A i, j \in DOMAIN content.items :
                      content.items[i].body = content.items[j].body => i = j
    BY <1>1
<1> HIDE DEF items, N, B, Next1
<1>5. 0 \in D
    <2>1. Starts([k \in {0} |-> <<>>], 0)
        OBVIOUS
    <2> QED BY <2>1
<1>6. ASSUME NEW n \in Nat, n \in D
      PROVE  n + 1 \in D
    <2>1. PICK f : Starts(f, n)
        BY <1>6
    <2> DEFINE g == [k \in 0 .. n + 1 |-> IF k = n + 1 THEN Next1(f[n], n + 1) ELSE f[k]]
    <2>2. Starts(g, n + 1)
        BY <2>1
    <2> HIDE DEF g, Starts
    <2> QED BY <2>2
<1>7. \A n \in Nat : n \in D
    <2> HIDE DEF D
    <2> QED BY <1>5, <1>6, SetInduction
<1>8. \E g : Eq(g)
    <2>1. PICK f : Starts(f, N)
        BY <1>1, <1>7
    <2> DEFINE g == [k \in 0 .. N |-> f[k]]
    <2>2. \A k \in 0 .. N : g[k] = Step(g, k)
        BY <1>1, <2>1
    <2>3. g = [k \in 0 .. N |-> g[k]]
        OBVIOUS
    <2> HIDE DEF g
    <2>4. Eq(g)
        BY <2>2, <2>3
    <2> QED BY <2>4
<1>9. Eq(F)
    <2> HIDE DEF Eq
    <2> QED BY <1>8
<1> HIDE DEF F
<1>10. Starts(F, N)
    BY <1>1, <1>9
<1> DEFINE Kept(k) == {items[i].body : i \in {j \in 1 .. k : items[j].valid}}
           Good(k) == /\ F[k] \in Seq(B)
                      /\ ToSet(F[k]) = Kept(k)
                      /\ Distinct => IsInjective(F[k])
           G == {k \in Nat : k <= N => Good(k)}
<1>11. 0 \in G
    <2>1. <<>> \in Seq(B) /\ ToSet(<<>>) = Kept(0) /\ IsInjective(<<>>)
        BY DEF ToSet, IsInjective
    <2>2. F[0] = <<>>
        BY <1>10
    <2>3. Good(0)
        BY <2>1, <2>2
    <2> HIDE DEF Good
    <2> QED BY <2>3
<1>12. ASSUME NEW k \in Nat, k \in G
       PROVE  k + 1 \in G
    <2> SUFFICES ASSUME k + 1 <= N PROVE Good(k + 1)
        OBVIOUS
    <2>1. Good(k) /\ k + 1 \in 1 .. N /\ (k + 1) - 1 = k /\ k \in 0 .. N
        BY <1>1, <1>12
    <2>2. F[k+1] = Next1(F[k], k + 1)
        BY <1>10, <2>1
    <2>3. \A i \in 1 .. k + 1 : i \in 1 .. k \/ i = k + 1
        OBVIOUS
    <2>4. \A i \in 1 .. k : i \in 1 .. k + 1 /\ i \in 1 .. N /\ i # k + 1
        BY <1>1
    <2>5. CASE items[k+1].valid
        <3> DEFINE e == items[k+1].body
        <3>1. e \in B /\ F[k+1] = Append(F[k], e)
            BY <1>3, <2>1, <2>2, <2>5 DEF Next1
        <3>2. Kept(k + 1) = Kept(k) \cup {e}
            BY <2>1, <2>3, <2>4, <2>5
        <3>3. Distinct => e \notin Kept(k)
            BY <2>1, <2>4
        <3> HIDE DEF e, Kept
        <3>4. PICK q \in Seq(B) : q = F[k]
            BY <2>1
        <3>5. /\ Append(q, e) \in Seq(B)
              /\ ToSet(Append(q, e)) = ToSet(q) \cup {e}
              /\ IsInjective(q) /\ e \notin ToSet(q) => IsInjective(Append(q, e))
            BY <3>1, AppendList
        <3> QED BY <2>1, <3>1, <3>2, <3>3, <3>4, <3>5
    <2>6. CASE ~items[k+1].valid
        <3>1. F[k+1] = F[k]
            BY <2>2, <2>6 DEF Next1
        <3>2. Kept(k + 1) = Kept(k)
            BY <2>3, <2>4, <2>6
        <3> HIDE DEF Kept
        <3> QED BY <2>1, <3>1, <3>2
    <2> QED BY <2>5, <2>6
<1>13. \A k \in Nat : k \in G
    <2> HIDE DEF G
    <2> QED BY <1>11, <1>12, SetInduction
<1>14. Good(N)
    <2> HIDE DEF Good
    <2> QED BY <1>1, <1>13
<1>15. Kept(N) = B
    BY <1>3
<1> QED BY <1>2, <1>4, <1>14, <1>15 DEF B

-----------------------------------------------------------------------------
\* Tables.

\* A table of policies with these names.
TableOK(table, N) ==
    /\ table.top \in Seq(N)
    /\ DOMAIN table.policies = N
    /\ \A p \in N : /\ table.policies[p].egress \in Seq(N)
                    /\ DOMAIN table.policies[p] = {"id", "selectors", "connection", "egress"}

\* One table is another with its lists in another order.
Reordered(new, old, N) ==
    /\ Rearranged(new.top, old.top)
    /\ IsInjective(old.top) => IsInjective(new.top)
    /\ \A p \in N :
          /\ new.policies[p].id = old.policies[p].id
          /\ new.policies[p].selectors = old.policies[p].selectors
          /\ new.policies[p].connection = old.policies[p].connection
          /\ Rearranged(new.policies[p].egress, old.policies[p].egress)

TableInOrder(table, N) ==
    /\ InOrder(table.policies, table.top)
    /\ \A p \in N : InOrder(table.policies, table.policies[p].egress)

\* The order looks at nothing but the selectors.
LEMMA InOrderSelectors ==
    ASSUME NEW N, NEW list \in Seq(N), NEW a, NEW b,
           \A p \in N : a[p].selectors = b[p].selectors, InOrder(a, list)
    PROVE  InOrder(b, list)
<1>1. \A p, q \in N : MoreSpecific(a[p], a[q]) <=> MoreSpecific(b[p], b[q])
    BY DEF MoreSpecific
<1>2. \A i \in 2 .. Len(list) : list[i] \in N /\ list[i-1] \in N
    OBVIOUS
<1>3. ASSUME NEW i \in 2 .. Len(list), MoreSpecific(b[list[i]], b[list[i-1]])
      PROVE  MoreSpecific(b[list[i-1]], b[list[i]])
    <2>1. MoreSpecific(a[list[i]], a[list[i-1]])
        BY <1>1, <1>2, <1>3
    <2>2. MoreSpecific(a[list[i-1]], a[list[i]])
        BY <2>1 DEF InOrder
    <2> QED BY <1>1, <1>2, <2>2
<1> QED BY <1>3 DEF InOrder

\* What Organize makes of a table.
LEMMA OrganizeTable ==
    ASSUME NEW N, NEW table, TableOK(table, N)
    PROVE  /\ TableOK(Organize(table), N)
           /\ Reordered(Organize(table), table, N)
           /\ TableInOrder(Organize(table), N)
<1> DEFINE new == Organize(table)
           ps == table.policies
<1>1. /\ new.top = SortStable(ps, table.top)
      /\ DOMAIN new.policies = N
      /\ \A p \in N : new.policies[p] = [ps[p] EXCEPT !.egress = SortStable(ps, @)]
    BY DEF Organize, TableOK
<1> HIDE DEF new
<1>2. ASSUME NEW p \in N
      PROVE  /\ new.policies[p].id = ps[p].id
             /\ new.policies[p].selectors = ps[p].selectors
             /\ new.policies[p].connection = ps[p].connection
             /\ new.policies[p].egress = SortStable(ps, ps[p].egress)
             /\ DOMAIN new.policies[p] = {"id", "selectors", "connection", "egress"}
    BY <1>1 DEF TableOK
<1>3. ASSUME NEW list \in Seq(N)
      PROVE  /\ SortStable(ps, list) \in Seq(N)
             /\ Rearranged(SortStable(ps, list), list)
             /\ IsInjective(list) => IsInjective(SortStable(ps, list))
             /\ InOrder(new.policies, SortStable(ps, list))
    <2> DEFINE sorted == SortStable(ps, list)
    <2>1. /\ sorted \in Seq(N)
          /\ Rearranged(sorted, list)
          /\ IsInjective(list) => IsInjective(sorted)
          /\ InOrder(ps, sorted)
        BY SortList
    <2> HIDE DEF sorted
    <2>2. InOrder(new.policies, sorted)
        BY <1>2, <2>1, InOrderSelectors
    <2> QED BY <2>1, <2>2 DEF sorted
<1>4. table.top \in Seq(N) /\ \A p \in N : ps[p].egress \in Seq(N)
    BY DEF TableOK
<1>5. TableOK(new, N)
    BY <1>1, <1>2, <1>3, <1>4 DEF TableOK
<1>6. Reordered(new, table, N)
    BY <1>1, <1>2, <1>3, <1>4 DEF Reordered
<1>7. TableInOrder(new, N)
    BY <1>1, <1>2, <1>3, <1>4 DEF TableInOrder
<1> QED BY <1>5, <1>6, <1>7 DEF new

\* A settled section that is in order stays as it is.
LEMMA SettledStays ==
    ASSUME NEW N, NEW policies, NEW list \in Seq(N), InOrder(policies, list), Settled(policies, list)
    PROVE  SortStable(policies, list) = list
<1>1. ASSUME NEW i \in 2 .. Len(list)
      PROVE  ~MoreSpecific(policies[list[i]], policies[list[i-1]])
    <2>1. i \in DOMAIN list /\ i - 1 \in DOMAIN list
        OBVIOUS
    <2> QED BY <2>1 DEF InOrder, Settled
<1> QED BY <1>1, SortedStays

\* A second Organize changes no settled section of an organized table.
LEMMA OrganizeSettled ==
    ASSUME NEW N, NEW table, TableOK(table, N), TableInOrder(table, N)
    PROVE  /\ Settled(table.policies, table.top) => Organize(table).top = table.top
           /\ \A p \in N : Settled(table.policies, table.policies[p].egress) =>
                  Organize(table).policies[p].egress = table.policies[p].egress
<1>1. ASSUME NEW list \in Seq(N), InOrder(table.policies, list), Settled(table.policies, list)
      PROVE  SortStable(table.policies, list) = list
    BY <1>1, SettledStays
<1>2. Organize(table).top = SortStable(table.policies, table.top)
    BY DEF Organize
<1>3. ASSUME NEW p \in N
      PROVE  Organize(table).policies[p].egress = SortStable(table.policies, table.policies[p].egress)
    BY DEF Organize, TableOK
<1> QED BY <1>1, <1>2, <1>3 DEF TableOK, TableInOrder

-----------------------------------------------------------------------------
\* The policy loader.

\* What the callback has read of these files.
Names(contents, files) == {p \in files \X UNION {DOMAIN contents[f].policies : f \in files} :
                              p[2] \in DOMAIN contents[p[1]].policies}

Taken(contents, files) ==
    {p \in files \X UNION {ValidBodies(contents[f]) : f \in files} : p[2] \in ValidBodies(contents[p[1]])}

Read(table, contents, files) ==
    /\ table.top \in Seq(Names(contents, files))
    /\ IsInjective(table.top)
    /\ ToSet(table.top) = Taken(contents, files)
    /\ DOMAIN table.policies = Names(contents, files)
    /\ \A p \in Names(contents, files) :
          table.policies[p] = UnmarshalPolicies(p[1], contents[p[1]]).policies[p]

\* A policy as it is read.
LEMMA UnmarshalPolicy ==
    ASSUME NEW content \in PolicyContents, NEW f, NEW n \in DOMAIN content.policies
    PROVE  LET written == Execute(content, content.policies[n])
               policy  == UnmarshalPolicies(f, content).policies[<<f, n>>]
           IN  /\ policy.id = written.certificate
               /\ policy.selectors = UNION {ConvertSelector(s) : s \in written.selectors}
               /\ policy.connection = written.connection
               /\ policy.egress = In(f, written.egress)
               /\ written.egress = content.policies[n].egress
               /\ DOMAIN policy = {"id", "selectors", "connection", "egress"}
<1> DEFINE raw == content.policies[n]
           written == Execute(content, raw)
           policy == UnmarshalPolicies(f, content).policies[<<f, n>>]
<1>1. DOMAIN raw = {"selectors", "certificate", "connection", "egress"}
    BY PolicyContentsAssumption
<1>2. policy = [ConvertPolicy(written) EXCEPT !.egress = In(f, @)]
    BY DEF UnmarshalPolicies
<1> HIDE DEF raw, policy
<1>3. written.egress = raw.egress
    BY <1>1 DEF Execute
<1> HIDE DEF written
<1>4. ConvertPolicy(written) =
        [id |-> written.certificate,
         selectors |-> UNION {ConvertSelector(s) : s \in written.selectors},
         connection |-> written.connection, egress |-> written.egress]
    BY DEF ConvertPolicy
<1>5. /\ policy.id = written.certificate
      /\ policy.selectors = UNION {ConvertSelector(s) : s \in written.selectors}
      /\ policy.connection = written.connection
      /\ policy.egress = In(f, written.egress)
      /\ DOMAIN policy = {"id", "selectors", "connection", "egress"}
    BY <1>2, <1>4
<1> QED BY <1>3, <1>5 DEF raw, policy, written

\* The names in a file's lists.
LEMMA InList ==
    ASSUME NEW S, NEW f, NEW list \in Seq(S)
    PROVE  /\ In(f, list) \in Seq({f} \X S)
           /\ ToSet(In(f, list)) = {f} \X ToSet(list)
           /\ IsInjective(list) => IsInjective(In(f, list))
<1>1. Len(list) \in Nat /\ DOMAIN list = 1 .. Len(list) /\ \A i \in 1 .. Len(list) : list[i] \in S
    OBVIOUS
<1>2. In(f, list) = [i \in 1 .. Len(list) |-> <<f, list[i]>>]
    BY <1>1 DEF In
<1>3. In(f, list) \in Seq({f} \X S)
    BY <1>1, <1>2
<1>4. ToSet(In(f, list)) = {f} \X ToSet(list)
    BY <1>1, <1>2 DEF ToSet
<1>5. IsInjective(list) => IsInjective(In(f, list))
    BY <1>1, <1>2 DEF IsInjective
<1> QED BY <1>3, <1>4, <1>5

\* Two lists of different names, one after the other.
LEMMA ConcatList ==
    ASSUME NEW S, NEW s \in Seq(S), NEW t \in Seq(S)
    PROVE  /\ s \o t \in Seq(S)
           /\ ToSet(s \o t) = ToSet(s) \cup ToSet(t)
           /\ IsInjective(s) /\ IsInjective(t) /\ ToSet(s) \cap ToSet(t) = {} => IsInjective(s \o t)
<1> DEFINE u == s \o t
           L == Len(s)
           M == Len(t)
<1>1. /\ L \in Nat /\ M \in Nat /\ u \in Seq(S) /\ Len(u) = L + M
      /\ \A i \in 1 .. L + M : u[i] = IF i <= L THEN s[i] ELSE t[i-L]
    BY ConcatProperties
<1>2. DOMAIN s = 1 .. L /\ DOMAIN t = 1 .. M /\ DOMAIN u = 1 .. L + M
    BY <1>1
<1> HIDE DEF u, L, M
<1>3. \A i \in 1 .. L + M : \/ i \in 1 .. L /\ u[i] = s[i]
                            \/ i - L \in 1 .. M /\ u[i] = t[i-L]
    BY <1>1
<1>4. \A i \in 1 .. L : i \in 1 .. L + M /\ u[i] = s[i]
    BY <1>1
<1>5. \A i \in 1 .. M : i + L \in 1 .. L + M /\ u[i+L] = t[i]
    <2> TAKE i \in 1 .. M
    <2>1. i + L \in 1 .. L + M /\ ~(i + L <= L) /\ (i + L) - L = i
        BY <1>1
    <2> QED BY <1>1, <2>1
<1>6. ToSet(u) = ToSet(s) \cup ToSet(t)
    BY <1>2, <1>3, <1>4, <1>5 DEF ToSet
<1>7. ASSUME IsInjective(s), IsInjective(t), ToSet(s) \cap ToSet(t) = {}
      PROVE  IsInjective(u)
    <2>1. \A i \in 1 .. L, j \in 1 .. M : s[i] # t[j]
        BY <1>2, <1>7 DEF ToSet
    <2> SUFFICES ASSUME NEW a \in 1 .. L + M, NEW b \in 1 .. L + M, u[a] = u[b] PROVE a = b
        BY <1>2 DEF IsInjective
    <2>2. CASE a \in 1 .. L /\ u[a] = s[a]
        <3>1. b \in 1 .. L /\ u[b] = s[b]
            BY <1>3, <2>1, <2>2
        <3> QED BY <1>2, <1>7, <2>2, <3>1 DEF IsInjective
    <2>3. CASE a - L \in 1 .. M /\ u[a] = t[a-L]
        <3>1. b - L \in 1 .. M /\ u[b] = t[b-L]
            BY <1>3, <2>1, <2>3
        <3>2. a - L = b - L
            BY <1>2, <1>7, <2>3, <3>1 DEF IsInjective
        <3> QED BY <1>1, <3>2
    <2> QED BY <1>3, <2>2, <2>3
<1> QED BY <1>1, <1>6, <1>7 DEF u

\* Reading one more file.
LEMMA ReadMore ==
    ASSUME NEW contents, NEW files, NEW f, f \notin files, contents[f] \in PolicyContents,
           NEW table, Read(table, contents, files)
    PROVE  Read(Joined(table, UnmarshalPolicies(f, contents[f])), contents, files \cup {f})
<1> DEFINE c == contents[f]
           names == DOMAIN c.policies
           new == UnmarshalPolicies(f, c)
           joined == Joined(table, new)
           old == Names(contents, files)
           all == Names(contents, files \cup {f})
<1>1. /\ IsSequence(c.items)
      /\ \A i, j \in DOMAIN c.items : c.items[i].body = c.items[j].body => i = j
      /\ \A i \in DOMAIN c.items : c.items[i].body \in names
    BY PolicyContentsAssumption
<1>2. ValidBodies(c) \subseteq names
    BY <1>1 DEF ValidBodies, ToSet
<1>3. /\ all = old \cup ({f} \X names)
      /\ old \cap ({f} \X names) = {}
      /\ \A p \in old : p[1] # f
    BY DEF Names
<1>4. Taken(contents, files \cup {f}) = Taken(contents, files) \cup ({f} \X ValidBodies(c))
    BY DEF Taken
<1> HIDE DEF c, names
<1>5. /\ new.top = In(f, ValidItems(c))
      /\ DOMAIN new.policies = {f} \X names
    BY DEF UnmarshalPolicies, names
<1>6. /\ new.top \in Seq({f} \X names)
      /\ ToSet(new.top) = {f} \X ValidBodies(c)
      /\ IsInjective(new.top)
    <2>1. /\ ValidItems(c) \in Seq(ValidBodies(c))
          /\ ToSet(ValidItems(c)) = ValidBodies(c)
          /\ IsInjective(ValidItems(c))
        BY <1>1, ValidItemsList
    <2>2. ValidItems(c) \in Seq(names)
        BY <1>2, <2>1, SeqMonotonic
    <2>3. PICK list \in Seq(names) : list = ValidItems(c)
        BY <2>2
    <2>4. /\ In(f, list) \in Seq({f} \X names)
          /\ ToSet(In(f, list)) = {f} \X ToSet(list)
          /\ IsInjective(list) => IsInjective(In(f, list))
        BY InList
    <2> QED BY <1>5, <2>1, <2>3, <2>4
<1> HIDE DEF new, old, all
<1>7. /\ joined.top = table.top \o new.top
      /\ DOMAIN joined.policies = DOMAIN table.policies \cup DOMAIN new.policies
      /\ \A p \in DOMAIN joined.policies : joined.policies[p] =
            IF p \in DOMAIN new.policies THEN new.policies[p] ELSE table.policies[p]
    BY DEF Joined
<1> HIDE DEF joined
<1>8. /\ table.top \in Seq(old) /\ IsInjective(table.top)
      /\ ToSet(table.top) = Taken(contents, files)
      /\ DOMAIN table.policies = old
      /\ \A p \in old : table.policies[p] = UnmarshalPolicies(p[1], contents[p[1]]).policies[p]
    BY DEF Read, old
<1>9. ToSet(table.top) \cap ToSet(new.top) = {}
    BY <1>6, <1>8 DEF Taken
<1>10. /\ joined.top \in Seq(all)
       /\ ToSet(joined.top) = ToSet(table.top) \cup ToSet(new.top)
       /\ IsInjective(joined.top)
    <2>1. table.top \in Seq(all) /\ new.top \in Seq(all)
        BY <1>3, <1>6, <1>8, SeqMonotonic
    <2>2. PICK s \in Seq(all), t \in Seq(all) : s = table.top /\ t = new.top
        BY <2>1
    <2>3. /\ s \o t \in Seq(all)
          /\ ToSet(s \o t) = ToSet(s) \cup ToSet(t)
          /\ IsInjective(s) /\ IsInjective(t) /\ ToSet(s) \cap ToSet(t) = {} => IsInjective(s \o t)
        BY ConcatList
    <2> QED BY <1>6, <1>7, <1>8, <1>9, <2>2, <2>3
<1>11. ToSet(joined.top) = Taken(contents, files \cup {f})
    BY <1>4, <1>6, <1>8, <1>10
<1>12. DOMAIN joined.policies = all
    BY <1>3, <1>5, <1>7, <1>8
<1>13. ASSUME NEW p \in all
       PROVE  joined.policies[p] = UnmarshalPolicies(p[1], contents[p[1]]).policies[p]
    <2>1. CASE p \in old
        <3>1. p \notin DOMAIN new.policies
            BY <1>3, <1>5, <2>1
        <3> QED BY <1>7, <1>8, <1>12, <2>1, <3>1
    <2>2. CASE p \in {f} \X names
        <3>1. p[1] = f
            BY <2>2
        <3> QED BY <1>5, <1>7, <1>12, <2>2, <3>1 DEF new, c
    <2> QED BY <1>3, <2>1, <2>2
<1> QED BY <1>10, <1>11, <1>12, <1>13 DEF Read, joined, new, all, c

\* Nothing is read of no file.
LEMMA ReadNothing ==
    ASSUME NEW contents
    PROVE  Read(NoPolicies, contents, {})
<1>1. Names(contents, {}) = {} /\ Taken(contents, {}) = {}
    BY DEF Names, Taken
<1>2. <<>> \in Seq({}) /\ IsInjective(<<>>) /\ ToSet(<<>>) = {}
    BY DEF IsInjective, ToSet
<1>3. DOMAIN NoPolicies.policies = {} /\ NoPolicies.top = <<>>
    BY DEF NoPolicies
<1> QED BY <1>1, <1>2, <1>3 DEF Read

\* What is read is a table.
LEMMA ReadTable ==
    ASSUME NEW contents, NEW files, \A f \in files : contents[f] \in PolicyContents,
           NEW table, Read(table, contents, files)
    PROVE  TableOK(table, Names(contents, files))
<1> SUFFICES ASSUME NEW p \in Names(contents, files)
             PROVE  /\ table.policies[p].egress \in Seq(Names(contents, files))
                    /\ DOMAIN table.policies[p] = {"id", "selectors", "connection", "egress"}
    BY DEF TableOK, Read
<1>1. PICK f \in files : \E n \in DOMAIN contents[f].policies : p = <<f, n>>
    BY DEF Names
<1> DEFINE c == contents[f]
           names == DOMAIN c.policies
<1>2. PICK n \in names : p = <<f, n>>
    BY <1>1
<1>3. {f} \X names \subseteq Names(contents, files)
    BY DEF Names
<1>4. c \in PolicyContents
    OBVIOUS
<1>5. c.policies[n].egress \in Seq(names)
    BY <1>4, PolicyContentsAssumption
<1>6. table.policies[p] = UnmarshalPolicies(f, c).policies[<<f, n>>]
    BY <1>2 DEF Read
<1>7. /\ UnmarshalPolicies(f, c).policies[<<f, n>>].egress = In(f, c.policies[n].egress)
      /\ DOMAIN UnmarshalPolicies(f, c).policies[<<f, n>>] = {"id", "selectors", "connection", "egress"}
    BY <1>4, UnmarshalPolicy
<1> HIDE DEF names, c
<1>8. In(f, c.policies[n].egress) \in Seq({f} \X names)
    BY <1>5, InList
<1>9. In(f, c.policies[n].egress) \in Seq(Names(contents, files))
    BY <1>3, <1>8, SeqMonotonic
<1> QED BY <1>6, <1>7, <1>9

\* While it reads, the callback has what the files hold that it is through with;
\* afterwards the loader's table is what all of them hold, organized once, and the
\* agent's the same, organized again.
PolicyInv ==
    /\ DOMAIN policyContents \subseteq PolicyFiles
    /\ \A f \in DOMAIN policyContents : policyContents[f] \in PolicyContents
    /\ policiesTodo # None =>
          /\ policiesTodo \subseteq DOMAIN policyContents
          /\ Read(policiesRead, policyContents, Parsed(policyContents) \ policiesTodo)
    /\ policiesTodo = None =>
          /\ policiesRead = NoPolicies
          /\ \E table : /\ Read(table, policyContents, Parsed(policyContents))
                        /\ loaded = Organize(table)
                        /\ sentPolicies = Organize(loaded)

\* It holds before the first callback.
LEMMA PolicyInvInit == Init => PolicyInv
<1> SUFFICES ASSUME Init PROVE PolicyInv
    OBVIOUS
<1>1. /\ DOMAIN policyContents \subseteq PolicyFiles
      /\ \A f \in DOMAIN policyContents : policyContents[f] \in PolicyContents
    BY DEF Init, NoFiles
<1>2. policiesTodo = DOMAIN policyContents /\ policiesTodo # None
    BY <1>1, NoneAssumption DEF Init
<1>3. Parsed(policyContents) \ policiesTodo = {}
    BY <1>2 DEF Parsed
<1>4. policiesRead = NoPolicies
    BY DEF Init
<1> QED BY <1>1, <1>2, <1>3, <1>4, ReadNothing DEF PolicyInv

\* Every step keeps it.
LEMMA PolicyInvNext == PolicyInv /\ [Next]_vars => PolicyInv'
<1> SUFFICES ASSUME PolicyInv, [Next]_vars PROVE PolicyInv'
    OBVIOUS
<1>1. ASSUME NEW f \in DOMAIN policyContents, ReadPolicyFile(f)
      PROVE  PolicyInv'
    <2>1. /\ policiesTodo # None /\ f \in policiesTodo
          /\ policiesTodo' = policiesTodo \ {f}
          /\ policyContents' = policyContents
        BY <1>1 DEF ReadPolicyFile
    <2>2. /\ DOMAIN policyContents \subseteq PolicyFiles
          /\ \A g \in DOMAIN policyContents : policyContents[g] \in PolicyContents
          /\ policiesTodo \subseteq DOMAIN policyContents
          /\ Read(policiesRead, policyContents, Parsed(policyContents) \ policiesTodo)
        BY <2>1 DEF PolicyInv
    <2>3. policiesTodo' \subseteq DOMAIN policyContents /\ policiesTodo' # None
        BY <2>1, <2>2, NoneAssumption
    <2> DEFINE done == Parsed(policyContents) \ policiesTodo
               now == Parsed(policyContents) \ (policiesTodo \ {f})
    <2>4. Read(policiesRead', policyContents, now)
        <3>1. CASE policyContents[f].parses
            <4>1. now = done \cup {f} /\ f \notin done
                BY <2>1, <2>2, <3>1 DEF Parsed
            <4>2. policiesRead' = Joined(policiesRead, UnmarshalPolicies(f, policyContents[f]))
                BY <1>1, <3>1 DEF ReadPolicyFile
            <4> HIDE DEF now, done
            <4>3. Read(policiesRead, policyContents, done)
                BY <2>2 DEF done
            <4>4. policyContents[f] \in PolicyContents
                BY <2>2
            <4>5. Read(Joined(policiesRead, UnmarshalPolicies(f, policyContents[f])), policyContents, done \cup {f})
                BY <4>1, <4>3, <4>4, ReadMore
            <4> QED BY <4>1, <4>2, <4>5
        <3>2. CASE ~policyContents[f].parses
            <4>1. now = done
                BY <3>2 DEF Parsed
            <4>2. policiesRead' = policiesRead
                BY <1>1, <3>2 DEF ReadPolicyFile
            <4> QED BY <2>2, <4>1, <4>2
        <3> QED BY <3>1, <3>2
    <2>5. now = (Parsed(policyContents) \ policiesTodo)'
        BY <2>1 DEF Parsed
    <2> QED BY <2>1, <2>2, <2>3, <2>4, <2>5 DEF PolicyInv
<1>2. ASSUME NEW f \in DOMAIN policyContents, PolicyCallback(f)
      PROVE  PolicyInv'
    <2>1. PICK content \in PolicyContents :
              /\ policiesTodo = None
              /\ policyContents' = [policyContents EXCEPT ![f] = content]
              /\ policiesTodo' = DOMAIN policyContents
              /\ policiesRead' = policiesRead
        BY <1>2 DEF PolicyCallback
    <2>2. /\ DOMAIN policyContents \subseteq PolicyFiles
          /\ \A g \in DOMAIN policyContents : policyContents[g] \in PolicyContents
          /\ policiesRead = NoPolicies
        BY <2>1 DEF PolicyInv
    <2>3. /\ DOMAIN policyContents' = DOMAIN policyContents
          /\ \A g \in DOMAIN policyContents : policyContents'[g] \in PolicyContents
        BY <2>1, <2>2
    <2>4. policiesTodo' # None
        BY <2>1, <2>2, NoneAssumption
    <2>5. (Parsed(policyContents) \ policiesTodo)' = {}
        BY <2>1, <2>3 DEF Parsed
    <2>6. Read(policiesRead', policyContents', {})
        BY <2>1, <2>2, ReadNothing
    <2> QED BY <2>1, <2>2, <2>3, <2>4, <2>5, <2>6 DEF PolicyInv
<1>3. ASSUME HandOverPolicies
      PROVE  PolicyInv'
    <2>1. /\ policiesTodo = {}
          /\ loaded' = Organize(policiesRead)
          /\ sentPolicies' = Organize(loaded')
          /\ policiesTodo' = None
          /\ policiesRead' = NoPolicies
          /\ policyContents' = policyContents
        BY <1>3 DEF HandOverPolicies
    <2>2. policiesTodo # None
        BY <2>1, NoneAssumption
    <2>3. /\ DOMAIN policyContents \subseteq PolicyFiles
          /\ \A g \in DOMAIN policyContents : policyContents[g] \in PolicyContents
          /\ Read(policiesRead, policyContents, Parsed(policyContents) \ policiesTodo)
        BY <2>2 DEF PolicyInv
    <2>4. Parsed(policyContents) \ policiesTodo = Parsed(policyContents)'
        BY <2>1 DEF Parsed
    <2>5. Read(policiesRead, policyContents', Parsed(policyContents)')
        BY <2>1, <2>3, <2>4
    <2>6. \E table : /\ Read(table, policyContents', Parsed(policyContents)')
                     /\ loaded' = Organize(table)
                     /\ sentPolicies' = Organize(loaded')
        BY <2>1, <2>5
    <2> QED BY <2>1, <2>3, <2>6 DEF PolicyInv
<1>4. ASSUME UNCHANGED policyVars
      PROVE  PolicyInv'
    <2>1. /\ policyContents' = policyContents /\ policiesTodo' = policiesTodo
          /\ policiesRead' = policiesRead /\ loaded' = loaded /\ sentPolicies' = sentPolicies
        BY <1>4 DEF policyVars
    <2> QED BY <2>1 DEF PolicyInv, Parsed
<1>5. ASSUME NEW f, ReadServiceFile(f) \/ ServiceCallback(f)
      PROVE  UNCHANGED policyVars
    BY <1>5 DEF ReadServiceFile, ServiceCallback
<1>6. HandOverServices => UNCHANGED policyVars
    BY DEF HandOverServices
<1>7. UNCHANGED vars => UNCHANGED policyVars
    BY DEF vars
<1> QED BY <1>1, <1>2, <1>3, <1>4, <1>5, <1>6, <1>7 DEF Next

\* The policy loader and the agent's handler keep it.
THEOREM PolicyLoading == Spec => []PolicyInv
BY PolicyInvInit, PolicyInvNext, PTL DEF Spec

\* The tables the agent publishes.
LEMMA SentTables ==
    ASSUME PolicyInv, Sent
    PROVE  LET N == Names(policyContents, Parsed(policyContents)) IN
           /\ \E table : /\ Read(table, policyContents, Parsed(policyContents))
                         /\ Reordered(loaded, table, N)
           /\ TableOK(loaded, N) /\ TableInOrder(loaded, N)
           /\ TableOK(sentPolicies, N) /\ TableInOrder(sentPolicies, N)
           /\ Reordered(sentPolicies, loaded, N)
           /\ sentPolicies = Organize(loaded)
<1> DEFINE N == Names(policyContents, Parsed(policyContents))
<1>1. PICK table : /\ Read(table, policyContents, Parsed(policyContents))
                   /\ loaded = Organize(table)
                   /\ sentPolicies = Organize(loaded)
    BY DEF PolicyInv, Sent
<1>2. \A f \in Parsed(policyContents) : policyContents[f] \in PolicyContents
    BY DEF PolicyInv, Parsed
<1>3. TableOK(table, N)
    BY <1>1, <1>2, ReadTable
<1> HIDE DEF N
<1>4. TableOK(loaded, N) /\ Reordered(loaded, table, N) /\ TableInOrder(loaded, N)
    BY <1>1, <1>3, OrganizeTable
<1>5. TableOK(sentPolicies, N) /\ Reordered(sentPolicies, loaded, N) /\ TableInOrder(sentPolicies, N)
    BY <1>1, <1>4, OrganizeTable
<1> QED BY <1>1, <1>4, <1>5 DEF N

\* No policy stands directly behind one that is only more general, in the table and
\* in every egress section of what the agent sends (policy.go:53-76).
THEOREM TablesInOrder == Spec => []SpecificFirst
<1>1. PolicyInv => SpecificFirst
    <2> SUFFICES ASSUME PolicyInv, Sent, NEW list \in Sections(sentPolicies)
                 PROVE  InOrder(sentPolicies.policies, list)
        BY DEF SpecificFirst
    <2> DEFINE N == Names(policyContents, Parsed(policyContents))
    <2>1. TableOK(sentPolicies, N) /\ TableInOrder(sentPolicies, N)
        BY SentTables
    <2> HIDE DEF N
    <2> QED BY <2>1 DEF Sections, TableOK, TableInOrder
<1> QED BY <1>1, PolicyLoading, PTL

\* Organizing again what the loader organized (agent.go:257) changes nothing in a
\* section without policies that are each more specific than the other.
THEOREM OrganizedTwice == Spec => []SecondSortChangesNothing
<1>1. PolicyInv => SecondSortChangesNothing
    <2> SUFFICES ASSUME PolicyInv, Sent
                 PROVE  /\ Settled(loaded.policies, loaded.top) => sentPolicies.top = loaded.top
                        /\ \A p \in DOMAIN loaded.policies :
                              Settled(loaded.policies, loaded.policies[p].egress) =>
                                  sentPolicies.policies[p].egress = loaded.policies[p].egress
        BY DEF SecondSortChangesNothing
    <2> DEFINE N == Names(policyContents, Parsed(policyContents))
    <2>1. TableOK(loaded, N) /\ TableInOrder(loaded, N) /\ sentPolicies = Organize(loaded)
        BY SentTables
    <2> HIDE DEF N
    <2>2. DOMAIN loaded.policies = N
        BY <2>1 DEF TableOK
    <2> QED BY <2>1, <2>2, OrganizeSettled
<1> QED BY <1>1, PolicyLoading, PTL

\* What is sent of a policy that is written in a file that parses.
LEMMA SentPolicy ==
    ASSUME PolicyInv, Sent, NEW f \in Parsed(policyContents),
           NEW n \in DOMAIN policyContents[f].policies
    PROVE  LET raw  == Written(f, n)
               sent == sentPolicies.policies[<<f, n>>]
           IN  /\ sent.id = raw.certificate
               /\ sent.selectors = UNION {ConvertSelector(s) : s \in raw.selectors}
               /\ sent.connection = raw.connection
               /\ Rearranged(sent.egress, In(f, raw.egress))
<1> DEFINE N == Names(policyContents, Parsed(policyContents))
           raw == Written(f, n)
           p == <<f, n>>
           read == UnmarshalPolicies(f, policyContents[f]).policies[p]
           sent == sentPolicies.policies[p]
<1>1. PICK table : Read(table, policyContents, Parsed(policyContents)) /\ Reordered(loaded, table, N)
    BY SentTables
<1>2. Reordered(sentPolicies, loaded, N)
    BY SentTables
<1>3. p \in N /\ p[1] = f
    BY DEF Names
<1>4. table.policies[p] = read
    BY <1>1, <1>3 DEF Read
<1>5. policyContents[f] \in PolicyContents
    BY DEF PolicyInv, Parsed
<1>6. /\ read.id = raw.certificate
      /\ read.selectors = UNION {ConvertSelector(s) : s \in raw.selectors}
      /\ read.connection = raw.connection
      /\ read.egress = In(f, raw.egress)
    BY <1>5, UnmarshalPolicy DEF Written
<1> HIDE DEF N, p, read, raw
<1>7. /\ sent.id = read.id /\ sent.selectors = read.selectors /\ sent.connection = read.connection
      /\ Rearranged(sent.egress, read.egress)
    BY <1>1, <1>2, <1>3, <1>4 DEF Reordered, Rearranged
<1> QED BY <1>6, <1>7 DEF raw, p

\* Every valid policy of every file that parses is sent once, with its own egress
\* policies, and nothing else is (policy/file_loader.go:77-88, :103-124).
THEOREM EverythingIsSent == Spec => []NothingElseIsLost
<1>1. PolicyInv => NothingElseIsLost
    <2> SUFFICES ASSUME PolicyInv, Sent PROVE NothingElseIsLost
        BY DEF NothingElseIsLost
    <2> DEFINE files == Parsed(policyContents)
               N == Names(policyContents, files)
    <2>1. PICK table : Read(table, policyContents, files) /\ Reordered(loaded, table, N)
        BY SentTables
    <2>2. Reordered(sentPolicies, loaded, N)
        BY SentTables
    <2>3. IsInjective(sentPolicies.top) /\ ToSet(sentPolicies.top) = Taken(policyContents, files)
        BY <2>1, <2>2 DEF Read, Reordered, Rearranged
    <2>4. Taken(policyContents, files) = UNION {{f} \X ValidBodies(policyContents[f]) : f \in files}
        BY DEF Taken
    <2>5. ASSUME NEW f \in files, NEW n \in DOMAIN policyContents[f].policies
          PROVE  LET sent == sentPolicies.policies[<<f, n>>] IN
                     /\ sent.id = Written(f, n).certificate
                     /\ sent.connection = Written(f, n).connection
                     /\ Rearranged(sent.egress, In(f, Written(f, n).egress))
        BY SentPolicy
    <2> QED BY <2>3, <2>4, <2>5 DEF NothingElseIsLost
<1> QED BY <1>1, PolicyLoading, PTL

-----------------------------------------------------------------------------
\* Permutations.

\* x comes before y: it is smaller at the first place where they differ.
Before(arrays, x, y) == \E j \in DOMAIN arrays :
    x[j] < y[j] /\ \A i \in DOMAIN arrays : i < j => x[i] = y[i]

IsArrays(arrays) ==
    /\ \E n \in Nat : DOMAIN arrays = 1 .. n
    /\ \A i \in DOMAIN arrays : /\ Len(arrays[i]) \in Nat \ {0}
                                /\ DOMAIN arrays[i] = 1 .. Len(arrays[i])

\* The odometer stands at the end when nothing can go up, and otherwise goes to the
\* next indices, with none between.
LEMMA AdvanceIsNext ==
    ASSUME NEW arrays, IsArrays(arrays), NEW x \in Indices(arrays)
    PROVE  /\ Movable(arrays, x) = {} => \A y \in Indices(arrays) : ~Before(arrays, x, y)
           /\ Movable(arrays, x) # {} =>
                 /\ Advance(arrays, x) \in Indices(arrays)
                 /\ Before(arrays, x, Advance(arrays, x))
                 /\ \A y \in Indices(arrays) : Before(arrays, x, y) =>
                       y = Advance(arrays, x) \/ Before(arrays, Advance(arrays, x), y)
<1>1. PICK n \in Nat : DOMAIN arrays = 1 .. n
    BY DEF IsArrays
<1>2. \A i \in 1 .. n : Len(arrays[i]) \in Nat \ {0} /\ DOMAIN arrays[i] = 1 .. Len(arrays[i])
    BY <1>1 DEF IsArrays
<1> DEFINE L == [i \in 1 .. n |-> Len(arrays[i])]
<1>3. \A i \in 1 .. n : L[i] \in Nat \ {0} /\ L[i] = Len(arrays[i])
    BY <1>2
<1>4. Indices(arrays) = {y \in [1 .. n -> Nat] : \A i \in 1 .. n : y[i] \in 1 .. L[i]}
    BY <1>1, <1>2, <1>3 DEF Indices
<1> HIDE DEF L
<1>5. Movable(arrays, x) = {i \in 1 .. n : x[i] < L[i]}
    BY <1>1, <1>3 DEF Movable
<1>6. \A y, z : Before(arrays, y, z) <=>
        \E j \in 1 .. n : y[j] < z[j] /\ \A i \in 1 .. n : i < j => y[i] = z[i]
    BY <1>1 DEF Before
<1>7. /\ x \in [1 .. n -> Nat]
      /\ \A i \in 1 .. n : x[i] \in 1 .. L[i]
    BY <1>4
<1>8. ASSUME NEW y \in Indices(arrays), Before(arrays, x, y)
      PROVE  Movable(arrays, x) # {}
    <2>1. PICK j \in 1 .. n : x[j] < y[j]
        BY <1>6, <1>8
    <2>2. y[j] \in 1 .. L[j] /\ x[j] \in Nat /\ L[j] \in Nat
        BY <1>3, <1>4, <1>7
    <2> QED BY <1>5, <2>1, <2>2
<1>9. ASSUME Movable(arrays, x) # {}
      PROVE  /\ Advance(arrays, x) \in Indices(arrays)
             /\ Before(arrays, x, Advance(arrays, x))
             /\ \A y \in Indices(arrays) : Before(arrays, x, y) =>
                   y = Advance(arrays, x) \/ Before(arrays, Advance(arrays, x), y)
    <2> DEFINE m == Max(Movable(arrays, x))
               a == Advance(arrays, x)
    <2>1. m \in 1 .. n /\ x[m] < L[m] /\ \A i \in 1 .. n : i > m => ~(x[i] < L[i])
        <3>1. Movable(arrays, x) \subseteq 0 .. n
            BY <1>5
        <3>2. m \in Movable(arrays, x) /\ \A k \in Movable(arrays, x) : k <= m
            BY <1>9, <3>1, GreatestElement
        <3> HIDE DEF m
        <3> QED BY <1>5, <3>2
    <2>2. a = [i \in 1 .. n |-> IF i < m THEN x[i] ELSE IF i = m THEN x[i] + 1 ELSE 1]
        BY <1>1 DEF Advance
    <2> HIDE DEF m, a
    <2>3. a \in Indices(arrays)
        <3>1. \A i \in 1 .. n : a[i] \in Nat /\ a[i] \in 1 .. L[i]
            BY <1>3, <1>7, <2>1, <2>2
        <3> QED BY <1>4, <2>2, <3>1
    <2>4. Before(arrays, x, a)
        <3>1. x[m] < a[m] /\ \A i \in 1 .. n : i < m => x[i] = a[i]
            BY <1>7, <2>1, <2>2
        <3> QED BY <1>6, <2>1, <3>1
    <2>5. ASSUME NEW y \in Indices(arrays), Before(arrays, x, y), y # a
          PROVE  Before(arrays, a, y)
        <3>1. PICK j \in 1 .. n : x[j] < y[j] /\ \A i \in 1 .. n : i < j => x[i] = y[i]
            BY <1>6, <2>5
        <3>2. y \in [1 .. n -> Nat] /\ \A i \in 1 .. n : y[i] \in 1 .. L[i]
            BY <1>4
        <3>3. j <= m
            <4>1. x[j] < L[j]
                BY <1>3, <1>7, <3>1, <3>2
            <4> QED BY <2>1, <4>1
        <3>4. CASE j < m
            <4>1. a[j] < y[j] /\ \A i \in 1 .. n : i < j => a[i] = y[i]
                BY <2>1, <2>2, <3>1, <3>4
            <4> QED BY <1>6, <4>1
        <3>5. CASE j = m
            <4>1. \A i \in 1 .. n : i < m => a[i] = y[i]
                BY <2>1, <2>2, <3>1, <3>5
            <4>2. \A i \in 1 .. n : i >= m => a[i] <= y[i]
                BY <1>7, <2>1, <2>2, <3>1, <3>2, <3>5
            <4> DEFINE T == {i \in 1 .. n : a[i] # y[i]}
            <4>3. T # {}
                <5> SUFFICES ASSUME T = {} PROVE FALSE
                    OBVIOUS
                <5>1. \A i \in 1 .. n : a[i] = y[i]
                    OBVIOUS
                <5>2. a = y
                    BY <2>2, <3>2, <5>1
                <5> QED BY <2>5, <5>2
            <4>4. PICK k \in T : \A i \in T : k <= i
                <5>1. T \subseteq Nat
                    OBVIOUS
                <5> HIDE DEF T
                <5> QED BY <4>3, <5>1, LeastElement
            <4>5. k \in 1 .. n /\ a[k] # y[k] /\ \A i \in 1 .. n : i < k => a[i] = y[i]
                BY <4>4
            <4>6. a[k] < y[k]
                <5>1. k >= m
                    BY <2>1, <4>1, <4>5
                <5>2. a[k] \in Nat /\ y[k] \in Nat
                    BY <1>4, <2>3, <4>5
                <5> QED BY <4>2, <4>5, <5>1, <5>2
            <4> QED BY <1>6, <4>5, <4>6
        <3> QED BY <2>1, <3>3, <3>4, <3>5
    <2> QED BY <2>3, <2>4, <2>5 DEF a
<1> QED BY <1>8, <1>9

\* The order of the indices.
LEMMA BeforeTransitive ==
    ASSUME NEW arrays, IsArrays(arrays),
           NEW x \in Indices(arrays), NEW y \in Indices(arrays), NEW z \in Indices(arrays),
           Before(arrays, x, y), Before(arrays, y, z)
    PROVE  Before(arrays, x, z)
<1>1. PICK n \in Nat : DOMAIN arrays = 1 .. n
    BY DEF IsArrays
<1>2. \A i \in 1 .. n : x[i] \in Nat /\ y[i] \in Nat /\ z[i] \in Nat
    BY <1>1 DEF Indices
<1>3. PICK j \in 1 .. n : x[j] < y[j] /\ \A i \in 1 .. n : i < j => x[i] = y[i]
    BY <1>1 DEF Before
<1>4. PICK k \in 1 .. n : y[k] < z[k] /\ \A i \in 1 .. n : i < k => y[i] = z[i]
    BY <1>1 DEF Before
<1>5. CASE j <= k
    <2>1. x[j] < z[j] /\ \A i \in 1 .. n : i < j => x[i] = z[i]
        BY <1>2, <1>3, <1>4, <1>5
    <2> QED BY <1>1, <2>1 DEF Before
<1>6. CASE k < j
    <2>1. x[k] < z[k] /\ \A i \in 1 .. n : i < k => x[i] = z[i]
        BY <1>2, <1>3, <1>4, <1>6
    <2> QED BY <1>1, <2>1 DEF Before
<1> QED BY <1>5, <1>6

\* Among some indices there are last ones.
LEMMA LastIndices ==
    ASSUME NEW arrays, IsArrays(arrays), NEW T, T \subseteq Indices(arrays), T # {}
    PROVE  \E x \in T : \A y \in T : ~Before(arrays, x, y)
<1>1. PICK n \in Nat : DOMAIN arrays = 1 .. n
    BY DEF IsArrays
<1>2. \A x \in T, i \in 1 .. n : x[i] \in 1 .. Len(arrays[i]) /\ Len(arrays[i]) \in Nat
    BY <1>1 DEF Indices, IsArrays
<1> DEFINE Less(x, y, k) == x[k] < y[k] /\ \A i \in 1 .. n : i < k => x[i] = y[i]
           Good(j) == \E x \in T : \A y \in T : \A k \in 1 .. j : ~Less(x, y, k)
           D == {j \in Nat : j <= n => Good(j)}
<1>3. 0 \in D
    OBVIOUS
<1>4. ASSUME NEW j \in Nat, j \in D
      PROVE  j + 1 \in D
    <2> SUFFICES ASSUME j + 1 <= n PROVE Good(j + 1)
        OBVIOUS
    <2>1. PICK x \in T : \A y \in T : \A k \in 1 .. j : ~Less(x, y, k)
        BY <1>1, <1>4
    <2> DEFINE U == {y \in T : \A i \in 1 .. j : y[i] = x[i]}
               V == {y[j+1] : y \in U}
    <2>2. j + 1 \in 1 .. n /\ \A k \in 1 .. j : k \in 1 .. n
        BY <1>1
    <2>3. V \subseteq 0 .. Len(arrays[j+1]) /\ V # {} /\ Len(arrays[j+1]) \in Nat
        BY <1>2, <2>2
    <2>4. PICK y \in U : \A z \in U : z[j+1] <= y[j+1]
        <3>1. Max(V) \in V /\ \A v \in V : v <= Max(V)
            <4> HIDE DEF V
            <4> QED BY <2>3, GreatestElement
        <3>2. PICK y \in U : y[j+1] = Max(V)
            BY <3>1
        <3> QED BY <3>1, <3>2
    <2>5. ASSUME NEW z \in T, NEW k \in 1 .. j + 1, Less(y, z, k)
          PROVE  FALSE
        <3>1. CASE k \in 1 .. j
            <4>1. x[k] < z[k]
                BY <2>4, <2>5, <3>1
            <4>2. \A i \in 1 .. n : i < k => x[i] = z[i]
                <5> TAKE i \in 1 .. n
                <5> SUFFICES ASSUME i < k PROVE x[i] = z[i]
                    OBVIOUS
                <5>1. i \in 1 .. j
                    BY <3>1
                <5>2. y[i] = z[i]
                    BY <2>5
                <5> QED BY <2>4, <5>1, <5>2
            <4>3. Less(x, z, k)
                BY <4>1, <4>2
            <4> HIDE DEF Less
            <4> QED BY <2>1, <3>1, <4>3
        <3>2. CASE k = j + 1
            <4>1. \A i \in 1 .. j : z[i] = x[i]
                BY <2>2, <2>4, <2>5, <3>2
            <4>2. z[j+1] <= y[j+1]
                BY <2>4, <4>1
            <4>3. y[j+1] < z[j+1] /\ y[j+1] \in Nat /\ z[j+1] \in Nat
                BY <1>2, <2>2, <2>5, <3>2
            <4> QED BY <4>2, <4>3
        <3> QED BY <2>5, <3>1, <3>2
    <2> HIDE DEF Less
    <2> QED BY <2>4, <2>5
<1>5. \A j \in Nat : j \in D
    <2> HIDE DEF D
    <2> QED BY <1>3, <1>4, SetInduction
<1>6. PICK x \in T : \A y \in T : \A k \in 1 .. n : ~Less(x, y, k)
    <2>1. n \in D
        BY <1>1, <1>5
    <2> HIDE DEF Less
    <2>2. Good(n)
        BY <2>1
    <2> QED BY <2>2
<1>7. \A y \in T : ~Before(arrays, x, y)
    BY <1>1, <1>6 DEF Before
<1> QED BY <1>7

\* The first indices: all others come after them.
LEMMA FirstIndices ==
    ASSUME NEW arrays, IsArrays(arrays)
    PROVE  LET first == [i \in DOMAIN arrays |-> 1] IN
           /\ first \in Indices(arrays)
           /\ \A y \in Indices(arrays) : y = first \/ Before(arrays, first, y)
<1>1. PICK n \in Nat : DOMAIN arrays = 1 .. n
    BY DEF IsArrays
<1> DEFINE first == [i \in DOMAIN arrays |-> 1]
<1>2. first \in Indices(arrays)
    <2>1. \A i \in DOMAIN arrays : 1 \in DOMAIN arrays[i]
        <3> TAKE i \in DOMAIN arrays
        <3>1. PICK m \in Nat : m = Len(arrays[i]) /\ DOMAIN arrays[i] = 1 .. m /\ m # 0
            BY DEF IsArrays
        <3> QED BY <3>1
    <2>2. first \in [DOMAIN arrays -> Nat] /\ \A i \in DOMAIN arrays : first[i] = 1
        OBVIOUS
    <2> HIDE DEF first
    <2> QED BY <2>1, <2>2 DEF Indices
<1>3. ASSUME NEW y \in Indices(arrays), y # first
      PROVE  Before(arrays, first, y)
    <2>1. y \in [1 .. n -> Nat] /\ \A i \in 1 .. n : y[i] \in Nat /\ 1 <= y[i]
        <3>1. y \in [1 .. n -> Nat] /\ \A i \in 1 .. n : y[i] \in DOMAIN arrays[i]
            BY <1>1 DEF Indices
        <3>2. ASSUME NEW i \in 1 .. n PROVE y[i] \in Nat /\ 1 <= y[i]
            <4>1. PICK m \in Nat : DOMAIN arrays[i] = 1 .. m
                BY <1>1 DEF IsArrays
            <4> QED BY <3>1, <4>1
        <3> QED BY <3>1, <3>2
    <2>2. first = [i \in 1 .. n |-> 1]
        BY <1>1
    <2> HIDE DEF first
    <2> DEFINE T == {i \in 1 .. n : y[i] # 1}
    <2>3. T # {} /\ T \subseteq Nat
        <3>1. ASSUME T = {} PROVE FALSE
            <4>1. \A i \in 1 .. n : y[i] = 1
                BY <3>1
            <4>2. y = first
                BY <2>1, <2>2, <4>1
            <4> QED BY <1>3, <4>2
        <3> QED BY <3>1
    <2>4. PICK k \in T : \A i \in T : k <= i
        <3> HIDE DEF T
        <3> QED BY <2>3, LeastElement
    <2>5. k \in 1 .. n /\ first[k] < y[k] /\ \A i \in 1 .. n : i < k => first[i] = y[i]
        BY <2>1, <2>2, <2>4
    <2> QED BY <1>1, <2>5 DEF Before
<1> QED BY <1>2, <1>3

\* The loop visits all indices, and so makes every row there is.
LEMMA EveryRow ==
    ASSUME NEW arrays, IsArrays(arrays)
    PROVE  MakeArrayPermutations(arrays) = {Row(arrays, x) : x \in Indices(arrays)}
<1> DEFINE I == Indices(arrays)
           Step(f, x) == {Row(arrays, x)}
                         \cup (IF Movable(arrays, x) = {} THEN {} ELSE f[Advance(arrays, x)])
           Eq(f) == f = [x \in I |-> Step(f, x)]
           F == CHOOSE f : Eq(f)
           first == [i \in DOMAIN arrays |-> 1]
           From(x) == {z \in I : z = x \/ Before(arrays, x, z)}
           G == [x \in I |-> {Row(arrays, z) : z \in From(x)}]
<1>1. MakeArrayPermutations(arrays) = F[first]
    BY DEF MakeArrayPermutations
<1>2. \A x \in I : G[x] = {Row(arrays, z) : z \in From(x)}
    OBVIOUS
<1>3. G = [x \in I |-> G[x]]
    OBVIOUS
<1> HIDE DEF G
<1>4. ASSUME NEW x \in I
      PROVE  G[x] = Step(G, x)
    <2>1. CASE Movable(arrays, x) = {}
        <3>1. From(x) = {x}
            BY <2>1, AdvanceIsNext
        <3> QED BY <1>2, <2>1, <3>1
    <2>2. CASE Movable(arrays, x) # {}
        <3> DEFINE a == Advance(arrays, x)
        <3>1. /\ a \in I /\ Before(arrays, x, a)
              /\ \A y \in I : Before(arrays, x, y) => y = a \/ Before(arrays, a, y)
            BY <2>2, AdvanceIsNext
        <3>2. \A z \in I : Before(arrays, a, z) => Before(arrays, x, z)
            BY <3>1, BeforeTransitive
        <3> HIDE DEF a
        <3>3. From(x) = {x} \cup From(a)
            BY <3>1, <3>2
        <3>4. G[x] = {Row(arrays, x)} \cup G[a]
            <4>1. G[x] = {Row(arrays, z) : z \in From(x)} /\ G[a] = {Row(arrays, z) : z \in From(a)}
                BY <1>2, <3>1
            <4> HIDE DEF From
            <4> QED BY <3>3, <4>1
        <3> QED BY <2>2, <3>4 DEF a
    <2> QED BY <2>1, <2>2
<1>5. Eq(F)
    <2>1. Eq(G)
        <3> HIDE DEF Step
        <3> QED BY <1>3, <1>4
    <2> HIDE DEF Eq
    <2> QED BY <2>1
<1> HIDE DEF F
<1>6. \A x \in I : F[x] = Step(F, x)
    <2> HIDE DEF Step
    <2> QED BY <1>5
<1> DEFINE T == {x \in I : F[x] # G[x]}
<1>7. T = {}
    <2> SUFFICES ASSUME T # {} PROVE FALSE
        OBVIOUS
    <2>1. PICK x \in T : \A y \in T : ~Before(arrays, x, y)
        <3>1. T \subseteq Indices(arrays)
            OBVIOUS
        <3> HIDE DEF T
        <3> QED BY <3>1, LastIndices
    <2>2. CASE Movable(arrays, x) = {}
        BY <1>4, <1>6, <2>1, <2>2
    <2>3. CASE Movable(arrays, x) # {}
        <3> DEFINE a == Advance(arrays, x)
        <3>1. a \in I /\ Before(arrays, x, a)
            BY <2>3, AdvanceIsNext
        <3>2. F[a] = G[a]
            BY <2>1, <3>1
        <3> QED BY <1>4, <1>6, <2>1, <2>3, <3>2
    <2> QED BY <2>2, <2>3
<1>8. first \in I /\ From(first) = I
    BY FirstIndices
<1>9. F[first] = G[first]
    BY <1>7, <1>8
<1> HIDE DEF From, first
<1> QED BY <1>1, <1>2, <1>8, <1>9

-----------------------------------------------------------------------------
\* Conversion.

\* The image of a finite set is finite.
LEMMA FiniteImage ==
    ASSUME NEW S, IsFiniteSet(S), NEW f
    PROVE  IsFiniteSet({f[x] : x \in S})
<1> DEFINE T == {f[x] : x \in S}
           g == [x \in S |-> f[x]]
<1>1. g \in Surjection(S, T)
    BY DEF Surjection
<1> HIDE DEF g, T
<1>2. IsFiniteSet(T)
    BY <1>1, FS_Surjection
<1> QED BY <1>2 DEF T

\* SetToSeq lists a finite set.
LEMMA SetToSeqList ==
    ASSUME NEW S, IsFiniteSet(S)
    PROVE  \E n \in Nat : /\ n = 0 <=> S = {}
                          /\ SetToSeq(S) \in [1 .. n -> S]
                          /\ Len(SetToSeq(S)) = n
                          /\ ToSet(SetToSeq(S)) = S
<1> DEFINE n == Cardinality(S)
           q == SetToSeq(S)
<1>1. n \in Nat /\ ExistsBijection(1 .. n, S) /\ (n = 0 <=> S = {})
    BY FS_CardinalityType, FS_EmptySet
<1>2. PICK b \in [1 .. n -> S] : IsInjective(b)
    BY <1>1 DEF ExistsBijection, Bijection, Injection
<1>3. q \in [1 .. n -> S] /\ IsInjective(q)
    BY <1>2 DEF SetToSeq
<1> HIDE DEF q, n
<1>4. q \in Injection(1 .. n, S)
    BY <1>3 DEF Injection
<1>5. Cardinality(1 .. n) = n
    BY <1>1, FS_Interval
<1>6. q \in Surjection(1 .. n, S)
    BY <1>4, <1>5, FS_Injection DEF n
<1>7. ToSet(q) = S
    BY <1>3, <1>6 DEF ToSet, Surjection
<1>8. Len(q) = n
    BY <1>1, <1>3
<1> QED BY <1>1, <1>3, <1>7, <1>8 DEF q

\* The labels a field of a selector becomes.
LabelsOf(s, k) == {LabelText(k, text) : text \in ValueForKind(s[k])}

FiniteSelector(s) == IsFiniteSet(DOMAIN s) /\ \A k \in DOMAIN s : IsFiniteSet(s[k])

\* One array for every field that has labels, with just these.
LEMMA FlattenedSelector ==
    ASSUME NEW s, FiniteSelector(s)
    PROVE  LET arrays == FlattenAndStringify(s)
               fields == {k \in DOMAIN s : ValueForKind(s[k]) # {}}
           IN  /\ IsArrays(arrays)
               /\ \A i \in DOMAIN arrays : \E k \in fields : ToSet(arrays[i]) = LabelsOf(s, k)
               /\ \A k \in fields : \E i \in DOMAIN arrays : ToSet(arrays[i]) = LabelsOf(s, k)
<1> DEFINE arrays == FlattenAndStringify(s)
           fields == {k \in DOMAIN s : ValueForKind(s[k]) # {}}
           list == SetToSeq(fields)
<1>1. IsFiniteSet(fields)
    BY FS_Subset DEF FiniteSelector
<1>2. ASSUME NEW k \in fields
      PROVE  IsFiniteSet(LabelsOf(s, k)) /\ LabelsOf(s, k) # {}
    <2> DEFINE V == {v \in s[k] : v.kind \in {"number", "string"}}
               label == [v \in V |-> LabelText(k, Text(v))]
               L == LabelsOf(s, k)
    <2>1. IsFiniteSet(V)
        BY FS_Subset DEF FiniteSelector
    <2>2. L = {label[v] : v \in V}
        BY DEF LabelsOf, ValueForKind
    <2>3. L # {}
        BY DEF LabelsOf
    <2> HIDE DEF V, label, L
    <2>4. IsFiniteSet(L)
        BY <2>1, <2>2, FiniteImage
    <2> QED BY <2>3, <2>4 DEF L
<1>3. arrays = [i \in DOMAIN list |-> SetToSeq(LabelsOf(s, list[i]))]
    BY DEF FlattenAndStringify, LabelsOf
<1> HIDE DEF arrays, fields
<1>4. PICK n \in Nat : list \in [1 .. n -> fields] /\ ToSet(list) = fields
    BY <1>1, SetToSeqList
<1> HIDE DEF list
<1>5. DOMAIN arrays = 1 .. n
    BY <1>3, <1>4
<1>6. ASSUME NEW i \in 1 .. n
      PROVE  /\ ToSet(arrays[i]) = LabelsOf(s, list[i])
             /\ Len(arrays[i]) \in Nat \ {0}
             /\ DOMAIN arrays[i] = 1 .. Len(arrays[i])
    <2> DEFINE L == LabelsOf(s, list[i])
    <2>1. IsFiniteSet(L) /\ L # {}
        BY <1>2, <1>4
    <2>2. arrays[i] = SetToSeq(L)
        BY <1>3, <1>4
    <2> HIDE DEF L
    <2>3. PICK m \in Nat : /\ m = 0 <=> L = {}
                           /\ SetToSeq(L) \in [1 .. m -> L]
                           /\ Len(SetToSeq(L)) = m
                           /\ ToSet(SetToSeq(L)) = L
        BY <2>1, SetToSeqList
    <2>4. DOMAIN SetToSeq(L) = 1 .. m
        BY <2>3
    <2> QED BY <2>1, <2>2, <2>3, <2>4 DEF L
<1>7. IsArrays(arrays)
    BY <1>5, <1>6 DEF IsArrays
<1>8. \A i \in DOMAIN arrays : \E k \in fields : ToSet(arrays[i]) = LabelsOf(s, k)
    BY <1>4, <1>5, <1>6
<1>9. \A k \in fields : \E i \in DOMAIN arrays : ToSet(arrays[i]) = LabelsOf(s, k)
    <2> TAKE k \in fields
    <2>1. PICK i \in 1 .. n : list[i] = k
        BY <1>4 DEF ToSet
    <2> QED BY <1>5, <1>6, <2>1
<1> QED BY <1>7, <1>8, <1>9 DEF arrays, fields

\* Some row has only labels of the process just when it has one of every array.
LEMMA ConvertedSelector ==
    ASSUME NEW s, FiniteSelector(s), NEW labels
    PROVE  (\E t \in ConvertSelector(s) : t \subseteq labels) <=>
               \A k \in DOMAIN s : ValueForKind(s[k]) # {} => LabelsOf(s, k) \cap labels # {}
<1> DEFINE arrays == FlattenAndStringify(s)
           fields == {k \in DOMAIN s : ValueForKind(s[k]) # {}}
<1>1. /\ IsArrays(arrays)
      /\ \A i \in DOMAIN arrays : \E k \in fields : ToSet(arrays[i]) = LabelsOf(s, k)
      /\ \A k \in fields : \E i \in DOMAIN arrays : ToSet(arrays[i]) = LabelsOf(s, k)
    BY FlattenedSelector
<1>2. ConvertSelector(s) = {ToSet(row) : row \in MakeArrayPermutations(arrays)}
    BY DEF ConvertSelector
<1> HIDE DEF arrays
<1>3. ConvertSelector(s) = {ToSet(Row(arrays, x)) : x \in Indices(arrays)}
    <2>1. MakeArrayPermutations(arrays) = {Row(arrays, x) : x \in Indices(arrays)}
        BY <1>1, EveryRow
    <2> QED BY <1>2, <2>1
<1>4. ASSUME NEW t \in ConvertSelector(s), t \subseteq labels, NEW k \in fields
      PROVE  LabelsOf(s, k) \cap labels # {}
    <2>1. PICK x \in Indices(arrays) : t = ToSet(Row(arrays, x))
        BY <1>3
    <2>2. PICK i \in DOMAIN arrays : ToSet(arrays[i]) = LabelsOf(s, k)
        BY <1>1
    <2>3. arrays[i][x[i]] \in t /\ arrays[i][x[i]] \in ToSet(arrays[i])
        BY <2>1 DEF ToSet, Row, Indices
    <2> QED BY <1>4, <2>2, <2>3
<1>5. ASSUME \A k \in fields : LabelsOf(s, k) \cap labels # {}
      PROVE  \E t \in ConvertSelector(s) : t \subseteq labels
    <2> DEFINE x == [i \in DOMAIN arrays |-> CHOOSE j \in DOMAIN arrays[i] : arrays[i][j] \in labels]
    <2>1. \A i \in DOMAIN arrays : \E j \in DOMAIN arrays[i] : arrays[i][j] \in labels
        <3> TAKE i \in DOMAIN arrays
        <3>1. ToSet(arrays[i]) \cap labels # {}
            BY <1>1, <1>5
        <3> QED BY <3>1 DEF ToSet
    <2>2. \A i \in DOMAIN arrays : x[i] \in DOMAIN arrays[i] /\ arrays[i][x[i]] \in labels
        BY <2>1
    <2>3. DOMAIN x = DOMAIN arrays /\ x = [i \in DOMAIN arrays |-> x[i]]
        OBVIOUS
    <2> HIDE DEF x
    <2>4. \A i \in DOMAIN arrays : x[i] \in Nat
        <3> TAKE i \in DOMAIN arrays
        <3>1. PICK m \in Nat : DOMAIN arrays[i] = 1 .. m
            BY <1>1 DEF IsArrays
        <3> QED BY <2>2, <3>1
    <2>5. x \in Indices(arrays)
        BY <2>2, <2>3, <2>4 DEF Indices
    <2>6. ToSet(Row(arrays, x)) \subseteq labels
        BY <2>2 DEF ToSet, Row
    <2> QED BY <1>3, <2>5, <2>6
<1> QED BY <1>4, <1>5

\* A selector of numbers and strings is converted to one for the same processes.
LEMMA ConvertibleSelector ==
    ASSUME NEW s, FiniteSelector(s), Convertible(s), NEW labels
    PROVE  (\E t \in ConvertSelector(s) : t \subseteq labels) <=> MeantFor(s, labels)
<1>1. ASSUME NEW k \in DOMAIN s
      PROVE  /\ ValueForKind(s[k]) = {Text(v) : v \in s[k]}
             /\ ValueForKind(s[k]) # {}
    BY DEF Convertible, ValueForKind
<1>2. ASSUME NEW k \in DOMAIN s
      PROVE  LabelsOf(s, k) \cap labels # {} <=> \E v \in s[k] : LabelText(k, Text(v)) \in labels
    BY <1>1 DEF LabelsOf
<1> QED BY <1>1, <1>2, ConvertedSelector DEF MeantFor

\* Rendering keeps selectors finite.
LEMMA WrittenFinite ==
    ASSUME NEW content \in PolicyContents, NEW n \in DOMAIN content.policies
    PROVE  \A s \in Execute(content, content.policies[n]).selectors : FiniteSelector(s)
<1> DEFINE raw == content.policies[n]
<1>1. DOMAIN raw = {"selectors", "certificate", "connection", "egress"}
    BY PolicyContentsAssumption
<1>2. \A s \in raw.selectors : FiniteSelector(s)
    BY PolicyContentsAssumption DEF FiniteSelector
<1> HIDE DEF raw
<1>3. ASSUME NEW s \in raw.selectors
      PROVE  FiniteSelector(RenderedSelector(s))
    <2> DEFINE text(v) == IF v.kind = "string" THEN [v EXCEPT !.text = Rendered(@)] ELSE v
    <2>1. DOMAIN RenderedSelector(s) = DOMAIN s
        BY DEF RenderedSelector
    <2>2. \A k \in DOMAIN s : RenderedSelector(s)[k] = {text(v) : v \in s[k]}
        BY DEF RenderedSelector
    <2> HIDE DEF text
    <2>3. ASSUME NEW S, IsFiniteSet(S)
          PROVE  IsFiniteSet({text(v) : v \in S})
        <3> DEFINE g == [v \in S |-> text(v)]
        <3>1. {text(v) : v \in S} = {g[v] : v \in S}
            OBVIOUS
        <3> HIDE DEF g
        <3> QED BY <2>3, <3>1, FiniteImage
    <2> QED BY <1>2, <2>1, <2>2, <2>3 DEF FiniteSelector
<1>4. Execute(content, raw).selectors
          = IF content.renders THEN {RenderedSelector(s) : s \in raw.selectors} ELSE raw.selectors
    BY <1>1 DEF Execute
<1> QED BY <1>2, <1>3, <1>4 DEF raw

\* What is sent of a policy applies to the processes its selectors are meant for.
LEMMA SentSelectors ==
    ASSUME PolicyInv, Sent, NEW f \in Parsed(policyContents),
           NEW n \in DOMAIN policyContents[f].policies, NEW labels,
           \A s \in Written(f, n).selectors : Convertible(s)
    PROVE  Applies(sentPolicies.policies[<<f, n>>], labels) <=>
               \E s \in Written(f, n).selectors : MeantFor(s, labels)
<1> DEFINE raw == Written(f, n)
           sent == sentPolicies.policies[<<f, n>>]
<1>1. sent.selectors = UNION {ConvertSelector(s) : s \in raw.selectors}
    BY SentPolicy
<1>2. policyContents[f] \in PolicyContents
    BY DEF PolicyInv, Parsed
<1>3. \A s \in raw.selectors : FiniteSelector(s)
    BY <1>2, WrittenFinite DEF Written
<1>4. \A s \in raw.selectors : Convertible(s)
    OBVIOUS
<1> HIDE DEF raw, sent
<1>5. \A s \in raw.selectors :
          (\E t \in ConvertSelector(s) : t \subseteq labels) <=> MeantFor(s, labels)
    BY <1>3, <1>4, ConvertibleSelector
<1>6. Applies(sent, labels) <=> \E s \in raw.selectors : \E t \in ConvertSelector(s) : t \subseteq labels
    BY <1>1 DEF Applies
<1>7. Applies(sent, labels) <=> \E s \in raw.selectors : MeantFor(s, labels)
    BY <1>5, <1>6
<1> QED BY <1>7 DEF raw, sent

\* A policy applies to exactly the processes its selectors are written for, through
\* lists and their permutations (convert.go:103-137).
THEOREM SelectorsAsWritten == Spec => []AppliesAsWritten
<1>1. PolicyInv => AppliesAsWritten
    BY SentSelectors DEF AppliesAsWritten
<1> QED BY <1>1, PolicyLoading, PTL

\* The policy of generate-policy applies to the process it was made for, and to none
\* that shares no label of one of the names (generate_policy.go:113-174).
THEOREM GeneratedForProcess == Spec => []GeneratedPolicyApplies
<1>1. PolicyInv => GeneratedPolicyApplies
    <2> SUFFICES ASSUME PolicyInv, Sent, NEW f \in Parsed(policyContents),
                        NEW n \in DOMAIN policyContents[f].policies, NEW labels \in Processes,
                        policyContents[f].policies[n] \in GeneratedPolicy(labels, Wanted, "generated"),
                        \A l \in ToSet(labels) : l.name \in Wanted => l.value # Placeholder
                 PROVE  LET sent   == sentPolicies.policies[<<f, n>>]
                            wanted == {l \in ToSet(labels) : l.name \in Wanted}
                        IN  /\ Applies(sent, LabelSet(labels))
                            /\ \A other \in SUBSET LabelSet(labels) : Applies(sent, other) =>
                                  \A l \in wanted : \E m \in wanted :
                                      m.name = l.name /\ LabelText(m.name, m.value) \in other
        BY DEF GeneratedPolicyApplies
    <2> DEFINE sent == sentPolicies.policies[<<f, n>>]
               names == {l.name : l \in ToSet(labels)} \cap Wanted
               At(name) == {i \in DOMAIN labels : labels[i].name = name}
               last(name) == labels[Max(At(name))]
               s == [name \in names |-> {[kind |-> "string", text |-> last(name).value]}]
    <2>1. policyContents[f].policies[n] = [selectors |-> {s}, certificate |-> "generated",
                                           connection |-> "strict", egress |-> <<>>]
        BY DEF GeneratedPolicy
    <2>2. ASSUME NEW name \in names
          PROVE  last(name) \in ToSet(labels) /\ last(name).name = name
        <3>1. PICK m \in Nat : DOMAIN labels = 1 .. m
            BY ProcessesAssumption DEF IsSequence
        <3>2. At(name) # {} /\ At(name) \subseteq 0 .. m
            BY <3>1 DEF ToSet
        <3>3. Max(At(name)) \in At(name)
            <4> HIDE DEF At
            <4> QED BY <3>1, <3>2, GreatestElement
        <3> QED BY <3>3 DEF ToSet
    <2> HIDE DEF last
    <2>3. DOMAIN s = names /\ \A name \in names :
              s[name] = {[kind |-> "string", text |-> last(name).value]}
        OBVIOUS
    <2> HIDE DEF s, names
    <2>4. Convertible(s)
        <3>1. \A text : [kind |-> "string", text |-> text].kind = "string"
            OBVIOUS
        <3>2. ASSUME NEW k \in DOMAIN s
              PROVE  s[k] # {} /\ \A v \in s[k] : v.kind = "string"
            <4> DEFINE r == [kind |-> "string", text |-> last(k).value]
            <4>1. s[k] = {r} /\ r.kind = "string"
                BY <2>3, <3>1
            <4> HIDE DEF r
            <4> QED BY <4>1
        <3> QED BY <3>2 DEF Convertible
    <2>5. ASSUME NEW X
          PROVE  Applies(sent, X) <=> MeantFor(s, X)
        <3>1. RenderedSelector(s) = s
            <4> DEFINE r(k) == [kind |-> "string", text |-> last(k).value]
            <4>1. ASSUME NEW k \in names
                  PROVE  {IF v.kind = "string" THEN [v EXCEPT !.text = Rendered(@)] ELSE v : v \in s[k]}
                             = s[k]
                <5>1. Rendered(last(k).value) = last(k).value
                    BY <2>2 DEF Rendered, names
                <5>2. r(k).kind = "string" /\ [r(k) EXCEPT !.text = Rendered(@)] = r(k)
                    BY <5>1
                <5>3. s[k] = {r(k)}
                    BY <2>3
                <5> HIDE DEF r
                <5> QED BY <5>2, <5>3
            <4>2. s = [k \in names |-> s[k]]
                BY <2>3 DEF s
            <4> QED BY <2>3, <4>1, <4>2 DEF RenderedSelector
        <3>2. Written(f, n).selectors = {s}
            BY <2>1, <3>1 DEF Written, Execute
        <3>3. \A t \in Written(f, n).selectors : Convertible(t)
            BY <2>4, <3>2
        <3>4. Applies(sent, X) <=> \E t \in Written(f, n).selectors : MeantFor(t, X)
            BY <3>3, SentSelectors
        <3> HIDE DEF sent
        <3> QED BY <3>2, <3>4
    <2>6. ASSUME NEW X
          PROVE  Applies(sent, X) <=> \A name \in names : LabelText(name, last(name).value) \in X
        <3>1. \A text : Text([kind |-> "string", text |-> text]) = text
            BY DEF Text
        <3>2. MeantFor(s, X) <=> \A name \in names : LabelText(name, last(name).value) \in X
            <4>1. ASSUME NEW name \in names
                  PROVE  (\E v \in s[name] : LabelText(name, Text(v)) \in X) <=>
                             LabelText(name, last(name).value) \in X
                BY <2>3, <3>1
            <4> QED BY <2>3, <4>1 DEF MeantFor
        <3> HIDE DEF sent
        <3> QED BY <2>5, <3>2
    <2> HIDE DEF sent
    <2>7. Applies(sent, LabelSet(labels))
        BY <2>2, <2>6 DEF LabelSet
    <2>8. ASSUME NEW other, Applies(sent, other), NEW l \in ToSet(labels), l.name \in Wanted
          PROVE  \E m \in ToSet(labels) : /\ m.name \in Wanted /\ m.name = l.name
                                          /\ LabelText(m.name, m.value) \in other
        <3>1. l.name \in names
            BY <2>8 DEF names
        <3> QED BY <2>2, <2>6, <2>8, <3>1
    <2> QED BY <2>7, <2>8 DEF sent
<1> QED BY <1>1, PolicyLoading, PTL

-----------------------------------------------------------------------------
\* Entries of the service table.

\* The map from keys to labels that pairs of a key and labels make.
Entries(P) == [k \in {p[1] : p \in P} |-> UNION {p[2] : p \in {q \in P : q[1] = k}}]

\* The pairs of one address of a service, and of all of them.
Pairs(s, a, dns) ==
    IF s.labels = {} THEN {}
    ELSE {<<AddressToString(addr, a.port), s.labels>> : addr \in ResolveAddress(a.host, dns)}

AllPairs(s, dns) == UNION {Pairs(s, a, dns) : a \in ToSet(s.addresses)}

\* Merging loses neither keys nor labels and adds none.
LEMMA MergedEntries ==
    ASSUME NEW P, NEW Q
    PROVE  MergeEntries(Entries(P), Entries(Q)) = Entries(P \cup Q)
<1> DEFINE keys(R) == {p[1] : p \in R}
           at(R, k) == UNION {p[2] : p \in {q \in R : q[1] = k}}
<1>1. \A R : Entries(R) = [k \in keys(R) |-> at(R, k)]
    BY DEF Entries
<1>2. keys(P \cup Q) = keys(P) \cup keys(Q)
    OBVIOUS
<1>3. ASSUME NEW k
      PROVE  /\ at(P \cup Q, k) = at(P, k) \cup at(Q, k)
             /\ k \notin keys(P) => at(P, k) = {}
             /\ k \notin keys(Q) => at(Q, k) = {}
    OBVIOUS
<1> HIDE DEF keys, at
<1>4. \A R : DOMAIN Entries(R) = keys(R) /\ \A k \in keys(R) : Entries(R)[k] = at(R, k)
    BY <1>1
<1>5. MergeEntries(Entries(P), Entries(Q)) =
          [k \in keys(P) \cup keys(Q) |-> (IF k \in keys(P) THEN Entries(P)[k] ELSE {})
                                          \cup (IF k \in keys(Q) THEN Entries(Q)[k] ELSE {})]
    BY <1>4 DEF MergeEntries
<1>6. ASSUME NEW k
      PROVE  (IF k \in keys(P) THEN Entries(P)[k] ELSE {})
                 \cup (IF k \in keys(Q) THEN Entries(Q)[k] ELSE {}) = at(P \cup Q, k)
    <2>1. (IF k \in keys(P) THEN Entries(P)[k] ELSE {}) = at(P, k)
        BY <1>3, <1>4
    <2>2. (IF k \in keys(Q) THEN Entries(Q)[k] ELSE {}) = at(Q, k)
        BY <1>3, <1>4
    <2> QED BY <1>3, <2>1, <2>2
<1>7. Entries(P \cup Q) = [k \in keys(P) \cup keys(Q) |-> at(P \cup Q, k)]
    BY <1>1, <1>2
<1> QED BY <1>5, <1>6, <1>7

\* Nothing makes no entries.
LEMMA NoPairs == Entries({}) = NoEntries
    BY DEF Entries, NoEntries

\* What one address adds are the entries of its pairs: the agent selects by no tags.
LEMMA EntriesOfAddress ==
    ASSUME NEW s, NEW a, NEW dns
    PROVE  EntriesOf(s, a, {}, dns) = Entries(Pairs(s, a, dns))
<1> DEFINE A == ResolveAddress(a.host, dns)
           key(addr) == AddressToString(addr, a.port)
           P == {<<key(addr), s.labels>> : addr \in A}
<1>1. FilterAddressByTag(a, {})
    BY DEF FilterAddressByTag
<1>2. CASE s.labels = {}
    BY <1>2, NoPairs DEF EntriesOf, Pairs
<1>3. CASE s.labels # {}
    <2>1. EntriesOf(s, a, {}, dns) = [k \in {key(addr) : addr \in A} |-> s.labels]
        BY <1>1, <1>3 DEF EntriesOf
    <2>2. Pairs(s, a, dns) = P
        BY <1>3 DEF Pairs
    <2> HIDE DEF A, key
    <2>3. {p[1] : p \in P} = {key(addr) : addr \in A}
        <3>1. \A addr \in A : <<key(addr), s.labels>> \in P /\ <<key(addr), s.labels>>[1] = key(addr)
            OBVIOUS
        <3>2. \A p \in P : \E addr \in A : p[1] = key(addr)
            OBVIOUS
        <3> HIDE DEF P
        <3> QED BY <3>1, <3>2
    <2>4. ASSUME NEW k \in {key(addr) : addr \in A}
          PROVE  UNION {p[2] : p \in {q \in P : q[1] = k}} = s.labels
        <3>1. \A p \in P : p[2] = s.labels
            OBVIOUS
        <3>2. \E p \in P : p[1] = k
            <4>1. PICK addr \in A : k = key(addr)
                OBVIOUS
            <4>2. <<k, s.labels>> \in P /\ <<k, s.labels>>[1] = k
                BY <4>1
            <4> HIDE DEF P
            <4> QED BY <4>2
        <3> HIDE DEF P
        <3> QED BY <3>1, <3>2
    <2>5. Entries(P) = [k \in {key(addr) : addr \in A} |-> s.labels]
        <3> HIDE DEF P
        <3> QED BY <2>3, <2>4 DEF Entries
    <2> QED BY <2>1, <2>2, <2>5
<1> QED BY <1>2, <1>3

\* The inner loop adds the pairs of all addresses.
LEMMA MergedAddresses ==
    ASSUME NEW P, NEW s, IsSequence(s.addresses), NEW dns
    PROVE  MergeAddresses(Entries(P), s, {}, dns) = Entries(P \cup AllPairs(s, dns))
<1> DEFINE addresses == s.addresses
           N == Len(addresses)
           Step(f, k) == IF k = 0 THEN Entries(P)
                         ELSE MergeEntries(f[k-1], EntriesOf(s, addresses[k], {}, dns))
           Eq(f) == f = [k \in 0 .. N |-> Step(f, k)]
           F == CHOOSE f : Eq(f)
           Added(k) == UNION {Pairs(s, addresses[j], dns) : j \in 1 .. k}
           G == [k \in 0 .. N |-> Entries(P \cup Added(k))]
<1>1. N \in Nat /\ DOMAIN addresses = 1 .. N
    BY DEF IsSequence
<1>2. MergeAddresses(Entries(P), s, {}, dns) = F[N]
    BY DEF MergeAddresses
<1>3. AllPairs(s, dns) = Added(N)
    BY <1>1 DEF AllPairs, ToSet
<1> HIDE DEF addresses, N
<1>4. \A k \in 0 .. N : G[k] = Entries(P \cup Added(k))
    OBVIOUS
<1>5. G = [k \in 0 .. N |-> G[k]]
    OBVIOUS
<1> HIDE DEF G
<1>6. P \cup Added(0) = P
    OBVIOUS
<1>7. ASSUME NEW k \in 1 .. N
      PROVE  /\ k - 1 \in 0 .. N
             /\ G[k] = MergeEntries(G[k-1], EntriesOf(s, addresses[k], {}, dns))
    <2>1. k - 1 \in 0 .. N /\ k \in 0 .. N /\ 1 .. k = 1 .. k - 1 \cup {k}
        BY <1>1
    <2>2. Added(k) = Added(k - 1) \cup Pairs(s, addresses[k], dns)
        BY <2>1
    <2> HIDE DEF Added
    <2>3. P \cup Added(k) = (P \cup Added(k - 1)) \cup Pairs(s, addresses[k], dns)
        BY <2>2
    <2>4. EntriesOf(s, addresses[k], {}, dns) = Entries(Pairs(s, addresses[k], dns))
        BY EntriesOfAddress
    <2>5. G[k] = Entries(P \cup Added(k)) /\ G[k-1] = Entries(P \cup Added(k - 1))
        BY <1>4, <2>1
    <2> QED BY <2>1, <2>3, <2>4, <2>5, MergedEntries
<1>8. Eq(F)
    <2>1. ASSUME NEW k \in 0 .. N PROVE G[k] = Step(G, k)
        <3>1. CASE k = 0
            BY <1>4, <1>6, <3>1
        <3>2. CASE k # 0
            BY <1>1, <1>7, <3>2
        <3> QED BY <3>1, <3>2
    <2>2. Eq(G)
        <3> HIDE DEF Step
        <3> QED BY <1>5, <2>1
    <2> HIDE DEF Eq
    <2> QED BY <2>2
<1> HIDE DEF F
<1> DEFINE Good(k) == F[k] = Entries(P \cup Added(k))
           D == {k \in Nat : k <= N => Good(k)}
<1>9. 0 \in D
    <2>1. F[0] = Entries(P)
        BY <1>1, <1>8
    <2> QED BY <1>6, <2>1
<1>10. ASSUME NEW k \in Nat, k \in D
       PROVE  k + 1 \in D
    <2> SUFFICES ASSUME k + 1 <= N PROVE Good(k + 1)
        OBVIOUS
    <2>1. k + 1 \in 1 .. N /\ k + 1 \in 0 .. N /\ k \in 0 .. N /\ (k + 1) - 1 = k /\ k + 1 # 0 /\ k <= N
        BY <1>1
    <2>2. F[k+1] = MergeEntries(F[k], EntriesOf(s, addresses[k+1], {}, dns))
        BY <1>8, <2>1
    <2>3. F[k] = G[k]
        <3> HIDE DEF Added
        <3> QED BY <1>4, <1>10, <2>1
    <2>4. F[k+1] = G[k+1]
        <3> HIDE DEF Added
        <3> QED BY <1>7, <2>1, <2>2, <2>3
    <2> HIDE DEF Added
    <2> QED BY <1>4, <2>1, <2>4
<1>11. \A k \in Nat : k \in D
    <2> HIDE DEF D
    <2> QED BY <1>9, <1>10, SetInduction
<1>12. Good(N)
    <2> HIDE DEF Good
    <2> QED BY <1>1, <1>11
<1> QED BY <1>2, <1>3, <1>12

\* The pairs of the services of a list.
ServicePairs(services, dns) == UNION {AllPairs(s, dns) : s \in services}

\* The outer loop adds those of all services.
LEMMA ConvertedEntries ==
    ASSUME NEW services, IsSequence(services), NEW dns,
           \A s \in ToSet(services) : IsSequence(s.addresses)
    PROVE  ConvertEntries(services, {}, dns) = Entries(ServicePairs(ToSet(services), dns))
<1> DEFINE N == Len(services)
           Step(f, k) == IF k = 0 THEN NoEntries
                         ELSE MergeAddresses(f[k-1], services[k], {}, dns)
           Eq(f) == f = [k \in 0 .. N |-> Step(f, k)]
           F == CHOOSE f : Eq(f)
           Added(k) == UNION {AllPairs(services[j], dns) : j \in 1 .. k}
           G == [k \in 0 .. N |-> Entries(Added(k))]
<1>1. N \in Nat /\ DOMAIN services = 1 .. N
    BY DEF IsSequence
<1>2. ConvertEntries(services, {}, dns) = F[N]
    BY DEF ConvertEntries
<1>3. ServicePairs(ToSet(services), dns) = Added(N)
    BY <1>1 DEF ServicePairs, ToSet
<1>4. \A k \in 1 .. N : IsSequence(services[k].addresses)
    BY <1>1 DEF ToSet
<1> HIDE DEF N
<1>5. \A k \in 0 .. N : G[k] = Entries(Added(k))
    OBVIOUS
<1>6. G = [k \in 0 .. N |-> G[k]]
    OBVIOUS
<1> HIDE DEF G
<1>7. Entries(Added(0)) = NoEntries
    <2>1. Added(0) = {}
        OBVIOUS
    <2> HIDE DEF Added
    <2> QED BY <2>1, NoPairs
<1>8. ASSUME NEW k \in 1 .. N
      PROVE  /\ k - 1 \in 0 .. N
             /\ G[k] = MergeAddresses(G[k-1], services[k], {}, dns)
    <2>1. k - 1 \in 0 .. N /\ k \in 0 .. N /\ 1 .. k = 1 .. k - 1 \cup {k}
        BY <1>1
    <2>2. Added(k) = Added(k - 1) \cup AllPairs(services[k], dns)
        BY <2>1
    <2> HIDE DEF Added
    <2>3. MergeAddresses(Entries(Added(k - 1)), services[k], {}, dns) =
              Entries(Added(k - 1) \cup AllPairs(services[k], dns))
        BY <1>4, MergedAddresses
    <2>4. G[k] = Entries(Added(k)) /\ G[k-1] = Entries(Added(k - 1))
        BY <1>5, <2>1
    <2> QED BY <2>1, <2>2, <2>3, <2>4
<1>9. Eq(F)
    <2>1. ASSUME NEW k \in 0 .. N PROVE G[k] = Step(G, k)
        <3>1. CASE k = 0
            BY <1>5, <1>7, <3>1
        <3>2. CASE k # 0
            BY <1>1, <1>8, <3>2
        <3> QED BY <3>1, <3>2
    <2>2. Eq(G)
        <3> HIDE DEF Step
        <3> QED BY <1>6, <2>1
    <2> HIDE DEF Eq
    <2> QED BY <2>2
<1> HIDE DEF F
<1> DEFINE Good(k) == F[k] = Entries(Added(k))
           D == {k \in Nat : k <= N => Good(k)}
<1>10. 0 \in D
    <2>1. F[0] = NoEntries
        BY <1>1, <1>9
    <2> HIDE DEF Added
    <2> QED BY <1>7, <2>1
<1>11. ASSUME NEW k \in Nat, k \in D
       PROVE  k + 1 \in D
    <2> SUFFICES ASSUME k + 1 <= N PROVE Good(k + 1)
        OBVIOUS
    <2>1. k + 1 \in 1 .. N /\ k + 1 \in 0 .. N /\ k \in 0 .. N /\ (k + 1) - 1 = k /\ k + 1 # 0 /\ k <= N
        BY <1>1
    <2>2. F[k+1] = MergeAddresses(F[k], services[k+1], {}, dns)
        BY <1>9, <2>1
    <2> HIDE DEF Added
    <2>3. F[k] = G[k]
        BY <1>5, <1>11, <2>1
    <2>4. F[k+1] = G[k+1]
        BY <1>8, <2>1, <2>2, <2>3
    <2> QED BY <1>5, <2>1, <2>4
<1>12. \A k \in Nat : k \in D
    <2> HIDE DEF D
    <2> QED BY <1>10, <1>11, SetInduction
<1>13. Good(N)
    <2> HIDE DEF Good
    <2> QED BY <1>1, <1>12
<1> QED BY <1>2, <1>3, <1>13

-----------------------------------------------------------------------------
\* The service loader.

\* What files list, with the addresses the lookups returned.
Listed(contents, dns, files) ==
    UNION {ServicePairs(ValidBodies(contents[f]), dns[f]) : f \in files}

\* A callback has read the entries of the files behind it; what was sent last are those
\* of all files that parse.
ServiceInv ==
    /\ DOMAIN serviceContents \subseteq ServiceFiles
    /\ \A f \in DOMAIN serviceContents : serviceContents[f] \in ServiceContents
    /\ DOMAIN dnsOf = DOMAIN serviceContents
    /\ servicesTodo # None =>
          /\ servicesTodo \subseteq DOMAIN serviceContents
          /\ entriesRead = Entries(Listed(serviceContents, dnsOf, Parsed(serviceContents) \ servicesTodo))
    /\ servicesTodo = None =>
          /\ entriesRead = NoEntries
          /\ sentServices # None =>
                sentServices = Entries(Listed(serviceContents, dnsOf, Parsed(serviceContents)))

\* No files list nothing.
LEMMA ListedNothing ==
    ASSUME NEW contents, NEW dns
    PROVE  Entries(Listed(contents, dns, {})) = NoEntries
<1>1. Listed(contents, dns, {}) = {}
    BY DEF Listed
<1> QED BY <1>1, NoPairs

\* The first callback has read nothing yet.
LEMMA ServiceInvInit == Init => ServiceInv
<1> SUFFICES ASSUME Init PROVE ServiceInv
    OBVIOUS
<1>1. /\ servicesTodo = DOMAIN serviceContents /\ entriesRead = NoEntries /\ sentServices = None
      /\ DOMAIN dnsOf = DOMAIN serviceContents
    BY DEF Init
<1>2. /\ DOMAIN serviceContents \subseteq ServiceFiles
      /\ \A f \in DOMAIN serviceContents : serviceContents[f] \in ServiceContents
    BY DEF Init, NoFiles
<1>3. servicesTodo # None
    BY <1>1, <1>2, NoneAssumption
<1>4. Parsed(serviceContents) \ servicesTodo = {}
    BY <1>1 DEF Parsed
<1> QED BY <1>1, <1>2, <1>3, <1>4, ListedNothing DEF ServiceInv

\* The bodies of the valid items of a service file are services.
LEMMA ServiceBodies ==
    ASSUME NEW content \in ServiceContents
    PROVE  /\ IsSequence(ValidItems(content))
           /\ ToSet(ValidItems(content)) = ValidBodies(content)
           /\ \A s \in ValidBodies(content) :
                 /\ IsSequence(s.addresses)
                 /\ \A a \in ToSet(s.addresses) : a.host.kind \in {"ip4", "ip6", "name"}
<1>1. /\ IsSequence(content.items)
      /\ \A item \in ToSet(content.items) :
            /\ IsSequence(item.body.addresses)
            /\ \A a \in ToSet(item.body.addresses) : a.host.kind \in {"ip4", "ip6", "name"}
    BY ServiceContentsAssumption
<1>2. ValidItems(content) \in Seq(ValidBodies(content)) /\ ToSet(ValidItems(content)) = ValidBodies(content)
    BY <1>1, ValidItemsList
<1> QED BY <1>1, <1>2 DEF IsSequence, ValidBodies

\* A file that is read adds its entries to those of the files read before.
LEMMA ReadListed ==
    ASSUME NEW contents, NEW dns, NEW files, NEW f \in DOMAIN dns, f \notin files,
           contents[f] \in ServiceContents, NEW d
    PROVE  LET new == [dns EXCEPT ![f] = d] IN
           /\ Listed(contents, new, files) = Listed(contents, dns, files)
           /\ MergeEntries(Entries(Listed(contents, dns, files)),
                           ConvertEntries(ValidItems(contents[f]), {}, d)) =
                  Entries(Listed(contents, new, files \cup {f}))
<1> DEFINE new == [dns EXCEPT ![f] = d]
           P == ServicePairs(ValidBodies(contents[f]), d)
           old == Listed(contents, dns, files)
<1>1. new[f] = d /\ \A g \in files : new[g] = dns[g]
    OBVIOUS
<1> HIDE DEF new
<1>2. Listed(contents, new, files) = old
    BY <1>1 DEF Listed
<1>3. Listed(contents, new, files \cup {f}) = Listed(contents, new, files) \cup P
    BY <1>1 DEF Listed
<1>4. ConvertEntries(ValidItems(contents[f]), {}, d) = Entries(P)
    <2>1. /\ IsSequence(ValidItems(contents[f]))
          /\ ToSet(ValidItems(contents[f])) = ValidBodies(contents[f])
          /\ \A s \in ValidBodies(contents[f]) : IsSequence(s.addresses)
        BY ServiceBodies
    <2>2. \A s \in ToSet(ValidItems(contents[f])) : IsSequence(s.addresses)
        BY <2>1
    <2> QED BY <2>1, <2>2, ConvertedEntries
<1> HIDE DEF P, old
<1>5. MergeEntries(Entries(old), Entries(P)) = Entries(old \cup P)
    BY MergedEntries
<1> QED BY <1>2, <1>3, <1>4, <1>5 DEF new, old

\* Every step of the service loader keeps it, and the policy loader does not touch it.
LEMMA ServiceInvNext == ServiceInv /\ [Next]_vars => ServiceInv'
<1> SUFFICES ASSUME ServiceInv, [Next]_vars PROVE ServiceInv'
    OBVIOUS
<1> USE DEF ServiceInv
<1>1. ASSUME NEW f \in DOMAIN serviceContents, ReadServiceFile(f)
      PROVE  ServiceInv'
    <2>1. PICK d \in DNS :
              /\ servicesTodo # None /\ f \in servicesTodo
              /\ servicesTodo' = servicesTodo \ {f}
              /\ dnsOf' = [dnsOf EXCEPT ![f] = d]
              /\ entriesRead' = IF serviceContents[f].parses
                                THEN MergeEntries(entriesRead,
                                         ConvertEntries(ValidItems(serviceContents[f]), {}, d))
                                ELSE entriesRead
              /\ UNCHANGED <<serviceContents, sentServices>>
        BY <1>1 DEF ReadServiceFile
    <2> DEFINE files == Parsed(serviceContents) \ servicesTodo
               later == Parsed(serviceContents) \ servicesTodo'
    <2>2. /\ servicesTodo' \subseteq DOMAIN serviceContents'
          /\ servicesTodo' # None
        <3>1. servicesTodo' \subseteq DOMAIN serviceContents
            BY <2>1
        <3>2. servicesTodo' \in SUBSET (PolicyFiles \cup ServiceFiles)
            BY <3>1
        <3> QED BY <2>1, <3>1, <3>2, NoneAssumption
    <2>3. DOMAIN dnsOf' = DOMAIN serviceContents'
        BY <2>1
    <2>4. Listed(serviceContents, dnsOf', files) = Listed(serviceContents, dnsOf, files)
        <3>1. f \notin files /\ f \in DOMAIN dnsOf /\ serviceContents[f] \in ServiceContents
            BY <2>1
        <3> HIDE DEF files
        <3> QED BY <2>1, <3>1, ReadListed
    <2>5. entriesRead = Entries(Listed(serviceContents, dnsOf, files))
        BY <2>1
    <2>6. entriesRead' = Entries(Listed(serviceContents, dnsOf', later))
        <3>1. CASE serviceContents[f].parses
            <4>1. later = files \cup {f} /\ f \notin files
                BY <2>1, <3>1 DEF Parsed
            <4>2. f \in DOMAIN dnsOf /\ serviceContents[f] \in ServiceContents
                OBVIOUS
            <4>3. entriesRead' = MergeEntries(entriesRead,
                                     ConvertEntries(ValidItems(serviceContents[f]), {}, d))
                BY <2>1, <3>1
            <4> HIDE DEF files, later, ServiceInv
            <4>4. MergeEntries(Entries(Listed(serviceContents, dnsOf, files)),
                               ConvertEntries(ValidItems(serviceContents[f]), {}, d)) =
                      Entries(Listed(serviceContents, [dnsOf EXCEPT ![f] = d], files \cup {f}))
                BY <4>1, <4>2, ReadListed
            <4> QED BY <2>1, <2>5, <4>1, <4>3, <4>4
        <3>2. CASE ~serviceContents[f].parses
            <4>1. later = files
                BY <2>1, <3>2 DEF Parsed
            <4>2. entriesRead' = entriesRead
                BY <2>1, <3>2
            <4> HIDE DEF files, later, ServiceInv
            <4> QED BY <2>4, <2>5, <4>1, <4>2
        <3> QED BY <3>1, <3>2
    <2>7. Parsed(serviceContents)' = Parsed(serviceContents)
        BY <2>1
    <2> HIDE DEF files
    <2> QED BY <2>1, <2>2, <2>3, <2>6, <2>7
<1>2. ASSUME HandOverServices
      PROVE  ServiceInv'
    <2>1. /\ servicesTodo = {} /\ servicesTodo' = None
          /\ sentServices' = entriesRead /\ entriesRead' = NoEntries
          /\ UNCHANGED <<serviceContents, dnsOf>>
        BY <1>2 DEF HandOverServices
    <2>2. servicesTodo # None
        BY <2>1, NoneAssumption
    <2>3. Parsed(serviceContents) \ servicesTodo = Parsed(serviceContents)
        BY <2>1
    <2>4. sentServices' = Entries(Listed(serviceContents, dnsOf, Parsed(serviceContents)))
        BY <2>1, <2>2, <2>3
    <2> QED BY <2>1, <2>4 DEF Parsed
<1>3. ASSUME NEW f \in DOMAIN serviceContents, ServiceCallback(f)
      PROVE  ServiceInv'
    <2>1. PICK content \in ServiceContents :
              /\ servicesTodo = None
              /\ serviceContents' = [serviceContents EXCEPT ![f] = content]
              /\ servicesTodo' = DOMAIN serviceContents
              /\ UNCHANGED <<entriesRead, sentServices, dnsOf>>
        BY <1>3 DEF ServiceCallback
    <2>2. /\ DOMAIN serviceContents' = DOMAIN serviceContents
          /\ \A g \in DOMAIN serviceContents' : serviceContents'[g] \in ServiceContents
        BY <2>1
    <2>3. servicesTodo' # None
        BY <2>1, NoneAssumption
    <2>4. Parsed(serviceContents)' \ servicesTodo' = {}
        BY <2>1, <2>2 DEF Parsed
    <2>5. entriesRead' = NoEntries
        BY <2>1
    <2> QED BY <2>1, <2>2, <2>3, <2>4, <2>5, ListedNothing
<1>4. ASSUME UNCHANGED serviceVars
      PROVE  ServiceInv'
    BY <1>4 DEF serviceVars, Parsed, Listed
<1> HIDE DEF ServiceInv
<1>5. CASE UNCHANGED vars
    BY <1>4, <1>5 DEF vars
<1>6. CASE \E f \in DOMAIN policyContents : ReadPolicyFile(f) \/ PolicyCallback(f)
    BY <1>4, <1>6 DEF ReadPolicyFile, PolicyCallback
<1>7. CASE HandOverPolicies
    BY <1>4, <1>7 DEF HandOverPolicies
<1> QED BY <1>1, <1>2, <1>3, <1>5, <1>6, <1>7 DEF Next

\* Between two callbacks nothing of the last is left, and what the agent sent are the
\* entries of all files that parse (service/file_loader.go, convert.go).
THEOREM ServiceLoading == Spec => []ServiceInv
    BY ServiceInvInit, ServiceInvNext, PTL DEF Spec

\* Where a service is listed, and that a pair with another key than the IPv6 loopback
\* comes from an address of the service.
LEMMA PairsOfService ==
    ASSUME NEW s, NEW dns, \A a \in ToSet(s.addresses) : a.host.kind \in {"ip4", "ip6", "name"}
    PROVE  /\ \A p \in AllPairs(s, dns) :
                 /\ s.labels # {} /\ p[2] = s.labels
                 /\ p[1][1] # Loopback6 => p[1] \in KeysOf(s, dns)
           /\ s.labels # {} => \A key \in KeysOf(s, dns) : <<key, s.labels>> \in AllPairs(s, dns)
<1>1. ASSUME NEW a \in ToSet(s.addresses)
      PROVE  /\ AddressesOf(a.host, dns) \subseteq ResolveAddress(a.host, dns)
             /\ ResolveAddress(a.host, dns) \subseteq AddressesOf(a.host, dns) \cup {Loopback6}
    <2>1. a.host.kind \in {"ip4", "ip6", "name"}
        OBVIOUS
    <2>2. CASE a.host.kind = "ip4"
        BY <2>2 DEF AddressesOf, ResolveAddress
    <2>3. CASE a.host.kind = "ip6"
        BY <2>3 DEF AddressesOf, ResolveAddress
    <2>4. CASE a.host.kind = "name"
        BY <2>4 DEF AddressesOf, ResolveAddress
    <2> QED BY <2>1, <2>2, <2>3, <2>4
<1>2. \A addr, port : AddressToString(addr, port)[1] = addr
    BY DEF AddressToString
<1>3. ASSUME NEW p \in AllPairs(s, dns)
      PROVE  /\ s.labels # {} /\ p[2] = s.labels
             /\ p[1][1] # Loopback6 => p[1] \in KeysOf(s, dns)
    <2>1. PICK a \in ToSet(s.addresses) : p \in Pairs(s, a, dns)
        BY DEF AllPairs
    <2>2. s.labels # {} /\ \E addr \in ResolveAddress(a.host, dns) :
              p = <<AddressToString(addr, a.port), s.labels>>
        BY <2>1 DEF Pairs
    <2>3. PICK addr \in ResolveAddress(a.host, dns) : p = <<AddressToString(addr, a.port), s.labels>>
        BY <2>2
    <2>4. p[1] = AddressToString(addr, a.port) /\ p[2] = s.labels /\ p[1][1] = addr
        BY <1>2, <2>3
    <2>5. ASSUME addr # Loopback6 PROVE p[1] \in KeysOf(s, dns)
        BY <1>1, <2>4, <2>5 DEF KeysOf
    <2> QED BY <2>2, <2>4, <2>5
<1>4. ASSUME s.labels # {}, NEW key \in KeysOf(s, dns)
      PROVE  <<key, s.labels>> \in AllPairs(s, dns)
    <2>1. PICK a \in ToSet(s.addresses) :
              \E addr \in AddressesOf(a.host, dns) : key = AddressToString(addr, a.port)
        BY DEF KeysOf
    <2>2. PICK addr \in AddressesOf(a.host, dns) : key = AddressToString(addr, a.port)
        BY <2>1
    <2>3. <<key, s.labels>> \in Pairs(s, a, dns)
        BY <1>1, <1>4, <2>2 DEF Pairs
    <2> QED BY <2>3 DEF AllPairs
<1> QED BY <1>3, <1>4

\* The service table is that of the files of the last callback: under every address a
\* lookup returned, with the labels of all services there, and nothing else
\* (convert.go:43-76, service/file_loader.go).
THEOREM ServiceTable == Spec => []ServicesAsListed
<1>1. ServiceInv => ServicesAsListed
    <2> SUFFICES ASSUME ServiceInv, servicesTodo = None, sentServices # None
                 PROVE  ServicesAsListed
        BY DEF ServicesAsListed
    <2> DEFINE files == Parsed(serviceContents)
               P == Listed(serviceContents, dnsOf, files)
               at(key) == UNION {p[2] : p \in {q \in P : q[1] = key}}
    <2>1. sentServices = Entries(P)
        BY DEF ServiceInv
    <2>2. \A f \in files : serviceContents[f] \in ServiceContents
        BY DEF ServiceInv, Parsed
    <2>3. \A f \in files : \A s \in ValidBodies(serviceContents[f]) :
              \A a \in ToSet(s.addresses) : a.host.kind \in {"ip4", "ip6", "name"}
        BY <2>2, ServiceBodies
    <2>4. ASSUME NEW f \in files, NEW s \in ValidBodies(serviceContents[f]),
                 NEW p \in AllPairs(s, dnsOf[f])
          PROVE  /\ p[2] = s.labels
                 /\ p[1][1] # Loopback6 => p[1] \in KeysOf(s, dnsOf[f])
        BY <2>3, PairsOfService
    <2>5. ASSUME NEW f \in files, NEW s \in ValidBodies(serviceContents[f]),
                 NEW key \in KeysOf(s, dnsOf[f]), s.labels # {}
          PROVE  <<key, s.labels>> \in P
        <3>1. <<key, s.labels>> \in AllPairs(s, dnsOf[f])
            BY <2>3, <2>5, PairsOfService
        <3> QED BY <3>1 DEF Listed, ServicePairs
    <2>6. ASSUME NEW p \in P
          PROVE  \E f \in files : \E s \in ValidBodies(serviceContents[f]) : p \in AllPairs(s, dnsOf[f])
        BY DEF Listed, ServicePairs
    <2> HIDE DEF P, files
    <2>7. DOMAIN sentServices = {p[1] : p \in P} /\ \A key \in DOMAIN sentServices : sentServices[key] = at(key)
        BY <2>1 DEF Entries
    <2>8. ASSUME NEW key, key[1] # Loopback6
          PROVE  at(key) = LabelsAt(key)
        <3>1. ASSUME NEW l \in at(key) PROVE l \in LabelsAt(key)
            <4>1. PICK p \in P : p[1] = key /\ l \in p[2]
                OBVIOUS
            <4>2. PICK f \in files : \E s \in ValidBodies(serviceContents[f]) : p \in AllPairs(s, dnsOf[f])
                BY <2>6
            <4>3. PICK s \in ValidBodies(serviceContents[f]) : p \in AllPairs(s, dnsOf[f])
                BY <4>2
            <4>4. l \in s.labels /\ key \in KeysOf(s, dnsOf[f])
                BY <2>4, <2>8, <4>1, <4>3
            <4> QED BY <4>4 DEF LabelsAt, files
        <3>2. ASSUME NEW l \in LabelsAt(key) PROVE l \in at(key)
            <4>1. PICK f \in files : l \in UNION {s.labels :
                      s \in {t \in ValidBodies(serviceContents[f]) : key \in KeysOf(t, dnsOf[f])}}
                BY DEF LabelsAt, files
            <4>2. PICK s \in ValidBodies(serviceContents[f]) : key \in KeysOf(s, dnsOf[f]) /\ l \in s.labels
                BY <4>1
            <4>3. <<key, s.labels>> \in P
                BY <2>5, <4>2
            <4> QED BY <4>2, <4>3
        <3> HIDE DEF at
        <3> QED BY <3>1, <3>2
    <2>9. ASSUME NEW f \in files, NEW s \in ValidBodies(serviceContents[f]), s.labels # {},
                 NEW key \in KeysOf(s, dnsOf[f])
          PROVE  key \in DOMAIN sentServices /\ s.labels \subseteq sentServices[key]
        <3>1. <<key, s.labels>> \in P
            BY <2>5, <2>9
        <3>2. key \in {p[1] : p \in P} /\ s.labels \subseteq at(key)
            BY <3>1
        <3> QED BY <2>7, <3>2
    <2> HIDE DEF at
    <2> QED BY <2>7, <2>8, <2>9 DEF ServicesAsListed, files
<1> QED BY <1>1, ServiceLoading, PTL
=============================================================================
