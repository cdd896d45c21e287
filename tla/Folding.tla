------------------------------- MODULE Folding -------------------------------
(***************************************************************************)
(* A loop of the code over a list is FoldLeft in the models.  What such a  *)
(* loop yields cannot be read off the definition of FoldLeft by expanding  *)
(* it; here is proved, for any body, that it is what the last of its       *)
(* passes yields, and that what every pass preserves holds of it.  A proof *)
(* about a loop instantiates this module with the body of the loop and     *)
(* with the invariant of the loop.  The lists such loops go through are    *)
(* often those of a set in some order: what they hold is proved here too.  *)
(***************************************************************************)
EXTENDS Integers, Sequences, SequencesExt, FiniteSetTheorems, NaturalsInduction,
        WellFoundedInduction, TLAPS

CONSTANTS
  Step(_, _, _),  \* the body: what the loop knows from outside, what the passes
                  \* before have yielded, and the entry of the list
  Inv(_, _, _)    \* the invariant: the same, and the number of passes in between

Folded(c, first, seq) == FoldLeft(LAMBDA r, x : Step(c, r, x), first, seq)

\* f holds what the passes of the loop yield.
Passes(f, c, first, seq) ==
  /\ f[0] = first
  /\ \A i \in 1..Len(seq) : f[i] = Step(c, f[i - 1], seq[i])
-----------------------------------------------------------------------------
\* The function by which FoldLeft is defined, for the first n entries.
IsFold(it, c, first, seq, n) ==
  it = [s \in SUBSET (1..n) |->
          IF s = {} THEN first ELSE Step(c, it[s \ {Max(s)}], seq[Max(s)])]

\* A set of natural numbers has a least element.
LEMMA SmallestNat ==
  ASSUME NEW T \in SUBSET Nat, T # {}
  PROVE  \E x \in T : \A y \in T : x <= y
<1>1. PICK x \in T : \A y \in T : ~ (<<y, x>> \in OpToRel(<, Nat))
  BY WFMin, NatLessThanWellFounded, Zenon
<1>2. \A y \in T : x <= y
  <2>. TAKE y \in T
  <2>1. ~ (<<y, x>> \in {ss \in Nat \X Nat : ss[1] < ss[2]})
    BY <1>1, Zenon DEF OpToRel
  <2> QED BY <2>1
<1> QED BY <1>2

\* What holds of 0, and of a number after the one before it, holds up to n.
LEMMA UpTo ==
  ASSUME NEW n \in Nat, NEW S, 0 \in S, \A i \in 1..n : i - 1 \in S => i \in S
  PROVE  \A i \in 0..n : i \in S
<1> DEFINE B == {k \in 0..n : k \notin S}
<1>1. SUFFICES ASSUME B # {} PROVE FALSE
  OBVIOUS
<1>2. PICK i \in B : \A k \in B : i <= k
  <2>1. B \in SUBSET Nat
    OBVIOUS
  <2> HIDE DEF B
  <2> QED BY <1>1, <2>1, SmallestNat
<1>3. i # 0 /\ i \in 1..n /\ i - 1 \in 0..n /\ i - 1 < i
  BY <1>2
<1>4. i - 1 \in S
  BY <1>2, <1>3
<1> QED BY <1>2, <1>3, <1>4

\* The set of positions that FoldLeft has yet to take has a last one.
LEMMA LastPosition ==
  ASSUME NEW n \in Nat, NEW s \in SUBSET (1..n), s # {}
  PROVE  Max(s) \in s /\ \A y \in s : Max(s) >= y
<1>1. \E x \in s : \A y \in s : x >= y
  <2>1. {n - x : x \in s} # {}
    <3>1. PICK x \in s : TRUE
      OBVIOUS
    <3> QED BY <3>1
  <2>2. {n - x : x \in s} \subseteq Nat
    OBVIOUS
  <2>3. PICK b \in {n - x : x \in s} : \A d \in {n - x : x \in s} : b <= d
    BY <2>1, <2>2, SmallestNat
  <2>4. PICK x \in s : b = n - x
    OBVIOUS
  <2>5. \A y \in s : n - x <= n - y
    BY <2>3, <2>4
  <2>6. \A y \in s : x >= y
    <3>. TAKE y \in s
    <3>1. x \in Int /\ y \in Int /\ n - x <= n - y
      BY <2>5
    <3> QED BY <3>1
  <2> QED BY <2>6
<1> QED BY <1>1 DEF Max

\* The definition of FoldLeft has a solution: with one entry more, the function
\* is extended to the sets that hold its position.
LEMMA FoldExists ==
  ASSUME NEW c, NEW first, NEW seq, NEW n \in Nat
  PROVE  \E it : IsFold(it, c, first, seq, n)
<1> DEFINE Bad == {k \in Nat : ~\E it : IsFold(it, c, first, seq, k)}
<1>1. SUFFICES ASSUME Bad # {} PROVE FALSE
  OBVIOUS
<1>2. PICK k \in Bad : \A d \in Bad : k <= d
  BY <1>1, SmallestNat
<1>3. k # 0
  <2>1. IsFold([s \in SUBSET (1..0) |-> first], c, first, seq, 0)
    <3>1. \A s \in SUBSET (1..0) : s = {}
      OBVIOUS
    <3> QED BY <3>1 DEF IsFold
  <2> QED BY <2>1
<1>4. k - 1 \in Nat /\ k - 1 \notin Bad
  BY <1>2, <1>3
<1>5. PICK it : IsFold(it, c, first, seq, k - 1)
  BY <1>4
<1> DEFINE jt == [s \in SUBSET (1..k) |->
                    IF k \in s THEN Step(c, it[s \ {k}], seq[k]) ELSE it[s]]
<1>6. ASSUME NEW s \in SUBSET (1..k)
      PROVE jt[s] = IF s = {} THEN first ELSE Step(c, jt[s \ {Max(s)}], seq[Max(s)])
  <2>1. CASE s = {}
    <3>1. it[{}] = first
      BY <1>5 DEF IsFold
    <3> QED BY <3>1, <2>1
  <2>2. CASE s # {} /\ k \in s
    <3>1. k \in Nat /\ s \in SUBSET (1..k) /\ s # {}
      BY <2>2
    <3>2. Max(s) \in s /\ \A y \in s : Max(s) >= y
      BY <3>1, LastPosition
    <3>3. Max(s) >= k /\ Max(s) \in 1..k
      BY <2>2, <3>1, <3>2
    <3>4. Max(s) = k
      BY <3>3, <3>1
    <3>5. s \ {k} \in SUBSET (1..k) /\ k \notin s \ {k}
      OBVIOUS
    <3>6. jt[s \ {k}] = it[s \ {k}]
      BY <3>5
    <3>7. jt[s] = Step(c, it[s \ {k}], seq[k])
      BY <2>2
    <3> QED BY <3>4, <3>6, <3>7, <2>2
  <2>3. CASE s # {} /\ k \notin s
    <3>1. s \in SUBSET (1..(k - 1))
      BY <2>3
    <3>2. s \ {Max(s)} \in SUBSET (1..k) /\ k \notin s \ {Max(s)}
      BY <2>3
    <3>3. jt[s \ {Max(s)}] = it[s \ {Max(s)}]
      BY <3>2
    <3>4. jt[s] = it[s]
      BY <2>3
    <3>5. it[s] = Step(c, it[s \ {Max(s)}], seq[Max(s)])
      BY <1>5, <3>1, <2>3 DEF IsFold
    <3> QED BY <3>3, <3>4, <3>5, <2>3
  <2> QED BY <2>1, <2>2, <2>3
<1>7. IsFold(jt, c, first, seq, k)
  BY <1>6 DEF IsFold
<1> QED BY <1>7, <1>2

\* A loop over a list yields what its last pass yields, and each of its passes
\* starts from what the one before it has yielded.
LEMMA LoopPasses ==
  ASSUME NEW c, NEW first, NEW T, NEW seq \in Seq(T)
  PROVE  \E f : Passes(f, c, first, seq) /\ Folded(c, first, seq) = f[Len(seq)]
<1> DEFINE n == Len(seq)
           it == CHOOSE it : IsFold(it, c, first, seq, n)
           f == [i \in 0..n |-> it[1..i]]
<1>1. n \in Nat /\ DOMAIN seq = 1..n
  OBVIOUS
<1>2. IsFold(it, c, first, seq, n)
  BY FoldExists, <1>1
<1>3. Folded(c, first, seq) = it[1..n]
  BY <1>1 DEF Folded, FoldLeft, MapThenFoldSet, IsFold
<1>4. it[{}] = first
  BY <1>2 DEF IsFold
<1>5. f[0] = first
  BY <1>4, 1..0 = {}, <1>1
<1>6. ASSUME NEW i \in 1..n
      PROVE  f[i] = Step(c, f[i - 1], seq[i])
  <2>1. i \in Nat /\ i >= 1 /\ i <= n /\ n \in Nat
    BY <1>1
  <2>. HIDE DEF n
  <2>2. 1..i \in SUBSET (1..n) /\ 1..i # {} /\ i \in 1..i
    BY <2>1
  <2>3. Max(1..i) = i
    <3>1. Max(1..i) \in 1..i /\ \A y \in 1..i : Max(1..i) >= y
      BY <2>1, <2>2, LastPosition
    <3> QED BY <3>1, <2>1, <2>2
  <2>4. (1..i) \ {i} = 1..(i - 1)
    BY <2>1
  <2>5. it[1..i] = Step(c, it[1..(i - 1)], seq[i])
    BY <1>2, <2>2, <2>3, <2>4 DEF IsFold
  <2> QED BY <2>5, <2>1
<1>7. Folded(c, first, seq) = f[n]
  BY <1>3, <1>1
<1> HIDE DEF f
<1> QED BY <1>7, <1>5, <1>6 DEF Passes

\* What holds at first, and after each pass if it holds before, holds after the
\* loop.
LEMMA LoopInvariant ==
  ASSUME NEW c, NEW first, NEW T, NEW seq \in Seq(T),
         Inv(c, 0, first),
         \A i \in 1..Len(seq) : \A r : Inv(c, i - 1, r) => Inv(c, i, Step(c, r, seq[i]))
  PROVE  Inv(c, Len(seq), Folded(c, first, seq))
<1>1. PICK f : Passes(f, c, first, seq) /\ Folded(c, first, seq) = f[Len(seq)]
  BY LoopPasses
<1> DEFINE S == {i \in 0..Len(seq) : Inv(c, i, f[i])}
<1>2. 0 \in S
  BY <1>1 DEF Passes
<1>3. ASSUME NEW i \in 1..Len(seq), i - 1 \in S
      PROVE  i \in S
  <2>1. Inv(c, i - 1, f[i - 1])
    BY <1>3
  <2>2. Inv(c, i, Step(c, f[i - 1], seq[i]))
    BY <2>1
  <2> QED BY <2>2, <1>1 DEF Passes
<1>4. Len(seq) \in S
  <2>1. Len(seq) \in Nat
    OBVIOUS
  <2> HIDE DEF S
  <2>2. \A i \in 0..Len(seq) : i \in S
    BY <1>2, <1>3, <2>1, UpTo
  <2> QED BY <2>1, <2>2
<1> QED BY <1>1, <1>4

\* A loop over nothing yields what it starts from.
COROLLARY LoopOverNothing ==
  ASSUME NEW c, NEW first
  PROVE  Folded(c, first, << >>) = first
<1>1. << >> \in Seq({}) /\ Len(<< >>) = 0
  OBVIOUS
<1>2. PICK f : Passes(f, c, first, << >>) /\ Folded(c, first, << >>) = f[Len(<< >>)]
  BY <1>1, LoopPasses
<1> QED BY <1>1, <1>2 DEF Passes
-----------------------------------------------------------------------------
(* Sets of numbers, and the lists of their elements that loops go through.  *)

\* A finite set of numbers that is not empty has a least one.
LEMMA LeastOne ==
  ASSUME NEW S \in SUBSET Int, IsFiniteSet(S), S # {}
  PROVE  \E x \in S : \A y \in S : x <= y
<1> DEFINE Has(T) == \E x \in T : \A y \in T : x <= y
           Bad == {k \in Nat : \E T \in SUBSET Int : /\ IsFiniteSet(T) /\ T # {}
                                                     /\ Cardinality(T) = k /\ ~Has(T)}
<1>1. SUFFICES ASSUME Bad # {} PROVE FALSE
  BY FS_CardinalityType
<1>2. PICK k \in Bad : \A d \in Bad : k <= d
  <2>1. Bad \in SUBSET Nat
    OBVIOUS
  <2> HIDE DEF Bad
  <2> QED BY <1>1, <2>1, SmallestNat
<1>3. PICK T \in SUBSET Int : IsFiniteSet(T) /\ T # {} /\ Cardinality(T) = k /\ ~Has(T)
  OBVIOUS
<1>4. PICK x \in T : TRUE
  BY <1>3
<1>5. IsFiniteSet(T \ {x}) /\ Cardinality(T \ {x}) = k - 1 /\ k - 1 \in Nat
  <2>1. IsFiniteSet(T \ {x}) /\ Cardinality(T \ {x}) = Cardinality(T) - 1
    BY <1>3, <1>4, FS_RemoveElement
  <2>2. Cardinality(T \ {x}) \in Nat
    BY <2>1, FS_CardinalityType
  <2> HIDE DEF Bad, Has
  <2> QED BY <2>1, <2>2, <1>3
<1>6. k - 1 \notin Bad
  <2>1. k \in Nat
    OBVIOUS
  <2> HIDE DEF Bad
  <2> QED BY <1>2, <2>1
<1>7. CASE T \ {x} = {}
  <2>1. T = {x} /\ x \in Int
    BY <1>4, <1>7
  <2>2. \A y \in T : x <= y
    BY <2>1
  <2> QED BY <2>2, <1>3, <1>4
<1>8. CASE T \ {x} # {}
  <2>1. Has(T \ {x})
    BY <1>5, <1>6, <1>8
  <2>2. PICK y \in T \ {x} : \A z \in T \ {x} : y <= z
    BY <2>1
  <2>3. x \in Int /\ y \in Int /\ T \subseteq Int
    BY <1>4, <2>2
  <2>4. CASE x <= y
    <3>1. \A z \in T : x <= z
      BY <2>2, <2>3, <2>4
    <3> QED BY <3>1, <1>3, <1>4
  <2>5. CASE y <= x
    <3>1. \A z \in T : y <= z
      BY <2>2, <2>3, <2>5
    <3> QED BY <3>1, <1>3, <2>2
  <2> QED BY <2>3, <2>4, <2>5
<1> QED BY <1>7, <1>8

\* B is the n smallest elements of A.
Leftmost(A, n, B) ==
  /\ B \in SUBSET A /\ Cardinality(B) = n
  /\ \A x \in B, y \in A \ B : x < y

\* As many of the smallest numbers of a set can be had as it has.
LEMMA LeftmostExist ==
  ASSUME NEW A \in SUBSET Int, IsFiniteSet(A), NEW n \in Nat, n <= Cardinality(A)
  PROVE  \E B : Leftmost(A, n, B)
<1> DEFINE Is(B, k) == Cardinality(B) = k /\ \A x \in B, y \in A \ B : x < y
           Bad == {k \in Nat : k <= Cardinality(A) /\ ~\E B \in SUBSET A : Is(B, k)}
<1>1. Bad = {}
  <2>1. SUFFICES ASSUME Bad # {} PROVE FALSE
    OBVIOUS
  <2>2. PICK k \in Bad : \A d \in Bad : k <= d
    <3>1. Bad \in SUBSET Nat
      OBVIOUS
    <3> HIDE DEF Bad
    <3> QED BY <2>1, <3>1, SmallestNat
  <2>3. k # 0
    <3>1. {} \in SUBSET A /\ Is({}, 0)
      BY FS_EmptySet
    <3> QED BY <3>1
  <2>4. k - 1 \in Nat /\ k - 1 <= Cardinality(A) /\ k - 1 \notin Bad
    BY <2>2, <2>3, FS_CardinalityType
  <2>5. PICK B \in SUBSET A : Is(B, k - 1)
    BY <2>4
  <2>6. IsFiniteSet(B) /\ IsFiniteSet(A \ B)
    BY FS_Subset
  <2>7. A \ B # {}
    <3>1. Cardinality(B) # Cardinality(A)
      BY <2>5, <2>2, FS_CardinalityType
    <3>2. A # B
      BY <3>1
    <3> QED BY <3>2
  <2>8. PICK m \in A \ B : \A y \in A \ B : m <= y
    BY <2>6, <2>7, LeastOne
  <2>9. Cardinality(B \cup {m}) = k
    <3>1. Cardinality(B \cup {m}) = Cardinality(B) + 1
      BY <2>6, <2>8, FS_AddElement
    <3> QED BY <3>1, <2>5, <2>2
  <2>10. ASSUME NEW x \in B \cup {m}, NEW y \in A \ (B \cup {m}) PROVE x < y
    <3>1. x \in Int /\ y \in Int /\ m \in Int
      BY <2>8
    <3>2. CASE x \in B
      BY <3>2, <2>5
    <3>3. CASE x = m
      BY <3>1, <3>3, <2>8
    <3> QED BY <3>2, <3>3
  <2> QED BY <2>9, <2>10, <2>8, <2>2
<1> QED BY <1>1 DEF Leftmost

\* A list without repetitions.
Distinct(q) == \A i, k \in DOMAIN q : q[i] = q[k] => i = k

\* The order of the elements of S, given by those before each of them.
Orders(S, ahead) ==
  /\ \A x \in S : ahead[x] \subseteq S \ {x}
  /\ \A x, y \in S : x \in ahead[y] => ahead[x] \subseteq ahead[y]
  /\ \A x, y \in S : x # y => x \in ahead[y] \/ y \in ahead[x]

\* Each element of S is in the list q once, and nothing else is.
ListsOnce(S, q) ==
  /\ q \in Seq(S) /\ Distinct(q)
  /\ \A x \in S : \E i \in DOMAIN q : q[i] = x

\* And in order.
Lists(S, ahead, q) ==
  ListsOnce(S, q) /\ \A i, k \in DOMAIN q : i < k => q[i] \in ahead[q[k]]

\* A finite set with an order is listed by the number of elements before each.
Ranked(S, ahead) ==
  [i \in 1..Cardinality(S) |-> CHOOSE x \in S : Cardinality(ahead[x]) = i - 1]

\* The list of a set in an order holds each member once, in this order.
LEMMA RankedIs ==
  ASSUME NEW S, IsFiniteSet(S), NEW ahead, Orders(S, ahead)
  PROVE  Lists(S, ahead, Ranked(S, ahead))
<1> DEFINE n == Cardinality(S)
           rank == [x \in S |-> Cardinality(ahead[x])]
<1>1. n \in Nat
  BY FS_CardinalityType
<1>2. ASSUME NEW x \in S
      PROVE  IsFiniteSet(ahead[x]) /\ rank[x] \in 0..(n - 1)
  <2>1. IsFiniteSet(S \ {x}) /\ Cardinality(S \ {x}) = n - 1
    BY FS_RemoveElement
  <2>2. IsFiniteSet(ahead[x]) /\ Cardinality(ahead[x]) <= n - 1
    BY <2>1, FS_Subset DEF Orders
  <2>3. Cardinality(ahead[x]) \in Nat
    BY <2>2, FS_CardinalityType
  <2> HIDE DEF n
  <2> QED BY <2>2, <2>3, <1>1
<1>3. ASSUME NEW x \in S, NEW y \in S, x \in ahead[y]
      PROVE  rank[x] < rank[y]
  <2>1. ahead[x] \cup {x} \subseteq ahead[y] /\ x \notin ahead[x]
    BY <1>3 DEF Orders
  <2>2. Cardinality(ahead[x] \cup {x}) = rank[x] + 1
    BY <1>2, <2>1, FS_AddElement
  <2>3. Cardinality(ahead[x] \cup {x}) <= rank[y]
    BY <1>2, <2>1, FS_Subset
  <2>4. rank[x] \in Int /\ rank[y] \in Int
    BY <1>2
  <2> HIDE DEF rank
  <2> QED BY <2>2, <2>3, <2>4
<1>4. \A x, y \in S : rank[x] = rank[y] => x = y
  <2>. SUFFICES ASSUME NEW x \in S, NEW y \in S, x # y PROVE rank[x] # rank[y]
    OBVIOUS
  <2>1. rank[x] < rank[y] \/ rank[y] < rank[x]
    BY <1>3 DEF Orders
  <2>2. rank[x] \in Int /\ rank[y] \in Int
    BY <1>2
  <2> HIDE DEF rank
  <2> QED BY <2>1, <2>2
<1>5. \A r \in 0..(n - 1) : \E x \in S : rank[x] = r
  <2>1. rank \in [S -> 0..(n - 1)]
    BY <1>2
  <2>2. rank \in Injection(S, 0..(n - 1))
    BY <2>1, <1>4 DEF Injection, IsInjective
  <2>3. IsFiniteSet(0..(n - 1)) /\ Cardinality(0..(n - 1)) = n
    BY <1>1, FS_Interval
  <2> HIDE DEF rank
  <2>4. rank \in Surjection(S, 0..(n - 1))
    BY <2>2, <2>3, FS_Injection
  <2> QED BY <2>4 DEF Surjection
<1> DEFINE q == [i \in 1..n |-> CHOOSE x \in S : Cardinality(ahead[x]) = i - 1]
<1>6. Ranked(S, ahead) = q
  BY DEF Ranked
<1>7. ASSUME NEW i \in 1..n
      PROVE  q[i] \in S /\ rank[q[i]] = i - 1
  <2>1. i - 1 \in 0..(n - 1)
    BY <1>1
  <2>2. \E x \in S : Cardinality(ahead[x]) = i - 1
    BY <2>1, <1>5
  <2> QED BY <2>2
<1> HIDE DEF q, rank
<1>8. q \in Seq(S)
  <2>1. q = [i \in 1..n |-> q[i]]
    BY DEF q
  <2> QED BY <2>1, <1>1, <1>7
<1>9. Distinct(q)
  <2>1. DOMAIN q = 1..n
    BY DEF q
  <2>2. \A i, k \in 1..n : q[i] = q[k] => i - 1 = k - 1
    BY <1>7
  <2> QED BY <1>1, <2>1, <2>2 DEF Distinct
<1>10. ASSUME NEW x \in S PROVE \E i \in DOMAIN q : q[i] = x
  <2>1. DOMAIN q = 1..n /\ rank[x] \in 0..(n - 1)
    BY <1>2 DEF q, rank
  <2>2. rank[x] + 1 \in 1..n
    BY <2>1, <1>1
  <2>3. rank[q[rank[x] + 1]] = rank[x] /\ q[rank[x] + 1] \in S
    BY <2>1, <2>2, <1>7
  <2> QED BY <2>1, <2>2, <2>3, <1>4
<1>11. ASSUME NEW i \in DOMAIN q, NEW k \in DOMAIN q, i < k
       PROVE  q[i] \in ahead[q[k]]
  <2>1. i \in 1..n /\ k \in 1..n
    BY DEF q
  <2>2. /\ q[i] \in S /\ q[k] \in S
        /\ rank[q[i]] = i - 1 /\ rank[q[k]] = k - 1
    BY <2>1, <1>7
  <2>3. rank[q[i]] < rank[q[k]] /\ ~(rank[q[k]] < rank[q[i]])
    BY <2>1, <2>2, <1>1, <1>11
  <2>4. q[i] # q[k]
    BY <2>3
  <2>5. q[k] \notin ahead[q[i]]
    BY <2>2, <2>3, <1>3
  <2> QED BY <2>2, <2>4, <2>5 DEF Orders
<1> QED BY <1>6, <1>8, <1>9, <1>10, <1>11 DEF ListsOnce, Lists
=============================================================================
