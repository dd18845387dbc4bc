------------------------------ MODULE NatLemmas ------------------------------
(***************************************************************************)
(* Least and greatest elements of sets of numbers, on which the searches   *)
(* of the allocators, which take the first of the blocks that fit, and the *)
(* choice of the task to evict rest; and sums over finite sets.            *)
(***************************************************************************)
EXTENDS Integers, FiniteSetsExt, FiniteSetTheorems, WellFoundedInduction, TLAPS

\* A nonempty set of natural numbers has a least element, and Min is it.
LEMMA MinOfNats ==
  ASSUME NEW S \in SUBSET Nat, S # {}
  PROVE  /\ Min(S) \in S
         /\ \A x \in S : Min(S) <= x
<1>1. \E x \in S : \A y \in S : ~ (<<y, x>> \in OpToRel(<, Nat))
  BY NatLessThanWellFounded, WFMin, Zenon
<1>2. \E x \in S : \A y \in S : x <= y
  <2>1. PICK x \in S : \A y \in S : ~ (<<y, x>> \in OpToRel(<, Nat))
    BY <1>1
  <2>2. ASSUME NEW y \in S
        PROVE  x <= y
    <3>1. ~ (y < x)
      BY <2>1 DEF OpToRel
    <3> QED  BY <3>1
  <2> QED  BY <2>2
<1> QED  BY <1>2 DEF Min

\* A nonempty set of natural numbers with an upper bound has a greatest element.
LEMMA GreatestOfNats ==
  ASSUME NEW S \in SUBSET Nat, S # {},
         NEW bound \in Nat, \A x \in S : x <= bound
  PROVE  \E x \in S : \A y \in S : y <= x
<1> DEFINE gaps == {bound - x : x \in S}
<1>1. gaps \in SUBSET Nat /\ gaps # {}
  <2>1. \A x \in S : bound - x \in Nat
    OBVIOUS
  <2>2. PICK x \in S : TRUE
    OBVIOUS
  <2>3. bound - x \in gaps
    OBVIOUS
  <2> QED  BY <2>1, <2>3
<1>2. Min(gaps) \in gaps /\ \A g \in gaps : Min(gaps) <= g
  <2> HIDE DEF gaps
  <2> QED  BY <1>1, MinOfNats
<1>3. PICK x \in S : Min(gaps) = bound - x
  BY <1>2
<1>4. ASSUME NEW y \in S
      PROVE  y <= x
  <2>1. bound - x <= bound - y
    BY <1>2, <1>3
  <2> QED  BY <2>1
<1> QED  BY <1>4

\* Of finitely many things that are rated, one is rated highest.
LEMMA HighestOfFinite ==
  ASSUME NEW S, IsFiniteSet(S), S # {},
         NEW rating, \A x \in S : rating[x] \in Int
  PROVE  \E x \in S : \A y \in S : rating[y] <= rating[x]
<1> DEFINE Above(x) == {y \in S : rating[y] > rating[x]}
           sets == {Above(x) : x \in S}
<1>1. sets \subseteq FiniteSubsetsOf(S) /\ sets # {}
  <2>1. \A x \in S : Above(x) \in SUBSET S
    OBVIOUS
  <2>2. FiniteSubsetsOf(S) = SUBSET S
    BY FS_FiniteSubsetsOfFinite
  <2> HIDE DEF Above
  <2> QED  BY <2>1, <2>2
<1>2. \E A \in sets : \A B \in sets : ~ (<<B, A>> \in StrictSubsetOrdering(S))
  BY <1>1, FS_StrictSubsetOrderingWellFounded, WFMin, Zenon
<1>3. PICK x \in S : \A y \in S : ~ (<<Above(y), Above(x)>> \in StrictSubsetOrdering(S))
  BY <1>2
<1>4. ASSUME NEW y \in S
      PROVE  rating[y] <= rating[x]
  <2> SUFFICES ASSUME rating[y] > rating[x]
               PROVE  FALSE
    OBVIOUS
  <2>1. Above(y) \subseteq Above(x)
    OBVIOUS
  <2>2. y \in Above(x) /\ y \notin Above(y)
    OBVIOUS
  <2>3. Above(x) \in SUBSET S /\ Above(y) \in SUBSET S
    OBVIOUS
  <2> HIDE DEF Above
  <2> QED  BY <1>3, <2>1, <2>2, <2>3 DEF StrictSubsetOrdering
<1> QED  BY <1>4

-----------------------------------------------------------------------------
(***************************************************************************)
(* Sums over finite sets.  A sum of the models is a fold of the community  *)
(* modules, a function defined by recursion on subsets: one of the         *)
(* functions that satisfy its equation, if there is one.  So the lemmas    *)
(* show that there is one, that it is the only one, and that it does not   *)
(* depend on the order of the summands.  Every induction is the choice of  *)
(* a smallest counterexample.                                              *)
(***************************************************************************)

\* Of any collection of subsets of a finite set, one has no other below it.
LEMMA SmallestSubset ==
  ASSUME NEW S, IsFiniteSet(S), NEW sets \in SUBSET SUBSET S, sets # {}
  PROVE  \E A \in sets : \A B \in sets : B \subseteq A => B = A
<1>1. sets \subseteq FiniteSubsetsOf(S)
  BY FS_FiniteSubsetsOfFinite
<1>2. \E A \in sets : \A B \in sets : ~ (<<B, A>> \in StrictSubsetOrdering(S))
  BY <1>1, FS_StrictSubsetOrderingWellFounded, WFMin, Zenon
<1>3. PICK A \in sets : \A B \in sets : ~ (<<B, A>> \in StrictSubsetOrdering(S))
  BY <1>2
<1>4. ASSUME NEW B \in sets, B \subseteq A
      PROVE  B = A
  BY <1>3, <1>4 DEF StrictSubsetOrdering
<1> QED  BY <1>4

-----------------------------------------------------------------------------
(***************************************************************************)
(* The fold.                                                               *)
(***************************************************************************)

\* The summand that the fold takes first.
First(s) == CHOOSE x \in s : TRUE

\* f gives every subset of S the sum of w over it.
Sums(w, S, f) ==
  f = [s \in SUBSET S |-> IF s = {} THEN 0 ELSE w[First(s)] + f[s \ {First(s)}]]

SumOf(w, S) == (CHOOSE f : Sums(w, S, f))[S]

LEMMA FirstIn ==
  ASSUME NEW s, s # {}
  PROVE  First(s) \in s
BY DEF First

\* What the equation says of one subset.
LEMMA SumsAt ==
  ASSUME NEW w, NEW S, NEW f, Sums(w, S, f), NEW s \in SUBSET S
  PROVE  f[s] = IF s = {} THEN 0 ELSE w[First(s)] + f[s \ {First(s)}]
<1> DEFINE g == [r \in SUBSET S |-> IF r = {} THEN 0 ELSE w[First(r)] + f[r \ {First(r)}]]
<1>1. f = g
  BY DEF Sums
<1>2. g[s] = IF s = {} THEN 0 ELSE w[First(s)] + f[s \ {First(s)}]
  OBVIOUS
<1> HIDE DEF g
<1> QED  BY <1>1, <1>2

\* Two functions that satisfy the equation agree where both are defined.
LEMMA SumsAgree ==
  ASSUME NEW w, NEW S, NEW T, IsFiniteSet(S), NEW f, NEW g,
         Sums(w, S, f), Sums(w, T, g),
         NEW r \in SUBSET S, r \in SUBSET T
  PROVE  f[r] = g[r]
<1> DEFINE bad == {s \in SUBSET S : s \in SUBSET T /\ f[s] # g[s]}
<1> SUFFICES ASSUME bad # {}
             PROVE  FALSE
  OBVIOUS
<1>1. bad \in SUBSET SUBSET S
  OBVIOUS
<1>2. PICK A \in bad : \A B \in bad : B \subseteq A => B = A
  <2> HIDE DEF bad
  <2> QED  BY <1>1, SmallestSubset
<1>3. A \in SUBSET S /\ A \in SUBSET T /\ f[A] # g[A]
  BY <1>2
<1>4. /\ f[A] = IF A = {} THEN 0 ELSE w[First(A)] + f[A \ {First(A)}]
      /\ g[A] = IF A = {} THEN 0 ELSE w[First(A)] + g[A \ {First(A)}]
  BY <1>3, SumsAt
<1>5. A # {}
  BY <1>3, <1>4
<1>6. First(A) \in A
  BY <1>5, FirstIn
<1>7. A \ {First(A)} \notin bad
  <2> HIDE DEF bad
  <2> QED  BY <1>2, <1>6
<1>8. f[A \ {First(A)}] = g[A \ {First(A)}]
  BY <1>3, <1>7
<1> QED  BY <1>3, <1>4, <1>8

\* Some function satisfies it.
LEMMA SumsExist ==
  ASSUME NEW w, NEW S, IsFiniteSet(S)
  PROVE  \E f : Sums(w, S, f)
<1> DEFINE bad == {s \in SUBSET S : \A f : ~ Sums(w, s, f)}
<1> SUFFICES ASSUME bad # {}
             PROVE  FALSE
  OBVIOUS
<1>1. bad \in SUBSET SUBSET S
  OBVIOUS
<1>2. PICK A \in bad : \A B \in bad : B \subseteq A => B = A
  <2> HIDE DEF bad
  <2> QED  BY <1>1, SmallestSubset
<1>3. A \in SUBSET S /\ \A f : ~ Sums(w, A, f)
  BY <1>2
<1> DEFINE Below(s) == CHOOSE f : Sums(w, s, f)
<1>4. ASSUME NEW s \in SUBSET A, s # A
      PROVE  Sums(w, s, Below(s))
  <2>1. s \in SUBSET S /\ s \notin bad
    <3> HIDE DEF bad
    <3> QED  BY <1>2, <1>3, <1>4
  <2> QED  BY <2>1
<1> DEFINE g == [s \in SUBSET A |->
                   IF s = {} THEN 0
                   ELSE w[First(s)] + Below(s \ {First(s)})[s \ {First(s)}]]
<1>5. ASSUME NEW s \in SUBSET A, s # A
      PROVE  g[s] = Below(s)[s]
  <2> DEFINE r == s \ {First(s)}
  <2>1. Sums(w, s, Below(s))
    BY <1>4, <1>5
  <2> HIDE DEF Below
  <2>2. Below(s)[s] = IF s = {} THEN 0 ELSE w[First(s)] + Below(s)[r]
    BY <2>1, SumsAt
  <2>3. g[s] = IF s = {} THEN 0 ELSE w[First(s)] + Below(r)[r]
    OBVIOUS
  <2>4. CASE s = {}
    BY <2>2, <2>3, <2>4
  <2>5. CASE s # {}
    <3>1. r \in SUBSET A /\ r # A /\ r \in SUBSET s
      BY <1>5
    <3>2. Sums(w, r, Below(r))
      BY <1>4, <3>1 
    <3>3. IsFiniteSet(s)
      BY <1>3, FS_Subset
    <3>4. Below(s)[r] = Below(r)[r]
      <4> HIDE DEF r
      <4> QED  BY <2>1, <3>1, <3>2, <3>3, SumsAgree
    <3> QED  BY <2>2, <2>3, <2>5, <3>4
  <2> QED  BY <2>4, <2>5
<1>6. g = [s \in SUBSET A |-> IF s = {} THEN 0 ELSE w[First(s)] + g[s \ {First(s)}]]
  <2>1. ASSUME NEW s \in SUBSET A
        PROVE  g[s] = IF s = {} THEN 0 ELSE w[First(s)] + g[s \ {First(s)}]
    <3>1. CASE s = {}
      BY <3>1
    <3>2. CASE s # {}
      <4>1. s \ {First(s)} \in SUBSET A /\ s \ {First(s)} # A
        BY <3>2, FirstIn
      <4>2. g[s \ {First(s)}] = Below(s \ {First(s)})[s \ {First(s)}]
        <5> HIDE DEF g, Below
        <5> QED  BY <1>5, <4>1
      <4> HIDE DEF Below
      <4> QED  BY <3>2, <4>2
    <3> QED  BY <3>1, <3>2
  <2> DEFINE k == [s \in SUBSET A |-> IF s = {} THEN 0 ELSE w[First(s)] + g[s \ {First(s)}]]
  <2>2. DOMAIN g = SUBSET A /\ g = [s \in DOMAIN g |-> g[s]]
    OBVIOUS
  <2> HIDE DEF g
  <2> QED  BY <2>1, <2>2
<1>7. Sums(w, A, g)
  <2> HIDE DEF g
  <2> QED  BY <1>6 DEF Sums
<1> QED  BY <1>3, <1>7

\* The sum, one summand at a time, in the order of the fold.
LEMMA SumOfFirst ==
  ASSUME NEW w, NEW S, IsFiniteSet(S)
  PROVE  SumOf(w, S) = IF S = {} THEN 0 ELSE w[First(S)] + SumOf(w, S \ {First(S)})
<1> DEFINE r == S \ {First(S)}
<1>1. IsFiniteSet(r) /\ r \in SUBSET S
  BY FS_Subset
<1>2. PICK f : Sums(w, S, f) /\ SumOf(w, S) = f[S]
  BY SumsExist DEF SumOf
<1>3. PICK g : Sums(w, r, g) /\ SumOf(w, r) = g[r]
  <2> HIDE DEF r
  <2> QED  BY <1>1, SumsExist DEF SumOf
<1>4. f[r] = g[r]
  <2> HIDE DEF r
  <2> QED  BY <1>1, <1>2, <1>3, SumsAgree
<1>5. f[S] = IF S = {} THEN 0 ELSE w[First(S)] + f[r]
  BY <1>2, SumsAt
<1> QED  BY <1>2, <1>3, <1>4, <1>5

LEMMA SumOfEmpty ==
  ASSUME NEW w
  PROVE  SumOf(w, {}) = 0
BY SumOfFirst, FS_EmptySet

-----------------------------------------------------------------------------
(***************************************************************************)
(* Sums of integers.                                                       *)
(***************************************************************************)

\* A sum of integers is an integer, and one of natural numbers is natural.
LEMMA SumTyped ==
  ASSUME NEW w, NEW S, IsFiniteSet(S), NEW N \in {Nat, Int}, \A x \in S : w[x] \in N
  PROVE  SumOf(w, S) \in N
<1> DEFINE bad == {s \in SUBSET S : SumOf(w, s) \notin N}
<1> SUFFICES ASSUME bad # {}
             PROVE  FALSE
  OBVIOUS
<1>1. bad \in SUBSET SUBSET S
  OBVIOUS
<1>2. PICK A \in bad : \A B \in bad : B \subseteq A => B = A
  <2> HIDE DEF bad
  <2> QED  BY <1>1, SmallestSubset
<1>3. A \in SUBSET S /\ SumOf(w, A) \notin N /\ IsFiniteSet(A)
  BY <1>2, FS_Subset
<1>4. SumOf(w, A) = IF A = {} THEN 0 ELSE w[First(A)] + SumOf(w, A \ {First(A)})
  BY <1>3, SumOfFirst
<1>5. A # {}
  BY <1>3, <1>4
<1>6. First(A) \in A /\ w[First(A)] \in N
  BY <1>3, <1>5, FirstIn
<1>7. SumOf(w, A \ {First(A)}) \in N
  BY <1>2, <1>3, <1>6
<1> QED  BY <1>3, <1>4, <1>5, <1>6, <1>7

\* Any summand may be taken first.
LEMMA SumOfRemove ==
  ASSUME NEW w, NEW S, IsFiniteSet(S), \A y \in S : w[y] \in Int, NEW x \in S
  PROVE  SumOf(w, S) = w[x] + SumOf(w, S \ {x})
<1> DEFINE bad == {s \in SUBSET S : \E y \in s : SumOf(w, s) # w[y] + SumOf(w, s \ {y})}
<1> SUFFICES ASSUME bad # {}
             PROVE  FALSE
  OBVIOUS
<1>1. bad \in SUBSET SUBSET S
  OBVIOUS
<1>2. PICK A \in bad : \A B \in bad : B \subseteq A => B = A
  <2> HIDE DEF bad
  <2> QED  BY <1>1, SmallestSubset
<1>3. PICK y \in A : SumOf(w, A) # w[y] + SumOf(w, A \ {y})
  BY <1>2
<1>4. PICK c : c = First(A)
  OBVIOUS
<1>5. c \in A /\ SumOf(w, A) = w[c] + SumOf(w, A \ {c}) /\ c # y
  <2>1. A \in SUBSET S /\ IsFiniteSet(A)
    BY <1>2, FS_Subset
  <2> QED  BY <1>3, <1>4, <2>1, SumOfFirst, FirstIn
<1>6. \A s \in SUBSET A : s # A => \A z \in s : SumOf(w, s) = w[z] + SumOf(w, s \ {z})
  BY <1>2
<1>7. SumOf(w, A \ {c}) = w[y] + SumOf(w, (A \ {c}) \ {y})
  BY <1>3, <1>5, <1>6
<1>8. SumOf(w, A \ {y}) = w[c] + SumOf(w, (A \ {y}) \ {c})
  BY <1>3, <1>5, <1>6
<1>9. (A \ {c}) \ {y} = (A \ {y}) \ {c}
  OBVIOUS
<1>10. w[y] \in Int /\ w[c] \in Int /\ SumOf(w, (A \ {y}) \ {c}) \in Int
  <2>1. /\ A \in SUBSET S /\ (A \ {y}) \ {c} \in SUBSET S
        /\ IsFiniteSet((A \ {y}) \ {c})
    BY <1>2, FS_Subset
  <2> QED  BY <1>3, <1>5, <2>1, SumTyped
<1>11. PICK rest \in Int : rest = SumOf(w, (A \ {y}) \ {c})
  BY <1>10
<1>12. w[c] + (w[y] + rest) = w[y] + (w[c] + rest)
  BY <1>10
<1> QED  BY <1>3, <1>5, <1>7, <1>8, <1>9, <1>11, <1>12

\* Only the summands count.
LEMMA SumOfSame ==
  ASSUME NEW w, NEW v, NEW S, IsFiniteSet(S), \A x \in S : w[x] = v[x]
  PROVE  SumOf(w, S) = SumOf(v, S)
<1> DEFINE bad == {s \in SUBSET S : SumOf(w, s) # SumOf(v, s)}
<1> SUFFICES ASSUME bad # {}
             PROVE  FALSE
  OBVIOUS
<1>1. bad \in SUBSET SUBSET S
  OBVIOUS
<1>2. PICK A \in bad : \A B \in bad : B \subseteq A => B = A
  <2> HIDE DEF bad
  <2> QED  BY <1>1, SmallestSubset
<1>3. A \in SUBSET S /\ IsFiniteSet(A) /\ SumOf(w, A) # SumOf(v, A)
  BY <1>2, FS_Subset
<1>4. A # {}
  BY <1>3, SumOfEmpty
<1>5. First(A) \in A /\ w[First(A)] = v[First(A)]
  BY <1>3, <1>4, FirstIn
<1>6. SumOf(w, A \ {First(A)}) = SumOf(v, A \ {First(A)})
  BY <1>2, <1>3, <1>5
<1> QED  BY <1>3, <1>4, <1>5, <1>6, SumOfFirst

\* The sum over two sets that share no element.
LEMMA SumOfUnion ==
  ASSUME NEW w, NEW S, IsFiniteSet(S), \A x \in S : w[x] \in Int,
         NEW T \in SUBSET S
  PROVE  SumOf(w, S) = SumOf(w, T) + SumOf(w, S \ T)
<1> DEFINE bad == {s \in SUBSET S : SumOf(w, s) # SumOf(w, s \cap T) + SumOf(w, s \ T)}
<1> SUFFICES ASSUME bad # {}
             PROVE  FALSE
  <2>1. S \cap T = T
    OBVIOUS
  <2> QED  BY <2>1
<1>1. bad \in SUBSET SUBSET S
  OBVIOUS
<1>2. PICK A \in bad : \A B \in bad : B \subseteq A => B = A
  <2> HIDE DEF bad
  <2> QED  BY <1>1, SmallestSubset
<1>3. A \in SUBSET S /\ SumOf(w, A) # SumOf(w, A \cap T) + SumOf(w, A \ T)
  BY <1>2
<1>4. \A s \in SUBSET S : IsFiniteSet(s) /\ SumOf(w, s) \in Int
  <2> SUFFICES ASSUME NEW s \in SUBSET S
               PROVE  IsFiniteSet(s) /\ SumOf(w, s) \in Int
    OBVIOUS
  <2>1. IsFiniteSet(s) /\ \A x \in s : w[x] \in Int
    BY FS_Subset
  <2> QED  BY <2>1, SumTyped
<1>5. A # {}
  <2> SUFFICES ASSUME A = {}
               PROVE  SumOf(w, A) = SumOf(w, A \cap T) + SumOf(w, A \ T)
    BY <1>3
  <2>1. A \cap T = A /\ A \ T = A
    OBVIOUS
  <2>2. SumOf(w, A) = 0
    BY SumOfEmpty
  <2>3. 0 = 0 + 0
    OBVIOUS
  <2> HIDE DEF bad
  <2> QED  BY ONLY <2>1, <2>2, <2>3
<1>6. PICK x \in A : TRUE
  BY <1>5
<1>7. SumOf(w, A \ {x}) = SumOf(w, (A \ {x}) \cap T) + SumOf(w, (A \ {x}) \ T)
  BY <1>2, <1>3, <1>6
<1>8. \A s \in SUBSET S : x \in s => SumOf(w, s) = w[x] + SumOf(w, s \ {x})
  <2> SUFFICES ASSUME NEW s \in SUBSET S, x \in s
               PROVE  SumOf(w, s) = w[x] + SumOf(w, s \ {x})
    OBVIOUS
  <2>1. IsFiniteSet(s) /\ \A y \in s : w[y] \in Int
    BY <1>4
  <2> QED  BY <2>1, SumOfRemove
<1>9. SumOf(w, A) = w[x] + SumOf(w, A \ {x}) /\ w[x] \in Int
  BY <1>3, <1>6, <1>8
<1>10. /\ SumOf(w, (A \ {x}) \cap T) \in Int
       /\ SumOf(w, (A \ {x}) \ T) \in Int
  BY <1>3, <1>4
<1>11. CASE x \in T
  <2>1. A \ T = (A \ {x}) \ T /\ (A \ {x}) \cap T = (A \cap T) \ {x}
    BY <1>11
  <2>2. SumOf(w, A \cap T) = w[x] + SumOf(w, (A \cap T) \ {x})
    BY <1>3, <1>6, <1>8, <1>11
  <2> QED  BY <1>3, <1>7, <1>9, <1>10, <2>1, <2>2
<1>12. CASE x \notin T
  <2>1. A \cap T = (A \ {x}) \cap T /\ (A \ {x}) \ T = (A \ T) \ {x}
    BY <1>12
  <2>2. SumOf(w, A \ T) = w[x] + SumOf(w, (A \ T) \ {x})
    BY <1>3, <1>6, <1>8, <1>12
  <2> QED  BY <1>3, <1>7, <1>9, <1>10, <2>1, <2>2
<1> QED  BY <1>11, <1>12

\* Lengths laid end to end from a to b add up to b - a.
LEMMA SumOfTiles ==
  ASSUME NEW S \in SUBSET Nat, IsFiniteSet(S), NEW a \in Nat, NEW b \in Nat,
         a = b \/ a \in S,
         NEW w, \A o \in S : w[o] \in Nat \ {0},
         \A o \in S : a <= o /\ o < b /\ o + w[o] \in S \cup {b},
         \A o, p \in S : o < p => o + w[o] <= p
  PROVE  SumOf(w, S) = b - a
<1> DEFINE Before(q) == {o \in S : o < q}
           bad == {q \in S \cup {b} : SumOf(w, Before(q)) # q - a}
<1>0. \A o \in S : o \in Nat
  OBVIOUS
<1>1. b \in bad => FALSE
  <2> SUFFICES ASSUME bad # {}
               PROVE  FALSE
    OBVIOUS
  <2>1. bad \in SUBSET Nat
    OBVIOUS
  <2>2. PICK q \in bad : \A r \in bad : q <= r
    <3> HIDE DEF bad
    <3> QED  BY <2>1, MinOfNats
  <2>3. q \in S \cup {b} /\ q \in Nat /\ SumOf(w, Before(q)) # q - a
    BY <2>1, <2>2
  <2>4. q # a
    <3> SUFFICES ASSUME q = a
                 PROVE  FALSE
      OBVIOUS
    <3>1. \A o \in S : ~ (o < q)
      <4> SUFFICES ASSUME NEW o \in S
                   PROVE  ~ (o < q)
        OBVIOUS
      <4>1. a <= o /\ o \in Nat
        BY <1>0
      <4> QED  BY <4>1
    <3>2. Before(q) = {}
      BY <3>1
    <3> HIDE DEF Before
    <3>3. SumOf(w, Before(q)) = 0
      BY <3>2, SumOfEmpty
    <3> QED  BY <2>3, <3>3
  <2>5. a \in Before(q)
    BY <2>3, <2>4
  <2>6. PICK p \in Before(q) : \A o \in Before(q) : o <= p
    <3>1. \A o \in Before(q) : o \in Nat /\ o <= q
      <4> SUFFICES ASSUME NEW o \in Before(q)
                   PROVE  o \in Nat /\ o <= q
        OBVIOUS
      <4>1. o \in Nat /\ o < q
        BY <1>0
      <4> QED  BY <2>3, <4>1
    <3>2. Before(q) \in SUBSET Nat
      BY <3>1
    <3> HIDE DEF Before
    <3> QED  BY <2>3, <2>5, <3>1, <3>2, GreatestOfNats
  <2>7. p \in S /\ p \in Nat /\ p < q /\ w[p] \in Nat \ {0}
    BY <2>6
  <2>8. p + w[p] <= q
    BY <2>3, <2>7
  <2>9. p + w[p] = q
    <3>1. p + w[p] \in S \cup {b}
      BY <2>7
    <3>2. p + w[p] < q => p + w[p] \in Before(q)
      BY <2>3, <3>1
    <3> QED  BY <2>3, <2>6, <2>7, <2>8, <3>2
  <2>10. Before(q) \ {p} = Before(p)
    <3>1. ASSUME NEW o \in S
          PROVE  o < q /\ o # p <=> o < p
      <4>1. o \in Nat
        BY <1>0
      <4>2. o < q => o <= p
        BY <2>6
      <4> QED  BY <2>3, <2>7, <4>1, <4>2
    <3> QED  BY <3>1
  <2>11. SumOf(w, Before(p)) = p - a
    <3>1. p \notin bad
      <4> HIDE DEF bad
      <4> QED  BY <2>2, <2>3, <2>7
    <3> QED  BY <2>7, <3>1
  <2>12. SumOf(w, Before(q)) = w[p] + SumOf(w, Before(q) \ {p})
    <3>1. IsFiniteSet(Before(q)) /\ \A o \in Before(q) : w[o] \in Int
      BY FS_Subset
    <3> HIDE DEF Before
    <3> QED  BY <2>6, <3>1, SumOfRemove
  <2> QED  BY <2>3, <2>7, <2>9, <2>10, <2>11, <2>12
<1>2. Before(b) = S
  OBVIOUS
<1> QED  BY <1>1, <1>2

\* A constant added to every summand.
LEMMA SumOfShifted ==
  ASSUME NEW w, NEW v, NEW S, IsFiniteSet(S), NEW k \in Int,
         \A x \in S : w[x] \in Int /\ v[x] = w[x] + k
  PROVE  SumOf(v, S) = SumOf(w, S) + k * Cardinality(S)
<1> DEFINE bad == {s \in SUBSET S : SumOf(v, s) # SumOf(w, s) + k * Cardinality(s)}
<1> SUFFICES ASSUME bad # {}
             PROVE  FALSE
  OBVIOUS
<1>1. bad \in SUBSET SUBSET S
  OBVIOUS
<1>2. PICK A \in bad : \A B \in bad : B \subseteq A => B = A
  <2> HIDE DEF bad
  <2> QED  BY <1>1, SmallestSubset
<1>3. /\ A \in SUBSET S /\ IsFiniteSet(A)
      /\ SumOf(v, A) # SumOf(w, A) + k * Cardinality(A)
  BY <1>2, FS_Subset
<1>4. A # {}
  <2> SUFFICES ASSUME A = {}
               PROVE  SumOf(v, A) = SumOf(w, A) + k * Cardinality(A)
    BY <1>3
  <2>1. SumOf(v, A) = 0 /\ SumOf(w, A) = 0
    BY SumOfEmpty
  <2>2. Cardinality(A) = 0
    BY FS_EmptySet
  <2>3. 0 = 0 + k * 0
    OBVIOUS
  <2> HIDE DEF bad
  <2> QED  BY ONLY <2>1, <2>2, <2>3
<1>5. PICK x \in A : x = First(A)
  BY <1>4, FirstIn
<1>6. /\ SumOf(v, A) = v[x] + SumOf(v, A \ {x})
      /\ SumOf(w, A) = w[x] + SumOf(w, A \ {x})
  BY <1>3, <1>4, <1>5, SumOfFirst
<1>7. PICK n \in Nat : n = Cardinality(A \ {x}) /\ Cardinality(A) = n + 1
  <2>1. IsFiniteSet(A \ {x}) /\ Cardinality(A \ {x}) = Cardinality(A) - 1
    BY <1>3, FS_RemoveElement
  <2>2. Cardinality(A) \in Nat /\ Cardinality(A \ {x}) \in Nat
    BY <1>3, <2>1, FS_CardinalityType
  <2> QED  BY <2>1, <2>2
<1>8. PICK rest \in Int : rest = SumOf(w, A \ {x})
  <2>1. IsFiniteSet(A \ {x}) /\ \A y \in A \ {x} : w[y] \in Int
    BY <1>3, FS_Subset
  <2> QED  BY <2>1, SumTyped
<1>9. SumOf(v, A \ {x}) = rest + k * n
  BY <1>2, <1>3, <1>7, <1>8
<1>10. w[x] \in Int /\ v[x] = w[x] + k
  BY <1>3
<1>11. (w[x] + k) + (rest + k * n) = (w[x] + rest) + k * (n + 1)
  BY <1>10
<1> QED  BY <1>3, <1>6, <1>7, <1>8, <1>9, <1>10, <1>11

=============================================================================
