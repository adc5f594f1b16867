------------------------ MODULE ContextAssembly_proofs ------------------------
(***************************************************************************)
(* What holds of every assembly of a request, for any messages, memory,    *)
(* budget and cap: an output of the turn in progress fits the cap, what is *)
(* charged is within the budget, the newest segments first, and the        *)
(* assembled request costs just that, holds the turn in progress and tears *)
(* no output from its call.                                                *)
(***************************************************************************)
EXTENDS ContextAssembly, FiniteSetTheorems, SequenceTheorems,
        WellFoundedInduction, TLAPS

USE ContextConstants

-----------------------------------------------------------------------------
(* Six attempts to reduce a text *)

LEMMA TokenCaps ==
    /\ TokenCap[0] = toolCap
    /\ \A k \in 1..5 : TokenCap[k] = Shrunk(TokenCap[k - 1])
  <1> DEFINE c1 == Shrunk(toolCap)
             c2 == Shrunk(c1)
             c3 == Shrunk(c2)
             c4 == Shrunk(c3)
             c5 == Shrunk(c4)
             Caps(f) == [attempt \in 0..5 |-> IF attempt = 0 THEN toolCap
                                              ELSE Shrunk(f[attempt - 1])]
             found == [attempt \in 0..5 |->
                         IF attempt = 0 THEN toolCap
                         ELSE IF attempt = 1 THEN c1
                         ELSE IF attempt = 2 THEN c2
                         ELSE IF attempt = 3 THEN c3
                         ELSE IF attempt = 4 THEN c4 ELSE c5]
  <1>1. TokenCap = CHOOSE f : f = Caps(f)
    BY DEF TokenCap
  <1>2. found = Caps(found)
    <2>1. /\ found[0] = toolCap /\ found[1] = c1 /\ found[2] = c2
          /\ found[3] = c3 /\ found[4] = c4 /\ found[5] = c5
      BY DEF found
    <2> HIDE DEF c1, c2, c3, c4, c5
    <2>2. ASSUME NEW k \in 0..5
          PROVE  found[k] = IF k = 0 THEN toolCap ELSE Shrunk(found[k - 1])
      <3>1. k = 0 \/ k = 1 \/ k = 2 \/ k = 3 \/ k = 4 \/ k = 5
        OBVIOUS
      <3>2. 1 - 1 = 0 /\ 2 - 1 = 1 /\ 3 - 1 = 2 /\ 4 - 1 = 3 /\ 5 - 1 = 4
        OBVIOUS
      <3> HIDE DEF found
      <3> QED BY <2>1, <3>1, <3>2 DEF c1, c2, c3, c4, c5
    <2> QED BY <2>2
  <1> HIDE DEF found
  <1>3. TokenCap = Caps(TokenCap)
    BY <1>1, <1>2
  <1> HIDE DEF Caps
  <1>4. \A k \in 0..5 : TokenCap[k] = IF k = 0 THEN toolCap
                                      ELSE Shrunk(TokenCap[k - 1])
    BY <1>3 DEF Caps
  <1> QED BY <1>4

LEMMA ShrinksBy ==
    ASSUME NEW n \in Nat
    PROVE  /\ Shrunk(n) \in Nat
           /\ Shrunk(n) = 1 \/ 100 * Shrunk(n) <= 72 * n - 800
  BY DEF Shrunk, AtLeast

\* The last attempt leaves a fifth of the cap at most.
LEMMA LastCap ==
    ASSUME toolCap \in Nat
    PROVE  /\ \A k \in 0..5 : TokenCap[k] \in Nat
           /\ TokenCap[5] = 1 \/ 5 * TokenCap[5] <= toolCap - 100
  <1>1. TokenCap[0] = toolCap /\ TokenCap[0] \in Nat
    BY TokenCaps
  <1>2. ASSUME NEW k \in 1..5, TokenCap[k - 1] \in Nat
        PROVE  /\ TokenCap[k] \in Nat
               /\ TokenCap[k] = 1 \/ 100 * TokenCap[k] <= 72 * TokenCap[k - 1] - 800
    BY <1>2, TokenCaps, ShrinksBy
  <1>3. /\ TokenCap[1] \in Nat
        /\ TokenCap[1] = 1 \/ 100 * TokenCap[1] <= 72 * toolCap - 800
    BY <1>1, <1>2
  <1>4. /\ TokenCap[2] \in Nat
        /\ TokenCap[2] = 1 \/ 100 * TokenCap[2] <= 72 * TokenCap[1] - 800
    BY <1>2, <1>3
  <1>5. /\ TokenCap[3] \in Nat
        /\ TokenCap[3] = 1 \/ 100 * TokenCap[3] <= 72 * TokenCap[2] - 800
    BY <1>2, <1>4
  <1>6. /\ TokenCap[4] \in Nat
        /\ TokenCap[4] = 1 \/ 100 * TokenCap[4] <= 72 * TokenCap[3] - 800
    BY <1>2, <1>5
  <1>7. /\ TokenCap[5] \in Nat
        /\ TokenCap[5] = 1 \/ 100 * TokenCap[5] <= 72 * TokenCap[4] - 800
    BY <1>2, <1>6
  <1>8. \A k \in 0..5 : k = 0 \/ k = 1 \/ k = 2 \/ k = 3 \/ k = 4 \/ k = 5
    OBVIOUS
  <1>9. \A a, b, c, d, e, f \in Nat :
           /\ b = 1 \/ 100 * b <= 72 * a - 800
           /\ c = 1 \/ 100 * c <= 72 * b - 800
           /\ d = 1 \/ 100 * d <= 72 * c - 800
           /\ e = 1 \/ 100 * e <= 72 * d - 800
           /\ f = 1 \/ 100 * f <= 72 * e - 800
           => f = 1 \/ 5 * f <= a - 100
    OBVIOUS
  <1> QED BY <1>1, <1>3, <1>4, <1>5, <1>6, <1>7, <1>8, <1>9

Fields == /\ toolCap \in Nat /\ overhead \in Nat

\* The last attempt fits, whatever the text.
LEMMA LastFits ==
    ASSUME Fields, CapHasRoom, NEW length \in Int
    PROVE  estimateMessage(truncateWithNotice(length, TokenCap[5])) <= toolCap
  <1> DEFINE c == TokenCap[5]
  <1>1. c \in Nat /\ (c = 1 \/ 5 * c <= toolCap - 100)
    BY LastCap DEF Fields
  <1>2. /\ toolCap >= 8 + (overhead + (Notice + 40 + 17) + 3) \div 4
        /\ overhead <= 3 * toolCap
    BY DEF CapHasRoom, estimateMessage, Omitted
  <1> HIDE DEF c
  <1> QED BY <1>1, <1>2 DEF Fields, estimateMessage, truncateWithNotice,
          AtLeast, Omitted, c

LEMMA HeadTailFits ==
    ASSUME Fields, CapHasRoom, NEW size \in Nat
    PROVE  HeadTail(size) <= toolCap
  <1> DEFINE left == [k \in 0..5 |->
                        estimateMessage(
                          truncateWithNotice(Characters(size), TokenCap[k]))]
             fits == {k \in 0..5 : left[k] <= toolCap}
  <1>1. Characters(size) \in Int
    BY DEF Characters, Fields
  <1>2. 5 \in fits
    BY <1>1, LastFits
  <1> HIDE DEF left
  <1>3. \E k \in fits : \A j \in fits : k <= j
    <2>1. ASSUME \A k \in fits : \E j \in fits : ~(k <= j)
          PROVE  FALSE
      <3>1. \A k \in fits : k \in 0..5 /\ \E j \in fits : j < k
        BY <2>1
      <3>2. 0 \notin fits
        BY <3>1
      <3>3. 1 \notin fits
        BY <3>1, <3>2
      <3>4. 2 \notin fits
        BY <3>1, <3>2, <3>3
      <3>5. 3 \notin fits
        BY <3>1, <3>2, <3>3, <3>4
      <3>6. 4 \notin fits
        BY <3>1, <3>2, <3>3, <3>4, <3>5
      <3> QED BY <1>2, <3>1, <3>2, <3>3, <3>4, <3>5, <3>6
    <2> QED BY <2>1
  <1>4. Min(fits) \in fits
    BY <1>3 DEF Min
  <1>5. HeadTail(size) = left[Min(fits)]
    BY <1>2 DEF HeadTail, left
  <1> QED BY <1>4, <1>5

-----------------------------------------------------------------------------
(* Sums *)

LEMMA LeastNat ==
    ASSUME NEW S \in SUBSET Nat, S # {}
    PROVE  \E m \in S : \A n \in S : m <= n
  <1> DEFINE R == OpToRel(<, Nat)
  <1>1. IsWellFoundedOn(R, Nat)
    BY NatLessThanWellFounded
  <1> HIDE DEF R
  <1>2. PICK m \in S : \A n \in S : ~(<<n, m>> \in R)
    BY <1>1, WFMin
  <1>3. ASSUME NEW n \in S, n < m PROVE FALSE
    BY <1>2, <1>3 DEF R, OpToRel
  <1> QED BY <1>3

\* Among finite sets one is smallest: an induction over finite sets looks at
\* the smallest one for which the claim fails.
LEMMA SmallestSet ==
    ASSUME NEW C, C # {}, \A S \in C : IsFiniteSet(S)
    PROVE  \E S \in C : \A T \in C : Cardinality(S) <= Cardinality(T)
  <1> DEFINE sizes == {Cardinality(S) : S \in C}
  <1>1. sizes \in SUBSET Nat /\ sizes # {}
    BY FS_CardinalityType
  <1>2. PICK m \in sizes : \A n \in sizes : m <= n
    BY <1>1, LeastNat
  <1> QED BY <1>2

Pick(S) == CHOOSE x \in S : TRUE

\* g is the sum of f over each subset of D, taken in the order of CHOOSE.
Sums(f, D, g) ==
    g = [S \in SUBSET D |-> IF S = {} THEN 0
                            ELSE f[Pick(S)] + g[S \ {Pick(S)}]]

SumOf(f, D) == (CHOOSE g : Sums(f, D, g))[D]

LEMMA TotalIsSum == \A f : Total(f) = SumOf(f, DOMAIN f)
  BY DEF Total, FoldFunction, FoldFunctionOnSet, MapThenFoldSet, SumOf, Sums,
     Pick

LEMMA PickOne ==
    ASSUME NEW S, S # {}, IsFiniteSet(S)
    PROVE  /\ Pick(S) \in S /\ IsFiniteSet(S \ {Pick(S)})
           /\ Cardinality(S) \in Nat
           /\ Cardinality(S \ {Pick(S)}) = Cardinality(S) - 1
  <1>1. Pick(S) \in S
    BY DEF Pick
  <1> QED BY <1>1, FS_CardinalityType, FS_RemoveElement

LEMMA SumsExist ==
    ASSUME NEW f, NEW D, IsFiniteSet(D)
    PROVE  \E g : Sums(f, D, g)
  <1> DEFINE Next1(g, S) == IF S = {} THEN 0
                            ELSE f[Pick(S)] + g[S \ {Pick(S)}]
             Upto(g, n) == \A S \in SUBSET D :
                             Cardinality(S) <= n => g[S] = Next1(g, S)
             fails == {n \in Nat : \A g : ~Upto(g, n)}
  <1> HIDE DEF Next1
  <1>1. \A S \in SUBSET D : IsFiniteSet(S) /\ Cardinality(S) \in Nat
    BY FS_Subset, FS_CardinalityType
  <1>2. ASSUME NEW n \in Nat, NEW g, \A S \in SUBSET D :
                 Cardinality(S) < n => g[S] = Next1(g, S)
        PROVE  n \notin fails
    <2> DEFINE h == [S \in SUBSET D |-> Next1(g, S)]
    <2>1. ASSUME NEW S \in SUBSET D, Cardinality(S) <= n
          PROVE  h[S] = Next1(h, S)
      <3>1. CASE S = {}
        BY <3>1 DEF Next1
      <3>2. CASE S # {}
        <4> DEFINE T == S \ {Pick(S)}
        <4>1. T \in SUBSET D /\ Cardinality(T) < n
          BY <1>1, <2>1, <3>2, PickOne
        <4>2. h[T] = g[T]
          BY <1>2, <4>1
        <4> QED BY <3>2, <4>2 DEF Next1
      <3> QED BY <3>1, <3>2
    <2>2. Upto(h, n)
      BY <2>1
    <2> HIDE DEF h
    <2> QED BY <2>2
  <1>3. ASSUME fails # {} PROVE FALSE
    <2>1. PICK n \in fails : \A m \in fails : n <= m
      BY <1>3, LeastNat
    <2>2. CASE n = 0
      <3>1. \A S \in SUBSET D : ~(Cardinality(S) < 0)
        BY <1>1
      <3> QED BY <1>2, <2>1, <2>2, <3>1
    <2>3. CASE n # 0
      <3>1. n \in Nat /\ n - 1 \in Nat /\ n - 1 \notin fails
        BY <2>1, <2>3
      <3>2. PICK g : Upto(g, n - 1)
        BY <3>1
      <3>3. \A S \in SUBSET D : Cardinality(S) < n => g[S] = Next1(g, S)
        BY <1>1, <3>1, <3>2
      <3> QED BY <1>2, <2>1, <3>1, <3>3
    <2> QED BY <2>2, <2>3
  <1>4. Cardinality(D) \in Nat /\ \A S \in SUBSET D : Cardinality(S) <= Cardinality(D)
    BY FS_CardinalityType, FS_Subset
  <1>5. PICK g : Upto(g, Cardinality(D))
    BY <1>3, <1>4
  <1> DEFINE h == [S \in SUBSET D |-> Next1(g, S)]
  <1>6. \A S \in SUBSET D : g[S] = Next1(g, S) /\ g[S] = h[S]
    BY <1>4, <1>5
  <1>7. ASSUME NEW S \in SUBSET D PROVE Next1(h, S) = Next1(g, S)
    <2>1. S # {} => S \ {Pick(S)} \in SUBSET D
      OBVIOUS
    <2> HIDE DEF h
    <2> QED BY <1>6, <2>1 DEF Next1
  <1>8. h = [S \in SUBSET D |-> Next1(h, S)]
    BY <1>7
  <1> HIDE DEF h
  <1>9. Sums(f, D, h)
    BY <1>8 DEF Sums, Next1
  <1> QED BY <1>9

LEMMA SumsAgree ==
    ASSUME NEW f, NEW g, NEW D, Sums(f, D, g), NEW e, NEW h, NEW E,
           Sums(e, E, h), NEW S \in SUBSET (D \cap E), IsFiniteSet(S),
           \A x \in S : f[x] = e[x]
    PROVE  g[S] = h[S]
  <1> DEFINE C == {T \in SUBSET S : g[T] # h[T]}
  <1>1. ASSUME C # {} PROVE FALSE
    <2>1. \A T \in C : IsFiniteSet(T)
      BY FS_Subset
    <2>2. PICK T \in C : \A U \in C : Cardinality(T) <= Cardinality(U)
      BY <1>1, <2>1, SmallestSet
    <2>3. T \in SUBSET D /\ T \in SUBSET E
      OBVIOUS
    <2>4. T # {}
      BY <2>2, <2>3 DEF Sums
    <2> DEFINE U == T \ {Pick(T)}
    <2>5. Pick(T) \in T /\ Cardinality(U) < Cardinality(T)
      <3>1. IsFiniteSet(T)
        BY <2>1, <2>2
      <3>2. /\ Pick(T) \in T /\ Cardinality(T) \in Nat
            /\ Cardinality(U) = Cardinality(T) - 1
        BY <2>4, <3>1, PickOne
      <3> QED BY <3>2
    <2>6. U \in SUBSET S /\ U \notin C
      <3>1. Cardinality(T) \in Nat /\ Cardinality(U) \in Nat
        BY <2>1, <2>2, FS_CardinalityType, FS_Subset
      <3> QED BY <2>2, <2>5, <3>1
    <2>7. g[U] = h[U]
      BY <2>6
    <2>8. g[T] = f[Pick(T)] + g[U] /\ h[T] = e[Pick(T)] + h[U]
      BY <2>3, <2>4 DEF Sums
    <2> QED BY <2>2, <2>5, <2>7, <2>8
  <1> QED BY <1>1

LEMMA SumIs ==
    ASSUME NEW f, NEW D, IsFiniteSet(D), NEW g, Sums(f, D, g), NEW S \in SUBSET D
    PROVE  SumOf(f, S) = g[S]
  <1>1. IsFiniteSet(S)
    BY FS_Subset
  <1>2. Sums(f, S, CHOOSE h : Sums(f, S, h))
    BY <1>1, SumsExist
  <1>3. S \in SUBSET (S \cap D)
    OBVIOUS
  <1> QED BY <1>1, <1>2, <1>3, SumsAgree DEF SumOf

\* f[x] + SumOf(f, S \ {x}) whichever x is taken first.
LEMMA SumTakes ==
    ASSUME NEW f, NEW S, IsFiniteSet(S), \A x \in S : f[x] \in Nat
    PROVE  /\ SumOf(f, {}) = 0
           /\ SumOf(f, S) \in Nat
           /\ \A x \in S : SumOf(f, S) = f[x] + SumOf(f, S \ {x})
  <1>1. PICK g : Sums(f, S, g)
    BY SumsExist
  <1>2. \A T \in SUBSET S : SumOf(f, T) = g[T] /\ IsFiniteSet(T)
    BY <1>1, SumIs, FS_Subset
  <1>3. /\ g[{}] = 0
        /\ \A T \in SUBSET S : T # {} => g[T] = f[Pick(T)] + g[T \ {Pick(T)}]
    BY <1>1 DEF Sums
  <1> DEFINE Good(T) == g[T] \in Nat /\ \A x \in T : g[T] = f[x] + g[T \ {x}]
             C == {T \in SUBSET S : ~Good(T)}
  <1>4. ASSUME C # {} PROVE FALSE
    <2> HIDE DEF Good
    <2>1. \A T \in C : IsFiniteSet(T)
      BY <1>2
    <2>2. PICK T \in C : \A U \in C : Cardinality(T) <= Cardinality(U)
      BY <1>4, <2>1, SmallestSet
    <2>3. T \in SUBSET S /\ IsFiniteSet(T) /\ ~Good(T)
      BY <2>1, <2>2
    <2>4. ASSUME NEW x \in T PROVE Good(T \ {x})
      <3>1. /\ IsFiniteSet(T \ {x}) /\ Cardinality(T \ {x}) = Cardinality(T) - 1
            /\ Cardinality(T) \in Nat
        BY <2>3, FS_RemoveElement, FS_CardinalityType
      <3>2. T \ {x} \notin C
        BY <2>2, <3>1
      <3>3. T \ {x} \in SUBSET S
        BY <2>3
      <3> QED BY <3>2, <3>3
    <2>5. T # {}
      <3>1. Good({})
        BY <1>3 DEF Good
      <3> QED BY <2>3, <3>1
    <2> DEFINE p == Pick(T)
    <2>6. p \in T /\ g[T] = f[p] + g[T \ {p}] /\ f[p] \in Nat
      BY <1>3, <2>3, <2>5 DEF Pick
    <2> HIDE DEF p
    <2>7. g[T \ {p}] \in Nat
      BY <2>4, <2>6 DEF Good
    <2>8. ASSUME NEW x \in T, x # p PROVE g[T] = f[x] + g[T \ {x}]
      <3>1. g[T \ {p}] = f[x] + g[(T \ {p}) \ {x}]
        BY <2>4, <2>6, <2>8 DEF Good
      <3>2. g[T \ {x}] = f[p] + g[(T \ {x}) \ {p}]
        BY <2>4, <2>6, <2>8 DEF Good
      <3>3. (T \ {p}) \ {x} = (T \ {x}) \ {p}
        OBVIOUS
      <3>4. Good((T \ {p}))
        BY <2>4, <2>6
      <3>5. f[x] \in Nat /\ f[p] \in Nat
        BY <2>3, <2>6, <2>8
      <3>6. g[(T \ {p}) \ {x}] \in Int
        <4> DEFINE U == T \ {p}
        <4>1. U \in SUBSET S /\ x \in U
          BY <2>3, <2>8
        <4>2. Good(U \ {x})
          <5>1. /\ IsFiniteSet(U) /\ Cardinality(U) = Cardinality(T) - 1
                /\ Cardinality(T) \in Nat
            BY <2>3, <2>6, FS_RemoveElement, FS_CardinalityType
          <5>2. /\ Cardinality(U \ {x}) = Cardinality(U) - 1
            BY <4>1, <5>1, FS_RemoveElement
          <5>3. U \ {x} \notin C
            BY <2>2, <5>1, <5>2
          <5> QED BY <4>1, <5>3
        <4> QED BY <4>2 DEF Good
      <3> QED BY <2>6, <3>1, <3>2, <3>3, <3>5, <3>6
    <2>9. g[T] \in Nat
      BY <2>6, <2>7
    <2> QED BY <2>3, <2>6, <2>8, <2>9 DEF Good
  <1>5. Good(S)
    BY <1>4
  <1> QED BY <1>2, <1>3, <1>5

LEMMA SumSame ==
    ASSUME NEW f, NEW h, NEW S, IsFiniteSet(S), \A x \in S : f[x] = h[x]
    PROVE  SumOf(f, S) = SumOf(h, S)
  <1>1. PICK g : Sums(f, S, g)
    BY SumsExist
  <1>2. PICK k : Sums(h, S, k)
    BY SumsExist
  <1>3. SumOf(f, S) = g[S] /\ SumOf(h, S) = k[S]
    BY <1>1, <1>2, SumIs
  <1>4. S \in SUBSET (S \cap S)
    OBVIOUS
  <1> QED BY <1>1, <1>2, <1>3, <1>4, SumsAgree

LEMMA TokensOfMessages ==
    ASSUME NEW messages \in Seq(Message)
    PROVE  Tokens(messages) \in Nat
  <1> DEFINE f == [i \in DOMAIN messages |-> messages[i].size]
  <1>1. IsFiniteSet(DOMAIN messages)
    BY FS_Interval
  <1>2. DOMAIN f = DOMAIN messages /\ \A i \in DOMAIN messages : f[i] \in Nat
    <2>1. \A i \in DOMAIN messages : messages[i] \in Message
      OBVIOUS
    <2>2. \A m \in Message : m.size \in Nat
      BY DEF Message
    <2> QED BY <2>1, <2>2
  <1>3. SumOf(f, DOMAIN messages) \in Nat
    BY <1>1, <1>2, SumTakes
  <1>4. Total(f) = SumOf(f, DOMAIN f)
    BY TotalIsSum
  <1> QED BY <1>2, <1>3, <1>4 DEF Tokens

\* What a set of segments costs grows with every segment by its tokens.
LEMMA CostGrows ==
    ASSUME NEW segs, IsFiniteSet(segs), \A s \in segs : s.tokens \in Nat
    PROVE  /\ Cost(segs) \in Nat
           /\ \A s \in segs : Cost(segs) = s.tokens + Cost(segs \ {s})
  <1> DEFINE f(S) == [s \in S |-> s.tokens]
  <1>1. ASSUME NEW S \in SUBSET segs
        PROVE  Cost(S) = SumOf(f(segs), S)
    <2>1. IsFiniteSet(S)
      BY FS_Subset
    <2>2. DOMAIN f(S) = S /\ \A s \in S : f(S)[s] = f(segs)[s]
      OBVIOUS
    <2>3. Cost(S) = SumOf(f(S), DOMAIN f(S))
      BY TotalIsSum DEF Cost
    <2> HIDE DEF f
    <2> QED BY <2>1, <2>2, <2>3, SumSame
  <1>2. \A s \in segs : f(segs)[s] = s.tokens /\ f(segs)[s] \in Nat
    OBVIOUS
  <1> HIDE DEF f
  <1>3. /\ SumOf(f(segs), segs) \in Nat
        /\ \A s \in segs :
             SumOf(f(segs), segs) = f(segs)[s] + SumOf(f(segs), segs \ {s})
    BY <1>2, SumTakes
  <1> QED BY <1>1, <1>2, <1>3

-----------------------------------------------------------------------------
(* Positions *)

LEMMA MinIs ==
    ASSUME NEW S \in SUBSET Nat, S # {}
    PROVE  Min(S) \in S /\ \A n \in S : Min(S) <= n
  <1>1. \E m \in S : \A n \in S : m <= n
    BY LeastNat
  <1> QED BY <1>1 DEF Min

LEMMA MaxIs ==
    ASSUME NEW S \in SUBSET Nat, S # {}, NEW b \in Nat, \A n \in S : n <= b
    PROVE  Max(S) \in S /\ \A n \in S : n <= Max(S)
  <1> DEFINE D == {b - n : n \in S}
  <1>1. D \in SUBSET Nat /\ D # {}
    <2>1. \A n \in S : n \in Nat /\ b - n \in Nat
      OBVIOUS
    <2> QED BY <2>1
  <1>2. PICK d \in D : \A e \in D : d <= e
    BY <1>1, LeastNat
  <1>3. PICK m \in S : d = b - m
    OBVIOUS
  <1>4. \A n \in S : m >= n
    <2>1. ASSUME NEW n \in S PROVE m >= n
      <3>1. b - n \in D
        OBVIOUS
      <3> HIDE DEF D
      <3>2. b - m <= b - n /\ m \in Nat /\ n \in Nat
        BY <1>2, <1>3, <3>1
      <3> QED BY <3>2
    <2> QED BY <2>1
  <1>5. \E x \in S : \A y \in S : x >= y
    BY <1>4
  <1>6. Max(S) \in S /\ \A y \in S : Max(S) >= y
    BY <1>5 DEF Max
  <1>7. Max(S) \in Nat /\ \A n \in S : n \in Nat
    BY <1>6
  <1> QED BY <1>6, <1>7

InputTypes ==
    /\ request \in Seq(Message) /\ budget \in Int /\ Fields
    /\ memory.summary \in Nat /\ memory.recent \in Seq(Entry)

LEMMA LastIndexType ==
    ASSUME InputTypes, NEW roles
    PROVE  LastIndex(roles) \in Int
  <1> DEFINE I == {i \in 1..Len(request) : request[i].role \in roles}
  <1>1. Len(request) \in Nat
    BY DEF InputTypes
  <1>2. I \in SUBSET Nat /\ \A i \in I : i <= Len(request)
    BY <1>1
  <1>3. LastIndex(roles) = (IF I # {} THEN Max(I) ELSE 0) - 1
    BY DEF LastIndex, SelectLastInSeq
  <1> HIDE DEF I
  <1>4. I # {} => Max(I) \in I
    BY <1>1, <1>2, MaxIs
  <1>5. I # {} => Max(I) \in Int
    <2>1. ASSUME I # {} PROVE Max(I) \in Nat
      BY <1>2, <1>4, <2>1
    <2> QED BY <2>1
  <1> QED BY <1>3, <1>5

LEMMA OrdersOfMemory ==
    ASSUME InputTypes
    PROVE  SummaryOrder \in Int /\ RecentOrder \in Int
  <1>1. findLastSystemIndex \in Int
    BY LastIndexType DEF findLastSystemIndex
  <1> QED BY <1>1 DEF SummaryOrder, RecentOrder

LEMMA RunEndType ==
    ASSUME InputTypes, NEW i \in 1..Len(request)
    PROVE  RunEnd(i) \in i + 1 .. Len(request) + 1
  <1> DEFINE n == Len(request)
             C == {j \in i + 1 .. n + 1 : j = n + 1 \/ request[j].role # "call"}
             calls == Min(C)
             ids == {request[j].call : j \in i .. calls - 1}
             E == {j \in calls .. n + 1 :
                     \/ j = n + 1
                     \/ request[j].role # "tool"
                     \/ request[j].call \notin ids
                     \/ \E k \in calls .. j - 1 : request[k].call = request[j].call}
  <1>1. RunEnd(i) = Min(E)
    BY ZenonT(30) DEF RunEnd
  <1>2. n \in Nat
    BY DEF InputTypes
  <1>3. C \in SUBSET Nat /\ n + 1 \in C
    BY <1>2
  <1>4. calls \in C
    BY <1>3, MinIs
  <1>5. calls \in i + 1 .. n + 1
    BY <1>4
  <1> HIDE DEF calls
  <1>6. E \in SUBSET Nat /\ n + 1 \in E
    BY <1>2, <1>5
  <1>7. Min(E) \in E
    BY <1>6, MinIs
  <1>8. Min(E) \in calls .. n + 1
    BY <1>7
  <1> HIDE DEF n, E
  <1>9. Min(E) \in i + 1 .. n + 1
    BY <1>2, <1>5, <1>8
  <1> QED BY <1>1, <1>9 DEF n

-----------------------------------------------------------------------------
(* Segments *)

IsSegment(s) ==
    /\ s.messages \in Seq(Message) /\ s.order \in Int
    /\ s = createMessageSegment(s.id, s.kind, s.order, s.messages)

Segmented(segs) ==
    /\ segs \in Seq(ToSet(segs))
    /\ \A k \in DOMAIN segs : IsSegment(segs[k])

LEMMA Creates ==
    ASSUME NEW id, NEW kind, NEW order \in Int, NEW messages \in Seq(Message)
    PROVE  IsSegment(createMessageSegment(id, kind, order, messages))
  BY DEF IsSegment, createMessageSegment

LEMMA SegmentCosts ==
    ASSUME NEW s, IsSegment(s)
    PROVE  s.tokens \in Nat
  <1>1. s.tokens = Tokens(s.messages)
    BY DEF IsSegment, createMessageSegment
  <1> QED BY <1>1, TokensOfMessages DEF IsSegment

LEMMA Joined ==
    ASSUME NEW x, NEW y, Segmented(x), Segmented(y)
    PROVE  Segmented(x \o y)
  <1> DEFINE S == ToSet(x) \cup ToSet(y)
             z == x \o y
  <1>1. x \in Seq(S) /\ y \in Seq(S)
    BY SeqMonotonic DEF Segmented
  <1>2. /\ z \in Seq(S) /\ Len(z) = Len(x) + Len(y)
        /\ Len(x) \in Nat /\ Len(y) \in Nat
        /\ \A k \in 1..Len(x) + Len(y) :
             z[k] = IF k <= Len(x) THEN x[k] ELSE y[k - Len(x)]
    BY <1>1, ConcatProperties, LenProperties
  <1>3. DOMAIN z = 1..Len(x) + Len(y) /\ DOMAIN x = 1..Len(x) /\ DOMAIN y = 1..Len(y)
    BY <1>1, <1>2
  <1> HIDE DEF z
  <1>4. ASSUME NEW k \in DOMAIN z PROVE IsSegment(z[k])
    <2>1. CASE k <= Len(x)
      <3>1. z[k] = x[k] /\ k \in DOMAIN x
        BY <1>2, <1>3, <2>1
      <3> QED BY <3>1 DEF Segmented
    <2>2. CASE ~(k <= Len(x))
      <3>1. z[k] = y[k - Len(x)] /\ k - Len(x) \in DOMAIN y
        BY <1>2, <1>3, <2>2
      <3> QED BY <3>1 DEF Segmented
    <2> QED BY <2>1, <2>2
  <1>5. z \in Seq(ToSet(z))
    BY <1>2, <1>3 DEF ToSet
  <1> QED BY <1>4, <1>5 DEF Segmented, z

LEMMA Pushed ==
    ASSUME NEW segs, Segmented(segs), NEW s, IsSegment(s)
    PROVE  /\ Segmented(Append(segs, s))
  <1>1. Segmented(<<s>>)
    BY DEF Segmented, ToSet
  <1>2. segs \in Seq(ToSet(segs) \cup {s})
    BY SeqMonotonic DEF Segmented
  <1>3. Append(segs, s) = segs \o <<s>>
    BY <1>2, AppendIsConcat
  <1> QED BY <1>1, <1>3, Joined

LEMMA Capping ==
    ASSUME NEW m \in Message
    PROVE  maybeCapMemorySummary(m) \in Message
  BY DEF maybeCapMemorySummary, Message

LEMMA RecentType ==
    ASSUME InputTypes
    PROVE  Recent \in Seq(Entry) /\ Len(Recent) \in Nat
  <1>1. memory.recent \in Seq(Entry) /\ Len(memory.recent) \in Nat
    BY DEF InputTypes
  <1>2. SubSeq(memory.recent, Len(memory.recent) - RecentLimit + 1,
               Len(memory.recent)) \in Seq(Entry)
          \/ Len(memory.recent) <= RecentLimit
    BY <1>1
  <1>3. Recent \in Seq(Entry)
    BY <1>1, <1>2 DEF Recent
  <1> QED BY <1>3

LEMMA MemoryIsSegmented ==
    ASSUME InputTypes
    PROVE  Segmented(buildMemorySegments)
  <1> DEFINE summary == [role |-> "summary", call |-> None, size |-> memory.summary]
             head == createMessageSegment(<<"memory_summary">>, "memory_summary",
                       SummaryOrder, <<maybeCapMemorySummary(summary)>>)
             first == IF memory.summary = 0 THEN <<>> ELSE <<head>>
             talk(i) == [role |-> Recent[i].role, call |-> None,
                         size |-> Recent[i].size]
             entry(i) == createMessageSegment(
                           <<"memory_recent", Recent[i].event,
                             IF Recent[i].event = None THEN i - 1 ELSE 0>>,
                           "recent_exact", RecentOrder + i - 1, <<talk(i)>>)
             rest == [i \in DOMAIN Recent |-> entry(i)]
  <1>1. SummaryOrder \in Int /\ RecentOrder \in Int
    BY OrdersOfMemory
  <1>2. Segmented(first)
    <2>1. summary \in Message
      BY DEF InputTypes, Message
    <2>2. <<maybeCapMemorySummary(summary)>> \in Seq(Message)
      BY <2>1, Capping
    <2>3. IsSegment(head)
      BY <1>1, <2>2, Creates
    <2> HIDE DEF head
    <2>4. Segmented(<<>>) /\ Segmented(<<head>>)
      BY <2>3 DEF Segmented, ToSet
    <2> QED BY <2>4
  <1>3. Segmented(rest)
    <2>1. Recent \in Seq(Entry)
      BY RecentType
    <2>2. Len(Recent) \in Nat /\ DOMAIN Recent = 1..Len(Recent)
      BY <2>1
    <2>3. ASSUME NEW i \in DOMAIN Recent PROVE IsSegment(entry(i))
      <3>1. Recent[i] \in Entry
        BY <2>1
      <3>2. talk(i) \in Message
        BY <3>1 DEF Entry, Message
      <3>3. <<talk(i)>> \in Seq(Message)
        BY <3>2
      <3>4. RecentOrder + i - 1 \in Int
        BY <1>1, <2>2
      <3> QED BY <3>3, <3>4, Creates
    <2> HIDE DEF entry
    <2>4. DOMAIN rest = 1..Len(Recent) /\ \A i \in DOMAIN rest : rest[i] = entry(i)
      BY <2>2
    <2>5. rest \in Seq(ToSet(rest))
      BY <2>2 DEF ToSet
    <2> HIDE DEF rest
    <2> QED BY <2>2, <2>3, <2>4, <2>5 DEF Segmented
  <1>4. buildMemorySegments = first \o rest
    BY DEF buildMemorySegments
  <1> HIDE DEF first, rest
  <1> QED BY <1>2, <1>3, <1>4, Joined

-----------------------------------------------------------------------------
(* The invariant *)

Capped(s) == s.kind = "active_tool_protocol" =>
                 \A k \in DOMAIN s.messages : ~Oversize(s.messages[k])

\* The loops are within their sequences.
Places == /\ phase = "build" => at \in 1 .. Len(request) + 1
          /\ phase = "reduce" => at \in 1 .. Len(segments) + 1

\* What the second loop has passed fits the cap.
Reduced == CapHasRoom =>
    /\ phase = "reduce" => \A k \in 1 .. at - 1 : Capped(segments[k])
    /\ phase \in {"choose", "done"} =>
         \A k \in DOMAIN segments : Capped(segments[k])

\* The segments that are charged.
Taken == ToSet(segments) \ (waiting \cup dropped)

Untouched == waiting = {} /\ dropped = {}

\* What was charged is what was taken, the pinned segments among it, and all
\* of it is pinned or no older than what waits.
Charged ==
    /\ waiting \cup dropped \subseteq ToSet(segments)
    /\ waiting \cap dropped = {}
    /\ \A s \in waiting \cup dropped : ~IsPinned(s)
    /\ used = SpecTokens + Cost(Taken)
    /\ used <= budget
    /\ \A s \in waiting : Taken = NoOlder(s)

Held ==
    /\ InputTypes
    /\ Segmented(segments)
    /\ Places
    /\ Reduced
    /\ phase \in {"build", "reduce"} => Untouched
    /\ phase \in {"choose", "done", "invalid"} => Charged
    /\ NewestFirst

LEMMA HeldInit == Init => Held
  <1> SUFFICES ASSUME Init PROVE Held
    OBVIOUS
  <1>1. InputTypes
    BY InputsAssumption DEF Init, InputTypes, Fields
  <1>2. Segmented(segments)
    BY <1>1, MemoryIsSegmented DEF Init
  <1>3. Places /\ Reduced /\ Untouched /\ NewestFirst
    <2>1. Len(request) \in Nat
      BY <1>1 DEF InputTypes
    <2> QED BY <2>1 DEF Init, Places, Reduced, Untouched, NewestFirst
  <1> QED BY <1>1, <1>2, <1>3 DEF Held, Init

-----------------------------------------------------------------------------
(* Reading the messages *)

LEMMA PushHolds ==
    ASSUME Held, phase = "build", NEW kind, NEW messages \in Seq(Message),
           NEW next \in 1 .. Len(request) + 1, at \in 1 .. Len(request),
           Push(kind, messages, next)
    PROVE  Held'
  <1>1. /\ InputTypes' /\ phase' = "build" /\ request' = request
        /\ at' = next /\ waiting' = waiting /\ dropped' = dropped
    BY DEF Push, input, Held, InputTypes, Fields
  <1>2. Segmented(segments')
    <2>1. (at - 1) * 1000 \in Int
      <3>1. at \in Int
        BY DEF Held, InputTypes
      <3> QED BY <3>1
    <2>2. IsSegment(Segment(at, kind, messages))
      BY <2>1, Creates DEF Segment
    <2> QED BY <2>2, Pushed DEF Push, Held
  <1>3. Untouched' /\ NewestFirst'
    BY <1>1 DEF Held, Untouched, NewestFirst
  <1>4. Places' /\ Reduced'
    BY <1>1 DEF Places, Reduced
  <1> QED BY <1>1, <1>2, <1>3, <1>4 DEF Held

LEMMA ReadingHolds ==
    ASSUME Held, ReadSystem \/ ReadRun \/ ReadOrphan \/ ReadTalk
    PROVE  Held'
  <1>1. phase = "build" /\ at <= Len(request)
    BY DEF ReadSystem, ReadRun, ReadOrphan, ReadTalk
  <1>2. Len(request) \in Nat /\ request \in Seq(Message)
    BY DEF Held, InputTypes
  <1>3. at \in 1 .. Len(request) /\ at + 1 \in 1 .. Len(request) + 1
    <2>1. at \in 1 .. Len(request) + 1
      BY <1>1 DEF Held, Places
    <2> QED BY <1>1, <1>2, <2>1
  <1>4. request[at] \in Message
    BY <1>2, <1>3
  <1>5. /\ <<request[at]>> \in Seq(Message)
        /\ <<maybeCapMemorySummary(request[at])>> \in Seq(Message)
    BY <1>4, Capping
  <1>6. CASE ReadSystem
    BY <1>1, <1>3, <1>5, <1>6, PushHolds DEF ReadSystem
  <1>7. CASE ReadOrphan
    BY <1>1, <1>3, <1>5, <1>7, PushHolds DEF ReadOrphan
  <1>8. CASE ReadTalk
    BY <1>1, <1>3, <1>5, <1>8, PushHolds DEF ReadTalk
  <1>9. CASE ReadRun
    <2>1. RunEnd(at) \in at + 1 .. Len(request) + 1
      BY <1>3, RunEndType DEF Held
    <2>2. /\ RunEnd(at) \in 1 .. Len(request) + 1
          /\ RunEnd(at) - 1 \in Int /\ RunEnd(at) - 1 <= Len(request)
          /\ at \in Int /\ at >= 1
      BY <1>2, <1>3, <2>1
    <2>3. SubSeq(request, at, RunEnd(at) - 1) \in Seq(Message)
      BY <1>2, <2>2, SubSeqProperties
    <2> QED BY <1>1, <1>3, <1>9, <2>2, <2>3, PushHolds DEF ReadRun
  <1> QED BY <1>6, <1>7, <1>8, <1>9

LEMMA BuiltHolds ==
    ASSUME Held, Built
    PROVE  Held'
  <1>1. /\ InputTypes' /\ Segmented(segments') /\ Untouched' /\ NewestFirst'
        /\ phase' = "reduce" /\ at' = 1
    BY DEF Held, Built, input, InputTypes, Fields, Untouched, NewestFirst
  <1>2. Len(segments') \in Nat
    BY <1>1 DEF Segmented
  <1>3. Places' /\ Reduced'
    BY <1>1, <1>2 DEF Places, Reduced
  <1> QED BY <1>1, <1>3 DEF Held

-----------------------------------------------------------------------------
(* Reducing the outputs *)

\* A text that is not cut keeps its estimate, a cut one has one.
LEMMA HeadTailType ==
    ASSUME Fields, NEW size \in Nat
    PROVE  HeadTail(size) \in Nat
  <1> DEFINE left == [k \in 0..5 |->
                        estimateMessage(
                          truncateWithNotice(Characters(size), TokenCap[k]))]
             fits == {k \in 0..5 : left[k] <= toolCap}
             last == IF fits = {} THEN 5 ELSE Min(fits)
  <1>1. ASSUME NEW k \in 0..5
        PROVE  estimateMessage(truncateWithNotice(Characters(size), TokenCap[k]))
                 \in Nat
    <2> DEFINE c == TokenCap[k]
               n == Characters(size)
    <2>1. c \in Nat
      BY LastCap DEF Fields
    <2>2. n \in Int /\ n + overhead = 4 * (size - 8) /\ overhead \in Nat
      BY DEF Characters, Fields
    <2>3. truncateWithNotice(n, c) = n \/ truncateWithNotice(n, c) \in Nat
      <3> HIDE DEF c, n
      <3> QED BY <2>1, <2>2 DEF truncateWithNotice, AtLeast, Omitted
    <2> HIDE DEF c, n
    <2>4. CASE truncateWithNotice(n, c) = n
      <3>1. \A d \in Int : (4 * d + 3) \div 4 = d
        OBVIOUS
      <3>2. overhead + n + 3 = 4 * (size - 8) + 3 /\ size - 8 \in Int
        BY <2>2
      <3>3. 8 + (overhead + n + 3) \div 4 = size
        BY <3>1, <3>2
      <3> QED BY <2>4, <3>3 DEF estimateMessage, c, n
    <2>5. CASE truncateWithNotice(n, c) \in Nat
      <3> DEFINE m == truncateWithNotice(n, c)
      <3> HIDE DEF m
      <3>1. m \in Nat /\ overhead \in Nat
        BY <2>2, <2>5 DEF m
      <3>2. 8 + (overhead + m + 3) \div 4 \in Nat
        BY <3>1
      <3> QED BY <3>2 DEF estimateMessage, m, c, n
    <2> QED BY <2>3, <2>4, <2>5 DEF c, n
  <1>2. \A k \in 0..5 : left[k] \in Nat
    BY <1>1
  <1>3. HeadTail(size) = left[last]
    BY DEF HeadTail
  <1> HIDE DEF left
  <1>4. fits \in SUBSET Nat /\ (fits # {} => Min(fits) \in fits)
    BY MinIs
  <1>5. last \in 0..5
    BY <1>4
  <1> QED BY <1>2, <1>3, <1>5

LEMMA Reduction ==
    ASSUME Fields, NEW size \in Nat, NEW n \in ReducedSizes(size)
    PROVE  n \in Nat /\ (CapHasRoom => n <= toolCap)
  <1>1. CASE n \in Leaves /\ n <= toolCap
    BY <1>1
  <1>2. CASE \E m \in {size} \cup {k \in Leaves : k > toolCap} : n = HeadTail(m)
    <2>1. PICK m \in Nat : n = HeadTail(m)
      BY <1>2
    <2> QED BY <2>1, HeadTailType, HeadTailFits
  <1> QED BY <1>1, <1>2 DEF ReducedSizes

LEMMA FunctionIsSeq ==
    ASSUME NEW S, NEW n \in Nat, NEW r \in [1..n -> S]
    PROVE  r \in Seq(S)
  BY SeqDef

LEMMA Renewed ==
    ASSUME NEW s, IsSegment(s), NEW m
    PROVE  [s EXCEPT !.messages = m, !.tokens = Tokens(m)]
             = createMessageSegment(s.id, s.kind, s.order, m)
  <1> DEFINE Rec(n, t) == [id |-> s.id, kind |-> s.kind, order |-> s.order,
                           messages |-> n, tokens |-> t]
  <1>1. \A t : [[s EXCEPT !.messages = m] EXCEPT !.tokens = t]
                = [s EXCEPT !.messages = m, !.tokens = t]
    OBVIOUS
  <1>2. s = Rec(s.messages, Tokens(s.messages))
    BY DEF IsSegment, createMessageSegment
  <1>3. \A n, t : [Rec(n, t) EXCEPT !.messages = m] = Rec(m, t)
    OBVIOUS
  <1>4. \A t, u : [Rec(m, t) EXCEPT !.tokens = u] = Rec(m, u)
    OBVIOUS
  <1> HIDE DEF Rec
  <1>5. [s EXCEPT !.messages = m] = Rec(m, Tokens(s.messages))
    BY <1>2, <1>3
  <1>6. [s EXCEPT !.messages = m, !.tokens = Tokens(m)] = Rec(m, Tokens(m))
    BY <1>1, <1>4, <1>5
  <1> QED BY <1>6 DEF Rec, createMessageSegment

LEMMA Replaced ==
    \A segs, i, s, r :
       Segmented(segs) /\ i \in DOMAIN segs /\ IsSegment(s)
          /\ r = [segs EXCEPT ![i] = s] =>
         /\ Segmented(r) /\ Len(r) = Len(segs) /\ DOMAIN r = DOMAIN segs
         /\ r[i] = s /\ \A k \in DOMAIN segs : k # i => r[k] = segs[k]
  <1> TAKE segs, i, s, r
  <1> HAVE /\ Segmented(segs) /\ i \in DOMAIN segs /\ IsSegment(s)
           /\ r = [segs EXCEPT ![i] = s]
  <1> DEFINE S == ToSet(segs) \cup {s}
  <1>1. segs \in Seq(S)
    BY SeqMonotonic DEF Segmented
  <1>2. /\ r \in Seq(S) /\ Len(r) = Len(segs) /\ DOMAIN r = DOMAIN segs
        /\ r[i] = s /\ \A k \in DOMAIN segs : k # i => r[k] = segs[k]
    BY <1>1
  <1>3. \A k \in DOMAIN r : IsSegment(r[k])
    BY <1>2 DEF Segmented
  <1>4. r \in Seq(ToSet(r))
    <2>1. \A k \in 1..Len(r) : r[k] \in ToSet(r)
      BY <1>2 DEF ToSet
    <2>2. Len(r) \in Nat /\ r \in [1..Len(r) -> S]
      BY <1>2, LenProperties
    <2>3. r \in [1..Len(r) -> ToSet(r)]
      BY <2>1, <2>2
    <2> QED BY <2>2, <2>3, FunctionIsSeq
  <1> QED BY <1>2, <1>3, <1>4 DEF Segmented

\* What a reduction makes of a message: another size.
Cuts(m, n) == /\ m.role = n.role /\ m.call = n.call
              /\ n.role = "tool" /\ ~requiresExactToolOutput(n)

LEMMA ReduceMakes ==
    ASSUME Held, reduceSegmentIfNeeded
    PROVE  /\ at \in DOMAIN segments
           /\ \E messages \in Seq(Message) :
                LET s == segments[at]
                    new == createMessageSegment(s.id, s.kind, s.order, messages)
                IN  /\ Len(messages) = Len(s.messages)
                    /\ \A k \in 1..Len(messages) :
                         \/ messages[k] = s.messages[k]
                         \/ Cuts(messages[k], s.messages[k])
                    /\ s.kind # "active_tool_protocol" => messages = s.messages
                    /\ CapHasRoom => Capped(new)
                    /\ Segmented(segments') /\ Len(segments') = Len(segments)
                    /\ segments'[at] = new
                    /\ \A k \in DOMAIN segments :
                         k # at => segments'[k] = segments[k]
  <1> DEFINE s == segments[at]
             over == IF s.kind # "active_tool_protocol" THEN {}
                     ELSE {k \in DOMAIN s.messages : Oversize(s.messages[k])}
             shrunk(f) == [k \in DOMAIN s.messages |->
                             IF k \in over
                             THEN [s.messages[k] EXCEPT !.size = f[k]]
                             ELSE s.messages[k]]
  <1>1. PICK f \in Reductions(s, over) :
          segments' = [segments EXCEPT ![at].messages = shrunk(f),
                                       ![at].tokens = Tokens(shrunk(f))]
    BY DEF reduceSegmentIfNeeded
  <1>2. \A k \in over : ~requiresExactToolOutput(s.messages[k])
    BY DEF reduceSegmentIfNeeded
  <1> DEFINE messages == shrunk(f)
             new == createMessageSegment(s.id, s.kind, s.order, messages)
  <1>3. /\ phase = "reduce" /\ phase' = "reduce" /\ at <= Len(segments)
        /\ at' = at + 1 /\ InputTypes' /\ Untouched'
        /\ toolCap' = toolCap /\ overhead' = overhead
    BY DEF reduceSegmentIfNeeded, Held, InputTypes, Fields, input, Untouched
  <1>4. at \in DOMAIN segments /\ Len(segments) \in Nat
        /\ DOMAIN segments = 1..Len(segments)
    <2>1. at \in 1 .. Len(segments) + 1
      BY <1>3 DEF Held, Places
    <2>2. Len(segments) \in Nat /\ DOMAIN segments = 1..Len(segments)
      BY LenProperties DEF Held, Segmented
    <2> QED BY <1>3, <2>1, <2>2
  <1>5. /\ s.messages \in Seq(Message) /\ s.order \in Int
        /\ s = createMessageSegment(s.id, s.kind, s.order, s.messages)
    BY <1>4 DEF Held, Segmented, IsSegment
  <1>6. ASSUME NEW k \in over
        PROVE  /\ k \in DOMAIN s.messages /\ s.messages[k] \in Message
               /\ f[k] \in Nat /\ (CapHasRoom => f[k] <= toolCap)
    <2>1. k \in DOMAIN s.messages
      OBVIOUS
    <2>2. s.messages[k] \in Message
      BY <1>5, <2>1
    <2>3. f[k] \in ReducedSizes(s.messages[k].size)
      BY <1>6 DEF Reductions
    <2>4. s.messages[k].size \in Nat
      BY <2>2 DEF Message
    <2> QED BY <2>1, <2>2, <2>3, <2>4, Reduction DEF Held, InputTypes
  <1>7. messages \in Seq(Message)
    <2>1. ASSUME NEW k \in DOMAIN s.messages
          PROVE  messages[k] \in Message
      <3>1. s.messages[k] \in Message
        BY <1>5
      <3>2. CASE k \in over
        <4>1. messages[k] = [s.messages[k] EXCEPT !.size = f[k]]
          BY <3>2
        <4>2. f[k] \in Nat
          BY <1>6, <3>2
        <4> QED BY <3>1, <4>1, <4>2 DEF Message
      <3>3. CASE k \notin over
        BY <3>1, <3>3
      <3> QED BY <3>2, <3>3
    <2>2. /\ DOMAIN messages = DOMAIN s.messages
          /\ messages = [k \in DOMAIN messages |-> messages[k]]
      OBVIOUS
    <2>3. DOMAIN s.messages = 1..Len(s.messages) /\ Len(s.messages) \in Nat
      BY <1>5
    <2> HIDE DEF messages, s
    <2>4. messages \in [1..Len(s.messages) -> Message]
      BY <2>1, <2>2, <2>3
    <2> QED BY <2>3, <2>4
  <1>8. ASSUME NEW k \in 1..Len(messages)
         PROVE  messages[k] = s.messages[k] \/ Cuts(messages[k], s.messages[k])
    <2>1. k \in DOMAIN s.messages
      <3>1. DOMAIN messages = DOMAIN s.messages /\ DOMAIN messages = 1..Len(messages)
        <4>1. DOMAIN messages = DOMAIN s.messages
          OBVIOUS
        <4> HIDE DEF messages
        <4> QED BY <1>7, <4>1
      <3> HIDE DEF messages
      <3> QED BY <3>1
    <2>2. CASE k \in over
      <3>1. messages[k] = [s.messages[k] EXCEPT !.size = f[k]]
        BY <2>1, <2>2
      <3>2. s.messages[k] \in Message /\ s.messages[k].role = "tool"
        BY <1>6, <2>2 DEF Oversize
      <3>3. messages[k].role = s.messages[k].role /\ messages[k].call = s.messages[k].call
        BY <3>1, <3>2 DEF Message
      <3> QED BY <1>2, <2>2, <3>2, <3>3 DEF Cuts
    <2>3. CASE k \notin over
      BY <2>1, <2>3
    <2> QED BY <2>2, <2>3
  <1>9. Len(messages) = Len(s.messages)
    <2>1. DOMAIN messages = DOMAIN s.messages
      OBVIOUS
    <2>2. DOMAIN s.messages = 1..Len(s.messages) /\ Len(s.messages) \in Nat
      BY <1>5
    <2> HIDE DEF messages, s
    <2> QED BY <1>7, <2>1, <2>2
  <1>10. s.kind # "active_tool_protocol" => messages = s.messages
    <2>1. s.messages = [k \in DOMAIN s.messages |-> s.messages[k]]
      BY <1>5
    <2> HIDE DEF s
    <2> QED BY <2>1
  <1>11. IsSegment(new)
    BY <1>5, <1>7, Creates
  <1>12. CapHasRoom => Capped(new)
    <2> SUFFICES ASSUME CapHasRoom, s.kind = "active_tool_protocol",
                        NEW k \in DOMAIN messages
                 PROVE  ~(messages[k].role = "tool" /\ messages[k].size > toolCap)
      <3>1. new.kind = s.kind /\ new.messages = messages
        BY DEF createMessageSegment
      <3> HIDE DEF new, messages
      <3> QED BY <3>1 DEF Capped, Oversize
    <2>1. CASE k \in over
      <3>1. messages[k] = [s.messages[k] EXCEPT !.size = f[k]]
        BY <2>1
      <3>2. s.messages[k] \in Message /\ f[k] \in Nat /\ f[k] <= toolCap
        BY <1>6, <2>1
      <3>3. messages[k].size = f[k]
        BY <3>1, <3>2 DEF Message
      <3>4. toolCap \in Nat
        BY DEF Held, InputTypes, Fields
      <3> QED BY <3>2, <3>3, <3>4
    <2>2. CASE k \notin over
      <3>1. messages[k] = s.messages[k] /\ k \in DOMAIN s.messages
        BY <2>2
      <3>2. ~Oversize(s.messages[k])
        BY <2>2, <3>1
      <3> QED BY <3>1, <3>2 DEF Oversize
    <2> QED BY <2>1, <2>2
  <1>13. segments' = [segments EXCEPT ![at] = new]
    <2>1. [s EXCEPT !.messages = messages, !.tokens = Tokens(messages)] = new
      <3>1. IsSegment(s)
        BY <1>4 DEF Held, Segmented
      <3> HIDE DEF s, messages
      <3> QED BY <3>1, Renewed DEF new
    <2>2. segments' = [segments EXCEPT ![at] =
                         [s EXCEPT !.messages = messages,
                                   !.tokens = Tokens(messages)]]
      BY <1>1
    <2> QED BY <2>1, <2>2
  <1> HIDE DEF new, messages
  <1>14. /\ Segmented(segments') /\ Len(segments') = Len(segments)
         /\ DOMAIN segments' = DOMAIN segments
         /\ segments'[at] = new
         /\ \A k \in DOMAIN segments : k # at => segments'[k] = segments[k]
    <2>1. Segmented(segments)
      BY DEF Held
    <2>2. at \in DOMAIN segments
      BY <1>4
    <2>3. \A n, r : IsSegment(n) /\ r = [segments EXCEPT ![at] = n] =>
            /\ Segmented(r) /\ Len(r) = Len(segments)
            /\ DOMAIN r = DOMAIN segments /\ r[at] = n
            /\ \A k \in DOMAIN segments : k # at => r[k] = segments[k]
      BY <2>1, <2>2, Replaced
    <2> QED BY <1>11, <1>13, <2>3
  <1> QED BY <1>4, <1>7, <1>12, <1>14, <1>8, <1>9, <1>10 DEF new

LEMMA ReduceHolds ==
    ASSUME Held, reduceSegmentIfNeeded
    PROVE  Held'
  <1>1. /\ phase = "reduce" /\ phase' = "reduce" /\ at <= Len(segments)
        /\ at' = at + 1 /\ InputTypes' /\ Untouched'
        /\ toolCap' = toolCap /\ overhead' = overhead
    BY DEF reduceSegmentIfNeeded, Held, InputTypes, Fields, input, Untouched
  <1>2. at \in DOMAIN segments /\ Len(segments) \in Nat
        /\ DOMAIN segments = 1..Len(segments)
    <2>1. Len(segments) \in Nat /\ DOMAIN segments = 1..Len(segments)
      BY LenProperties DEF Held, Segmented
    <2> QED BY <2>1, ReduceMakes
  <1>3. PICK new :
          /\ CapHasRoom => Capped(new)
          /\ Segmented(segments') /\ Len(segments') = Len(segments)
          /\ segments'[at] = new
          /\ \A k \in DOMAIN segments : k # at => segments'[k] = segments[k]
    BY ReduceMakes
  <1>4. Reduced'
    <2> SUFFICES ASSUME CapHasRoom', NEW k \in 1 .. at' - 1
                 PROVE  Capped(segments[k])'
      BY <1>1 DEF Reduced
    <2>1. CapHasRoom
      BY <1>1 DEF CapHasRoom, estimateMessage
    <2>2. k \in DOMAIN segments /\ (k = at \/ k \in 1 .. at - 1)
      BY <1>1, <1>2
    <2>3. CASE k = at
      <3>1. segments'[k] = new /\ Capped(new)
        BY <1>3, <2>1, <2>3
      <3> QED BY <1>1, <3>1 DEF Capped, Oversize
    <2>4. CASE k # at
      <3>1. Capped(segments[k]) /\ segments'[k] = segments[k]
        BY <1>1, <1>3, <2>1, <2>2, <2>4 DEF Held, Reduced
      <3> QED BY <1>1, <3>1 DEF Capped, Oversize
    <2> QED BY <2>3, <2>4
  <1>5. Places' /\ NewestFirst'
    BY <1>1, <1>2, <1>3 DEF Places, NewestFirst, Untouched
  <1> QED BY <1>1, <1>3, <1>4, <1>5 DEF Held

-----------------------------------------------------------------------------
(* Charging the segments *)

LEMMA ThrowHolds ==
    ASSUME Held, ExactOutputTooLarge \/ PinnedTooLarge
    PROVE  Held'
  <1>1. /\ phase = "reduce"
        /\ phase' \in {"context_exact_tool_output_exceeded",
                       "context_budget_exceeded"}
        /\ segments' = segments /\ waiting' = waiting /\ dropped' = dropped
        /\ InputTypes'
    BY DEF ExactOutputTooLarge, PinnedTooLarge, Throw, input, Held, InputTypes,
           Fields
  <1>2. NewestFirst'
    BY <1>1 DEF Held, Untouched, NewestFirst
  <1> QED BY <1>1, <1>2 DEF Held, Places, Reduced

LEMMA SegmentsCost ==
    ASSUME Segmented(segments)
    PROVE  /\ IsFiniteSet(ToSet(segments))
           /\ \A s \in ToSet(segments) : s.tokens \in Nat /\ s.order \in Int
  <1>1. Len(segments) \in Nat /\ DOMAIN segments = 1..Len(segments)
    BY LenProperties DEF Segmented
  <1>2. IsFiniteSet(DOMAIN segments)
    BY <1>1, FS_Interval
  <1>3. IsFiniteSet(ToSet(segments))
    <2>1. segments \in Surjection(DOMAIN segments, ToSet(segments))
      BY DEF Surjection, ToSet, Segmented
    <2> QED BY <1>2, <2>1, FS_Surjection
  <1>4. \A s \in ToSet(segments) : IsSegment(s)
    BY DEF Segmented, ToSet
  <1> QED BY <1>3, <1>4, SegmentCosts DEF IsSegment

LEMMA ChargeHolds ==
    ASSUME Held, ChargePinned
    PROVE  Held'
  <1> DEFINE P == {s \in ToSet(segments) : IsPinned(s)}
  <1>1. /\ phase = "reduce" /\ phase' = "choose" /\ dropped' = {} /\ dropped = {}
        /\ at > Len(segments) /\ at' = at
        /\ segments' = segments /\ budget' = budget
        /\ waiting' = ToSet(segments) \ P
        /\ used' = SpecTokens + Cost(P) /\ used' <= budget
        /\ InputTypes' /\ toolCap' = toolCap /\ overhead' = overhead
    BY DEF ChargePinned, Held, Untouched, input, InputTypes, Fields, PinnedTokens
  <1>2. Taken' = P
    BY <1>1 DEF Taken
  <1>3. \A s \in ToSet(segments) : s \notin P => ~IsPinned(s)
    OBVIOUS
  <1>4. ASSUME NEW s \in waiting' PROVE NoOlder(s)' = P
    <2>1. NoOlder(s)' = {t \in P : IsPinned(t) \/ t.order >= s.order}
      BY <1>1 DEF NoOlder
    <2> QED BY <2>1
  <1> HIDE DEF P
  <1>5. Charged'
    BY <1>1, <1>2, <1>3, <1>4 DEF Charged
  <1>6. Reduced'
    <2> SUFFICES ASSUME CapHasRoom', NEW k \in DOMAIN segments
                 PROVE  Capped(segments[k])'
      BY <1>1 DEF Reduced
    <2>1. CapHasRoom
      BY <1>1 DEF CapHasRoom, estimateMessage
    <2>2. Len(segments) \in Nat /\ DOMAIN segments = 1..Len(segments)
      BY LenProperties DEF Held, Segmented
    <2>3. at \in Int
      BY <1>1, <2>2 DEF Held, Places
    <2>4. k \in 1 .. at - 1
      BY <1>1, <2>2, <2>3
    <2>5. Capped(segments[k])
      BY <1>1, <2>1, <2>4 DEF Held, Reduced
    <2> QED BY <1>1, <2>5 DEF Capped, Oversize
  <1>7. NewestFirst' /\ Places'
    BY <1>1 DEF NewestFirst, Places
  <1> QED BY <1>1, <1>5, <1>6, <1>7 DEF Held

-----------------------------------------------------------------------------
(* Choosing among the others *)

LEMMA NewestIs ==
    ASSUME Segmented(segments), waiting \subseteq ToSet(segments), waiting # {}
    PROVE  Newest \in waiting /\ \A t \in waiting : Newest.order >= t.order
  <1> DEFINE Has(T) == \E s \in T : \A t \in T : s.order >= t.order
             C == {T \in SUBSET waiting : T # {} /\ ~Has(T)}
  <1>1. /\ IsFiniteSet(waiting)
        /\ \A s \in waiting : s.order \in Int
    BY SegmentsCost, FS_Subset
  <1>2. ASSUME C # {} PROVE FALSE
    <2>1. \A T \in C : IsFiniteSet(T)
      BY <1>1, FS_Subset
    <2>2. PICK T \in C : \A U \in C : Cardinality(T) <= Cardinality(U)
      BY <1>2, <2>1, SmallestSet
    <2>3. PICK s : s \in T
      OBVIOUS
    <2>4. T \in SUBSET waiting /\ ~Has(T) /\ IsFiniteSet(T)
      BY <2>1, <2>2
    <2> HIDE DEF Has
    <2> DEFINE U == T \ {s}
    <2>5. U \in SUBSET waiting /\ U \notin C
      <3>1. /\ Cardinality(U) = Cardinality(T) - 1 /\ Cardinality(T) \in Nat
        BY <2>3, <2>4, FS_RemoveElement, FS_CardinalityType
      <3> QED BY <2>2, <2>4, <3>1
    <2>6. CASE U = {}
      <3>1. T = {s} /\ s.order \in Int
        BY <1>1, <2>3, <2>4, <2>6
      <3>2. Has(T)
        BY <3>1 DEF Has
      <3> QED BY <2>4, <3>2
    <2>7. CASE U # {}
      <3>1. PICK m \in U : \A t \in U : m.order >= t.order
        BY <2>5, <2>7 DEF Has
      <3>2. \A t \in T : t = s \/ t \in U
        OBVIOUS
      <3>3. m \in T /\ \A t \in T : t.order \in Int
        BY <1>1, <2>4
      <3>4. CASE m.order >= s.order
        <4>1. \A t \in T : m.order >= t.order
          BY <3>1, <3>2, <3>4
        <4> QED BY <2>4, <3>3, <4>1 DEF Has
      <3>5. CASE ~(m.order >= s.order)
        <4>1. \A t \in T : s.order >= t.order
          <5>1. s.order \in Int /\ m.order \in Int
            BY <2>3, <3>3
          <5>2. ASSUME NEW t \in U PROVE s.order >= t.order
            <6>1. t.order \in Int /\ m.order >= t.order
              BY <3>1, <3>3
            <6> QED BY <3>5, <5>1, <6>1
          <5> QED BY <3>2, <5>1, <5>2
        <4> QED BY <2>3, <2>4, <4>1 DEF Has
      <3> QED BY <3>4, <3>5
    <2> QED BY <2>6, <2>7
  <1>3. \E s \in waiting : \A t \in waiting : s.order >= t.order
    BY <1>2
  <1> QED BY <1>3 DEF Newest

LEMMA CostOfOneMore ==
    ASSUME Segmented(segments), NEW S, NEW s \in ToSet(segments), s \notin S,
           S \subseteq ToSet(segments)
    PROVE  /\ Cost(S) \in Nat /\ s.tokens \in Nat
           /\ Cost(S \cup {s}) = s.tokens + Cost(S)
  <1>1. S \cup {s} \subseteq ToSet(segments) /\ s.tokens \in Nat
    BY SegmentsCost
  <1>2. IsFiniteSet(S \cup {s}) /\ \A t \in S \cup {s} : t.tokens \in Nat
    BY <1>1, SegmentsCost, FS_Subset
  <1>3. IsFiniteSet(S) /\ \A t \in S : t.tokens \in Nat
    BY <1>2, FS_Subset
  <1>4. (S \cup {s}) \ {s} = S
    OBVIOUS
  <1>5. Cost(S) \in Nat
    BY <1>3, CostGrows
  <1>6. \A t \in S \cup {s} : Cost(S \cup {s}) = t.tokens + Cost((S \cup {s}) \ {t})
    BY <1>2, CostGrows
  <1> QED BY <1>1, <1>4, <1>5, <1>6

LEMMA NoOlderIs == \A s : NoOlder(s) = {t \in Taken : IsPinned(t) \/ t.order >= s.order}
  BY DEF NoOlder, Taken

LEMMA NoOlderIsThen ==
    (\A s : NoOlder(s) = {t \in Taken : IsPinned(t) \/ t.order >= s.order})'
  BY NoOlderIs, PTL

\* What both ways of visiting the newest segment share.
LEMMA VisitHolds ==
    ASSUME Held, phase = "choose", waiting # {},
           waiting' = waiting \ {Newest},
           UNCHANGED <<input, phase, at, segments>>,
           Charged', NewestFirst'
    PROVE  Held'
  <1>1. /\ phase' = "choose" /\ segments' = segments /\ InputTypes'
        /\ toolCap' = toolCap /\ overhead' = overhead
    BY DEF Held, InputTypes, Fields, input
  <1>2. Reduced'
    BY <1>1 DEF Held, Reduced, Capped, Oversize, CapHasRoom, estimateMessage
  <1> QED BY <1>1, <1>2 DEF Held, Places

LEMMA DropHolds ==
    ASSUME Held, Drop
    PROVE  Held'
  <1> DEFINE n == Newest
  <1>1. /\ phase = "choose" /\ waiting # {} /\ used + n.tokens > budget
        /\ dropped' = dropped \cup {n} /\ waiting' = waiting \ {n}
        /\ UNCHANGED <<input, phase, at, segments>>
        /\ segments' = segments /\ used' = used /\ budget' = budget
    BY DEF Drop, input
  <1>2. Charged /\ NewestFirst /\ Segmented(segments)
    BY <1>1 DEF Held
  <1>3. n \in waiting
    BY <1>1, <1>2, NewestIs DEF Charged
  <1> HIDE DEF n
  <1>4. Taken' = Taken
    BY <1>1, <1>3 DEF Taken
  <1>5. \A s : NoOlder(s)' = NoOlder(s)
    BY <1>4, NoOlderIs, NoOlderIsThen
  <1>6. Charged'
    BY <1>1, <1>2, <1>3, <1>4, <1>5 DEF Charged
  <1>7. SpecTokens + Cost(NoOlder(n)) + n.tokens > budget
    BY <1>1, <1>2, <1>3 DEF Charged
  <1>8. NewestFirst'
    BY <1>1, <1>2, <1>5, <1>7 DEF NewestFirst
  <1> QED BY <1>1, <1>6, <1>8, VisitHolds DEF n

LEMMA KeepHolds ==
    ASSUME Held, Keep
    PROVE  Held'
  <1> DEFINE n == Newest
  <1>1. /\ phase = "choose" /\ waiting # {} /\ used + n.tokens <= budget
        /\ dropped' = dropped /\ waiting' = waiting \ {n}
        /\ UNCHANGED <<input, phase, at, segments>>
        /\ segments' = segments /\ used' = used + n.tokens /\ budget' = budget
    BY DEF Keep, input
  <1>2. Charged /\ NewestFirst /\ Segmented(segments) /\ budget \in Int
    BY <1>1 DEF Held, InputTypes
  <1>3. n \in waiting /\ \A t \in waiting : n.order >= t.order
    BY <1>1, <1>2, NewestIs DEF Charged
  <1> HIDE DEF n
  <1>4. /\ n \in ToSet(segments) /\ n \notin dropped /\ n \notin Taken
        /\ Taken \subseteq ToSet(segments)
    BY <1>2, <1>3 DEF Charged, Taken
  <1>5. Taken' = Taken \cup {n}
    BY <1>1, <1>3, <1>4 DEF Taken
  <1>6. /\ Cost(Taken) \in Nat /\ n.tokens \in Nat
        /\ Cost(Taken \cup {n}) = n.tokens + Cost(Taken)
    BY <1>2, <1>4, CostOfOneMore
  <1>7. ASSUME NEW s \in waiting' PROVE Taken' = NoOlder(s)'
    <2>1. s \in waiting /\ Taken = NoOlder(s)
      BY <1>1, <1>2 DEF Charged
    <2>2. \A t \in Taken : IsPinned(t) \/ t.order >= s.order
      BY <2>1, NoOlderIs
    <2>3. n.order >= s.order
      BY <1>3, <2>1
    <2> QED BY <1>5, <2>2, <2>3, NoOlderIsThen
  <1>8. Charged'
    <2>1. used = SpecTokens + Cost(Taken)
      BY <1>2 DEF Charged
    <2>2. used' = SpecTokens + Cost(Taken')
      BY <1>1, <1>5, <1>6, <2>1
    <2> QED BY <1>1, <1>2, <1>7, <2>2 DEF Charged
  <1>9. ASSUME NEW s \in dropped
        PROVE  SpecTokens + Cost(NoOlder(s)') + s.tokens > budget
    <2>1. NoOlder(s) \subseteq Taken
      BY NoOlderIs
    <2>2. NoOlder(s)' = NoOlder(s) \/ NoOlder(s)' = NoOlder(s) \cup {n}
      BY <1>5, NoOlderIs, NoOlderIsThen
    <2>3. /\ Cost(NoOlder(s)) \in Nat
          /\ Cost(NoOlder(s) \cup {n}) = n.tokens + Cost(NoOlder(s))
      BY <1>2, <1>4, <2>1, CostOfOneMore
    <2>4. s.tokens \in Nat
      BY <1>2, SegmentsCost DEF Charged
    <2>5. SpecTokens + Cost(NoOlder(s)) + s.tokens > budget
      BY <1>2 DEF NewestFirst
    <2> QED BY <1>2, <1>6, <2>2, <2>3, <2>4, <2>5
  <1>10. NewestFirst'
    BY <1>1, <1>9 DEF NewestFirst
  <1> QED BY <1>1, <1>8, <1>10, VisitHolds DEF n

LEMMA StayHolds ==
    ASSUME Held, Assemble \/ UNCHANGED vars
    PROVE  Held'
  <1>1. /\ segments' = segments /\ waiting' = waiting /\ dropped' = dropped
        /\ used' = used /\ budget' = budget /\ request' = request /\ at' = at
        /\ toolCap' = toolCap /\ overhead' = overhead /\ InputTypes'
        /\ \/ phase' = phase
           \/ phase = "choose" /\ phase' \in {"done", "invalid"}
    <2>1. CASE UNCHANGED vars
      <3>1. UNCHANGED <<input, phase, at, segments, used, waiting, dropped>>
        BY <2>1 DEF vars
      <3> QED BY <3>1 DEF Held, InputTypes, Fields, input
    <2>2. CASE Assemble
      <3>1. phase = "choose" /\ phase' \in {"done", "invalid"}
        BY <2>2 DEF Assemble
      <3>2. UNCHANGED <<input, at, segments, used, waiting, dropped>>
        BY <2>2 DEF Assemble
      <3> QED BY <3>1, <3>2 DEF Held, InputTypes, Fields, input
    <2> QED BY <2>1, <2>2
  <1>2. NewestFirst' /\ (Charged => Charged') /\ (Untouched => Untouched')
    BY <1>1 DEF Held, NewestFirst, Charged, Untouched, Taken, NoOlder
  <1>3. Reduced' /\ Places'
    BY <1>1 DEF Held, Reduced, Capped, Oversize, CapHasRoom, estimateMessage,
       Places
  <1> QED BY <1>1, <1>2, <1>3 DEF Held

LEMMA HeldStep ==
    ASSUME Held, [Next]_vars
    PROVE  Held'
  <1>1. CASE ReadSystem \/ ReadRun \/ ReadOrphan \/ ReadTalk
    BY <1>1, ReadingHolds
  <1>2. CASE Built
    BY <1>2, BuiltHolds
  <1>3. CASE reduceSegmentIfNeeded
    BY <1>3, ReduceHolds
  <1>4. CASE ExactOutputTooLarge \/ PinnedTooLarge
    BY <1>4, ThrowHolds
  <1>5. CASE ChargePinned
    BY <1>5, ChargeHolds
  <1>6. CASE Keep
    BY <1>6, KeepHolds
  <1>7. CASE Drop
    BY <1>7, DropHolds
  <1>8. CASE Assemble \/ UNCHANGED vars
    BY <1>8, StayHolds
  <1> QED BY <1>1, <1>2, <1>3, <1>4, <1>5, <1>6, <1>7, <1>8 DEF Next

LEMMA HeldAlways == Spec => []Held
  <1>1. Init => Held
    BY HeldInit
  <1>2. Held /\ [Next]_vars => Held'
    BY HeldStep
  <1> QED BY <1>1, <1>2, PTL DEF Spec

-----------------------------------------------------------------------------
(* Six attempts of createHeadTailReduction are enough whatever the texts,   *)
(* the cap and the fields beside the text, if the cap has room: an output   *)
(* of the turn in progress that goes to the model is within the cap.        *)
THEOREM OutputsFit == Spec => []CapHolds
  <1>1. Held => CapHolds
    <2> SUFFICES ASSUME Held, phase \in {"choose", "done"}, CapHasRoom,
                        NEW k \in DOMAIN segments
                 PROVE  Capped(segments[k])
      BY DEF CapHolds, Capped, ToSet
    <2> QED BY DEF Held, Reduced
  <1> QED BY <1>1, HeldAlways, PTL

(* Whatever the messages, the memory and the budget: a segment is dropped   *)
(* only when it does not fit beside the pinned ones and those kept that are *)
(* no older.                                                                *)
THEOREM NewestAlwaysFirst == Spec => []NewestFirst
  <1>1. Held => NewestFirst
    BY DEF Held
  <1> QED BY <1>1, HeldAlways, PTL

(* From the first charge to the end of the assembly, usedTokens is the sum  *)
(* of the tool schemas and of the segments taken, each counted once and     *)
(* every pinned one among them, and it is within the budget.                *)
THEOREM ChargesFitTheBudget ==
    Spec => [](phase \in {"choose", "done", "invalid"} =>
                 /\ used = SpecTokens + Cost(Taken) /\ used <= budget
                 /\ \A s \in ToSet(segments) : IsPinned(s) => s \in Taken)
  <1>1. Held => (phase \in {"choose", "done", "invalid"} =>
                   /\ used = SpecTokens + Cost(Taken) /\ used <= budget
                   /\ \A s \in ToSet(segments) : IsPinned(s) => s \in Taken)
    BY DEF Held, Charged, Taken
  <1> QED BY <1>1, HeldAlways, PTL

-----------------------------------------------------------------------------
(* Sequences put one behind the other *)

LEMMA Upwards ==
    ASSUME NEW n \in Nat, NEW good, n >= 1 => 1 \in good,
           \A i \in 2..n : i - 1 \in good => i \in good
    PROVE  1..n \subseteq good
  <1> DEFINE bad == {i \in 1..n : i \notin good}
  <1>1. ASSUME bad # {} PROVE FALSE
    <2>1. bad \in SUBSET Nat
      OBVIOUS
    <2>2. PICK m \in bad : \A i \in bad : m <= i
      <3> HIDE DEF bad
      <3> QED BY <1>1, <2>1, LeastNat
    <2>3. m \in 1..n /\ m \notin good
      BY <2>2
    <2>4. m # 1
      BY <2>3
    <2>5. m \in 2..n /\ m - 1 \in 1..n /\ ~(m <= m - 1)
      BY <2>3, <2>4
    <2>6. m - 1 \in good
      BY <2>2, <2>5
    <2> QED BY <2>3, <2>5, <2>6
  <1> QED BY <1>1

\* flat[i] is the first i sequences put together.
Flattens(seqs, flat) ==
    flat = [i \in 1..Len(seqs) |->
              IF i = 1 THEN seqs[i] ELSE flat[i - 1] \o seqs[i]]

LEMMA FlatExists ==
    ASSUME NEW seqs, Len(seqs) \in Nat
    PROVE  \E flat : Flattens(seqs, flat)
  <1> DEFINE n == Len(seqs)
             Next1(g, i) == IF i = 1 THEN seqs[i] ELSE g[i - 1] \o seqs[i]
             Upto(g, m) == \A i \in 1..m : g[i] = Next1(g, i)
             good == {m \in 1..n : \E g : Upto(g, m)}
  <1> HIDE DEF Next1
  <1>1. n >= 1 => 1 \in good
    <2> DEFINE g == [i \in 1..n |-> seqs[i]]
    <2>1. n >= 1 => Upto(g, 1)
      BY DEF Next1
    <2> QED BY <2>1
  <1>2. ASSUME NEW m \in 2..n, m - 1 \in good
        PROVE  m \in good
    <2>1. PICK g : Upto(g, m - 1)
      BY <1>2
    <2> DEFINE h == [i \in 1..n |-> Next1(g, i)]
    <2>2. ASSUME NEW i \in 1..m PROVE h[i] = Next1(h, i)
      <3>1. i \in 1..n /\ h[i] = Next1(g, i)
        OBVIOUS
      <3>2. CASE i = 1
        BY <3>1, <3>2 DEF Next1
      <3>3. CASE i # 1
        <4>1. i - 1 \in 1..m - 1 /\ i - 1 \in 1..n
          BY <3>3
        <4>2. h[i - 1] = g[i - 1]
          BY <2>1, <4>1
        <4> HIDE DEF h
        <4> QED BY <3>1, <3>3, <4>2 DEF Next1
      <3> QED BY <3>2, <3>3
    <2> HIDE DEF h
    <2>3. Upto(h, m)
      BY <2>2
    <2> QED BY <2>3
  <1>3. 1..n \subseteq good
    <2> HIDE DEF good
    <2> QED BY <1>1, <1>2, Upwards
  <1>4. \E g : Upto(g, n)
    <2>1. CASE n = 0
      BY <2>1
    <2>2. CASE n # 0
      <3>1. n \in 1..n
        BY <2>2
      <3> QED BY <1>3, <3>1
    <2> QED BY <2>1, <2>2
  <1>5. PICK g : Upto(g, n)
    BY <1>4
  <1> DEFINE h == [i \in 1..n |-> g[i]]
  <1>6. ASSUME NEW i \in 1..n PROVE h[i] = Next1(h, i)
    <2>1. h[i] = Next1(g, i)
      BY <1>5
    <2>2. i # 1 => h[i - 1] = g[i - 1]
      OBVIOUS
    <2> HIDE DEF h
    <2> QED BY <2>1, <2>2 DEF Next1
  <1>7. h = [i \in 1..n |-> Next1(h, i)]
    BY <1>6
  <1> HIDE DEF h
  <1>8. Flattens(seqs, h)
    BY <1>7 DEF Flattens, Next1
  <1> QED BY <1>8

\* The sequences in seqs with n of them, and what they make together.
Piles(seqs, n, flat) ==
    /\ n >= 1 => flat[1] = seqs[1]
    /\ \A i \in 2..n : flat[i] = flat[i - 1] \o seqs[i]

LEMMA FlattenPiles ==
    ASSUME NEW seqs, Len(seqs) \in Nat
    PROVE  /\ Len(seqs) = 0 => FlattenSeq(seqs) = seqs
           /\ Len(seqs) # 0 =>
                \E flat : /\ Piles(seqs, Len(seqs), flat)
                          /\ FlattenSeq(seqs) = flat[Len(seqs)]
  <1> DEFINE found == CHOOSE flat : Flattens(seqs, flat)
  <1>1. Flattens(seqs, found)
    BY FlatExists
  <1>2. Len(seqs) # 0 => FlattenSeq(seqs) = found[Len(seqs)]
    BY DEF FlattenSeq, Flattens
  <1> HIDE DEF found
  <1>3. Piles(seqs, Len(seqs), found)
    <2>1. \A i \in 1..Len(seqs) :
            found[i] = IF i = 1 THEN seqs[i] ELSE found[i - 1] \o seqs[i]
      BY <1>1 DEF Flattens
    <2>2. Len(seqs) >= 1 => found[1] = seqs[1]
      BY <2>1
    <2>3. \A i \in 2..Len(seqs) : i \in 1..Len(seqs) /\ i # 1
      OBVIOUS
    <2>4. \A i \in 2..Len(seqs) : found[i] = found[i - 1] \o seqs[i]
      BY <2>1, <2>3
    <2> QED BY <2>2, <2>4 DEF Piles
  <1>4. Len(seqs) = 0 => FlattenSeq(seqs) = seqs
    BY DEF FlattenSeq
  <1> QED BY <1>2, <1>3, <1>4

\* What one more of them adds.
LEMMA OnePileMore ==
    ASSUME NEW seqs, NEW flat, NEW n, Piles(seqs, n, flat), NEW i \in 2..n
    PROVE  flat[i] = flat[i - 1] \o seqs[i]
  BY Zenon DEF Piles

\* What comes before each of them when they are put together.
Offset(seqs, flat, k) == Len(flat[k]) - Len(seqs[k])

LEMMA PilesGrow ==
    ASSUME NEW S, NEW seqs \in Seq(Seq(S)), NEW flat, Piles(seqs, Len(seqs), flat)
    PROVE  /\ \A i \in 1..Len(seqs) : flat[i] \in Seq(S) /\ seqs[i] \in Seq(S)
           /\ \A i \in 1..Len(seqs) : Offset(seqs, flat, i) \in Nat
           /\ Len(seqs) >= 1 => Offset(seqs, flat, 1) = 0
           /\ \A i \in 2..Len(seqs) : Offset(seqs, flat, i) = Len(flat[i - 1])
  <1> DEFINE n == Len(seqs)
             good == {i \in 1..n : flat[i] \in Seq(S)}
  <1>1. n \in Nat /\ \A k \in 1..n : seqs[k] \in Seq(S) /\ Len(seqs[k]) \in Nat
    OBVIOUS
  <1>2. n >= 1 => 1 \in good /\ flat[1] = seqs[1]
    BY <1>1 DEF Piles
  <1>3. ASSUME NEW i \in 2..n, i - 1 \in good PROVE i \in good
    <2>1. flat[i] = flat[i - 1] \o seqs[i]
      BY OnePileMore
    <2>2. i \in 1..n /\ flat[i - 1] \in Seq(S) /\ seqs[i] \in Seq(S)
      BY <1>1, <1>3
    <2>3. flat[i] \in Seq(S)
      BY <2>1, <2>2, ConcatProperties
    <2> QED BY <2>2, <2>3
  <1>4. 1..n \subseteq good
    <2> HIDE DEF good
    <2> QED BY <1>1, <1>2, <1>3, Upwards
  <1>5. \A i \in 1..n : flat[i] \in Seq(S) /\ Len(flat[i]) \in Nat
    BY <1>4, LenProperties
  <1>6. n >= 1 => Offset(seqs, flat, 1) = 0
    BY <1>1, <1>2 DEF Offset
  <1>7. ASSUME NEW i \in 2..n PROVE Offset(seqs, flat, i) = Len(flat[i - 1])
    <2>0. flat[i] = flat[i - 1] \o seqs[i]
      BY OnePileMore
    <2>1. i \in 1..n /\ i - 1 \in 1..n /\ flat[i] = flat[i - 1] \o seqs[i]
      BY <1>1, <2>0
    <2>2. Len(flat[i]) = Len(flat[i - 1]) + Len(seqs[i])
      BY <1>1, <1>5, <2>1, ConcatProperties
    <2> QED BY <1>1, <1>5, <2>1, <2>2 DEF Offset
  <1>8. ASSUME NEW i \in 1..n PROVE Offset(seqs, flat, i) \in Nat
    <2>1. CASE i = 1
      BY <1>6, <2>1
    <2>2. CASE i # 1
      <3>1. i \in 2..n /\ i - 1 \in 1..n
        BY <2>2
      <3> QED BY <1>5, <1>7, <3>1
    <2> QED BY <2>1, <2>2
  <1> QED BY <1>1, <1>5, <1>6, <1>7, <1>8

\* The first i of them lie one behind the other in whole.
Laid(seqs, flat, whole, i) ==
    /\ \A k \in 1..i : \A p \in 1..Len(seqs[k]) :
         /\ Offset(seqs, flat, k) + p \in 1..Len(whole)
         /\ whole[Offset(seqs, flat, k) + p] = seqs[k][p]
    /\ \A x \in 1..Len(whole) : \E k \in 1..i : \E p \in 1..Len(seqs[k]) :
         x = Offset(seqs, flat, k) + p
    /\ \A k \in 1..i : Offset(seqs, flat, k) + Len(seqs[k]) <= Len(whole)

LEMMA PilesLie ==
    ASSUME NEW S, NEW seqs \in Seq(Seq(S)), NEW flat, Piles(seqs, Len(seqs), flat)
    PROVE  \A i \in 1..Len(seqs) : Laid(seqs, flat, flat[i], i)
  <1> DEFINE n == Len(seqs)
             off(k) == Offset(seqs, flat, k)
             good == {i \in 1..n : Laid(seqs, flat, flat[i], i)}
  <1>1. n \in Nat /\ \A k \in 1..n : /\ seqs[k] \in Seq(S) /\ flat[k] \in Seq(S)
                                     /\ off(k) \in Nat
    BY PilesGrow
  <1>2. \A k \in 1..n : Len(seqs[k]) \in Nat /\ Len(flat[k]) \in Nat
    BY <1>1
  <1>3. /\ n >= 1 => off(1) = 0
        /\ \A k \in 2..n : off(k) = Len(flat[k - 1])
    BY PilesGrow
  <1> HIDE DEF off
  <1>4. n >= 1 => 1 \in good
    <2> SUFFICES ASSUME n >= 1 PROVE 1 \in good
      OBVIOUS
    <2>1. 1 \in 1..n /\ flat[1] = seqs[1] /\ off(1) = 0
      BY <1>1, <1>3 DEF Piles
    <2>2. Len(flat[1]) = Len(seqs[1]) /\ Len(seqs[1]) \in Nat
      BY <1>2, <2>1
    <2>3. \A k \in 1..1 : k = 1
      OBVIOUS
    <2>4. \A k \in 1..1 : \A p \in 1..Len(seqs[k]) :
            off(k) + p \in 1..Len(flat[1]) /\ flat[1][off(k) + p] = seqs[k][p]
      BY <2>1, <2>2, <2>3
    <2>5. \A x \in 1..Len(flat[1]) : \E k \in 1..1 : \E p \in 1..Len(seqs[k]) :
            x = off(k) + p
      <3>1. \A x \in 1..Len(flat[1]) : x \in 1..Len(seqs[1]) /\ x = off(1) + x
        BY <2>1, <2>2
      <3> QED BY <3>1
    <2>6. \A k \in 1..1 : off(k) + Len(seqs[k]) <= Len(flat[1])
      BY <2>1, <2>2, <2>3
    <2>7. Laid(seqs, flat, flat[1], 1)
      BY <2>4, <2>5, <2>6 DEF Laid, off
    <2> QED BY <2>1, <2>7
  <1>5. ASSUME NEW i \in 2..n, i - 1 \in good
        PROVE  i \in good
    <2> DEFINE x == flat[i - 1]
               y == seqs[i]
               z == flat[i]
    <2>0. z = x \o y
      BY OnePileMore
    <2>1. /\ x \in Seq(S) /\ Laid(seqs, flat, x, i - 1)
          /\ y \in Seq(S) /\ i \in 1..n /\ z = x \o y /\ off(i) = Len(x)
      BY <1>1, <1>3, <1>5, <2>0
    <2>2. /\ z \in Seq(S) /\ Len(z) = Len(x) + Len(y)
          /\ Len(x) \in Nat /\ Len(y) \in Nat
          /\ \A k \in 1..Len(x) + Len(y) :
               z[k] = IF k <= Len(x) THEN x[k] ELSE y[k - Len(x)]
      <3> HIDE DEF x, y, z
      <3> QED BY <2>1, ConcatProperties, LenProperties
    <2> HIDE DEF x, y, z
    <2>4. \A k \in 1..i : k \in 1..i - 1 \/ k = i
      OBVIOUS
    <2>5. ASSUME NEW k \in 1..i, NEW p \in 1..Len(seqs[k])
          PROVE  off(k) + p \in 1..Len(z) /\ z[off(k) + p] = seqs[k][p]
      <3>1. CASE k \in 1..i - 1
        <4>1. /\ off(k) + p \in 1..Len(x) /\ x[off(k) + p] = seqs[k][p]
          BY <2>1, <2>5, <3>1 DEF Laid, off
        <4> QED BY <2>2, <4>1
      <3>2. CASE k = i
        <4>1. p \in 1..Len(y) /\ off(k) = Len(x)
          BY <2>1, <2>5, <3>2 DEF y
        <4>2. /\ Len(x) + p \in 1..Len(x) + Len(y) /\ ~(Len(x) + p <= Len(x))
              /\ Len(x) + p - Len(x) = p
          BY <2>2, <4>1
        <4>3. z[Len(x) + p] = y[p]
          BY <2>2, <4>2
        <4> QED BY <2>2, <3>2, <4>1, <4>2, <4>3 DEF y
      <3> QED BY <2>4, <3>1, <3>2
    <2>6. ASSUME NEW q \in 1..Len(z)
          PROVE  \E k \in 1..i : \E p \in 1..Len(seqs[k]) : q = off(k) + p
      <3>1. CASE q <= Len(x)
        <4>1. q \in 1..Len(x)
          BY <2>2, <3>1
        <4>2. PICK k \in 1..i - 1 : \E p \in 1..Len(seqs[k]) : q = off(k) + p
          BY <2>1, <4>1 DEF Laid, off
        <4>3. k \in 1..i
          OBVIOUS
        <4> QED BY <4>2, <4>3
      <3>2. CASE ~(q <= Len(x))
        <4>1. q - Len(x) \in 1..Len(y) /\ q = Len(x) + (q - Len(x)) /\ i \in 1..i
          BY <2>2, <3>2
        <4> QED BY <2>1, <4>1 DEF y
      <3> QED BY <3>1, <3>2
    <2>7. ASSUME NEW k \in 1..i
          PROVE  off(k) + Len(seqs[k]) <= Len(z)
      <3>1. CASE k \in 1..i - 1
        <4>1. off(k) + Len(seqs[k]) <= Len(x)
          BY <2>1, <3>1 DEF Laid, off
        <4>2. k \in 1..n
          BY <3>1
        <4>3. off(k) \in Nat /\ Len(seqs[k]) \in Nat
          BY <1>1, <1>2, <4>2
        <4> QED BY <2>2, <4>1, <4>3
      <3>2. CASE k = i
        BY <2>1, <2>2, <3>2 DEF y
      <3> QED BY <2>4, <3>1, <3>2
    <2>8. Laid(seqs, flat, z, i)
      BY <2>5, <2>6, <2>7 DEF Laid, off
    <2> QED BY <2>1, <2>8 DEF z
  <1>6. 1..n \subseteq good
    <2> HIDE DEF good
    <2> QED BY <1>1, <1>4, <1>5, Upwards
  <1> QED BY <1>6

\* A sequence of segments, as far as their messages go.
Filled(segs) ==
    /\ Len(segs) \in Nat /\ DOMAIN segs = 1..Len(segs)
    /\ \A k \in 1..Len(segs) : segs[k].messages \in Seq(Message)

\* Message p of segment k stands at place[k] + p, and nothing else does.
Spread(segs, whole, place) ==
    /\ \A k \in 1..Len(segs) : place[k] \in Nat
    /\ \A k \in 1..Len(segs) : \A p \in 1..Len(segs[k].messages) :
         /\ place[k] + p \in 1..Len(whole)
         /\ whole[place[k] + p] = segs[k].messages[p]
    /\ \A x \in 1..Len(whole) :
         \E k \in 1..Len(segs) : \E p \in 1..Len(segs[k].messages) :
           x = place[k] + p
    /\ \A j, k \in 1..Len(segs) :
         j < k => place[j] + Len(segs[j].messages) <= place[k]

LEMMA MessagesPile ==
    ASSUME NEW segs, Filled(segs)
    PROVE  LET seqs == [k \in DOMAIN segs |-> segs[k].messages] IN
           /\ seqs \in Seq(Seq(Message)) /\ Len(seqs) = Len(segs)
           /\ Len(segs) = 0 => MessagesOf(segs) = <<>>
           /\ Len(segs) # 0 =>
                \E flat : /\ Piles(seqs, Len(seqs), flat)
                          /\ MessagesOf(segs) = flat[Len(seqs)]
  <1> DEFINE seqs == [k \in DOMAIN segs |-> segs[k].messages]
             n == Len(segs)
  <1>1. n \in Nat /\ DOMAIN segs = 1..n /\ \A k \in 1..n : segs[k].messages \in Seq(Message)
    BY DEF Filled
  <1>2. seqs \in [1..n -> Seq(Message)] /\ DOMAIN seqs = 1..n
    BY <1>1
  <1>3. MessagesOf(segs) = FlattenSeq(seqs)
    BY DEF MessagesOf
  <1> HIDE DEF seqs, n
  <1>4. seqs \in Seq(Seq(Message)) /\ Len(seqs) = n
    BY <1>1, <1>2, FunctionIsSeq
  <1>5. /\ Len(seqs) = 0 => FlattenSeq(seqs) = seqs
        /\ Len(seqs) # 0 =>
             \E flat : /\ Piles(seqs, Len(seqs), flat)
                       /\ FlattenSeq(seqs) = flat[Len(seqs)]
    <2>1. Len(seqs) \in Nat
      BY <1>1, <1>4
    <2> QED BY <2>1, FlattenPiles
  <1>6. Len(seqs) = 0 => seqs = <<>>
    BY <1>4
  <1>7. n = 0 => MessagesOf(segs) = <<>>
    BY <1>3, <1>4, <1>5, <1>6
  <1>8. n # 0 => \E flat : /\ Piles(seqs, Len(seqs), flat)
                           /\ MessagesOf(segs) = flat[Len(seqs)]
    BY <1>3, <1>4, <1>5
  <1>9. /\ seqs \in Seq(Seq(Message)) /\ Len(seqs) = n
        /\ n = 0 => MessagesOf(segs) = <<>>
        /\ n # 0 =>
             \E flat : /\ Piles(seqs, Len(seqs), flat)
                       /\ MessagesOf(segs) = flat[Len(seqs)]
    BY <1>4, <1>7, <1>8
  <1> QED BY <1>9 DEF seqs, n

LEMMA MessagesSpread ==
    ASSUME NEW segs, Filled(segs)
    PROVE  /\ MessagesOf(segs) \in Seq(Message)
           /\ \E place : Spread(segs, MessagesOf(segs), place)
  <1> DEFINE seqs == [k \in DOMAIN segs |-> segs[k].messages]
             n == Len(segs)
  <1>1. n \in Nat /\ \A k \in 1..n : seqs[k] = segs[k].messages
    BY DEF Filled
  <1>2. /\ seqs \in Seq(Seq(Message)) /\ Len(seqs) = n
        /\ n = 0 => MessagesOf(segs) = <<>>
        /\ n # 0 =>
             \E flat : /\ Piles(seqs, Len(seqs), flat)
                       /\ MessagesOf(segs) = flat[Len(seqs)]
    BY MessagesPile
  <1> HIDE DEF seqs
  <1>3. CASE n = 0
    <2>1. Spread(segs, <<>>, <<>>)
      BY <1>3 DEF Spread
    <2> QED BY <1>2, <1>3, <2>1
  <1>4. CASE n # 0
    <2>1. PICK flat : Piles(seqs, Len(seqs), flat) /\ MessagesOf(segs) = flat[n]
      BY <1>2, <1>4
    <2> DEFINE off(k) == Offset(seqs, flat, k)
               place == [k \in 1..n |-> off(k)]
               whole == MessagesOf(segs)
    <2>2. n \in 1..n /\ n \in Nat
      BY <1>1, <1>4
    <2>3. /\ \A i \in 1..n : flat[i] \in Seq(Message) /\ seqs[i] \in Seq(Message)
          /\ \A i \in 1..n : off(i) \in Nat
          /\ \A i \in 2..n : off(i) = Len(flat[i - 1])
      BY <1>2, <2>1, PilesGrow
    <2>4. \A i \in 1..n : Laid(seqs, flat, flat[i], i)
      BY <1>2, <2>1, PilesLie
    <2>5. whole \in Seq(Message) /\ Laid(seqs, flat, whole, n)
      BY <2>1, <2>2, <2>3, <2>4
    <2>6. ASSUME NEW j \in 1..n, NEW k \in 1..n, j < k
          PROVE  off(j) + Len(seqs[j]) <= off(k)
      <3>1. k - 1 \in 1..n /\ k \in 2..n /\ j \in 1..k - 1
        BY <2>6
      <3>2. Laid(seqs, flat, flat[k - 1], k - 1)
        BY <2>4, <3>1
      <3>3. off(j) + Len(seqs[j]) <= Len(flat[k - 1])
        BY <3>1, <3>2 DEF Laid
      <3> HIDE DEF off
      <3> QED BY <2>3, <3>1, <3>3
    <2>7. \A k \in 1..n : place[k] = off(k)
      OBVIOUS
    <2>8. /\ \A k \in 1..n : \A p \in 1..Len(seqs[k]) :
               /\ off(k) + p \in 1..Len(whole)
               /\ whole[off(k) + p] = seqs[k][p]
          /\ \A x \in 1..Len(whole) : \E k \in 1..n : \E p \in 1..Len(seqs[k]) :
               x = off(k) + p
      BY <2>5 DEF Laid
    <2> HIDE DEF off, place, whole
    <2>9. Spread(segs, whole, place)
      <3>1. \A k \in 1..n : place[k] \in Nat
        BY <2>3, <2>7
      <3>2. \A k \in 1..n : \A p \in 1..Len(segs[k].messages) :
              /\ place[k] + p \in 1..Len(whole)
              /\ whole[place[k] + p] = segs[k].messages[p]
        BY <1>1, <2>7, <2>8
      <3>3. \A x \in 1..Len(whole) :
              \E k \in 1..n : \E p \in 1..Len(segs[k].messages) : x = place[k] + p
        BY <1>1, <2>7, <2>8
      <3>4. \A j, k \in 1..n : j < k => place[j] + Len(segs[j].messages) <= place[k]
        BY <1>1, <2>6, <2>7
      <3> QED BY <3>1, <3>2, <3>3, <3>4 DEF Spread
    <2>10. MessagesOf(segs) \in Seq(Message) /\ Spread(segs, MessagesOf(segs), place)
      BY <2>5, <2>9 DEF whole
    <2> QED BY <2>10
  <1> QED BY <1>3, <1>4

-----------------------------------------------------------------------------
(* What they cost together *)

LEMMA SumSplits ==
    ASSUME NEW a \in Nat, NEW b \in Nat, NEW g, NEW h,
           \A i \in 1..a + b : g[i] \in Nat,
           \A j \in 1..b : h[j] = g[a + j]
    PROVE  SumOf(g, 1..a + b) = SumOf(g, 1..a) + SumOf(h, 1..b)
  <1> DEFINE bad == {m \in 0..b : SumOf(g, 1..a + m) # SumOf(g, 1..a) + SumOf(h, 1..m)}
  <1>1. ASSUME NEW m \in 0..b
        PROVE  /\ SumOf(g, 1..a + m) \in Nat /\ SumOf(h, 1..m) \in Nat
               /\ SumOf(h, {}) = 0
               /\ m # 0 => /\ SumOf(g, 1..a + m) = g[a + m] + SumOf(g, 1..a + m - 1)
                           /\ SumOf(h, 1..m) = g[a + m] + SumOf(h, 1..m - 1)
    <2>1. IsFiniteSet(1..a + m) /\ IsFiniteSet(1..m)
      BY FS_Interval
    <2>2. (\A i \in 1..a + m : g[i] \in Nat) /\ \A j \in 1..m : h[j] = g[a + j] /\ h[j] \in Nat
      OBVIOUS
    <2>3. /\ SumOf(g, 1..a + m) \in Nat
          /\ \A x \in 1..a + m : SumOf(g, 1..a + m) = g[x] + SumOf(g, (1..a + m) \ {x})
      BY <2>1, <2>2, SumTakes
    <2>4. /\ SumOf(h, 1..m) \in Nat /\ SumOf(h, {}) = 0
          /\ \A x \in 1..m : SumOf(h, 1..m) = h[x] + SumOf(h, (1..m) \ {x})
      BY <2>1, <2>2, SumTakes
    <2>5. CASE m # 0
      <3>1. a + m \in 1..a + m /\ m \in 1..m
        BY <2>5
      <3>2. (1..a + m) \ {a + m} = 1..a + m - 1 /\ (1..m) \ {m} = 1..m - 1
        BY <2>5
      <3>3. SumOf(g, 1..a + m) = g[a + m] + SumOf(g, 1..a + m - 1)
        BY <2>3, <3>1, <3>2
      <3>4. SumOf(h, 1..m) = h[m] + SumOf(h, 1..m - 1)
        BY <2>4, <3>1, <3>2
      <3> QED BY <2>2, <2>3, <2>4, <3>1, <3>3, <3>4
    <2> QED BY <2>3, <2>4, <2>5
  <1>2. ASSUME bad # {} PROVE FALSE
    <2>1. bad \in SUBSET Nat
      OBVIOUS
    <2>2. PICK m \in bad : \A n \in bad : m <= n
      <3> HIDE DEF bad
      <3> QED BY <1>2, <2>1, LeastNat
    <2>3. m \in 0..b /\ SumOf(g, 1..a + m) # SumOf(g, 1..a) + SumOf(h, 1..m)
      OBVIOUS
    <2>4. 0 \in 0..b /\ SumOf(g, 1..a) \in Nat
      <3>1. 0 \in 0..b /\ a + 0 = a
        OBVIOUS
      <3> QED BY <1>1, <3>1
    <2>5. CASE m = 0
      <3>1. a + 0 = a /\ 1..0 = {}
        OBVIOUS
      <3> QED BY <1>1, <2>3, <2>4, <2>5, <3>1
    <2>6. CASE m # 0
      <3>1. m - 1 \in 0..b /\ ~(m <= m - 1) /\ a + (m - 1) = a + m - 1
        BY <2>3, <2>6
      <3>2. SumOf(g, 1..a + m - 1) = SumOf(g, 1..a) + SumOf(h, 1..m - 1)
        <4>1. m - 1 \notin bad
          BY <2>2, <3>1
        <4> QED BY <3>1, <4>1
      <3>3. g[a + m] \in Nat
        BY <2>3, <2>6
      <3>4. SumOf(h, 1..m - 1) \in Nat
        BY <1>1, <3>1
      <3>5. /\ SumOf(g, 1..a + m) = g[a + m] + SumOf(g, 1..a + m - 1)
            /\ SumOf(h, 1..m) = g[a + m] + SumOf(h, 1..m - 1)
        BY <1>1, <2>3, <2>6
      <3>6. SumOf(g, 1..a + m) = SumOf(g, 1..a) + SumOf(h, 1..m)
        <4> DEFINE p == SumOf(g, 1..a)
                   q == SumOf(h, 1..m - 1)
                   r == g[a + m]
        <4>1. p \in Nat /\ q \in Nat /\ r \in Nat
          BY <2>4, <3>3, <3>4
        <4>2. /\ SumOf(g, 1..a + m) = r + (p + q) /\ SumOf(h, 1..m) = r + q
          BY <3>2, <3>5
        <4> HIDE DEF p, q, r
        <4>3. r + (p + q) = p + (r + q)
          BY <4>1
        <4> QED BY <4>2, <4>3 DEF p
      <3> QED BY <2>3, <3>6
    <2> QED BY <2>5, <2>6
  <1>3. b \notin bad /\ b \in 0..b
    BY <1>2
  <1> QED BY <1>3

LEMMA TokensAre ==
    ASSUME NEW messages \in Seq(Message)
    PROVE  LET f == [i \in 1..Len(messages) |-> messages[i].size] IN
           /\ Tokens(messages) = SumOf(f, 1..Len(messages))
           /\ \A i \in 1..Len(messages) : f[i] = messages[i].size /\ f[i] \in Nat
  <1> DEFINE f == [i \in 1..Len(messages) |-> messages[i].size]
  <1>1. DOMAIN messages = 1..Len(messages)
    OBVIOUS
  <1>2. Tokens(messages) = Total(f)
    BY <1>1 DEF Tokens
  <1>3. Total(f) = SumOf(f, DOMAIN f) /\ DOMAIN f = 1..Len(messages)
    BY TotalIsSum
  <1>4. \A i \in 1..Len(messages) : f[i] = messages[i].size /\ f[i] \in Nat
    <2>1. \A i \in 1..Len(messages) : messages[i] \in Message
      OBVIOUS
    <2> QED BY <2>1 DEF Message
  <1> HIDE DEF f
  <1>5. /\ Tokens(messages) = SumOf(f, 1..Len(messages))
        /\ \A i \in 1..Len(messages) : f[i] = messages[i].size /\ f[i] \in Nat
    BY <1>2, <1>3, <1>4
  <1> QED BY <1>5 DEF f

LEMMA TokensJoin ==
    ASSUME NEW x \in Seq(Message), NEW y \in Seq(Message)
    PROVE  Tokens(x \o y) = Tokens(x) + Tokens(y)
  <1> DEFINE z == x \o y
             a == Len(x)
             b == Len(y)
             f(s) == [i \in 1..Len(s) |-> s[i].size]
  <1>1. /\ z \in Seq(Message) /\ Len(z) = a + b /\ a \in Nat /\ b \in Nat
        /\ \A k \in 1..a + b : z[k] = IF k <= a THEN x[k] ELSE y[k - a]
    BY ConcatProperties, LenProperties
  <1> HIDE DEF z, a, b
  <1>2. /\ Tokens(x) = SumOf(f(x), 1..a)
        /\ \A i \in 1..a : f(x)[i] = x[i].size /\ f(x)[i] \in Nat
    BY TokensAre DEF a
  <1>3. /\ Tokens(y) = SumOf(f(y), 1..b)
        /\ \A i \in 1..b : f(y)[i] = y[i].size /\ f(y)[i] \in Nat
    BY TokensAre DEF b
  <1>4. /\ Tokens(z) = SumOf(f(z), 1..a + b)
        /\ \A i \in 1..a + b : f(z)[i] = z[i].size /\ f(z)[i] \in Nat
    <2>1. /\ Tokens(z) = SumOf(f(z), 1..Len(z))
          /\ \A i \in 1..Len(z) : f(z)[i] = z[i].size /\ f(z)[i] \in Nat
      BY <1>1, TokensAre
    <2> HIDE DEF f
    <2> QED BY <1>1, <2>1
  <1> HIDE DEF f
  <1>5. \A i \in 1..a : f(z)[i] = f(x)[i]
    <2>1. \A i \in 1..a : i \in 1..a + b /\ i <= a
      BY <1>1
    <2> QED BY <1>1, <1>2, <1>4, <2>1
  <1>6. \A j \in 1..b : f(y)[j] = f(z)[a + j]
    <2>1. \A j \in 1..b : a + j \in 1..a + b /\ ~(a + j <= a) /\ (a + j) - a = j
      BY <1>1
    <2> QED BY <1>1, <1>3, <1>4, <2>1
  <1>7. SumOf(f(z), 1..a + b) = SumOf(f(z), 1..a) + SumOf(f(y), 1..b)
    <2>1. \A i \in 1..a + b : f(z)[i] \in Nat
      BY <1>4
    <2>2. a \in Nat /\ b \in Nat
      BY <1>1
    <2> QED BY <1>6, <2>1, <2>2, SumSplits
  <1>8. SumOf(f(z), 1..a) = SumOf(f(x), 1..a)
    <2>1. IsFiniteSet(1..a)
      BY <1>1, FS_Interval
    <2> QED BY <1>5, <2>1, SumSame
  <1> QED BY <1>2, <1>3, <1>4, <1>7, <1>8 DEF z

LEMMA TokensSpread ==
    ASSUME NEW segs, Filled(segs), NEW cost,
           \A k \in 1..Len(segs) : cost[k] = Tokens(segs[k].messages)
    PROVE  Tokens(MessagesOf(segs)) = SumOf(cost, 1..Len(segs))
  <1> DEFINE seqs == [k \in DOMAIN segs |-> segs[k].messages]
             n == Len(segs)
  <1>1. n \in Nat /\ \A k \in 1..n : seqs[k] = segs[k].messages
    BY DEF Filled
  <1>2. /\ seqs \in Seq(Seq(Message)) /\ Len(seqs) = n
        /\ n = 0 => MessagesOf(segs) = <<>>
        /\ n # 0 =>
             \E flat : /\ Piles(seqs, Len(seqs), flat)
                       /\ MessagesOf(segs) = flat[Len(seqs)]
    BY MessagesPile
  <1> HIDE DEF seqs, n
  <1>3. ASSUME NEW i \in 1..n
        PROVE  /\ seqs[i] \in Seq(Message) /\ cost[i] = Tokens(seqs[i])
               /\ cost[i] \in Nat
    <2>1. seqs[i] \in Seq(Message)
      BY <1>2
    <2>2. cost[i] = Tokens(seqs[i])
      BY <1>1 DEF n
    <2> QED BY <2>1, <2>2, TokensOfMessages
  <1>4. ASSUME NEW i \in 0..n
        PROVE  /\ SumOf(cost, {}) = 0
               /\ i # 0 => SumOf(cost, 1..i) = cost[i] + SumOf(cost, 1..i - 1)
               /\ SumOf(cost, 1..i) \in Nat
    <2>0. i \in Int /\ \A k \in 1..i : k \in 1..n
      BY <1>1
    <2>1. IsFiniteSet(1..i) /\ \A k \in 1..i : cost[k] \in Nat
      <3>1. IsFiniteSet(1..i)
        BY <2>0, FS_Interval
      <3> QED BY <1>3, <2>0, <3>1
    <2>2. /\ SumOf(cost, {}) = 0 /\ SumOf(cost, 1..i) \in Nat
          /\ \A x \in 1..i : SumOf(cost, 1..i) = cost[x] + SumOf(cost, (1..i) \ {x})
      BY <2>1, SumTakes
    <2>3. i # 0 => i \in 1..i /\ (1..i) \ {i} = 1..i - 1
      BY <1>1
    <2> QED BY <2>2, <2>3
  <1>5. CASE n = 0
    <2>1. Tokens(<<>>) = SumOf([i \in 1..Len(<<>>) |-> <<>>[i].size], {})
      <3>1. <<>> \in Seq(Message) /\ 1..Len(<<>>) = {}
        OBVIOUS
      <3> QED BY <3>1, TokensAre
    <2>2. Tokens(<<>>) = 0
      <3>1. \A g : SumOf(g, {}) = 0
        <4> TAKE g
        <4>1. IsFiniteSet({}) /\ \A x \in {} : g[x] \in Nat
          BY FS_EmptySet
        <4> QED BY <4>1, SumTakes
      <3> QED BY <2>1, <3>1
    <2>3. 1..n = {} /\ 0 \in 0..n
      BY <1>5
    <2> QED BY <1>2, <1>4, <1>5, <2>2, <2>3 DEF n
  <1>6. CASE n # 0
    <2>1. PICK flat : Piles(seqs, Len(seqs), flat) /\ MessagesOf(segs) = flat[n]
      BY <1>2, <1>6
    <2>2. \A i \in 1..n : flat[i] \in Seq(Message)
      BY <1>2, <2>1, PilesGrow
    <2> DEFINE good == {i \in 1..n : Tokens(flat[i]) = SumOf(cost, 1..i)}
    <2>3. 1 \in good
      <3>1. 1 \in 1..n /\ 1 \in 0..n /\ 1..1 - 1 = {} /\ 1 # 0
        BY <1>1, <1>6
      <3>2. flat[1] = seqs[1]
        BY <1>2, <2>1, <3>1 DEF Piles
      <3>3. SumOf(cost, 1..1) = cost[1] + SumOf(cost, {}) /\ SumOf(cost, {}) = 0
        BY <1>4, <3>1
      <3>4. cost[1] = Tokens(seqs[1]) /\ cost[1] \in Nat
        BY <1>3, <3>1
      <3> QED BY <3>1, <3>2, <3>3, <3>4
    <2>4. ASSUME NEW i \in 2..n, i - 1 \in good PROVE i \in good
      <3>1. i \in 1..n /\ i - 1 \in 1..n /\ i \in 0..n /\ i # 0
        BY <1>1
      <3>2. flat[i] = flat[i - 1] \o seqs[i]
        BY <1>2, <2>1, OnePileMore
      <3>3. Tokens(flat[i]) = Tokens(flat[i - 1]) + Tokens(seqs[i])
        <4>1. flat[i - 1] \in Seq(Message) /\ seqs[i] \in Seq(Message)
          BY <1>3, <2>2, <3>1
        <4> QED BY <3>2, <4>1, TokensJoin
      <3>4. Tokens(flat[i - 1]) = SumOf(cost, 1..i - 1)
        BY <2>4
      <3>5. SumOf(cost, 1..i) = cost[i] + SumOf(cost, 1..i - 1)
        BY <1>4, <3>1
      <3>6. SumOf(cost, 1..i - 1) \in Nat /\ cost[i] \in Nat /\ cost[i] = Tokens(seqs[i])
        <4>1. i - 1 \in 0..n
          BY <3>1
        <4> QED BY <1>3, <1>4, <3>1, <4>1
      <3>7. Tokens(flat[i]) = SumOf(cost, 1..i)
        BY <3>3, <3>4, <3>5, <3>6
      <3> QED BY <3>1, <3>7
    <2>5. 1..n \subseteq good
      <3> HIDE DEF good
      <3> QED BY <1>1, <2>3, <2>4, Upwards
    <2>6. n \in 1..n
      BY <1>1, <1>6
    <2> QED BY <2>1, <2>5, <2>6 DEF n
  <1> QED BY <1>5, <1>6

-----------------------------------------------------------------------------
(* The order in which the segments go out *)

Older(j, k) == \/ segments[j].order < segments[k].order
               \/ segments[j].order = segments[k].order /\ j < k

SystemLike(k) == isSystemLikeSegment(segments[k])

LEMMA PrecedesIs ==
    \A j, k : Precedes(j, k) <=> \/ SystemLike(j) /\ ~SystemLike(k)
                                 \/ (SystemLike(j) <=> SystemLike(k)) /\ Older(j, k)
  <1> TAKE j, k
  <1>1. SystemLike(j) \in BOOLEAN /\ SystemLike(k) \in BOOLEAN
    BY DEF SystemLike, isSystemLikeSegment
  <1>2. Precedes(j, k) <=> IF SystemLike(j) # SystemLike(k) THEN SystemLike(j)
                           ELSE Older(j, k)
    BY Zenon DEF Precedes, SystemLike, Older
  <1> QED BY <1>1, <1>2, Zenon

LEMMA PrecedesOrders ==
    ASSUME Segmented(segments)
    PROVE  /\ \A k \in DOMAIN segments : ~Precedes(k, k)
           /\ \A j, k \in DOMAIN segments :
                j = k \/ Precedes(j, k) \/ Precedes(k, j)
           /\ \A j, k, l \in DOMAIN segments :
                Precedes(j, k) /\ Precedes(k, l) => Precedes(j, l)
  <1>1. \A k \in DOMAIN segments : segments[k].order \in Int /\ k \in Int
    <2>1. DOMAIN segments = 1..Len(segments) /\ Len(segments) \in Nat
      BY LenProperties DEF Segmented
    <2> QED BY <2>1 DEF Segmented, IsSegment
  <1>2. /\ \A k \in DOMAIN segments : ~Older(k, k)
        /\ \A j, k \in DOMAIN segments : j = k \/ Older(j, k) \/ Older(k, j)
        /\ \A j, k, l \in DOMAIN segments : Older(j, k) /\ Older(k, l) => Older(j, l)
    <2>1. ASSUME NEW j \in DOMAIN segments, NEW k \in DOMAIN segments,
                 NEW l \in DOMAIN segments
          PROVE  /\ ~Older(k, k)
                 /\ j = k \/ Older(j, k) \/ Older(k, j)
                 /\ Older(j, k) /\ Older(k, l) => Older(j, l)
      <3> DEFINE a == segments[j].order
                 b == segments[k].order
                 c == segments[l].order
      <3>1. /\ a \in Int /\ b \in Int /\ c \in Int
            /\ j \in Int /\ k \in Int /\ l \in Int
        BY <1>1
      <3>2. /\ Older(k, k) <=> b < b \/ (b = b /\ k < k)
            /\ Older(j, k) <=> a < b \/ (a = b /\ j < k)
            /\ Older(k, j) <=> b < a \/ (b = a /\ k < j)
            /\ Older(k, l) <=> b < c \/ (b = c /\ k < l)
            /\ Older(j, l) <=> a < c \/ (a = c /\ j < l)
        BY DEF Older
      <3> HIDE DEF a, b, c
      <3> QED BY <3>1, <3>2
    <2> QED BY <2>1
  <1>3. ASSUME NEW j \in DOMAIN segments, NEW k \in DOMAIN segments,
               NEW l \in DOMAIN segments
        PROVE  /\ ~Precedes(k, k)
               /\ j = k \/ Precedes(j, k) \/ Precedes(k, j)
               /\ Precedes(j, k) /\ Precedes(k, l) => Precedes(j, l)
    BY <1>2, PrecedesIs, Zenon
  <1> QED BY <1>3

Before(k) == {j \in Chosen : Precedes(j, k)}

Place(k) == 1 + Cardinality(Before(k))

\* Every place is taken, by one segment.
LEMMA Places1 ==
    ASSUME Segmented(segments)
    PROVE  /\ Cardinality(Chosen) \in Nat
           /\ \A k \in Chosen : Place(k) \in 1..Cardinality(Chosen)
           /\ \A j, k \in Chosen : Precedes(j, k) <=> Place(j) < Place(k)
           /\ \A n \in 1..Cardinality(Chosen) : \E k \in Chosen : Place(k) = n
  <1> DEFINE N == Cardinality(Chosen)
  <1>1. Chosen \subseteq DOMAIN segments /\ IsFiniteSet(Chosen)
    <2>1. DOMAIN segments = 1..Len(segments) /\ Len(segments) \in Nat
      BY LenProperties DEF Segmented
    <2>2. IsFiniteSet(DOMAIN segments)
      BY <2>1, FS_Interval
    <2> QED BY <2>2, FS_Subset DEF Chosen
  <1>2. N \in Nat
    BY <1>1, FS_CardinalityType
  <1>3. \A k : IsFiniteSet(Before(k)) /\ Cardinality(Before(k)) \in Nat
    <2> TAKE k
    <2>1. Before(k) \in SUBSET Chosen
      BY DEF Before
    <2>2. IsFiniteSet(Before(k))
      BY <1>1, <2>1, FS_Subset
    <2> QED BY <2>2, FS_CardinalityType
  <1>4. ASSUME NEW j \in Chosen, NEW k \in Chosen, Precedes(j, k)
        PROVE  Place(j) < Place(k)
    <2>1. j \notin Before(j) /\ Before(j) \cup {j} \in SUBSET Before(k)
      <3>1. ~Precedes(j, j)
        BY <1>1, PrecedesOrders
      <3>2. \A i \in Chosen : Precedes(i, j) => Precedes(i, k)
        BY <1>1, <1>4, PrecedesOrders
      <3> QED BY <1>4, <3>1, <3>2 DEF Before
    <2>2. Cardinality(Before(j) \cup {j}) = Cardinality(Before(j)) + 1
      BY <1>3, <2>1, FS_AddElement
    <2>3. Cardinality(Before(j) \cup {j}) <= Cardinality(Before(k))
      BY <1>3, <2>1, FS_Subset
    <2>4. Cardinality(Before(j)) \in Nat /\ Cardinality(Before(k)) \in Nat
      BY <1>3
    <2> QED BY <2>2, <2>3, <2>4 DEF Place
  <1>5. ASSUME NEW k \in Chosen PROVE Place(k) \in 1..N
    <2>1. Before(k) \in SUBSET (Chosen \ {k})
      BY <1>1, PrecedesOrders DEF Before
    <2>2. IsFiniteSet(Chosen \ {k}) /\ Cardinality(Chosen \ {k}) = N - 1
      BY <1>1, FS_RemoveElement
    <2>3. Cardinality(Before(k)) <= N - 1
      BY <2>1, <2>2, FS_Subset
    <2>4. Cardinality(Before(k)) \in Nat
      BY <1>3
    <2> QED BY <1>2, <2>3, <2>4 DEF Place
  <1>6. \A j, k \in Chosen : j # k => Place(j) # Place(k)
    <2> TAKE j, k \in Chosen
    <2> HAVE j # k
    <2>1. Precedes(j, k) \/ Precedes(k, j)
      BY <1>1, PrecedesOrders
    <2>2. Place(j) < Place(k) \/ Place(k) < Place(j)
      BY <1>4, <2>1
    <2> QED BY <1>5, <2>2
  <1> DEFINE f == [k \in Chosen |-> Place(k)]
  <1>7. f \in Injection(Chosen, 1..N)
    <2>1. f \in [Chosen -> 1..N]
      BY <1>5
    <2>2. IsInjective(f)
      BY <1>6 DEF IsInjective
    <2> QED BY <2>1, <2>2 DEF Injection
  <1>8. IsFiniteSet(1..N) /\ Cardinality(1..N) = N
    <2>1. 1 \in Int /\ N \in Int
      BY <1>2
    <2>2. IsFiniteSet(1..N) /\ Cardinality(1..N) = IF 1 > N THEN 0 ELSE N - 1 + 1
      BY <2>1, FS_Interval
    <2> QED BY <1>2, <2>2
  <1>9. f \in Surjection(Chosen, 1..N)
    <2> HIDE DEF f
    <2> QED BY <1>7, <1>8, FS_Injection
  <1>10. \A n \in 1..N : \E k \in Chosen : Place(k) = n
    BY <1>9 DEF Surjection
  <1>11. ASSUME NEW j \in Chosen, NEW k \in Chosen, Place(j) < Place(k)
         PROVE  Precedes(j, k)
    <2>1. ~Precedes(k, j) /\ j # k
      <3>1. Place(j) \in Nat /\ Place(k) \in Nat
        BY <1>5
      <3>2. ~(Place(k) < Place(j)) /\ Place(j) # Place(k)
        BY <1>11, <3>1
      <3> QED BY <1>4, <3>2
    <2> QED BY <1>1, <2>1, PrecedesOrders
  <1> QED BY <1>2, <1>4, <1>5, <1>10, <1>11

\* line lists the chosen segments by their indices in the order they go out.
Lines(line) ==
    /\ \A n \in 1..Cardinality(Chosen) :
         line[n] \in Chosen /\ SelectedSegments[n] = segments[line[n]]
    /\ \A k \in Chosen : \E n \in 1..Cardinality(Chosen) : line[n] = k
    /\ \A m, n \in 1..Cardinality(Chosen) :
         Precedes(line[m], line[n]) <=> m < n

LEMMA LinedUp ==
    ASSUME Segmented(segments)
    PROVE  /\ Len(SelectedSegments) = Cardinality(Chosen)
           /\ Filled(SelectedSegments)
           /\ \E line : Lines(line)
  <1> DEFINE N == Cardinality(Chosen)
             place == [k \in Chosen |->
                         1 + Cardinality({j \in Chosen : Precedes(j, k)})]
             line == [n \in 1..N |-> CHOOSE k \in Chosen : place[k] = n]
  <1>1. SelectedSegments = [n \in 1..N |->
                              segments[CHOOSE k \in Chosen : place[k] = n]]
    BY Zenon DEF SelectedSegments
  <1>2. \A k \in Chosen : place[k] = Place(k)
    BY DEF Place, Before
  <1>3. /\ N \in Nat
        /\ \A k \in Chosen : Place(k) \in 1..N
        /\ \A j, k \in Chosen : Precedes(j, k) <=> Place(j) < Place(k)
        /\ \A n \in 1..N : \E k \in Chosen : Place(k) = n
    BY Places1
  <1> HIDE DEF place, N
  <1>4. ASSUME NEW n \in 1..N
        PROVE  /\ line[n] \in Chosen /\ Place(line[n]) = n
               /\ SelectedSegments[n] = segments[line[n]]
    <2>1. \E k \in Chosen : place[k] = n
      BY <1>2, <1>3
    <2>2. line[n] \in Chosen /\ place[line[n]] = n
      BY <2>1
    <2> QED BY <1>1, <1>2, <2>2
  <1>5. Len(SelectedSegments) = N /\ DOMAIN SelectedSegments = 1..N
    BY <1>1, <1>3
  <1> HIDE DEF line
  <1>6. ASSUME NEW k \in Chosen
        PROVE  \E n \in 1..N : line[n] = k
    <2>1. Place(k) \in 1..N /\ Place(line[Place(k)]) = Place(k)
          /\ line[Place(k)] \in Chosen
      BY <1>3, <1>4
    <2>2. ~Precedes(k, line[Place(k)]) /\ ~Precedes(line[Place(k)], k)
      BY <1>3, <2>1
    <2>3. Chosen \subseteq DOMAIN segments
      BY DEF Chosen
    <2>4. k = line[Place(k)]
      BY <2>1, <2>2, <2>3, PrecedesOrders
    <2> QED BY <2>1, <2>4
  <1>7. \A m, n \in 1..N : Precedes(line[m], line[n]) <=> m < n
    BY <1>3, <1>4
  <1>8. Lines(line)
    BY <1>4, <1>6, <1>7 DEF Lines, N
  <1>9. Filled(SelectedSegments)
    <2>1. ASSUME NEW n \in 1..N
          PROVE  SelectedSegments[n].messages \in Seq(Message)
      <3>1. line[n] \in DOMAIN segments
        BY <1>4 DEF Chosen
      <3> QED BY <1>4, <3>1 DEF Segmented, IsSegment
    <2> QED BY <1>3, <1>5, <2>1 DEF Filled
  <1> QED BY <1>5, <1>8, <1>9 DEF N

-----------------------------------------------------------------------------
(* What the segments are made of *)

\* Where the run of messages that starts at i ends, and the kind it makes.
EndOf(i) == IF request[i].role = "call" THEN RunEnd(i) ELSE i + 1

KindOf(i) ==
    IF request[i].role = "system" THEN "system"
    ELSE IF request[i].role = "summary" THEN "memory_summary"
    ELSE IF request[i].role \in {"call", "tool"} THEN ProtocolKind(i)
    ELSE IF i - 1 = findLastUserIndex THEN "current_user"
    ELSE IF request[i].role = "assistant" THEN "assistant"
    ELSE "recent_exact"

\* A segment's message m and the message n of the request it stands for.
Carries(m, n) ==
    /\ m.role = n.role /\ m.call = n.call
    /\ \/ m = n
       \/ n.role \in SystemRole
       \/ n.role = "tool" /\ ~requiresExactToolOutput(n)

Start(s) == s.id[2] + 1

\* A segment of the messages from its start to the end of their run.
Made(s) ==
    /\ Start(s) \in 1..Len(request)
    /\ s.kind = KindOf(Start(s)) /\ s.id = <<s.kind, Start(s) - 1>>
    /\ s.order = (Start(s) - 1) * 1000
    /\ Len(s.messages) = EndOf(Start(s)) - Start(s)
    /\ \A p \in 1..Len(s.messages) :
         Carries(s.messages[p], request[Start(s) + p - 1])

Remembers == Len(buildMemorySegments)
Reads == Remembers + 1 .. Len(segments)

LEMMA SameRuns ==
    ASSUME request' = request
    PROVE  \A i : RunEnd(i)' = RunEnd(i)
  BY Zenon DEF RunEnd

LEMMA SameLast ==
    ASSUME request' = request
    PROVE  findLastUserIndex' = findLastUserIndex
             /\ findLastSystemIndex' = findLastSystemIndex
  BY Zenon DEF findLastUserIndex, findLastSystemIndex, LastIndex, SelectLastInSeq, SystemRole

LEMMA SameMemory ==
    ASSUME request' = request, memory' = memory
    PROVE  buildMemorySegments' = buildMemorySegments
  <1>1. findLastSystemIndex' = findLastSystemIndex
    BY SameLast
  <1>2. Recent' = Recent
    BY Zenon DEF Recent
  <1>3. RecentOrder' = RecentOrder /\ SummaryOrder' = SummaryOrder
    BY <1>1 DEF RecentOrder, SummaryOrder
  <1> QED BY <1>2, <1>3, Zenon DEF buildMemorySegments

LEMMA SameMade ==
    ASSUME request' = request
    PROVE  /\ \A i : EndOf(i)' = EndOf(i)
           /\ \A i : KindOf(i)' = KindOf(i)
           /\ \A s : Made(s)' <=> Made(s)
  <1>1. \A i : EndOf(i)' = EndOf(i)
    BY SameRuns DEF EndOf
  <1>2. \A i : KindOf(i)' = KindOf(i)
    <2>1. \A i : ProtocolKind(i)' = ProtocolKind(i)
      BY SameLast DEF ProtocolKind, IsActive
    <2> QED BY <2>1, SameLast, Zenon DEF KindOf
  <1>3. \A s : Made(s)' <=> Made(s)
    BY <1>1, <1>2 DEF Made
  <1> QED BY <1>1, <1>2, <1>3

\* How far the messages have been read.
Read == IF phase = "build" THEN at - 1 ELSE Len(request)

\* What the memory left stands first; behind it the messages that have been
\* read are cut into segments, all of them, one behind the other.
CutUp ==
    /\ Remembers <= Len(segments)
    /\ \A k \in 1..Remembers : segments[k] = buildMemorySegments[k]
    /\ \A k \in Reads : Made(segments[k]) /\ EndOf(Start(segments[k])) <= Read + 1
    /\ \A j, k \in Reads :
         j < k => EndOf(Start(segments[j])) <= Start(segments[k])
    /\ \A i \in 1..Read : \E k \in Reads :
         Start(segments[k]) <= i /\ i < EndOf(Start(segments[k]))

LEMMA RemembersType ==
    ASSUME InputTypes
    PROVE  Remembers \in Nat /\ DOMAIN buildMemorySegments = 1..Remembers
  <1>1. Segmented(buildMemorySegments)
    BY MemoryIsSegmented
  <1> QED BY <1>1, LenProperties DEF Segmented, Remembers

LEMMA CutInit == Init => CutUp
  <1> SUFFICES ASSUME Init PROVE CutUp
    OBVIOUS
  <1>1. Remembers \in Nat
    BY HeldInit, RemembersType DEF Held
  <1>2. segments = buildMemorySegments /\ Read = 0 /\ Len(segments) = Remembers
    BY DEF Init, Read, Remembers
  <1>3. Reads = {} /\ 1..Read = {}
    BY <1>1, <1>2 DEF Reads
  <1> QED BY <1>1, <1>2, <1>3 DEF CutUp

LEMMA EndOfType ==
    ASSUME InputTypes, NEW i \in 1..Len(request)
    PROVE  EndOf(i) \in i + 1 .. Len(request) + 1
  <1>1. Len(request) \in Nat
    BY DEF InputTypes
  <1> QED BY <1>1, RunEndType DEF EndOf

LEMMA PushCuts ==
    ASSUME Held, CutUp, phase = "build", at \in 1..Len(request),
           NEW kind, NEW messages, NEW next, Push(kind, messages, next),
           kind = KindOf(at), next = EndOf(at), Len(messages) = EndOf(at) - at,
           \A p \in 1..Len(messages) : Carries(messages[p], request[at + p - 1])
    PROVE  CutUp'
  <1> DEFINE new == Segment(at, kind, messages)
             n == Len(segments)
  <1>1. InputTypes /\ Len(request) \in Nat /\ at \in Int
    BY DEF Held, InputTypes
  <1>2. /\ request' = request /\ memory' = memory /\ phase' = "build"
        /\ at' = next /\ segments' = Append(segments, new)
    BY DEF Push, input
  <1>3. Start(new) = at /\ Made(new)
    <2>1. /\ new.id = <<kind, at - 1>> /\ new.kind = kind
          /\ new.order = (at - 1) * 1000 /\ new.messages = messages
      BY DEF Segment, createMessageSegment
    <2> HIDE DEF new
    <2>2. Start(new) = at
      <3>1. new.id[2] = at - 1
        BY <2>1
      <3> QED BY <1>1, <3>1 DEF Start
    <2> QED BY <2>1, <2>2 DEF Made
  <1> HIDE DEF new
  <1>4. /\ n \in Nat /\ Len(segments') = n + 1 /\ segments'[n + 1] = new
        /\ \A k \in 1..n : segments'[k] = segments[k]
    <2>1. segments \in Seq(ToSet(segments) \cup {new}) /\ new \in ToSet(segments) \cup {new}
      BY SeqMonotonic DEF Held, Segmented
    <2> QED BY <1>2, <2>1, AppendProperties, LenProperties
  <1>5. /\ Remembers' = Remembers /\ Remembers \in Nat /\ Remembers <= n
        /\ buildMemorySegments' = buildMemorySegments
    <2>1. buildMemorySegments' = buildMemorySegments
      BY <1>2, SameMemory
    <2> QED BY <1>1, <2>1, RemembersType DEF Remembers, CutUp
  <1>6. Reads' = Reads \cup {n + 1} /\ Reads \subseteq 1..n
    BY <1>4, <1>5 DEF Reads
  <1>7. Read = at - 1 /\ Read' = EndOf(at) - 1 /\ EndOf(at) \in Int /\ at < EndOf(at)
    <2>1. EndOf(at) \in at + 1 .. Len(request) + 1
      BY <1>1, EndOfType
    <2> QED BY <1>1, <1>2, <2>1 DEF Read
  <1>8. /\ \A i : EndOf(i)' = EndOf(i)
        /\ \A s : Made(s)' <=> Made(s)
    BY <1>2, SameMade
  <1>9. ASSUME NEW k \in Reads
        PROVE  /\ segments'[k] = segments[k] /\ Made(segments[k])
               /\ EndOf(Start(segments[k])) \in Int
               /\ EndOf(Start(segments[k])) <= at
    <2>1. Made(segments[k]) /\ EndOf(Start(segments[k])) <= Read + 1
      BY DEF CutUp
    <2>2. EndOf(Start(segments[k])) \in Start(segments[k]) + 1 .. Len(request) + 1
      BY <1>1, <2>1, EndOfType DEF Made
    <2>3. EndOf(Start(segments[k])) \in Int
      BY <1>1, <2>1, <2>2 DEF Made
    <2> QED BY <1>1, <1>4, <1>6, <1>7, <2>1, <2>3
  <1>10. \A k \in 1..Remembers : segments'[k] = buildMemorySegments[k]
    BY <1>4, <1>5 DEF CutUp
  <1>11. \A k \in Reads' :
           Made(segments'[k]) /\ EndOf(Start(segments'[k])) <= Read' + 1
    <2>1. ASSUME NEW k \in Reads
          PROVE  Made(segments'[k]) /\ EndOf(Start(segments'[k])) <= Read' + 1
      BY <1>1, <1>7, <1>9
    <2>2. Made(segments'[n + 1]) /\ EndOf(Start(segments'[n + 1])) <= Read' + 1
      BY <1>3, <1>4, <1>7
    <2> QED BY <1>6, <2>1, <2>2
  <1>12. \A j, k \in Reads' :
           j < k => EndOf(Start(segments'[j])) <= Start(segments'[k])
    <2> SUFFICES ASSUME NEW j \in Reads', NEW k \in Reads', j < k
                 PROVE  EndOf(Start(segments'[j])) <= Start(segments'[k])
      OBVIOUS
    <2>0. j < k
      OBVIOUS
    <2>1. j \in Reads
      <3>1. j \in 1..n + 1 /\ k \in 1..n + 1
        BY <1>4, <1>6
      <3>2. j # n + 1
        BY <1>4, <2>0, <3>1
      <3> QED BY <1>6, <3>2
    <2>2. CASE k \in Reads
      BY <1>9, <2>1, <2>2 DEF CutUp
    <2>3. CASE k = n + 1
      BY <1>3, <1>4, <1>9, <2>1, <2>3
    <2> QED BY <1>6, <2>2, <2>3
  <1>13. \A i \in 1..Read' : \E k \in Reads' :
           Start(segments'[k]) <= i /\ i < EndOf(Start(segments'[k]))
    <2> SUFFICES ASSUME NEW i \in 1..Read'
                 PROVE  \E k \in Reads' : /\ Start(segments'[k]) <= i
                                          /\ i < EndOf(Start(segments'[k]))
      OBVIOUS
    <2>1. CASE i \in 1..Read
      <3>1. PICK k \in Reads : Start(segments[k]) <= i /\ i < EndOf(Start(segments[k]))
        BY <2>1 DEF CutUp
      <3> QED BY <1>6, <1>9, <3>1
    <2>2. CASE i \notin 1..Read
      <3>1. at <= i /\ i < EndOf(at)
        BY <1>1, <1>7, <2>2
      <3> QED BY <1>3, <1>4, <1>6, <3>1
    <2> QED BY <2>1, <2>2
  <1> QED BY <1>4, <1>5, <1>8, <1>10, <1>11, <1>12, <1>13 DEF CutUp

LEMMA ReadingCuts ==
    ASSUME Held, CutUp, ReadSystem \/ ReadRun \/ ReadOrphan \/ ReadTalk
    PROVE  CutUp'
  <1>1. phase = "build" /\ at <= Len(request)
    BY DEF ReadSystem, ReadRun, ReadOrphan, ReadTalk
  <1>2. InputTypes /\ Len(request) \in Nat /\ request \in Seq(Message)
    BY DEF Held, InputTypes
  <1>3. at \in 1..Len(request) /\ at \in Int
    <2>1. at \in 1 .. Len(request) + 1
      BY <1>1 DEF Held, Places
    <2> QED BY <1>1, <1>2, <2>1
  <1>4. request[at] \in Message
    BY <1>2, <1>3
  <1> DEFINE m == request[at]
             kind == KindOf(at)
  <1>5. ASSUME NEW n, Carries(n, m), EndOf(at) = at + 1, Push(kind, <<n>>, at + 1)
        PROVE  CutUp'
    <2>1. Len(<<n>>) = EndOf(at) - at
      BY <1>3, <1>5
    <2>2. ASSUME NEW p \in 1..Len(<<n>>)
          PROVE  Carries(<<n>>[p], request[at + p - 1])
      <3>1. p = 1 /\ at + 1 - 1 = at
        BY <1>3
      <3> QED BY <1>5, <3>1
    <2> QED BY <1>1, <1>3, <1>5, <2>1, <2>2, PushCuts
  <1>6. Carries(m, m)
    BY DEF Carries
  <1>7. CASE ReadSystem
    <2>1. m.role \in SystemRole
      BY <1>7 DEF ReadSystem
    <2>2. EndOf(at) = at + 1
      BY <2>1 DEF EndOf, SystemRole
    <2>3. kind = IF m.role = "summary" THEN "memory_summary" ELSE "system"
      BY <2>1 DEF KindOf, SystemRole
    <2>4. Carries(maybeCapMemorySummary(m), m)
      BY <1>4, <2>1 DEF Carries, maybeCapMemorySummary, Message
    <2>5. Push(kind, <<maybeCapMemorySummary(m)>>, at + 1)
      BY <1>7, <2>3 DEF ReadSystem
    <2> QED BY <1>5, <2>2, <2>4, <2>5
  <1>8. CASE ReadOrphan
    <2>1. m.role = "tool" /\ Push(ProtocolKind(at), <<m>>, at + 1)
      BY <1>8 DEF ReadOrphan
    <2>2. kind = ProtocolKind(at) /\ EndOf(at) = at + 1
      BY <2>1 DEF KindOf, EndOf
    <2> QED BY <1>5, <1>6, <2>1, <2>2
  <1>9. CASE ReadTalk
    <2>1. /\ m.role \in {"user", "assistant"}
          /\ Push(IF at - 1 = findLastUserIndex THEN "current_user"
                  ELSE IF m.role = "assistant" THEN "assistant"
                  ELSE "recent_exact", <<m>>, at + 1)
      BY <1>9 DEF ReadTalk
    <2>2. /\ kind = IF at - 1 = findLastUserIndex THEN "current_user"
                    ELSE IF m.role = "assistant" THEN "assistant"
                    ELSE "recent_exact"
          /\ EndOf(at) = at + 1
      BY <2>1 DEF KindOf, EndOf
    <2> QED BY <1>5, <1>6, <2>1, <2>2
  <1>10. CASE ReadRun
    <2> DEFINE messages == SubSeq(request, at, RunEnd(at) - 1)
    <2>1. m.role = "call" /\ Push(ProtocolKind(at), messages, RunEnd(at))
      BY <1>10 DEF ReadRun
    <2>2. kind = ProtocolKind(at) /\ EndOf(at) = RunEnd(at)
      BY <2>1 DEF KindOf, EndOf
    <2>3. RunEnd(at) \in at + 1 .. Len(request) + 1
      BY <1>2, <1>3, RunEndType
    <2>4. /\ RunEnd(at) - 1 \in Int /\ RunEnd(at) - 1 <= Len(request)
          /\ at \in Int /\ at >= 1 /\ at <= RunEnd(at) - 1
      BY <1>2, <1>3, <2>3
    <2>5. /\ Len(messages) = RunEnd(at) - at
          /\ \A p \in 1..Len(messages) : messages[p] = request[at + p - 1]
      <3> DEFINE e == RunEnd(at) - 1
      <3>1. /\ e \in Int /\ e <= Len(request) /\ at \in Int /\ at >= 1
            /\ at <= e /\ e - at + 1 = RunEnd(at) - at /\ e \in 1..Len(request)
        BY <1>2, <2>3, <2>4
      <3> HIDE DEF e
      <3>2. /\ Len(SubSeq(request, at, e)) = e - at + 1
            /\ \A p \in 1..e - at + 1 : SubSeq(request, at, e)[p] = request[at + p - 1]
        BY <1>2, <1>3, <3>1, SubSeqProperties
      <3> QED BY <3>1, <3>2 DEF e
    <2> HIDE DEF messages
    <2>6. \A p \in 1..Len(messages) : Carries(messages[p], request[at + p - 1])
      BY <2>5 DEF Carries
    <2> QED BY <1>1, <1>3, <2>1, <2>2, <2>5, <2>6, PushCuts
  <1> QED BY <1>7, <1>8, <1>9, <1>10

LEMMA OthersCut ==
    ASSUME CutUp, request' = request, memory' = memory, segments' = segments,
           Read' = Read
    PROVE  CutUp'
  <1>1. /\ \A i : EndOf(i)' = EndOf(i)
        /\ \A s : Made(s)' <=> Made(s)
        /\ buildMemorySegments' = buildMemorySegments
    BY SameMade, SameMemory
  <1>2. Remembers' = Remembers /\ Reads' = Reads
    BY <1>1 DEF Remembers, Reads
  <1> QED BY <1>1, <1>2 DEF CutUp

LEMMA BuiltCuts ==
    ASSUME Held, CutUp, Built
    PROVE  CutUp'
  <1>1. /\ phase = "build" /\ phase' = "reduce" /\ at > Len(request)
        /\ request' = request /\ memory' = memory /\ segments' = segments
    BY DEF Built, input
  <1>2. Len(request) \in Nat /\ at \in 1 .. Len(request) + 1
    BY <1>1 DEF Held, InputTypes, Places
  <1>3. Read' = Read
    BY <1>1, <1>2 DEF Read
  <1> QED BY <1>1, <1>3, OthersCut

\* No segment of the memory is one of tool calls.
LEMMA MemoryHasNoTools ==
    ASSUME InputTypes, NEW k \in 1..Remembers
    PROVE  LET s == buildMemorySegments[k] IN
           /\ s.kind \in {"memory_summary", "recent_exact"}
           /\ \A p \in 1..Len(s.messages) :
                s.messages[p].role \in {"summary", "user", "assistant"}
           /\ s.kind = "recent_exact" =>
                /\ s.id[1] = "memory_recent"
                /\ s.order < RecentOrder + Len(Recent)
                /\ s.order >= RecentOrder
  <1> DEFINE summary == [role |-> "summary", call |-> None, size |-> memory.summary]
             head == createMessageSegment(<<"memory_summary">>, "memory_summary",
                       SummaryOrder, <<maybeCapMemorySummary(summary)>>)
             first == IF memory.summary = 0 THEN <<>> ELSE <<head>>
             talk(i) == [role |-> Recent[i].role, call |-> None,
                         size |-> Recent[i].size]
             entry(i) == createMessageSegment(
                           <<"memory_recent", Recent[i].event,
                             IF Recent[i].event = None THEN i - 1 ELSE 0>>,
                           "recent_exact", RecentOrder + i - 1, <<talk(i)>>)
             rest == [i \in DOMAIN Recent |-> entry(i)]
             Fit(s) ==
               /\ s.kind \in {"memory_summary", "recent_exact"}
               /\ \A p \in 1..Len(s.messages) :
                    s.messages[p].role \in {"summary", "user", "assistant"}
               /\ s.kind = "recent_exact" =>
                    /\ s.id[1] = "memory_recent"
                    /\ s.order < RecentOrder + Len(Recent)
                    /\ s.order >= RecentOrder
  <1>1. buildMemorySegments = first \o rest
    BY DEF buildMemorySegments
  <1>2. RecentOrder \in Int /\ Recent \in Seq(Entry) /\ Len(Recent) \in Nat
    BY OrdersOfMemory, RecentType
  <1>3. Fit(head)
    <2>1. maybeCapMemorySummary(summary).role = "summary"
      BY DEF maybeCapMemorySummary
    <2> DEFINE m == maybeCapMemorySummary(summary)
    <2> HIDE DEF m
    <2>2. \A p \in 1..Len(<<m>>) : <<m>>[p] = m
      OBVIOUS
    <2>3. head.kind = "memory_summary" /\ head.messages = <<m>>
      BY DEF createMessageSegment, m
    <2> HIDE DEF head
    <2> QED BY <2>1, <2>2, <2>3 DEF m
  <1>4. ASSUME NEW i \in 1..Len(Recent) PROVE Fit(entry(i))
    <2>1. talk(i).role \in {"user", "assistant"}
      <3>1. Recent[i] \in Entry
        BY <1>2
      <3> QED BY <3>1 DEF Entry
    <2>2. /\ entry(i).kind = "recent_exact" /\ entry(i).messages = <<talk(i)>>
          /\ entry(i).order = RecentOrder + i - 1
          /\ entry(i).id[1] = "memory_recent"
      BY DEF createMessageSegment
    <2>3. /\ RecentOrder + i - 1 < RecentOrder + Len(Recent)
          /\ RecentOrder + i - 1 >= RecentOrder
      BY <1>2
    <2> HIDE DEF entry, talk
    <2>4. \A p \in 1..Len(<<talk(i)>>) : <<talk(i)>>[p] = talk(i)
      OBVIOUS
    <2> QED BY <2>1, <2>2, <2>3, <2>4
  <1>5. Len(rest) = Len(Recent) /\ \A i \in 1..Len(rest) : rest[i] = entry(i)
    BY <1>2
  <1> HIDE DEF entry, head
  <1>6. /\ Len(first) \in Nat /\ \A i \in 1..Len(first) : first[i] = head
    OBVIOUS
  <1>7. first \in Seq({head}) /\ rest \in Seq({rest[i] : i \in 1..Len(rest)})
    <2>1. first \in Seq({head})
      <3>1. <<>> \in Seq({head}) /\ <<head>> \in Seq({head})
        OBVIOUS
      <3> QED BY <3>1
    <2>2. rest \in [1..Len(Recent) -> {rest[i] : i \in 1..Len(rest)}]
      BY <1>2, <1>5
    <2> HIDE DEF rest
    <2> QED BY <1>2, <2>1, <2>2, FunctionIsSeq
  <1> HIDE DEF first, rest, Fit
  <1>8. /\ Len(first \o rest) = Len(first) + Len(rest)
        /\ \A j \in 1..Len(first) + Len(rest) :
             (first \o rest)[j] = IF j <= Len(first) THEN first[j]
                                  ELSE rest[j - Len(first)]
    <2> DEFINE S == {head} \cup {rest[i] : i \in 1..Len(rest)}
    <2>1. first \in Seq(S) /\ rest \in Seq(S)
      BY <1>7, SeqMonotonic
    <2> HIDE DEF S
    <2> QED BY <2>1, ConcatProperties
  <1>9. k \in 1..Len(first) + Len(rest)
    BY <1>1, <1>8 DEF Remembers
  <1>10. CASE k <= Len(first)
    <2>1. k \in 1..Len(first) /\ buildMemorySegments[k] = first[k]
      BY <1>1, <1>2, <1>5, <1>6, <1>8, <1>9, <1>10
    <2>2. Fit(buildMemorySegments[k])
      BY <1>3, <1>6, <2>1
    <2> QED BY <2>2 DEF Fit
  <1>11. CASE ~(k <= Len(first))
    <2>1. /\ k - Len(first) \in 1..Len(rest)
          /\ buildMemorySegments[k] = rest[k - Len(first)]
      BY <1>1, <1>2, <1>5, <1>6, <1>8, <1>9, <1>11
    <2>2. Fit(buildMemorySegments[k])
      BY <1>4, <1>5, <2>1
    <2> QED BY <2>2 DEF Fit
  <1> QED BY <1>10, <1>11

LEMMA ReduceCuts ==
    ASSUME Held, CutUp, reduceSegmentIfNeeded
    PROVE  CutUp'
  <1> DEFINE s == segments[at]
             n == Len(segments)
             new(messages) == createMessageSegment(s.id, s.kind, s.order, messages)
  <1>1. /\ request' = request /\ memory' = memory
        /\ phase = "reduce" /\ phase' = "reduce" /\ Read' = Read
    BY DEF reduceSegmentIfNeeded, input, Read
  <1>2. at \in DOMAIN segments
    BY ReduceMakes
  <1>3. PICK messages \in Seq(Message) :
          /\ Len(messages) = Len(s.messages)
          /\ \A k \in 1..Len(messages) :
               messages[k] = s.messages[k] \/ Cuts(messages[k], s.messages[k])
          /\ s.kind # "active_tool_protocol" => messages = s.messages
          /\ Len(segments') = n
          /\ segments'[at] = new(messages)
          /\ \A k \in DOMAIN segments : k # at => segments'[k] = segments[k]
    BY ReduceMakes
  <1>4. /\ InputTypes /\ Remembers \in Nat /\ n \in Nat
        /\ DOMAIN segments = 1..n /\ Remembers <= n
    BY RemembersType, LenProperties DEF Held, Segmented, CutUp
  <1>5. IsSegment(s)
    BY <1>2 DEF Held, Segmented
  <1>6. /\ \A i : EndOf(i)' = EndOf(i)
        /\ \A t : Made(t)' <=> Made(t)
        /\ buildMemorySegments' = buildMemorySegments
    BY <1>1, SameMade, SameMemory
  <1>7. Remembers' = Remembers /\ Reads' = Reads
    BY <1>3, <1>6 DEF Remembers, Reads
  <1>8. \A k \in 1..Remembers : segments'[k] = buildMemorySegments[k]
    <2> SUFFICES ASSUME NEW k \in 1..Remembers
                 PROVE  segments'[k] = buildMemorySegments[k]
      OBVIOUS
    <2>1. k \in DOMAIN segments /\ segments[k] = buildMemorySegments[k]
      BY <1>4 DEF CutUp
    <2>2. CASE k # at
      BY <1>3, <2>1, <2>2
    <2>3. CASE k = at
      <3>1. s.kind # "active_tool_protocol"
        <4>1. buildMemorySegments[k].kind \in {"memory_summary", "recent_exact"}
          BY <1>4, MemoryHasNoTools
        <4> QED BY <2>1, <2>3, <4>1
      <3>2. new(messages) = s
        BY <1>3, <1>5, <3>1 DEF IsSegment
      <3> HIDE DEF new
      <3> QED BY <1>3, <2>1, <2>3, <3>2
    <2> QED BY <2>2, <2>3
  <1>9. ASSUME Made(s)
        PROVE  Made(new(messages)) /\ Start(new(messages)) = Start(s)
    <2> DEFINE t == new(messages)
    <2>1. /\ t.id = s.id /\ t.kind = s.kind /\ t.order = s.order
          /\ t.messages = messages
      BY DEF createMessageSegment
    <2> HIDE DEF new, s, t
    <2>2. Start(t) = Start(s)
      BY <2>1 DEF Start
    <2>3. ASSUME NEW p \in 1..Len(messages)
          PROVE  Carries(messages[p], request[Start(s) + p - 1])
      <3> DEFINE m == s.messages[p]
                 r == request[Start(s) + p - 1]
      <3>1. Carries(m, r)
        BY <1>3, <1>9, <2>3 DEF Made
      <3>2. messages[p] = m \/ Cuts(messages[p], m)
        BY <1>3
      <3> HIDE DEF m, r
      <3>3. Cuts(messages[p], m) => Carries(messages[p], r)
        BY <3>1 DEF Cuts, Carries, requiresExactToolOutput
      <3> QED BY <3>1, <3>2, <3>3 DEF r
    <2>4. Made(t)
      BY <1>3, <1>9, <2>1, <2>2, <2>3 DEF Made
    <2> QED BY <2>2, <2>4 DEF t
  <1> HIDE DEF new
  <1>10. ASSUME NEW k \in Reads
         PROVE  Made(segments'[k]) /\ Start(segments'[k]) = Start(segments[k])
    <2>1. k \in DOMAIN segments /\ Made(segments[k])
      BY <1>4 DEF Reads, CutUp
    <2>2. CASE k # at
      BY <1>3, <2>1, <2>2
    <2>3. CASE k = at
      BY <1>3, <1>9, <2>1, <2>3
    <2> QED BY <2>2, <2>3
  <1> QED BY <1>1, <1>3, <1>4, <1>6, <1>7, <1>8, <1>10 DEF CutUp

-----------------------------------------------------------------------------
(* What was chosen, and what was made of it *)

PutTogether ==
    /\ phase \in {"choose", "done", "invalid"} => selected = {s.id : s \in Taken}
    /\ phase \in {"done", "invalid"} =>
         waiting = {} /\ assembled = AssembledMessages
    /\ phase = "invalid" => ~Valid(assembled)

(* The order of the segments segs and the line of those whose id is in     *)
(* ids.                                                                    *)
Behind(segs, j, k) ==
    LET s == segs[j]
        t == segs[k]
    IN  IF isSystemLikeSegment(s) # isSystemLikeSegment(t)
        THEN isSystemLikeSegment(s)
        ELSE s.order < t.order \/ (s.order = t.order /\ j < k)

LineOf(segs, ids) ==
    LET chosen == {k \in DOMAIN segs : segs[k].id \in ids}
        place == [k \in chosen |->
                    1 + Cardinality({j \in chosen : Behind(segs, j, k)})]
    IN  [n \in 1 .. Cardinality(chosen) |->
           segs[CHOOSE k \in chosen : place[k] = n]]

LEMMA SameAssembly ==
    ASSUME segments' = segments, selected' = selected
    PROVE  AssembledMessages' = AssembledMessages
  <1>1. SelectedSegments = LineOf(segments, selected)
    BY Zenon DEF SelectedSegments, Chosen, Precedes, LineOf, Behind
  <1>2. SelectedSegments' = LineOf(segments', selected')
    BY Zenon DEF SelectedSegments, Chosen, Precedes, LineOf, Behind
  <1>3. SelectedSegments' = SelectedSegments
    BY <1>1, <1>2, Zenon
  <1> QED BY <1>3, Zenon DEF AssembledMessages, MessagesOf

\* Made of the input, cut up and put together.
Sturdy == Held /\ CutUp /\ PutTogether

LEMMA ChoosingIs ==
    ASSUME Held, Keep \/ Drop
    PROVE  Newest \in waiting /\ Newest \in ToSet(segments) /\ Newest \notin dropped
  <1>1. phase = "choose" /\ waiting # {}
    BY DEF Keep, Drop
  <1>2. Newest \in waiting
    BY <1>1, NewestIs DEF Held, Charged
  <1> QED BY <1>1, <1>2 DEF Held, Charged

LEMMA SturdyStep ==
    ASSUME Sturdy, [Next]_vars
    PROVE  Sturdy'
  <1> USE DEF Sturdy
  <1>1. Held'
    BY HeldStep
  <1>2. CASE ReadSystem \/ ReadRun \/ ReadOrphan \/ ReadTalk
    <2>1. phase' = "build"
      BY <1>2 DEF ReadSystem, ReadRun, ReadOrphan, ReadTalk, Push
    <2> QED BY <1>1, <1>2, <2>1, ReadingCuts DEF PutTogether
  <1>3. CASE Built
    <2>1. phase' = "reduce"
      BY <1>3 DEF Built
    <2> QED BY <1>1, <1>3, <2>1, BuiltCuts DEF PutTogether
  <1>4. CASE reduceSegmentIfNeeded
    <2>1. phase' = "reduce"
      BY <1>4 DEF reduceSegmentIfNeeded
    <2> QED BY <1>1, <1>4, <2>1, ReduceCuts DEF PutTogether
  <1>5. CASE ExactOutputTooLarge \/ PinnedTooLarge
    <2>1. /\ phase # "build" /\ request' = request /\ memory' = memory
          /\ segments' = segments
          /\ phase' \in {"context_exact_tool_output_exceeded",
                         "context_budget_exceeded"}
      BY <1>5 DEF ExactOutputTooLarge, PinnedTooLarge, Throw, input
    <2>2. Read' = Read
      BY <2>1 DEF Read
    <2> QED BY <1>1, <2>1, <2>2, OthersCut DEF PutTogether
  <1>6. CASE ChargePinned
    <2>1. /\ phase = "reduce" /\ phase' = "choose"
          /\ request' = request /\ memory' = memory
          /\ segments' = segments /\ dropped' = dropped
          /\ selected' = {s.id : s \in {s \in ToSet(segments) : IsPinned(s)}}
          /\ waiting' = {s \in ToSet(segments) : ~IsPinned(s)}
      BY <1>6 DEF ChargePinned, input
    <2>2. Read' = Read /\ dropped = {}
      BY <2>1 DEF Read, Held, Untouched
    <2>3. Taken' = {s \in ToSet(segments) : IsPinned(s)}
      BY <2>1, <2>2 DEF Taken
    <2>4. selected' = {s.id : s \in Taken'}
      BY <2>1, <2>3
    <2> QED BY <1>1, <2>1, <2>2, <2>4, OthersCut DEF PutTogether
  <1>7. CASE Drop
    <2>1. /\ phase = "choose" /\ phase' = "choose"
          /\ request' = request /\ memory' = memory
          /\ segments' = segments /\ dropped' = dropped \cup {Newest}
          /\ selected' = selected /\ waiting' = waiting \ {Newest}
      BY <1>7 DEF Drop, input
    <2>2. Read' = Read
      BY <2>1 DEF Read
    <2>3. Taken' = Taken
      BY <1>7, <2>1, ChoosingIs DEF Taken
    <2> QED BY <1>1, <2>1, <2>2, <2>3, OthersCut DEF PutTogether
  <1>8. CASE Keep
    <2>1. /\ phase = "choose" /\ phase' = "choose"
          /\ request' = request /\ memory' = memory
          /\ segments' = segments /\ dropped' = dropped
          /\ selected' = selected \cup {Newest.id}
          /\ waiting' = waiting \ {Newest}
      BY <1>8 DEF Keep, input
    <2>2. Read' = Read
      BY <2>1 DEF Read
    <2>3. Taken' = Taken \cup {Newest}
      BY <1>8, <2>1, ChoosingIs DEF Taken
    <2>4. selected' = {s.id : s \in Taken'}
      BY <2>1, <2>3 DEF PutTogether
    <2> QED BY <1>1, <2>1, <2>2, <2>4, OthersCut DEF PutTogether
  <1>9. CASE Assemble
    <2>1. /\ phase = "choose" /\ waiting = {} /\ assembled' = AssembledMessages
          /\ phase' = IF Valid(AssembledMessages) THEN "done" ELSE "invalid"
          /\ request' = request /\ memory' = memory
          /\ segments' = segments /\ dropped' = dropped
          /\ selected' = selected /\ waiting' = waiting
      BY <1>9 DEF Assemble, input
    <2>2. Read' = Read
      BY <2>1 DEF Read
    <2>3. Taken' = Taken /\ AssembledMessages' = AssembledMessages
      BY <2>1, SameAssembly DEF Taken
    <2>4. PutTogether'
      <3>1. \A x : Valid(x)' <=> Valid(x)
        BY DEF Valid
      <3> QED BY <2>1, <2>3, <3>1 DEF PutTogether
    <2> QED BY <1>1, <2>1, <2>2, <2>4, OthersCut
  <1>10. CASE UNCHANGED vars
    <2>1. /\ request' = request /\ memory' = memory /\ phase' = phase
          /\ at' = at /\ segments' = segments /\ dropped' = dropped
          /\ selected' = selected /\ waiting' = waiting
          /\ assembled' = assembled
      BY <1>10 DEF vars, input
    <2>2. Read' = Read
      BY <2>1 DEF Read
    <2>3. Taken' = Taken /\ AssembledMessages' = AssembledMessages
      BY <2>1, SameAssembly DEF Taken
    <2>4. PutTogether'
      BY <2>1, <2>3 DEF PutTogether
    <2> QED BY <1>1, <2>1, <2>2, <2>4, OthersCut
  <1> QED BY <1>2, <1>3, <1>4, <1>5, <1>6, <1>7, <1>8, <1>9, <1>10 DEF Next

LEMMA SturdyAlways == Spec => []Sturdy
  <1>1. Init => Sturdy
    BY HeldInit, CutInit DEF Sturdy, PutTogether, Init
  <1>2. Sturdy /\ [Next]_vars => Sturdy'
    BY SturdyStep
  <1> QED BY <1>1, <1>2, PTL DEF Spec

-----------------------------------------------------------------------------
(* What the assembled request is made of *)

\* The messages of the chosen segments, as line lists them, from their places.
Stands(line, place) ==
    Lines(line) /\ Spread(SelectedSegments, assembled, place)

LEMMA Assembled ==
    ASSUME Sturdy, phase \in {"done", "invalid"}
    PROVE  /\ assembled \in Seq(Message)
           /\ \E line, place : Stands(line, place)
           /\ Len(SelectedSegments) = Cardinality(Chosen)
           /\ Cardinality(Chosen) \in Nat
           /\ Filled(SelectedSegments)
  <1>1. Segmented(segments) /\ assembled = MessagesOf(SelectedSegments)
    BY DEF Sturdy, Held, PutTogether, AssembledMessages
  <1>2. /\ Len(SelectedSegments) = Cardinality(Chosen)
        /\ Filled(SelectedSegments)
        /\ \E line : Lines(line)
    BY <1>1, LinedUp
  <1>3. /\ assembled \in Seq(Message)
        /\ \E place : Spread(SelectedSegments, assembled, place)
    BY <1>1, <1>2, MessagesSpread
  <1>4. Cardinality(Chosen) \in Nat
    BY <1>2 DEF Filled
  <1> QED BY <1>2, <1>3, <1>4 DEF Stands

\* Segment k is one of the memory, or it is cut from the request.
LEMMA WhereFrom ==
    ASSUME Sturdy, NEW k \in DOMAIN segments
    PROVE  /\ \/ k \in 1..Remembers /\ segments[k] = buildMemorySegments[k]
              \/ k \in Reads /\ Made(segments[k])
           /\ segments[k].messages \in Seq(Message)
           /\ IsSegment(segments[k])
  <1>1. DOMAIN segments = 1..Len(segments) /\ Len(segments) \in Nat
    BY LenProperties DEF Sturdy, Held, Segmented
  <1>2. Remembers \in Nat
    BY RemembersType DEF Sturdy, Held
  <1>3. k \in 1..Remembers \/ k \in Reads
    BY <1>1, <1>2 DEF Reads
  <1>4. IsSegment(segments[k])
    BY DEF Sturdy, Held, Segmented
  <1> QED BY <1>3, <1>4 DEF Sturdy, CutUp, IsSegment

\* Every message of the assembled request is one of a chosen segment.
LEMMA ComesFrom ==
    ASSUME Sturdy, phase \in {"done", "invalid"}, NEW x \in 1..Len(assembled)
    PROVE  \E k \in Chosen : \E p \in 1..Len(segments[k].messages) :
             assembled[x] = segments[k].messages[p]
  <1>1. PICK line, place : Stands(line, place)
    BY Assembled
  <1>2. PICK n \in 1..Len(SelectedSegments) :
          \E p \in 1..Len(SelectedSegments[n].messages) : x = place[n] + p
    BY <1>1 DEF Stands, Spread
  <1>3. PICK p \in 1..Len(SelectedSegments[n].messages) : x = place[n] + p
    BY <1>2
  <1>4. assembled[x] = SelectedSegments[n].messages[p]
    BY <1>1, <1>3 DEF Stands, Spread
  <1>5. line[n] \in Chosen /\ SelectedSegments[n] = segments[line[n]]
    BY <1>1, Assembled DEF Stands, Lines
  <1> QED BY <1>3, <1>4, <1>5

\* Message p of a segment cut from the request stands for one of it.
LEMMA StandsFor ==
    ASSUME Sturdy, NEW s, Made(s), NEW p \in 1..Len(s.messages)
    PROVE  /\ Start(s) \in 1..Len(request) /\ EndOf(Start(s)) \in Nat
           /\ Start(s) + p - 1 \in 1..Len(request)
           /\ Start(s) + p - 1 < EndOf(Start(s))
           /\ Carries(s.messages[p], request[Start(s) + p - 1])
  <1>1. InputTypes /\ Start(s) \in 1..Len(request)
    BY DEF Sturdy, Held, Made
  <1>2. EndOf(Start(s)) \in Start(s) + 1 .. Len(request) + 1
    BY <1>1, EndOfType
  <1>3. Len(s.messages) = EndOf(Start(s)) - Start(s) /\ Len(request) \in Nat
    BY <1>1 DEF Made, InputTypes
  <1>4. Start(s) + p - 1 \in 1..Len(request) /\ Start(s) + p - 1 < EndOf(Start(s))
    BY <1>1, <1>2, <1>3
  <1> QED BY <1>1, <1>2, <1>4 DEF Made

LEMMA ExactStays ==
    ASSUME Sturdy
    PROVE  ExactIsKept
  <1> SUFFICES ASSUME phase = "done", NEW m \in ToSet(assembled),
                      m.role = "tool", requiresExactToolOutput(m)
               PROVE  m \in ToSet(request)
    BY DEF ExactIsKept
  <1>1. assembled \in Seq(Message)
    BY Assembled
  <1>2. PICK x \in 1..Len(assembled) : m = assembled[x]
    BY <1>1 DEF ToSet
  <1>3. PICK k \in Chosen : \E p \in 1..Len(segments[k].messages) :
               assembled[x] = segments[k].messages[p]
    BY <1>2, ComesFrom
  <1>4. PICK p \in 1..Len(segments[k].messages) : m = segments[k].messages[p]
    BY <1>2, <1>3
  <1>5. k \in DOMAIN segments
    BY DEF Chosen
  <1>6. CASE k \in 1..Remembers /\ segments[k] = buildMemorySegments[k]
    <2>1. m.role \in {"summary", "user", "assistant"}
      BY <1>4, <1>6, MemoryHasNoTools DEF Sturdy, Held
    <2> QED BY <2>1
  <1>7. CASE Made(segments[k])
    <2> DEFINE i == Start(segments[k]) + p - 1
    <2>1. i \in 1..Len(request) /\ Carries(m, request[i])
      BY <1>4, <1>7, StandsFor
    <2> HIDE DEF i
    <2>2. requiresExactToolOutput(request[i]) /\ request[i].role = "tool"
      BY <2>1 DEF Carries, requiresExactToolOutput
    <2>3. m = request[i]
      BY <2>1, <2>2 DEF Carries, SystemRole
    <2>4. DOMAIN request = 1..Len(request)
      BY LenProperties DEF Sturdy, Held, InputTypes
    <2> QED BY <2>1, <2>3, <2>4 DEF ToSet
  <1> QED BY <1>5, <1>6, <1>7, WhereFrom

LEMMA LastIndexIs ==
    ASSUME InputTypes, NEW roles
    PROVE  /\ LastIndex(roles) \in -1 .. Len(request) - 1
           /\ LastIndex(roles) # -1 => request[LastIndex(roles) + 1].role \in roles
           /\ \A i \in 1..Len(request) :
                request[i].role \in roles => i - 1 <= LastIndex(roles)
  <1> DEFINE I == {i \in 1..Len(request) : request[i].role \in roles}
             top == IF I # {} THEN Max(I) ELSE 0
  <1>1. Len(request) \in Nat
    BY DEF InputTypes
  <1>2. I \in SUBSET Nat /\ \A i \in I : i <= Len(request)
    BY <1>1
  <1>3. LastIndex(roles) = top - 1
    BY DEF LastIndex, SelectLastInSeq
  <1>4. I # {} => Max(I) \in I /\ \A i \in I : i <= Max(I)
    <2> HIDE DEF I
    <2> QED BY <1>1, <1>2, MaxIs
  <1>5. CASE I = {}
    <2>1. top = 0
      BY <1>5
    <2>2. LastIndex(roles) = -1
      BY <1>3, <2>1
    <2>3. -1 \in -1 .. Len(request) - 1
      BY <1>1
    <2> QED BY <1>5, <2>2, <2>3
  <1>6. CASE I # {}
    <2>1. top \in I /\ \A i \in I : i <= top
      BY <1>4, <1>6
    <2> HIDE DEF top
    <2>2. top \in 1..Len(request) /\ request[top].role \in roles
      BY <2>1
    <2>3. top - 1 \in -1 .. Len(request) - 1 /\ (top - 1) + 1 = top
      BY <1>1, <2>2
    <2>4. ASSUME NEW i \in 1..Len(request), request[i].role \in roles
          PROVE  i - 1 <= top - 1
      <3>1. i <= top /\ i \in Int /\ top \in Int
        BY <2>1, <2>2, <2>4
      <3> QED BY <3>1
    <2> QED BY <1>3, <2>2, <2>3, <2>4
  <1> QED BY <1>5, <1>6

\* No message of the request is of the kinds the memory's segments have ids of.
LEMMA KindsOf ==
    ASSUME NEW i
    PROVE  /\ KindOf(i) # "memory_recent"
           /\ KindOf(i) \notin {"system", "memory_summary"} =>
                request[i].role \notin SystemRole
  BY DEF KindOf, SystemRole, ProtocolKind

\* Where a segment stands in the conversation.
IndexOf(s) == IF s.id[1] = "memory_recent" THEN findLastSystemIndex ELSE s.id[2]

\* A segment's order is its index, in thousandths, and less than a whole more.
LEMMA IndexBounds ==
    ASSUME Sturdy, MemoryFits, NEW k \in DOMAIN segments, ~SystemLike(k)
    PROVE  /\ IndexOf(segments[k]) \in Int /\ segments[k].order \in Int
           /\ IndexOf(segments[k]) * 1000 <= segments[k].order
           /\ segments[k].order < (IndexOf(segments[k]) + 1) * 1000
  <1> DEFINE s == segments[k]
             L == findLastSystemIndex
  <1>1. InputTypes /\ s.order \in Int
    BY WhereFrom DEF Sturdy, Held, IsSegment
  <1>2. CASE k \in 1..Remembers /\ s = buildMemorySegments[k]
    <2>1. s.kind = "recent_exact"
      BY <1>1, <1>2, MemoryHasNoTools DEF SystemLike, isSystemLikeSegment
    <2>2. /\ s.id[1] = "memory_recent"
          /\ s.order < RecentOrder + Len(Recent)
          /\ s.order >= RecentOrder
      BY <1>1, <1>2, <2>1, MemoryHasNoTools
    <2>3. L \in Int /\ L >= -1
      <3>1. L \in -1 .. Len(request) - 1 /\ Len(request) \in Nat
        BY <1>1, LastIndexIs DEF findLastSystemIndex, InputTypes
      <3> HIDE DEF L
      <3> QED BY <3>1
    <2>4. RecentOrder = L * 1000 + 200
      <3>1. RecentOrder = IF L >= 0 THEN L * 1000 + 200 ELSE -800
        BY DEF RecentOrder
      <3> HIDE DEF L
      <3> QED BY <2>3, <3>1
    <2>5. Len(Recent) \in Nat /\ Len(Recent) <= 800
      BY <1>1, RecentType DEF MemoryFits
    <2>6. IndexOf(s) = L
      BY <2>2 DEF IndexOf
    <2> HIDE DEF s, L
    <2>7. L * 1000 <= s.order /\ s.order < (L + 1) * 1000
      BY <1>1, <2>2, <2>3, <2>4, <2>5
    <2> QED BY <1>1, <2>3, <2>6, <2>7 DEF s
  <1>3. CASE Made(s)
    <2>1. s.id[1] = KindOf(Start(s)) /\ s.id[2] = Start(s) - 1
      BY <1>3 DEF Made
    <2>2. IndexOf(s) = Start(s) - 1
      BY <2>1, KindsOf DEF IndexOf
    <2>3. Start(s) \in 1..Len(request) /\ s.order = (Start(s) - 1) * 1000
      BY <1>3 DEF Made
    <2> HIDE DEF s
    <2>4. Start(s) \in Int
      BY <2>3
    <2>5. IndexOf(s) \in Int /\ IndexOf(s) * 1000 = s.order
      BY <2>2, <2>3, <2>4
    <2> QED BY <1>1, <2>5 DEF s
  <1> QED BY <1>2, <1>3, WhereFrom

LEMMA InOrder ==
    ASSUME Sturdy
    PROVE  ConversationInOrder
  <1> DEFINE sent == SelectedSegments
  <1> SUFFICES ASSUME phase = "done", MemoryFits,
                      NEW i \in DOMAIN sent, NEW j \in DOMAIN sent, i < j,
                      ~isSystemLikeSegment(sent[i]),
                      ~isSystemLikeSegment(sent[j])
               PROVE  IndexOf(sent[i]) <= IndexOf(sent[j])
    BY DEF ConversationInOrder, IndexOf
  <1>1. PICK line, place : Stands(line, place)
    BY Assembled
  <1>2. DOMAIN sent = 1..Cardinality(Chosen)
    BY Assembled DEF Filled
  <1> DEFINE a == line[i]
             b == line[j]
  <1>3. /\ a \in DOMAIN segments /\ sent[i] = segments[a]
        /\ b \in DOMAIN segments /\ sent[j] = segments[b]
        /\ Precedes(a, b)
    BY <1>1, <1>2 DEF Stands, Lines, Chosen
  <1> HIDE DEF a, b
  <1>4. ~SystemLike(a) /\ ~SystemLike(b) /\ Older(a, b)
    BY <1>3, PrecedesIs DEF SystemLike
  <1> DEFINE p == IndexOf(segments[a])
             q == IndexOf(segments[b])
             u == segments[a].order
             v == segments[b].order
  <1>5. p \in Int /\ u \in Int /\ p * 1000 <= u
    BY <1>3, <1>4, IndexBounds
  <1>6. q \in Int /\ v \in Int /\ v < (q + 1) * 1000
    BY <1>3, <1>4, IndexBounds
  <1>7. u < v \/ u = v
    BY <1>4 DEF Older
  <1> HIDE DEF p, q, u, v
  <1>8. p <= q
    BY <1>5, <1>6, <1>7
  <1> QED BY <1>3, <1>8 DEF p, q

-----------------------------------------------------------------------------
(* What the assembled request costs *)

\* A sum over the elements of T, h naming each of them once by one of S.
LEMMA SumMoves ==
    ASSUME NEW S, IsFiniteSet(S), NEW T, NEW f, NEW e, NEW h,
           \A x \in S : h[x] \in T /\ f[x] = e[h[x]] /\ f[x] \in Nat,
           \A x, y \in S : h[x] = h[y] => x = y,
           \A t \in T : \E x \in S : h[x] = t
    PROVE  SumOf(f, S) = SumOf(e, T)
  <1> DEFINE im(U) == {h[x] : x \in U}
             C == {U \in SUBSET S : SumOf(f, U) # SumOf(e, im(U))}
  <1>1. ASSUME NEW U \in SUBSET S
        PROVE  IsFiniteSet(U) /\ IsFiniteSet(im(U)) /\ \A t \in im(U) : e[t] \in Nat
    <2>1. IsFiniteSet(U)
      BY FS_Subset
    <2>2. [x \in U |-> h[x]] \in Surjection(U, im(U))
      BY DEF Surjection
    <2>3. IsFiniteSet(im(U))
      <3> HIDE DEF im
      <3> QED BY <2>1, <2>2, FS_Surjection
    <2>4. \A t \in im(U) : e[t] \in Nat
      OBVIOUS
    <2> QED BY <2>1, <2>3, <2>4
  <1>2. ASSUME C # {} PROVE FALSE
    <2>1. \A U \in C : IsFiniteSet(U)
      BY FS_Subset
    <2>2. PICK U \in C : \A V \in C : Cardinality(U) <= Cardinality(V)
      <3> HIDE DEF C
      <3> QED BY <1>2, <2>1, SmallestSet
    <2>3. /\ U \in SUBSET S /\ IsFiniteSet(U)
          /\ SumOf(f, U) # SumOf(e, im(U))
      BY <2>1, <2>2
    <2>4. CASE U = {}
      <3>1. im(U) = {}
        BY <2>4
      <3>2. SumOf(f, {}) = 0 /\ SumOf(e, {}) = 0
        BY FS_EmptySet, SumTakes
      <3> QED BY <2>3, <2>4, <3>1, <3>2
    <2>5. CASE U # {}
      <3>1. PICK x : x \in U
        BY <2>5
      <3> DEFINE V == U \ {x}
      <3>2. V \notin C
        <4>1. Cardinality(V) = Cardinality(U) - 1 /\ Cardinality(U) \in Nat
          BY <2>3, <3>1, FS_RemoveElement, FS_CardinalityType
        <4>2. ~(Cardinality(U) <= Cardinality(V))
          BY <4>1
        <4> HIDE DEF C, V
        <4> QED BY <2>2, <4>2
      <3>3. SumOf(f, V) = SumOf(e, im(V))
        BY <2>3, <3>2
      <3>4. im(V) = im(U) \ {h[x]} /\ h[x] \in im(U)
        BY <2>3, <3>1
      <3> HIDE DEF im
      <3>5. SumOf(f, U) = f[x] + SumOf(f, V)
        BY <2>3, <3>1, SumTakes
      <3>6. SumOf(e, im(U)) = e[h[x]] + SumOf(e, im(U) \ {h[x]})
        BY <1>1, <2>3, <3>4, SumTakes
      <3>7. f[x] = e[h[x]]
        BY <2>3, <3>1
      <3> QED BY <2>3, <3>3, <3>4, <3>5, <3>6, <3>7
    <2> QED BY <2>4, <2>5
  <1>3. S \notin C
    BY <1>2
  <1>4. im(S) = T
    OBVIOUS
  <1> QED BY <1>3, <1>4

LEMMA IdsDiffer ==
    ASSUME Sturdy, UniqueIds
    PROVE  /\ \A j, k \in DOMAIN segments :
                segments[j].id = segments[k].id => j = k
           /\ \A s, t \in ToSet(segments) : s.id = t.id => s = t
  <1> DEFINE ids == {s.id : s \in ToSet(segments)}
             f == [k \in DOMAIN segments |-> segments[k].id]
  <1>1. DOMAIN segments = 1..Len(segments) /\ Len(segments) \in Nat
    BY LenProperties DEF Sturdy, Held, Segmented
  <1>2. f \in Surjection(DOMAIN segments, ids)
    BY DEF Surjection, ToSet
  <1>3. IsFiniteSet(DOMAIN segments) /\ Cardinality(DOMAIN segments) = Len(segments)
    <2>1. /\ IsFiniteSet(1..Len(segments))
          /\ Cardinality(1..Len(segments)) =
               IF 1 > Len(segments) THEN 0 ELSE Len(segments) - 1 + 1
      BY <1>1, FS_Interval
    <2> QED BY <1>1, <2>1
  <1>4. Cardinality(ids) = Len(segments)
    BY DEF UniqueIds
  <1> HIDE DEF f, ids
  <1>5. f \in Injection(DOMAIN segments, ids)
    BY <1>2, <1>3, <1>4, FS_SurjSameCardinalityImpliesInj
  <1>6. \A j, k \in DOMAIN segments : f[j] = f[k] => j = k
    BY <1>5 DEF Injection, IsInjective
  <1>7. \A j, k \in DOMAIN segments : segments[j].id = segments[k].id => j = k
    BY <1>6 DEF f
  <1> QED BY <1>7 DEF ToSet

LEMMA AssembledCosts ==
    ASSUME Sturdy, phase = "done", UniqueIds
    PROVE  Tokens(assembled) = Cost(Taken)
  <1> DEFINE N == Cardinality(Chosen)
             sent == SelectedSegments
             f == [n \in 1..N |-> sent[n].tokens]
             h == [n \in 1..N |-> sent[n]]
             e == [s \in Taken |-> s.tokens]
  <1>1. PICK line, place : Stands(line, place)
    BY Assembled
  <1>2. N \in Nat /\ Len(sent) = N /\ Filled(sent)
    BY Assembled
  <1>3. ASSUME NEW n \in 1..N
        PROVE  /\ line[n] \in DOMAIN segments /\ segments[line[n]].id \in selected
               /\ sent[n] = segments[line[n]]
    BY <1>1 DEF Stands, Lines, Chosen
  <1>4. selected = {s.id : s \in Taken} /\ Taken \subseteq ToSet(segments)
    BY DEF Sturdy, PutTogether, Taken
  <1>5. ASSUME NEW n \in 1..N PROVE sent[n] \in Taken
    <2>1. PICK t \in Taken : t.id = segments[line[n]].id
      BY <1>3, <1>4
    <2>2. segments[line[n]] \in ToSet(segments)
      BY <1>3 DEF ToSet
    <2> QED BY <1>3, <1>4, <2>1, <2>2, IdsDiffer
  <1>6. ASSUME NEW t \in Taken PROVE \E n \in 1..N : sent[n] = t
    <2>1. PICK k \in DOMAIN segments : segments[k] = t
      BY <1>4 DEF ToSet
    <2>2. k \in Chosen
      BY <1>4, <2>1 DEF Chosen
    <2>3. PICK n \in 1..N : line[n] = k
      BY <1>1, <2>2 DEF Stands, Lines
    <2> QED BY <1>3, <2>1, <2>3
  <1>7. ASSUME NEW m \in 1..N, NEW n \in 1..N, sent[m] = sent[n]
        PROVE  m = n
    <2>1. line[m] = line[n] /\ line[m] \in DOMAIN segments
      BY <1>3, <1>7, IdsDiffer
    <2>2. ~Precedes(line[m], line[n]) /\ ~Precedes(line[n], line[m])
      BY <2>1, PrecedesOrders DEF Sturdy, Held
    <2>3. ~(m < n) /\ ~(n < m)
      BY <1>1, <2>2 DEF Stands, Lines
    <2> QED BY <1>2, <2>3
  <1>8. ASSUME NEW n \in 1..N
        PROVE  f[n] = Tokens(sent[n].messages) /\ f[n] \in Nat
    <2>1. IsSegment(segments[line[n]])
      BY <1>3, WhereFrom
    <2>2. segments[line[n]].tokens = Tokens(segments[line[n]].messages)
      BY <2>1 DEF IsSegment, createMessageSegment
    <2>3. segments[line[n]].tokens \in Nat
      BY <2>1, SegmentCosts
    <2> QED BY <1>3, <2>2, <2>3
  <1>9. Tokens(assembled) = SumOf(f, 1..N)
    <2>1. \A n \in 1..Len(sent) : f[n] = Tokens(sent[n].messages)
      BY <1>2, <1>8
    <2>2. assembled = MessagesOf(sent)
      BY DEF Sturdy, PutTogether, AssembledMessages
    <2> HIDE DEF f, sent, N
    <2> QED BY <1>2, <2>1, <2>2, TokensSpread
  <1>10. SumOf(f, 1..N) = SumOf(e, Taken)
    <2>1. \A n \in 1..N : h[n] \in Taken /\ f[n] = e[h[n]] /\ f[n] \in Nat
      BY <1>5, <1>8
    <2>2. \A m, n \in 1..N : h[m] = h[n] => m = n
      BY <1>7
    <2>3. \A t \in Taken : \E n \in 1..N : h[n] = t
      BY <1>6
    <2>4. IsFiniteSet(1..N)
      BY <1>2, FS_Interval
    <2> HIDE DEF f, h, e, N
    <2> DEFINE S == 1..N
    <2>5. /\ IsFiniteSet(S)
          /\ \A x \in S : h[x] \in Taken /\ f[x] = e[h[x]] /\ f[x] \in Nat
          /\ \A x, y \in S : h[x] = h[y] => x = y
          /\ \A t \in Taken : \E x \in S : h[x] = t
      BY <2>1, <2>2, <2>3, <2>4
    <2> HIDE DEF S
    <2>6. SumOf(f, S) = SumOf(e, Taken)
      BY <2>5, SumMoves, SMTT(30)
    <2> QED BY <2>6 DEF S
  <1>11. Cost(Taken) = SumOf(e, Taken)
    <2>1. DOMAIN e = Taken
      OBVIOUS
    <2>2. Cost(Taken) = Total(e)
      BY DEF Cost
    <2> HIDE DEF e
    <2> QED BY <2>1, <2>2, TotalIsSum
  <1> QED BY <1>9, <1>10, <1>11

Thrown == {"context_exact_tool_output_exceeded", "context_budget_exceeded"}
Chooses == {"choose", "done", "invalid"}

\* The loops never leave their sequences, and a throw comes before any choice.
Ranges ==
    /\ phase \in {"build", "reduce"} \cup Chooses \cup Thrown
    /\ at \in 1 .. Len(request) + Len(segments) + 1
    /\ used \in Nat
    /\ phase \in Thrown => Untouched

LEMMA RangesInit == Init => Ranges
  <1> SUFFICES ASSUME Init PROVE Ranges
    OBVIOUS
  <1>1. Held
    BY HeldInit
  <1>2. Len(request) \in Nat /\ Len(segments) \in Nat
    BY <1>1, LenProperties DEF Held, InputTypes, Segmented
  <1> QED BY <1>2 DEF Init, Ranges, Thrown, Chooses

\* Where the steps lead.
LEMMA Leads ==
    ASSUME Ranges, [Next]_vars
    PROVE  /\ phase' \in {"build", "reduce"} \cup Chooses \cup Thrown
           /\ phase' \in Chooses \cup Thrown =>
                at' = at /\ segments' = segments /\ request' = request
           /\ phase' \notin Chooses => used' = used
           /\ phase' \in Thrown =>
                phase \in {"reduce"} \cup Thrown
                /\ waiting' = waiting /\ dropped' = dropped
           /\ phase' \in Chooses => used' = used \/ phase' = "choose"
  <1> USE DEF Chooses, Thrown, input
  <1>1. CASE ReadSystem \/ ReadRun \/ ReadOrphan \/ ReadTalk
    BY <1>1 DEF ReadSystem, ReadRun, ReadOrphan, ReadTalk, Push
  <1>2. CASE Built
    BY <1>2 DEF Built
  <1>3. CASE reduceSegmentIfNeeded
    BY <1>3 DEF reduceSegmentIfNeeded
  <1>4. CASE ExactOutputTooLarge \/ PinnedTooLarge
    BY <1>4 DEF ExactOutputTooLarge, PinnedTooLarge, Throw
  <1>5. CASE ChargePinned
    BY <1>5 DEF ChargePinned
  <1>6. CASE Keep
    BY <1>6 DEF Keep
  <1>7. CASE Drop
    BY <1>7 DEF Drop
  <1>8. CASE Assemble
    <2>1. phase' = "done" \/ phase' = "invalid"
      BY <1>8 DEF Assemble
    <2> QED BY <1>8, <2>1 DEF Assemble
  <1>9. CASE UNCHANGED vars
    BY <1>9 DEF vars, Ranges
  <1> QED BY <1>1, <1>2, <1>3, <1>4, <1>5, <1>6, <1>7, <1>8, <1>9 DEF Next

LEMMA RangesStep ==
    ASSUME Held, Ranges, [Next]_vars
    PROVE  Ranges'
  <1>1. Held'
    BY HeldStep
  <1>2. phase' \in {"build", "reduce"} \cup Chooses \cup Thrown
    BY Leads
  <1>3. CASE phase' \in {"build", "reduce"}
    <2>1. Len(request') \in Nat /\ Len(segments') \in Nat
      BY <1>1, LenProperties DEF Held, InputTypes, Segmented
    <2>2. at' \in 1 .. Len(request') + 1 \/ at' \in 1 .. Len(segments') + 1
      BY <1>1, <1>3 DEF Held, Places
    <2>3. at' \in 1 .. Len(request') + Len(segments') + 1
      BY <2>1, <2>2
    <2>4. used' = used
      BY <1>3, Leads DEF Chooses
    <2> QED BY <1>2, <1>3, <2>3, <2>4 DEF Ranges, Thrown
  <1>4. CASE phase' \in Thrown
    <2>1. /\ at' = at /\ segments' = segments /\ request' = request
          /\ phase \in {"reduce"} \cup Thrown
          /\ waiting' = waiting /\ dropped' = dropped
      BY <1>4, Leads
    <2>2. Untouched
      BY <2>1 DEF Held, Ranges
    <2>3. used' = used
      BY <1>4, Leads DEF Chooses, Thrown
    <2> QED BY <1>2, <2>1, <2>2, <2>3 DEF Ranges, Untouched
  <1>5. CASE phase' \in Chooses
    <2>1. at' = at /\ segments' = segments /\ request' = request
      BY <1>5, Leads
    <2>2. Segmented(segments)' /\ used' = SpecTokens + Cost(Taken')
      BY <1>1, <1>5 DEF Held, Charged, Chooses, Cost
    <2>3. /\ IsFiniteSet(ToSet(segments'))
          /\ \A s \in ToSet(segments') : s.tokens \in Nat
      <3>1. Segmented(segments)
        BY DEF Held
      <3> QED BY <2>1, <3>1, SegmentsCost
    <2>4. Taken' \subseteq ToSet(segments')
      BY DEF Taken
    <2>5. Cost(Taken') \in Nat
      <3> DEFINE T == Taken'
      <3>1. IsFiniteSet(T) /\ \A s \in T : s.tokens \in Nat
        BY <2>3, <2>4, FS_Subset
      <3> HIDE DEF T
      <3>2. Cost(T) \in Nat
        BY <3>1, CostGrows
      <3> QED BY <3>2 DEF T
    <2>6. used' \in Nat
      BY <2>2, <2>5, ContextConstants
    <2>7. phase' \notin Thrown
      BY <1>5 DEF Chooses, Thrown
    <2> QED BY <1>2, <2>1, <2>6, <2>7 DEF Ranges
  <1> QED BY <1>2, <1>3, <1>4, <1>5

\* The invariant of the assembly.
IInv == Sturdy /\ Ranges

LEMMA IInvAlways == Spec => []IInv
  <1>1. Init => Ranges
    BY RangesInit
  <1>2. Sturdy /\ Ranges /\ [Next]_vars => Ranges'
    BY RangesStep DEF Sturdy
  <1> QED BY <1>1, <1>2, SturdyAlways, PTL DEF Spec, IInv

LEMMA Typed ==
    ASSUME IInv
    PROVE  TypeOK
  <1> USE DEF IInv, Ranges, Thrown, Chooses
  <1>1. /\ phase \in {"build", "reduce", "choose", "done", "invalid",
                      "context_exact_tool_output_exceeded",
                      "context_budget_exceeded"}
        /\ at \in 1 .. Len(request) + Len(segments) + 1
        /\ used \in Nat
    OBVIOUS
  <1>2. /\ waiting \cup dropped \subseteq ToSet(segments)
        /\ waiting \cap dropped = {}
    BY DEF Sturdy, Held, Untouched, Charged
  <1> QED BY <1>1, <1>2 DEF TypeOK

LEMMA BudgetStays ==
    ASSUME IInv
    PROVE  BudgetKept
  <1>1. TypeOK
    BY Typed
  <1>2. Segmented(segments)
    BY DEF IInv, Sturdy, Held
  <1>3. \A s \in ToSet(segments) : s.tokens = Tokens(s.messages)
    <2>1. \A s \in ToSet(segments) : IsSegment(s)
      BY <1>2 DEF Segmented, ToSet
    <2> QED BY <2>1 DEF IsSegment, createMessageSegment
  <1>4. ASSUME phase = "done", UniqueIds
        PROVE  /\ SpecTokens + Tokens(assembled) = used
               /\ used <= budget
               /\ \A s \in dropped : s.id \notin selected
    <2>1. /\ used = SpecTokens + Cost(Taken) /\ used <= budget
          /\ dropped \subseteq ToSet(segments)
          /\ selected = {s.id : s \in Taken}
      BY <1>4 DEF IInv, Sturdy, Held, Charged, PutTogether
    <2>2. Tokens(assembled) = Cost(Taken)
      BY <1>4, AssembledCosts DEF IInv
    <2>3. ASSUME NEW s \in dropped, s.id \in selected PROVE FALSE
      <3>1. PICK t \in Taken : s.id = t.id
        BY <2>1, <2>3
      <3>2. s = t
        BY <1>4, <2>1, <3>1, IdsDiffer DEF IInv, Taken
      <3> QED BY <3>1, <3>2 DEF Taken
    <2> QED BY <2>1, <2>2, <2>3
  <1> QED BY <1>1, <1>3, <1>4 DEF BudgetKept

-----------------------------------------------------------------------------
(* The runs of tool calls *)

\* A run that starts at i: calls as far as they go, then outputs, each for a
\* call of the run that has none yet, as far as there are such.
RunIs(i, calls) ==
    /\ calls \in i + 1 .. RunEnd(i)
    /\ \A j \in i .. calls - 1 : request[j].role = "call"
    /\ calls <= Len(request) => request[calls].role # "call"
    /\ \A j \in calls .. RunEnd(i) - 1 :
         /\ request[j].role = "tool"
         /\ \E c \in i .. calls - 1 : request[c].call = request[j].call
    /\ RunEnd(i) <= Len(request) =>
         \/ request[RunEnd(i)].role # "tool"
         \/ \A c \in i .. calls - 1 : request[c].call # request[RunEnd(i)].call
         \/ \E k \in calls .. RunEnd(i) - 1 :
              request[k].call = request[RunEnd(i)].call

LEMMA RunShape ==
    ASSUME InputTypes, NEW i \in 1..Len(request), request[i].role = "call"
    PROVE  \E calls : RunIs(i, calls)
  <1> DEFINE n == Len(request)
             C == {j \in i + 1 .. n + 1 : j = n + 1 \/ request[j].role # "call"}
             calls == Min(C)
             ids == {request[j].call : j \in i .. calls - 1}
             E == {j \in calls .. n + 1 :
                     \/ j = n + 1
                     \/ request[j].role # "tool"
                     \/ request[j].call \notin ids
                     \/ \E k \in calls .. j - 1 : request[k].call = request[j].call}
             e == Min(E)
  <1>1. RunEnd(i) = e
    BY ZenonT(30) DEF RunEnd
  <1>2. n \in Nat
    BY DEF InputTypes
  <1>3. C \in SUBSET Nat /\ n + 1 \in C
    BY <1>2
  <1>4. calls \in C /\ \A j \in C : calls <= j
    <2> HIDE DEF C, n
    <2> QED BY <1>3, MinIs
  <1>5. /\ calls \in i + 1 .. n + 1
        /\ calls <= n => request[calls].role # "call"
    BY <1>2, <1>4
  <1>6. \A j \in i .. calls - 1 : request[j].role = "call"
    <2> SUFFICES ASSUME NEW j \in i .. calls - 1, j # i
                 PROVE  request[j].role = "call"
      OBVIOUS
    <2> HIDE DEF calls
    <2>1. j \in i + 1 .. n + 1 /\ ~(calls <= j)
      BY <1>2, <1>5
    <2>2. j \notin C
      <3> HIDE DEF C
      <3> QED BY <1>4, <2>1
    <2> QED BY <2>1, <2>2
  <1> HIDE DEF calls, C
  <1>7. E \in SUBSET Nat /\ n + 1 \in E
    BY <1>2, <1>5
  <1>8. e \in E /\ \A j \in E : e <= j
    <2> HIDE DEF E, n
    <2> QED BY <1>7, MinIs
  <1>9. /\ e \in calls .. n + 1
        /\ e <= n => \/ request[e].role # "tool"
                     \/ request[e].call \notin ids
                     \/ \E k \in calls .. e - 1 : request[k].call = request[e].call
    <2> HIDE DEF e, ids
    <2>1. /\ e \in calls .. n + 1
          /\ \/ e = n + 1
             \/ request[e].role # "tool"
             \/ request[e].call \notin ids
             \/ \E k \in calls .. e - 1 : request[k].call = request[e].call
      BY <1>8
    <2> QED BY <1>2, <2>1
  <1>10. ASSUME NEW j \in calls .. e - 1
         PROVE  request[j].role = "tool" /\ request[j].call \in ids
    <2> HIDE DEF e, ids
    <2>1. j \in calls .. n + 1 /\ ~(e <= j) /\ j # n + 1
      BY <1>2, <1>5, <1>9
    <2>2. j \notin E
      <3> HIDE DEF E
      <3> QED BY <1>8, <2>1
    <2> QED BY <2>1, <2>2
  <1>11. calls \in i + 1 .. e
    <2> HIDE DEF e, ids
    <2> QED BY <1>2, <1>5, <1>9
  <1> HIDE DEF e, E
  <1>12. RunIs(i, calls)
    BY <1>1, <1>5, <1>6, <1>9, <1>10, <1>11 DEF RunIs
  <1> QED BY <1>12

-----------------------------------------------------------------------------
(* Which message of the request goes where *)

\* Segment k is cut from the request where message i stands.
Holds(k, i) ==
    /\ k \in Reads
    /\ Start(segments[k]) <= i /\ i < EndOf(Start(segments[k]))

LEMMA ReadsAre ==
    ASSUME Sturdy, NEW k \in Reads
    PROVE  LET a == Start(segments[k]) IN
           /\ k \in DOMAIN segments /\ k \in Nat /\ Made(segments[k])
           /\ a \in 1..Len(request) /\ Len(request) \in Nat
           /\ EndOf(a) \in a + 1 .. Len(request) + 1
  <1>1. Len(segments) \in Nat /\ DOMAIN segments = 1..Len(segments)
    BY LenProperties DEF Sturdy, Held, Segmented
  <1>2. InputTypes /\ Remembers \in Nat /\ Len(request) \in Nat
    BY RemembersType DEF Sturdy, Held, InputTypes
  <1>3. k \in DOMAIN segments /\ k \in Nat
    BY <1>1, <1>2 DEF Reads
  <1>4. Made(segments[k])
    BY DEF Sturdy, CutUp
  <1>5. Start(segments[k]) \in 1..Len(request)
    BY <1>4 DEF Made
  <1> QED BY <1>2, <1>3, <1>4, <1>5, EndOfType

LEMMA HeldOnce ==
    ASSUME Sturdy, NEW j, NEW k, NEW i \in Nat, Holds(j, i), Holds(k, i)
    PROVE  j = k
  <1> DEFINE a == Start(segments[j])
             b == Start(segments[k])
             x == EndOf(a)
             y == EndOf(b)
  <1>1. j \in Reads /\ k \in Reads
    BY DEF Holds
  <1>2. /\ j \in Nat /\ a \in Nat /\ x \in Nat
        /\ k \in Nat /\ b \in Nat /\ y \in Nat
    <2>1. /\ j \in Nat /\ a \in 1..Len(request) /\ x \in a + 1 .. Len(request) + 1
          /\ k \in Nat /\ b \in 1..Len(request) /\ y \in b + 1 .. Len(request) + 1
          /\ Len(request) \in Nat
      BY <1>1, ReadsAre
    <2> HIDE DEF a, b, x, y
    <2> QED BY <2>1
  <1>3. /\ j < k => x <= b
        /\ k < j => y <= a
    BY <1>1 DEF Sturdy, CutUp
  <1>4. a <= i /\ i < x /\ b <= i /\ i < y
    BY DEF Holds
  <1> HIDE DEF a, b, x, y
  <1> QED BY <1>2, <1>3, <1>4

LEMMA AllHeld ==
    ASSUME Sturdy, phase # "build", NEW i \in 1..Len(request)
    PROVE  \E k : Holds(k, i)
  BY DEF Sturdy, CutUp, Read, Holds

\* Message i of the request goes to place x of the assembled one.
Sends(line, place, i, x) ==
    \E n \in 1..Cardinality(Chosen) :
      \E p \in 1..Len(segments[line[n]].messages) :
        /\ line[n] \in Reads
        /\ x = place[n] + p
        /\ i = Start(segments[line[n]]) + p - 1

LEMMA SendsIs ==
    ASSUME Sturdy, phase \in {"done", "invalid"}, NEW line, NEW place,
           Stands(line, place), NEW i, NEW x, Sends(line, place, i, x)
    PROVE  /\ i \in 1..Len(request) /\ x \in 1..Len(assembled)
           /\ Carries(assembled[x], request[i])
           /\ \E n \in 1..Cardinality(Chosen) :
                 /\ Holds(line[n], i)
                 /\ x = place[n] + (i - Start(segments[line[n]]) + 1)
                 /\ i - Start(segments[line[n]]) + 1
                      \in 1..Len(segments[line[n]].messages)
  <1>1. PICK n \in 1..Cardinality(Chosen) :
          \E p \in 1..Len(segments[line[n]].messages) :
            /\ line[n] \in Reads
            /\ x = place[n] + p
            /\ i = Start(segments[line[n]]) + p - 1
    BY DEF Sends
  <1> DEFINE s == segments[line[n]]
  <1>2. PICK p \in 1..Len(s.messages) :
            /\ line[n] \in Reads
            /\ x = place[n] + p
            /\ i = Start(s) + p - 1
    BY <1>1
  <1>3. /\ Made(s) /\ s.messages \in Seq(Message) /\ Start(s) \in Nat
    BY <1>2, ReadsAre, WhereFrom
  <1>4. /\ EndOf(Start(s)) \in Nat /\ i \in 1..Len(request)
        /\ i < EndOf(Start(s)) /\ Carries(s.messages[p], request[i])
    BY <1>2, <1>3, StandsFor
  <1>5. /\ SelectedSegments[n] = s
        /\ Len(SelectedSegments) = Cardinality(Chosen)
    BY Assembled DEF Stands, Lines
  <1>6. x \in 1..Len(assembled) /\ assembled[x] = s.messages[p]
    BY <1>2, <1>5 DEF Stands, Spread
  <1>7. p \in Nat /\ p = i - Start(s) + 1 /\ Start(s) <= i
    BY <1>2, <1>3
  <1>8. Holds(line[n], i)
    BY <1>2, <1>4, <1>7 DEF Holds
  <1> QED BY <1>2, <1>4, <1>6, <1>7, <1>8

LEMMA SendsOnce ==
    ASSUME Sturdy, phase \in {"done", "invalid"}, NEW line, NEW place,
           Stands(line, place), NEW i, NEW x, Sends(line, place, i, x),
           NEW j, NEW y, Sends(line, place, j, y)
    PROVE  i = j <=> x = y
  <1>1. PICK m \in 1..Cardinality(Chosen) :
                 /\ Holds(line[m], i)
                 /\ x = place[m] + (i - Start(segments[line[m]]) + 1)
                 /\ i - Start(segments[line[m]]) + 1
                      \in 1..Len(segments[line[m]].messages)
    BY SendsIs
  <1>2. PICK n \in 1..Cardinality(Chosen) :
                 /\ Holds(line[n], j)
                 /\ y = place[n] + (j - Start(segments[line[n]]) + 1)
                 /\ j - Start(segments[line[n]]) + 1
                      \in 1..Len(segments[line[n]].messages)
    BY SendsIs
  <1> DEFINE s == segments[line[m]]
             t == segments[line[n]]
             p == i - Start(s) + 1
             q == j - Start(t) + 1
  <1>3. i \in Nat /\ j \in Nat /\ Start(s) \in Nat /\ Start(t) \in Nat
    <2>1. i \in 1..Len(request) /\ j \in 1..Len(request)
      BY SendsIs
    <2>2. Start(s) \in 1..Len(request) /\ Start(t) \in 1..Len(request)
      BY <1>1, <1>2, ReadsAre DEF Holds
    <2> HIDE DEF s, t
    <2> QED BY <2>1, <2>2
  <1>4. Cardinality(Chosen) \in Nat /\ m \in Nat /\ n \in Nat
    BY Assembled
  <1>5. /\ place[m] \in Nat /\ place[n] \in Nat
        /\ m < n => place[m] + Len(s.messages) <= place[n]
        /\ n < m => place[n] + Len(t.messages) <= place[m]
        /\ Len(s.messages) \in Nat /\ Len(t.messages) \in Nat
    <2>1. /\ SelectedSegments[m] = s /\ SelectedSegments[n] = t
          /\ Len(SelectedSegments) = Cardinality(Chosen)
      BY Assembled DEF Stands, Lines
    <2>2. s.messages \in Seq(Message) /\ t.messages \in Seq(Message)
      BY <1>1, <1>2, ReadsAre, WhereFrom DEF Holds
    <2>3. Len(s.messages) \in Nat /\ Len(t.messages) \in Nat
      BY <2>2
    <2> HIDE DEF s, t
    <2> QED BY <2>1, <2>3 DEF Stands, Spread
  <1>6. x = place[m] + p /\ p \in 1..Len(s.messages)
        /\ y = place[n] + q /\ q \in 1..Len(t.messages)
    BY <1>1, <1>2
  <1>7. x = y => m = n
    <2> DEFINE u == place[m]
               v == place[n]
               a == Len(s.messages)
               b == Len(t.messages)
    <2>1. /\ u \in Nat /\ v \in Nat /\ a \in Nat /\ b \in Nat
          /\ x = u + p /\ p \in 1..a /\ y = v + q /\ q \in 1..b
      BY <1>5, <1>6
    <2>2. (m < n => u + a <= v) /\ (n < m => v + b <= u)
      BY <1>5
    <2> HIDE DEF s, t, p, q, u, v, a, b
    <2>3. m < n => x < y
      BY <2>1, <2>2
    <2>4. n < m => y < x
      BY <2>1, <2>2
    <2>5. x \in Nat /\ y \in Nat
      BY <2>1
    <2> QED BY <1>4, <2>3, <2>4, <2>5
  <1>8. m = n => p - q = i - j /\ x - y = p - q
    <2> HIDE DEF s, t
    <2>1. m = n => s = t
      BY DEF s, t
    <2>2. m = n => p - q = i - j
      BY <1>3, <2>1
    <2>3. p \in Nat /\ q \in Nat
      BY <1>5, <1>6
    <2> HIDE DEF p, q
    <2>4. m = n => x - y = p - q
      BY <1>5, <1>6, <2>3
    <2> QED BY <2>2, <2>4
  <1>9. i = j => m = n
    <2> SUFFICES ASSUME i = j PROVE m = n
      OBVIOUS
    <2>1. line[m] = line[n]
      BY <1>1, <1>2, <1>3, HeldOnce
    <2>2. line[m] \in DOMAIN segments
      BY DEF Stands, Lines, Chosen
    <2>3. ~Precedes(line[m], line[n]) /\ ~Precedes(line[n], line[m])
      BY <2>1, <2>2, PrecedesOrders DEF Sturdy, Held
    <2>4. ~(m < n) /\ ~(n < m)
      BY <2>3 DEF Stands, Lines
    <2> QED BY <1>4, <2>4
  <1>10. x \in Int /\ y \in Int
    <2> HIDE DEF s, t, p, q
    <2> QED BY <1>5, <1>6
  <1>11. m = n => (i = j <=> x = y)
    <2>1. m = n => i - j = x - y
      BY <1>8
    <2> HIDE DEF s, t, p, q
    <2> QED BY <1>3, <1>10, <2>1
  <1> QED BY <1>7, <1>9, <1>11

LEMMA HeldIsSent ==
    ASSUME Sturdy, phase \in {"done", "invalid"}, NEW line, NEW place,
           Stands(line, place), NEW i \in 1..Len(request),
           NEW k \in Chosen, Holds(k, i)
    PROVE  \E x : Sends(line, place, i, x)
  <1> DEFINE s == segments[k]
             p == i - Start(s) + 1
  <1>1. /\ k \in Reads /\ Start(s) <= i /\ i < EndOf(Start(s))
        /\ Start(s) \in 1..Len(request) /\ Len(request) \in Nat
        /\ EndOf(Start(s)) \in Start(s) + 1 .. Len(request) + 1
        /\ Made(s)
    BY ReadsAre DEF Holds
  <1>2. Len(s.messages) = EndOf(Start(s)) - Start(s)
    BY <1>1 DEF Made
  <1>3. p \in 1..Len(s.messages) /\ i = Start(s) + p - 1
    <2> HIDE DEF s
    <2> QED BY <1>1, <1>2
  <1>4. PICK n \in 1..Cardinality(Chosen) : line[n] = k
    BY DEF Stands, Lines
  <1> HIDE DEF p
  <1>5. Sends(line, place, i, place[n] + p)
    BY <1>1, <1>3, <1>4 DEF Sends
  <1> QED BY <1>5

-----------------------------------------------------------------------------
(* The turn in progress *)

\* Only a run of tool calls has more than one message.
LEMMA RunsOfTools ==
    ASSUME InputTypes, NEW a \in 1..Len(request), NEW i \in Nat,
           a <= i, i < EndOf(a), i # a
    PROVE  /\ request[a].role = "call"
           /\ \A j \in a .. EndOf(a) - 1 : request[j].role \in {"call", "tool"}
  <1>1. request[a].role = "call" /\ EndOf(a) = RunEnd(a)
    <2>1. a \in Nat
      OBVIOUS
    <2> QED BY <2>1 DEF EndOf
  <1>2. PICK calls : RunIs(a, calls)
    BY <1>1, RunShape
  <1>3. a \in Nat /\ RunEnd(a) \in Nat /\ calls \in Nat
    <2>1. RunEnd(a) \in a + 1 .. Len(request) + 1
      BY RunEndType
    <2>2. calls \in a + 1 .. RunEnd(a) /\ Len(request) \in Nat
      BY <1>2 DEF RunIs, InputTypes
    <2> QED BY <2>1, <2>2
  <1>4. ASSUME NEW j \in a .. RunEnd(a) - 1
        PROVE  request[j].role \in {"call", "tool"}
    <2>1. j \in a .. calls - 1 \/ j \in calls .. RunEnd(a) - 1
      BY <1>3
    <2> QED BY <1>2, <2>1 DEF RunIs
  <1> QED BY <1>1, <1>4

LEMMA TurnIsPinned ==
    ASSUME Sturdy, phase = "done", NEW i \in 1..Len(request),
           i > findLastUserIndex, request[i].role \in {"user", "call", "tool"},
           NEW k, Holds(k, i)
    PROVE  k \in Chosen
  <1> DEFINE L == findLastUserIndex
             a == Start(segments[k])
  <1>1. InputTypes /\ Len(request) \in Nat
    BY DEF Sturdy, Held, InputTypes
  <1>2. /\ k \in DOMAIN segments /\ Made(segments[k])
        /\ a \in 1..Len(request) /\ EndOf(a) \in a + 1 .. Len(request) + 1
        /\ a <= i /\ i < EndOf(a)
    BY ReadsAre DEF Holds
  <1>3. /\ L \in -1 .. Len(request) - 1
        /\ L # -1 => request[L + 1].role = "user"
        /\ \A j \in 1..Len(request) : request[j].role = "user" => j - 1 <= L
    BY <1>1, LastIndexIs DEF findLastUserIndex
  <1>4. KindOf(a) \in {"current_user", "active_tool_protocol"}
    <2> HIDE DEF L, a
    <2>1. CASE i = a /\ request[i].role = "user"
      <3>1. a - 1 <= L /\ a > L /\ a \in Int /\ L \in Int
        BY <1>2, <1>3, <2>1 DEF L
      <3>2. a - 1 = L
        BY <3>1
      <3> QED BY <2>1, <3>2 DEF KindOf, L
    <2>2. CASE ~(i = a /\ request[i].role = "user")
      <3>1. request[a].role \in {"call", "tool"} /\ request[i].role \in {"call", "tool"}
        <4>1. CASE i = a
          BY <2>2, <4>1
        <4>2. CASE i # a
          <5>1. i \in Nat /\ i \in a .. EndOf(a) - 1
            BY <1>2
          <5> QED BY <1>1, <1>2, <4>2, <5>1, RunsOfTools
        <4> QED BY <4>1, <4>2
      <3>2. L # -1 => a > L + 1
        <4> SUFFICES ASSUME L # -1, ~(a > L + 1) PROVE FALSE
          OBVIOUS
        <4>1. L + 1 \in a .. EndOf(a) - 1 /\ i > L /\ L + 1 <= i
          BY <1>2, <1>3 DEF L
        <4>2. request[L + 1].role \in {"call", "tool"}
          <5>1. CASE i = a
            <6>1. L + 1 = a
              BY <1>2, <1>3, <4>1, <5>1
            <6> QED BY <3>1, <6>1
          <5>2. CASE i # a
            <6>1. i \in Nat
              OBVIOUS
            <6> QED BY <1>1, <1>2, <4>1, <5>2, <6>1, RunsOfTools
          <5> QED BY <5>1, <5>2
        <4> QED BY <1>3, <4>2
      <3>3. L = -1 \/ a - 1 > L
        BY <1>2, <1>3, <3>2
      <3>4. ProtocolKind(a) = "active_tool_protocol"
        BY <3>3 DEF ProtocolKind, IsActive, L
      <3> QED BY <3>1, <3>4 DEF KindOf
    <2> QED BY <2>1, <2>2
  <1>5. IsPinned(segments[k])
    BY <1>2, <1>4 DEF Made, IsPinned, Pinned
  <1>6. segments[k] \in Taken
    BY <1>2, <1>5 DEF Sturdy, Held, Charged, Taken, ToSet
  <1> QED BY <1>2, <1>6 DEF Sturdy, PutTogether, Chosen

LEMMA TurnStays ==
    ASSUME Sturdy
    PROVE  ActiveTurnStays
  <1> DEFINE turn == {"user", "call", "tool"}
             at2(seq, from, r, c) ==
               {i \in DOMAIN seq :
                  i > from /\ seq[i].role = r /\ seq[i].call = c}
  <1> SUFFICES ASSUME phase = "done", NEW r \in turn, NEW c \in Call \cup {None}
               PROVE  Cardinality(at2(assembled, 0, r, c)) >=
                        Cardinality(at2(request, findLastUserIndex, r, c))
    BY DEF ActiveTurnStays
  <1> DEFINE A == at2(request, findLastUserIndex, r, c)
             B == at2(assembled, 0, r, c)
  <1>1. PICK line, place : Stands(line, place)
    BY Assembled
  <1>2. /\ DOMAIN request = 1..Len(request) /\ Len(request) \in Nat
        /\ DOMAIN assembled = 1..Len(assembled) /\ Len(assembled) \in Nat
    BY Assembled, LenProperties DEF Sturdy, Held, InputTypes
  <1> DEFINE f == [i \in A |-> CHOOSE x : Sends(line, place, i, x)]
  <1>3. ASSUME NEW i \in A
        PROVE  Sends(line, place, i, f[i]) /\ f[i] \in B
    <2>1. /\ i \in 1..Len(request) /\ i > findLastUserIndex
          /\ request[i].role = r /\ request[i].call = c
      BY <1>2
    <2>2. PICK k : Holds(k, i)
      BY <2>1, AllHeld
    <2>3. k \in Chosen
      BY <2>1, <2>2, TurnIsPinned
    <2>4. \E x : Sends(line, place, i, x)
      BY <1>1, <2>1, <2>2, <2>3, HeldIsSent
    <2>5. Sends(line, place, i, f[i])
      BY <2>4
    <2> HIDE DEF f
    <2>6. f[i] \in 1..Len(assembled) /\ Carries(assembled[f[i]], request[i])
      BY <1>1, <2>5, SendsIs
    <2>7. f[i] > 0
      BY <2>6
    <2> QED BY <1>2, <2>1, <2>5, <2>6, <2>7 DEF Carries
  <1> HIDE DEF f
  <1>4. \A i, j \in A : f[i] = f[j] => i = j
    BY <1>1, <1>3, SendsOnce
  <1>5. f \in [A -> B]
    BY <1>3 DEF f
  <1>6. f \in Injection(A, B)
    BY <1>4, <1>5 DEF Injection, IsInjective
  <1>7. IsFiniteSet(A) /\ IsFiniteSet(B)
    <2>1. IsFiniteSet(1..Len(request)) /\ IsFiniteSet(1..Len(assembled))
      BY <1>2, FS_Interval
    <2>2. A \in SUBSET (1..Len(request)) /\ B \in SUBSET (1..Len(assembled))
      BY <1>2
    <2> HIDE DEF A, B
    <2> QED BY <2>1, <2>2, FS_Subset
  <1> HIDE DEF A, B
  <1>8. Cardinality(A) <= Cardinality(B)
    BY <1>6, <1>7, FS_Injection
  <1>9. Cardinality(A) \in Nat /\ Cardinality(B) \in Nat
    BY <1>7, FS_CardinalityType
  <1>10. Cardinality(B) >= Cardinality(A)
    BY <1>8, <1>9
  <1> QED BY <1>10 DEF A, B

-----------------------------------------------------------------------------
(* Nothing older stands behind the turn *)

\* A segment cut from a message that is no system message is none either.
LEMMA TalkIsNoSystem ==
    ASSUME Sturdy, NEW k, NEW i \in 1..Len(request), Holds(k, i),
           request[i].role \notin SystemRole
    PROVE  ~SystemLike(k)
  <1> DEFINE a == Start(segments[k])
  <1>1. /\ k \in Reads /\ a <= i /\ i < EndOf(a)
        /\ a \in 1..Len(request) /\ Made(segments[k])
    BY ReadsAre DEF Holds
  <1>2. request[a].role \notin SystemRole
    <2> HIDE DEF a
    <2>1. CASE i = a
      BY <2>1
    <2>2. CASE i # a
      <3>1. i \in Nat /\ InputTypes
        BY DEF Sturdy, Held
      <3>2. request[a].role = "call"
        BY <1>1, <2>2, <3>1, RunsOfTools
      <3> QED BY <3>2 DEF SystemRole
    <2> QED BY <2>1, <2>2
  <1>3. KindOf(a) \notin {"system", "memory_summary"}
    <2> HIDE DEF a
    <2>1. request[a].role # "system" /\ request[a].role # "summary"
      BY <1>2 DEF SystemRole
    <2>2. ProtocolKind(a) \in {"active_tool_protocol", "historical_tool_protocol"}
      BY DEF ProtocolKind
    <2> QED BY <2>1, <2>2 DEF KindOf
  <1> QED BY <1>1, <1>3 DEF Made, SystemLike, isSystemLikeSegment

\* Messages of the conversation do not pass each other.
LEMMA NeverPasses ==
    ASSUME Sturdy, phase \in {"done", "invalid"}, NEW line, NEW place,
           Stands(line, place), NEW i, NEW x, Sends(line, place, i, x),
           NEW j, NEW y, Sends(line, place, j, y),
           request[i].role \notin SystemRole, request[j].role \notin SystemRole,
           i < j
    PROVE  x < y
  <1>1. PICK m \in 1..Cardinality(Chosen) :
                 /\ Holds(line[m], i)
                 /\ x = place[m] + (i - Start(segments[line[m]]) + 1)
                 /\ i - Start(segments[line[m]]) + 1
                      \in 1..Len(segments[line[m]].messages)
    BY SendsIs
  <1>2. PICK n \in 1..Cardinality(Chosen) :
                 /\ Holds(line[n], j)
                 /\ y = place[n] + (j - Start(segments[line[n]]) + 1)
                 /\ j - Start(segments[line[n]]) + 1
                      \in 1..Len(segments[line[n]].messages)
    BY SendsIs
  <1> DEFINE k == line[m]
             l == line[n]
             s == segments[k]
             t == segments[l]
             a == Start(s)
             b == Start(t)
             p == i - a + 1
             q == j - b + 1
  <1>3. /\ i \in 1..Len(request) /\ j \in 1..Len(request)
        /\ i \in Nat /\ j \in Nat
    <2>1. i \in 1..Len(request) /\ j \in 1..Len(request)
      BY SendsIs
    <2> QED BY <2>1
  <1>4. Cardinality(Chosen) \in Nat /\ m \in Nat /\ n \in Nat
    BY Assembled
  <1>5. /\ k \in Reads /\ a <= i /\ i < EndOf(a) /\ Made(s)
        /\ k \in DOMAIN segments /\ k \in Nat
        /\ l \in Reads /\ b <= j /\ j < EndOf(b) /\ Made(t)
        /\ l \in DOMAIN segments /\ l \in Nat
    BY <1>1, <1>2, ReadsAre DEF Holds
  <1>6. a \in Nat /\ b \in Nat /\ EndOf(a) \in Nat /\ EndOf(b) \in Nat
    <2>1. /\ a \in 1..Len(request) /\ b \in 1..Len(request)
          /\ EndOf(a) \in a + 1 .. Len(request) + 1
          /\ EndOf(b) \in b + 1 .. Len(request) + 1 /\ Len(request) \in Nat
      BY <1>5, ReadsAre
    <2> HIDE DEF a, b
    <2> QED BY <2>1
  <1>7. /\ place[m] \in Nat /\ place[n] \in Nat
        /\ m < n => place[m] + Len(s.messages) <= place[n]
        /\ Len(s.messages) \in Nat /\ Len(t.messages) \in Nat
    <2>1. /\ SelectedSegments[m] = s /\ SelectedSegments[n] = t
          /\ Len(SelectedSegments) = Cardinality(Chosen)
      BY Assembled DEF Stands, Lines
    <2>2. s.messages \in Seq(Message) /\ t.messages \in Seq(Message)
      BY <1>5, WhereFrom
    <2>3. Len(s.messages) \in Nat /\ Len(t.messages) \in Nat
      BY <2>2
    <2> HIDE DEF s, t
    <2> QED BY <2>1, <2>3 DEF Stands, Spread
  <1>8. x = place[m] + p /\ p \in 1..Len(s.messages)
        /\ y = place[n] + q /\ q \in 1..Len(t.messages)
    BY <1>1, <1>2
  <1>9. CASE k = l
    <2>1. ~Precedes(k, l) /\ ~Precedes(l, k)
      BY <1>5, <1>9, PrecedesOrders DEF Sturdy, Held
    <2>2. ~(m < n) /\ ~(n < m)
      BY <2>1 DEF Stands, Lines
    <2>3. m = n
      BY <1>4, <2>2
    <2>4. a = b
      BY <1>9
    <2> HIDE DEF s, t, a, b
    <2>5. x = place[m] + (i - a + 1) /\ y = place[m] + (j - a + 1)
      BY <1>8, <2>3, <2>4
    <2> QED BY <1>3, <1>6, <1>7, <2>5
  <1>10. CASE k # l
    <2>1. k < l
      <3>1. k < l \/ l < k
        BY <1>5, <1>10
      <3>2. l < k => EndOf(b) <= a
        BY <1>5 DEF Sturdy, CutUp
      <3> HIDE DEF k, l, a, b
      <3>3. ~(EndOf(b) <= a)
        BY <1>3, <1>5, <1>6
      <3> QED BY <3>1, <3>2, <3>3
    <2>2. EndOf(a) <= b
      BY <1>5, <2>1 DEF Sturdy, CutUp
    <2>3. a < b
      <3> HIDE DEF a, b
      <3> QED BY <1>3, <1>5, <1>6, <2>2
    <2>4. s.order = (a - 1) * 1000 /\ t.order = (b - 1) * 1000
      BY <1>5 DEF Made
    <2>5. s.order < t.order
      <3> HIDE DEF s, t, a, b
      <3> QED BY <1>6, <2>3, <2>4
    <2>6. Older(k, l)
      BY <2>5 DEF Older
    <2>7. ~SystemLike(k) /\ ~SystemLike(l)
      BY <1>1, <1>2, <1>3, TalkIsNoSystem
    <2>8. Precedes(k, l)
      BY <2>6, <2>7, PrecedesIs
    <2>9. m < n
      BY <2>8 DEF Stands, Lines
    <2> HIDE DEF k, l, s, t, p, q
    <2>10. place[m] + Len(s.messages) <= place[n]
      BY <1>7, <2>9
    <2>11. p \in Nat /\ p <= Len(s.messages) /\ q \in Nat /\ q >= 1
      BY <1>7, <1>8
    <2> QED BY <1>7, <1>8, <2>10, <2>11
  <1> QED BY <1>9, <1>10

\* A message that was not sent from the request was remembered.
LEMMA SentOrRemembered ==
    ASSUME Sturdy, phase \in {"done", "invalid"}, NEW line, NEW place,
           Stands(line, place), NEW y \in 1..Len(assembled)
    PROVE  \/ \E j : Sends(line, place, j, y)
           \/ \E n \in 1..Cardinality(Chosen) :
                \E p \in 1..Len(segments[line[n]].messages) :
                  /\ y = place[n] + p
                  /\ line[n] \in 1..Remembers
                  /\ segments[line[n]] = buildMemorySegments[line[n]]
  <1>1. PICK n \in 1..Len(SelectedSegments) :
          \E p \in 1..Len(SelectedSegments[n].messages) : y = place[n] + p
    BY DEF Stands, Spread
  <1>2. PICK p \in 1..Len(SelectedSegments[n].messages) : y = place[n] + p
    BY <1>1
  <1>3. /\ n \in 1..Cardinality(Chosen) /\ line[n] \in DOMAIN segments
        /\ SelectedSegments[n] = segments[line[n]]
    BY Assembled DEF Stands, Lines, Chosen
  <1>4. CASE line[n] \in Reads
    <2>1. Sends(line, place, Start(segments[line[n]]) + p - 1, y)
      BY <1>2, <1>3, <1>4 DEF Sends
    <2> QED BY <2>1
  <1>5. CASE /\ line[n] \in 1..Remembers
             /\ segments[line[n]] = buildMemorySegments[line[n]]
    BY <1>2, <1>3, <1>5
  <1> QED BY <1>3, <1>4, <1>5, WhereFrom

\* What stands behind a message that is newer than all system messages was
\* sent from the request: the memory stands before it.
LEMMA MemoryIsOlder ==
    ASSUME Sturdy, MemoryFits, phase \in {"done", "invalid"},
           NEW line, NEW place, Stands(line, place),
           NEW i, NEW x, Sends(line, place, i, x),
           request[i].role \notin SystemRole, i - 1 > findLastSystemIndex,
           NEW y \in 1..Len(assembled), y > x
    PROVE  \E j : Sends(line, place, j, y)
  <1> SUFFICES ASSUME NEW n \in 1..Cardinality(Chosen),
                      NEW q \in 1..Len(segments[line[n]].messages),
                      y = place[n] + q, line[n] \in 1..Remembers,
                      segments[line[n]] = buildMemorySegments[line[n]]
               PROVE  FALSE
    BY SentOrRemembered
  <1>1. PICK m \in 1..Cardinality(Chosen) :
                 /\ Holds(line[m], i)
                 /\ x = place[m] + (i - Start(segments[line[m]]) + 1)
                 /\ i - Start(segments[line[m]]) + 1
                      \in 1..Len(segments[line[m]].messages)
    BY SendsIs
  <1> DEFINE k == line[m]
             l == line[n]
             s == segments[k]
             t == segments[l]
             a == Start(s)
             p == i - a + 1
             L == findLastSystemIndex
  <1>2. InputTypes /\ Len(request) \in Nat
    BY DEF Sturdy, Held, InputTypes
  <1>3. i \in 1..Len(request) /\ i \in Nat
    <2>1. i \in 1..Len(request)
      BY SendsIs
    <2> QED BY <2>1
  <1>4. Cardinality(Chosen) \in Nat /\ m \in Nat /\ n \in Nat
    BY Assembled
  <1>5. /\ k \in Reads /\ a <= i /\ i < EndOf(a) /\ Made(s)
        /\ k \in DOMAIN segments /\ a \in 1..Len(request)
    BY <1>1, ReadsAre DEF Holds
  <1>6. l \in DOMAIN segments
    BY DEF Stands, Lines, Chosen
  <1>7. /\ L \in -1 .. Len(request) - 1
        /\ L # -1 => request[L + 1].role \in SystemRole
    BY <1>2, LastIndexIs DEF findLastSystemIndex
  <1>8. a - 1 > L
    <2> SUFFICES ASSUME ~(a - 1 > L) PROVE FALSE
      OBVIOUS
    <2> HIDE DEF a, L
    <2>1. L \in Int /\ a \in Int /\ L >= a - 1 /\ L # -1 /\ a >= 1
      BY <1>5, <1>7
    <2>2. i - 1 > L
      BY DEF L
    <2>3. i # a /\ L + 1 >= a /\ L + 1 < i
      BY <1>3, <2>1, <2>2
    <2>4. \A j \in a .. EndOf(a) - 1 : request[j].role \in {"call", "tool"}
      BY <1>2, <1>3, <1>5, <2>3, RunsOfTools
    <2>5. EndOf(a) \in Int
      <3>1. EndOf(a) \in a + 1 .. Len(request) + 1
        BY <1>2, <1>5, EndOfType
      <3> QED BY <1>2, <2>1, <3>1
    <2>6. L + 1 \in a .. EndOf(a) - 1
      BY <1>3, <1>5, <2>1, <2>3, <2>5
    <2>7. request[L + 1].role \in SystemRole
      BY <1>7, <2>1
    <2> QED BY <2>4, <2>6, <2>7 DEF SystemRole
  <1>9. ~SystemLike(k)
    BY <1>1, <1>3, TalkIsNoSystem
  <1>10. Precedes(l, k)
    <2>1. CASE SystemLike(l)
      BY <1>9, <2>1, PrecedesIs
    <2>2. CASE ~SystemLike(l)
      <3>1. t.kind = "recent_exact"
        BY <1>2, <2>2, MemoryHasNoTools DEF SystemLike, isSystemLikeSegment
      <3>2. IndexOf(t) = L
        BY <1>2, <3>1, MemoryHasNoTools DEF IndexOf
      <3>3. t.order \in Int /\ t.order < (L + 1) * 1000
        BY <1>6, <2>2, <3>2, IndexBounds
      <3>4. s.order = (a - 1) * 1000
        BY <1>5 DEF Made
      <3>5. t.order < s.order
        <4> HIDE DEF a, L, s, t
        <4>1. a \in Int /\ L \in Int
          BY <1>5, <1>7
        <4> QED BY <1>8, <3>3, <3>4, <4>1
      <3>6. Older(l, k)
        BY <3>5 DEF Older
      <3> QED BY <1>9, <2>2, <3>6, PrecedesIs
    <2> QED BY <2>1, <2>2
  <1>11. n < m
    BY <1>10 DEF Stands, Lines
  <1>12. /\ place[m] \in Nat /\ place[n] \in Nat
         /\ place[n] + Len(t.messages) <= place[m]
         /\ Len(s.messages) \in Nat /\ Len(t.messages) \in Nat
    <2>1. /\ SelectedSegments[m] = s /\ SelectedSegments[n] = t
          /\ Len(SelectedSegments) = Cardinality(Chosen)
      BY Assembled DEF Stands, Lines
    <2>2. s.messages \in Seq(Message) /\ t.messages \in Seq(Message)
      BY <1>5, <1>6, WhereFrom
    <2>3. Len(s.messages) \in Nat /\ Len(t.messages) \in Nat
      BY <2>2
    <2> HIDE DEF s, t
    <2> QED BY <1>11, <2>1, <2>3 DEF Stands, Spread
  <1>13. x = place[m] + p /\ p \in 1..Len(s.messages)
    BY <1>1
  <1>14. y = place[n] + q /\ q \in 1..Len(t.messages) /\ y > x
    OBVIOUS
  <1> HIDE DEF s, t, p
  <1> QED BY <1>12, <1>13, <1>14

\* Message i of the turn is sent, as what it is.
LEMMA TurnIsSent ==
    ASSUME Sturdy, phase = "done", NEW line, NEW place, Stands(line, place),
           NEW i \in 1..Len(request), i > findLastUserIndex,
           request[i].role \in {"user", "call", "tool"}
    PROVE  \E x \in 1..Len(assembled) :
             /\ Sends(line, place, i, x)
             /\ assembled[x].role = request[i].role
             /\ assembled[x].call = request[i].call
  <1>1. PICK k : Holds(k, i)
    BY AllHeld
  <1>2. k \in Chosen
    BY <1>1, TurnIsPinned
  <1>3. PICK x : Sends(line, place, i, x)
    BY <1>1, <1>2, HeldIsSent
  <1>4. x \in 1..Len(assembled) /\ Carries(assembled[x], request[i])
    BY <1>3, SendsIs
  <1> QED BY <1>3, <1>4 DEF Carries

Later(seq, x, roles) == {y \in 1..Len(seq) : y > x /\ seq[y].role \in roles}

LEMMA AfterIs ==
    ASSUME NEW seq \in Seq(Message), NEW x, NEW roles
    PROVE  /\ After(seq, x, roles) = Cardinality(Later(seq, x, roles))
           /\ IsFiniteSet(Later(seq, x, roles))
           /\ After(seq, x, roles) \in Nat
           /\ After(seq, x, roles) = 0 => Later(seq, x, roles) = {}
  <1>1. DOMAIN seq = 1..Len(seq) /\ Len(seq) \in Nat
    BY LenProperties
  <1>2. After(seq, x, roles) = Cardinality(Later(seq, x, roles))
    BY <1>1 DEF After, Later
  <1>3. IsFiniteSet(1..Len(seq))
    BY <1>1, FS_Interval
  <1>4. Later(seq, x, roles) \in SUBSET (1..Len(seq))
    BY DEF Later
  <1>5. IsFiniteSet(Later(seq, x, roles))
    BY <1>3, <1>4, FS_Subset
  <1>6. /\ Cardinality(Later(seq, x, roles)) \in Nat
        /\ Cardinality(Later(seq, x, roles)) = 0 => Later(seq, x, roles) = {}
    BY <1>5, FS_CardinalityType, FS_EmptySet
  <1> QED BY <1>2, <1>5, <1>6

\* The messages behind one of the turn, when all of them were sent.
LEMMA TurnEnds ==
    ASSUME Sturdy, phase = "done", NEW line, NEW place, Stands(line, place),
           NEW roles \in SUBSET {"user", "call", "tool"},
           \A i, x : \A y \in 1..Len(assembled) :
             /\ Sends(line, place, i, x) /\ i > findLastUserIndex
             /\ request[i].role \in roles
             /\ y > x /\ assembled[y].role \in roles
             => \E j : Sends(line, place, j, y)
    PROVE  EndsWithTurn(roles)
  <1>1. /\ DOMAIN request = 1..Len(request) /\ request \in Seq(Message)
        /\ DOMAIN assembled = 1..Len(assembled) /\ assembled \in Seq(Message)
    BY Assembled, LenProperties DEF Sturdy, Held, InputTypes
  <1> SUFFICES ASSUME NEW i \in 1..Len(request), i > findLastUserIndex,
                      request[i].role \in roles
               PROVE  \E x \in 1..Len(assembled) :
                        /\ assembled[x].role = request[i].role
                        /\ assembled[x].call = request[i].call
                        /\ After(assembled, x, roles) = After(request, i, roles)
    BY <1>1 DEF EndsWithTurn
  <1>2. PICK x \in 1..Len(assembled) :
          /\ Sends(line, place, i, x)
          /\ assembled[x].role = request[i].role
          /\ assembled[x].call = request[i].call
    BY TurnIsSent
  <1> DEFINE A == Later(request, i, roles)
             B == Later(assembled, x, roles)
             f == [j \in A |-> CHOOSE y : Sends(line, place, j, y)]
  <1>3. roles \cap SystemRole = {}
    BY DEF SystemRole
  <1>4. findLastUserIndex \in Int
    BY LastIndexType DEF findLastUserIndex, Sturdy, Held
  <1>5. ASSUME NEW j \in A
        PROVE  Sends(line, place, j, f[j]) /\ f[j] \in B
    <2>1. j \in 1..Len(request) /\ j > i /\ request[j].role \in roles
      BY DEF Later
    <2>2. j > findLastUserIndex
      BY <1>4, <2>1
    <2>3. \E y \in 1..Len(assembled) :
            /\ Sends(line, place, j, y)
            /\ assembled[y].role = request[j].role
            /\ assembled[y].call = request[j].call
      BY <2>1, <2>2, TurnIsSent
    <2>4. Sends(line, place, j, f[j])
      BY <2>3
    <2> HIDE DEF f
    <2>5. f[j] \in 1..Len(assembled) /\ Carries(assembled[f[j]], request[j])
      BY <2>4, SendsIs
    <2>6. x < f[j]
      <3>1. request[i].role \notin SystemRole /\ request[j].role \notin SystemRole
        BY <1>3, <2>1
      <3>2. i < j
        BY <2>1
      <3> QED BY <1>2, <2>4, <3>1, <3>2, NeverPasses
    <2>7. f[j] > x
      BY <2>5, <2>6
    <2>8. assembled[f[j]].role \in roles
      BY <2>1, <2>5 DEF Carries
    <2>9. f[j] \in B
      BY <2>5, <2>7, <2>8 DEF Later
    <2> QED BY <2>4, <2>9
  <1> HIDE DEF f
  <1>6. \A j, k \in A : f[j] = f[k] => j = k
    BY <1>5, SendsOnce
  <1>7. \A y \in B : \E j \in A : f[j] = y
    <2> SUFFICES ASSUME NEW y \in B PROVE \E j \in A : f[j] = y
      OBVIOUS
    <2>1. y \in 1..Len(assembled) /\ y > x /\ assembled[y].role \in roles
      BY DEF Later
    <2>2. PICK j : Sends(line, place, j, y)
      BY <1>2, <2>1
    <2>3. j \in 1..Len(request) /\ Carries(assembled[y], request[j])
      BY <2>2, SendsIs
    <2>4. request[j].role \in roles
      BY <2>1, <2>3 DEF Carries
    <2>5. j # i
      <3> SUFFICES ASSUME j = i PROVE FALSE
        OBVIOUS
      <3>1. x = y
        BY <1>2, <2>2, SendsOnce
      <3> QED BY <2>1, <3>1
    <2>6. ~(j < i)
      <3> SUFFICES ASSUME j < i PROVE FALSE
        OBVIOUS
      <3>1. request[i].role \notin SystemRole /\ request[j].role \notin SystemRole
        BY <1>3, <2>4
      <3>2. y < x
        BY <1>2, <2>2, <3>1, NeverPasses
      <3> QED BY <2>1, <3>2
    <2>7. j > i
      BY <2>3, <2>5, <2>6
    <2>8. j \in A
      BY <2>3, <2>4, <2>7 DEF Later
    <2>9. f[j] = y
      BY <1>5, <2>2, <2>8, SendsOnce
    <2> QED BY <2>8, <2>9
  <1>8. f \in [A -> B]
    <2>1. f = [j \in A |-> f[j]]
      BY DEF f
    <2> HIDE DEF A, B
    <2> QED BY <1>5, <2>1
  <1>9. f \in Injection(A, B) /\ f \in Surjection(A, B)
    <2> HIDE DEF A, B
    <2> QED BY <1>6, <1>7, <1>8 DEF Injection, IsInjective, Surjection
  <1>10. IsFiniteSet(B)
    BY <1>1, AfterIs
  <1>11. Cardinality(A) = Cardinality(B)
    <2> HIDE DEF A, B
    <2> QED BY <1>9, <1>10, FS_Injection
  <1>12. After(assembled, x, roles) = After(request, i, roles)
    BY <1>1, <1>11, AfterIs
  <1> QED BY <1>2, <1>12

\* A call or an output of the assembled request was sent from the request.
LEMMA ToolsAreSent ==
    ASSUME Sturdy, phase \in {"done", "invalid"}, NEW line, NEW place,
           Stands(line, place), NEW x \in 1..Len(assembled),
           assembled[x].role \in {"call", "tool"}
    PROVE  \E i : Sends(line, place, i, x)
  <1>1. PICK n \in 1..Len(SelectedSegments) :
          \E p \in 1..Len(SelectedSegments[n].messages) : x = place[n] + p
    BY DEF Stands, Spread
  <1>2. PICK p \in 1..Len(SelectedSegments[n].messages) : x = place[n] + p
    BY <1>1
  <1>3. assembled[x] = SelectedSegments[n].messages[p]
    BY <1>2 DEF Stands, Spread
  <1>4. /\ n \in 1..Cardinality(Chosen) /\ line[n] \in DOMAIN segments
        /\ SelectedSegments[n] = segments[line[n]]
    BY Assembled DEF Stands, Lines, Chosen
  <1>5. line[n] \in Reads
    <2> SUFFICES ASSUME line[n] \in 1..Remembers,
                        segments[line[n]] = buildMemorySegments[line[n]]
                 PROVE  FALSE
      BY <1>4, WhereFrom
    <2>1. assembled[x].role \in {"summary", "user", "assistant"}
      BY <1>2, <1>3, <1>4, MemoryHasNoTools DEF Sturdy, Held
    <2> QED BY <2>1
  <1>6. Sends(line, place, Start(segments[line[n]]) + p - 1, x)
    BY <1>2, <1>4, <1>5 DEF Sends
  <1> QED BY <1>6

\* Behind the last user message stand no more answers than it had.
LEMMA AnswersAreNew ==
    ASSUME Sturdy, MemoryFits, phase = "done",
           findLastSystemIndex < findLastUserIndex,
           NEW x \in 1..Len(assembled), assembled[x].role = "user",
           After(assembled, x, {"user"}) = 0
    PROVE  After(assembled, x, {"assistant"})
             <= After(request, findLastUserIndex + 1, {"assistant"})
  <1> DEFINE L == findLastUserIndex
             i == L + 1
             A == Later(request, i, {"assistant"})
             B == Later(assembled, x, {"assistant"})
  <1>1. PICK line, place : Stands(line, place)
    BY Assembled
  <1>2. /\ InputTypes /\ request \in Seq(Message) /\ Len(request) \in Nat
        /\ assembled \in Seq(Message)
    BY Assembled DEF Sturdy, Held, InputTypes
  <1>3. /\ L \in -1 .. Len(request) - 1
        /\ L # -1 => request[L + 1].role \in {"user"}
        /\ findLastSystemIndex \in -1 .. Len(request) - 1
    BY <1>2, LastIndexIs DEF findLastUserIndex, findLastSystemIndex
  <1>4. /\ i \in 1..Len(request) /\ request[i].role = "user"
        /\ i > L /\ i - 1 > findLastSystemIndex
    <2>1. findLastSystemIndex < L
      OBVIOUS
    <2> HIDE DEF L
    <2> QED BY <1>2, <1>3, <2>1
  <1> HIDE DEF i
  <1>5. PICK first \in 1..Len(assembled) :
          /\ Sends(line, place, i, first)
          /\ assembled[first].role = request[i].role
    BY <1>1, <1>4, TurnIsSent DEF L
  <1>6. ~(first > x)
    <2>1. Later(assembled, x, {"user"}) = {}
      BY <1>2, AfterIs
    <2> QED BY <1>4, <1>5, <2>1 DEF Later
  <1> DEFINE g == [y \in B |-> CHOOSE j : Sends(line, place, j, y)]
  <1>7. ASSUME NEW y \in B
        PROVE  Sends(line, place, g[y], y) /\ g[y] \in A
    <2>1. y \in 1..Len(assembled) /\ y > x /\ assembled[y].role = "assistant"
      BY DEF Later
    <2>2. y > first
      BY <1>6, <2>1
    <2>3. request[i].role \notin SystemRole
      BY <1>4 DEF SystemRole
    <2>4. \E j : Sends(line, place, j, y)
      BY <1>1, <1>4, <1>5, <2>1, <2>2, <2>3, MemoryIsOlder
    <2>5. Sends(line, place, g[y], y)
      BY <2>4
    <2> HIDE DEF g
    <2>6. g[y] \in 1..Len(request) /\ Carries(assembled[y], request[g[y]])
      BY <1>1, <2>5, SendsIs
    <2>7. request[g[y]].role = "assistant"
      BY <2>1, <2>6 DEF Carries
    <2>8. ~(g[y] < i)
      <3> SUFFICES ASSUME g[y] < i PROVE FALSE
        OBVIOUS
      <3>1. request[g[y]].role \notin SystemRole
        BY <2>7 DEF SystemRole
      <3>2. y < first
        BY <1>1, <1>5, <2>3, <2>5, <3>1, NeverPasses
      <3> QED BY <2>1, <2>2, <3>2
    <2>9. g[y] # i
      BY <1>4, <2>7
    <2>10. g[y] > i
      BY <1>4, <2>6, <2>8, <2>9
    <2> QED BY <2>5, <2>6, <2>7, <2>10 DEF Later
  <1> HIDE DEF g
  <1>8. \A y, z \in B : g[y] = g[z] => y = z
    BY <1>1, <1>7, SendsOnce
  <1>9. g \in [B -> A]
    <2>1. g = [y \in B |-> g[y]]
      BY DEF g
    <2> HIDE DEF A, B
    <2> QED BY <1>7, <2>1
  <1>10. g \in Injection(B, A)
    <2> HIDE DEF A, B
    <2> QED BY <1>8, <1>9 DEF Injection, IsInjective
  <1>11. IsFiniteSet(A)
    BY <1>2, AfterIs
  <1>12. Cardinality(B) <= Cardinality(A)
    <2> HIDE DEF A, B
    <2> QED BY <1>10, <1>11, FS_Injection
  <1> QED BY <1>2, <1>12, AfterIs DEF i, L

LEMMA TurnEndsIt ==
    ASSUME Sturdy
    PROVE  TurnComesLast
  <1> SUFFICES ASSUME phase = "done" PROVE TurnComesLast
    BY DEF TurnComesLast
  <1>1. PICK line, place : Stands(line, place)
    BY Assembled
  <1>2. DOMAIN assembled = 1..Len(assembled) /\ assembled \in Seq(Message)
    BY Assembled, LenProperties
  <1>3. EndsWithTurn({"call", "tool"})
    <2>1. \A i, x : \A y \in 1..Len(assembled) :
            /\ Sends(line, place, i, x) /\ i > findLastUserIndex
            /\ request[i].role \in {"call", "tool"}
            /\ y > x /\ assembled[y].role \in {"call", "tool"}
            => \E j : Sends(line, place, j, y)
      BY <1>1, ToolsAreSent
    <2>2. {"call", "tool"} \in SUBSET {"user", "call", "tool"}
      OBVIOUS
    <2> QED BY <1>1, <2>1, <2>2, TurnEnds
  <1>4. ASSUME findLastSystemIndex < findLastUserIndex, MemoryFits
        PROVE  EndsWithTurn({"user", "call", "tool"})
    <2> DEFINE roles == {"user", "call", "tool"}
    <2>1. ASSUME NEW i, NEW x, NEW y \in 1..Len(assembled),
                 Sends(line, place, i, x), i > findLastUserIndex,
                 request[i].role \in roles, y > x
          PROVE  \E j : Sends(line, place, j, y)
      <3>1. i \in 1..Len(request)
        BY <1>1, <2>1, SendsIs
      <3>2. findLastUserIndex \in Int /\ findLastSystemIndex \in Int
        BY LastIndexType
          DEF findLastUserIndex, findLastSystemIndex, Sturdy, Held
      <3>3. i - 1 > findLastSystemIndex
        BY <1>4, <2>1, <3>1, <3>2
      <3>4. request[i].role \notin SystemRole
        BY <2>1 DEF SystemRole
      <3> QED BY <1>1, <1>4, <2>1, <3>3, <3>4, MemoryIsOlder
    <2>2. \A i, x : \A y \in 1..Len(assembled) :
            /\ Sends(line, place, i, x) /\ i > findLastUserIndex
            /\ request[i].role \in roles
            /\ y > x /\ assembled[y].role \in roles
            => \E j : Sends(line, place, j, y)
      BY <2>1
    <2> QED BY <1>1, <2>2, TurnEnds
  <1>5. ASSUME findLastSystemIndex < findLastUserIndex, MemoryFits,
               NEW x \in DOMAIN assembled, assembled[x].role = "user",
               ~(After(assembled, x, {"user"}) > 0)
        PROVE  After(assembled, x, {"assistant"})
                 <= After(request, findLastUserIndex + 1, {"assistant"})
    <2>1. After(assembled, x, {"user"}) = 0
      <3>1. After(assembled, x, {"user"}) \in Nat
        BY <1>2, AfterIs
      <3> QED BY <1>5, <3>1
    <2> QED BY <1>2, <1>5, <2>1, AnswersAreNew
  <1> QED BY <1>3, <1>4, <1>5 DEF TurnComesLast

LEMMA TurnIsLast ==
    ASSUME IInv
    PROVE  TurnStaysLast
  BY TurnStays, ExactStays, TurnEndsIt, InOrder DEF IInv, TurnStaysLast

-----------------------------------------------------------------------------
(* Runs stay whole *)

\* The output i, with its call c: calls from c to k - 1, outputs of other
\* calls from k to i - 1.
Follows(i, c, k) ==
    /\ c \in 1 .. i - 1 /\ k \in 1 .. i /\ c < k
    /\ request[c].role = "call" /\ request[c].call = request[i].call
    /\ \A j \in c .. k - 1 : request[j].role = "call"
    /\ \A j \in k .. i - 1 : /\ request[j].role = "tool"
                             /\ request[j].call # request[i].call

LEMMA TidyIs ==
    ASSUME Tidy, InputTypes, NEW i \in 1..Len(request), request[i].role = "tool"
    PROVE  \E c, k : Follows(i, c, k)
  <1>1. DOMAIN request = 1..Len(request)
    BY LenProperties DEF InputTypes
  <1> QED BY <1>1 DEF Tidy, Follows

\* No message before a segment's run of calls is a call.
LEMMA RunStartsAnew ==
    ASSUME Sturdy, phase # "build", NEW k \in Reads,
           request[Start(segments[k])].role = "call",
           NEW c \in 1..Len(request), c < Start(segments[k])
    PROVE  \E j \in c .. Start(segments[k]) - 1 : request[j].role # "call"
  <1> DEFINE a == Start(segments[k])
  <1>1. /\ InputTypes /\ Len(request) \in Nat
        /\ a \in 1..Len(request) /\ EndOf(a) \in a + 1 .. Len(request) + 1
    BY ReadsAre DEF Sturdy, Held
  <1> SUFFICES ASSUME \A j \in c .. a - 1 : request[j].role = "call"
               PROVE  FALSE
    OBVIOUS
  <1>2. a - 1 \in 1..Len(request) /\ request[a - 1].role = "call" /\ c \in Nat
    <2>1. a - 1 \in c .. a - 1 /\ a - 1 \in 1..Len(request)
      BY <1>1
    <2> QED BY <2>1
  <1>3. PICK l : Holds(l, a - 1)
    BY <1>2, AllHeld
  <1> DEFINE b == Start(segments[l])
  <1>4. /\ l \in Reads /\ b <= a - 1 /\ a - 1 < EndOf(b)
        /\ b \in 1..Len(request) /\ EndOf(b) \in b + 1 .. Len(request) + 1
    BY <1>3, ReadsAre DEF Holds
  <1>5. ~Holds(l, a)
    <2>1. Holds(k, a)
      <3>1. a <= a /\ a < EndOf(a)
        BY <1>1
      <3> QED BY <3>1 DEF Holds
    <2>2. l # k
      <3>1. ~(a <= a - 1)
        BY <1>1
      <3> QED BY <1>4, <3>1
    <2>3. a \in Nat
      BY <1>1
    <2> HIDE DEF a
    <2> QED BY <2>1, <2>2, <2>3, HeldOnce
  <1> HIDE DEF a, b
  <1>6. EndOf(b) = a
    <2>1. ~(b <= a /\ a < EndOf(b))
      BY <1>4, <1>5 DEF Holds, b
    <2> QED BY <1>1, <1>4, <2>1
  <1>7. request[b].role = "call"
    <2>1. CASE b = a - 1
      BY <1>2, <2>1
    <2>2. CASE b # a - 1
      <3>1. a - 1 \in Nat
        BY <1>1, <1>2
      <3> QED BY <1>1, <1>4, <2>2, <3>1, RunsOfTools
    <2> QED BY <2>1, <2>2
  <1>8. PICK calls : RunIs(b, calls)
    BY <1>1, <1>4, <1>7, RunShape
  <1>9. RunEnd(b) = a
    BY <1>6, <1>7 DEF EndOf
  <1>10. calls \in b + 1 .. a /\ (calls # a => request[a - 1].role = "tool")
    <2>1. calls \in b + 1 .. a
      BY <1>8, <1>9 DEF RunIs
    <2>2. calls # a => a - 1 \in calls .. a - 1
      BY <1>1, <1>4, <2>1
    <2> QED BY <1>8, <1>9, <2>1, <2>2 DEF RunIs
  <1>11. calls = a
    BY <1>2, <1>10
  <1>12. request[a].role # "call"
    <2>1. calls <= Len(request)
      BY <1>1, <1>11
    <2> QED BY <1>8, <1>11, <2>1 DEF RunIs
  <1> QED BY <1>12 DEF a

\* The outputs of a run, up to e, are those of the calls in front of them.
LEMMA RunTakesOutputs ==
    ASSUME Sturdy, phase # "build", Tidy, NEW k \in Reads,
           NEW calls \in Nat, RunIs(Start(segments[k]), calls),
           request[Start(segments[k])].role = "call",
           NEW e \in 1..Len(request), calls <= e,
           \A j \in calls .. e : request[j].role = "tool"
    PROVE  /\ \E c \in Start(segments[k]) .. calls - 1 :
                request[c].call = request[e].call
           /\ \A j \in calls .. e - 1 : request[j].call # request[e].call
  <1> DEFINE a == Start(segments[k])
  <1>1. /\ InputTypes /\ Len(request) \in Nat
        /\ a \in 1..Len(request) /\ calls \in a + 1 .. RunEnd(a)
        /\ RunEnd(a) \in a + 1 .. Len(request) + 1
        /\ \A j \in a .. calls - 1 : request[j].role = "call"
    <2>1. InputTypes /\ Len(request) \in Nat /\ a \in 1..Len(request)
      BY ReadsAre DEF Sturdy, Held
    <2> QED BY <2>1, RunEndType DEF RunIs
  <1>2. calls \in Nat /\ a \in Nat /\ e \in Nat /\ request[e].role = "tool"
    <2>1. calls \in Nat /\ a \in Nat /\ e \in Nat
      BY <1>1
    <2>2. e \in calls .. e
      BY <2>1
    <2> QED BY <2>1, <2>2
  <1>3. PICK c, t : Follows(e, c, t)
    BY <1>1, <1>2, TidyIs
  <1> HIDE DEF a
  <1>4. c \in Nat /\ t \in Nat /\ c < t /\ t <= e /\ c <= e
    BY <1>2, <1>3 DEF Follows
  <1>5. c < calls
    <2>1. request[c].role = "call"
      BY <1>3 DEF Follows
    <2>2. c \notin calls .. e
      BY <2>1
    <2> QED BY <1>2, <1>4, <2>2
  <1>6. t = calls
    <2>1. CASE t < calls
      <3>1. calls - 1 \in t .. e - 1
        BY <1>2, <1>4, <2>1
      <3>2. request[calls - 1].role = "tool"
        BY <1>3, <3>1 DEF Follows
      <3>3. calls - 1 \in a .. calls - 1
        BY <1>1, <1>2
      <3> QED BY <1>1, <3>2, <3>3
    <2>2. CASE calls < t
      <3>1. calls \in c .. t - 1
        BY <1>2, <1>4, <1>5, <2>2
      <3>2. request[calls].role = "call"
        BY <1>3, <3>1 DEF Follows
      <3>3. calls \in calls .. e
        BY <1>2
      <3> QED BY <3>2, <3>3
    <2> QED BY <1>2, <1>4, <2>1, <2>2
  <1>7. a <= c
    <2> SUFFICES ASSUME ~(a <= c) PROVE FALSE
      OBVIOUS
    <2>1. c \in 1..Len(request) /\ c < a
      BY <1>1, <1>2, <1>3, <1>4 DEF Follows
    <2>2. PICK j \in c .. a - 1 : request[j].role # "call"
      BY <2>1, RunStartsAnew DEF a
    <2>3. j \in c .. t - 1
      BY <1>1, <1>2, <1>4, <1>6
    <2> QED BY <1>3, <2>2, <2>3 DEF Follows
  <1>8. c \in a .. calls - 1 /\ request[c].call = request[e].call
    BY <1>2, <1>3, <1>4, <1>5, <1>7 DEF Follows
  <1>9. \A j \in calls .. e - 1 : request[j].call # request[e].call
    BY <1>3, <1>6 DEF Follows
  <1> QED BY <1>8, <1>9 DEF a

\* When the outputs stand next to their calls, none is a segment of its own.
LEMMA NoOrphans ==
    ASSUME Sturdy, phase # "build", Tidy, NEW k \in Reads
    PROVE  request[Start(segments[k])].role # "tool"
  <1> DEFINE i == Start(segments[k])
  <1> SUFFICES ASSUME request[i].role = "tool" PROVE FALSE
    OBVIOUS
  <1>1. /\ InputTypes /\ Len(request) \in Nat
        /\ i \in 1..Len(request) /\ EndOf(i) \in i + 1 .. Len(request) + 1
    BY ReadsAre DEF Sturdy, Held
  <1>2. PICK c, t : Follows(i, c, t)
    BY <1>1, TidyIs
  <1>3. Holds(k, i)
    <2>1. i <= i /\ i < EndOf(i)
      BY <1>1
    <2> QED BY <2>1 DEF Holds
  <1>4. c \in 1..Len(request) /\ request[c].role = "call" /\ c < t /\ t <= i
        /\ t \in Nat /\ c < i
    <2> HIDE DEF i
    <2> QED BY <1>1, <1>2 DEF Follows
  <1>5. PICK l : Holds(l, c)
    BY <1>4, AllHeld
  <1> DEFINE a == Start(segments[l])
  <1>6. /\ l \in Reads /\ a <= c /\ c < EndOf(a)
        /\ a \in 1..Len(request) /\ EndOf(a) \in a + 1 .. Len(request) + 1
    BY <1>5, ReadsAre DEF Holds
  <1>7. c \in Nat /\ a \in Nat /\ i \in Nat
    BY <1>1, <1>4, <1>6
  <1>8. request[a].role = "call" /\ EndOf(a) = RunEnd(a)
    <2>1. request[a].role = "call"
      <3>1. CASE a = c
        BY <1>4, <3>1
      <3>2. CASE a # c
        <4> HIDE DEF a
        <4> QED BY <1>1, <1>6, <1>7, <3>2, RunsOfTools
      <3> QED BY <3>1, <3>2
    <2> QED BY <2>1 DEF EndOf
  <1>9. PICK calls : RunIs(a, calls)
    BY <1>1, <1>6, <1>8, RunShape
  <1> HIDE DEF a, i
  <1>10. calls \in a + 1 .. RunEnd(a) /\ calls \in Nat
    BY <1>7, <1>9 DEF RunIs
  <1>11. c < calls
    <2> SUFFICES ASSUME ~(c < calls) PROVE FALSE
      OBVIOUS
    <2>1. c \in calls .. RunEnd(a) - 1
      BY <1>6, <1>7, <1>8, <1>10
    <2>2. request[c].role = "tool"
      BY <1>9, <2>1 DEF RunIs
    <2> QED BY <1>4, <2>2
  <1>12. calls = t
    <2>1. CASE t < calls
      <3>1. t \in a .. calls - 1
        BY <1>4, <1>6, <1>7, <1>10, <2>1
      <3>2. request[t].role = "call"
        BY <1>9, <3>1 DEF RunIs
      <3>3. t = i \/ t \in t .. i - 1
        BY <1>4, <1>7
      <3>4. t = i \/ request[t].role = "tool"
        BY <1>2, <3>3 DEF Follows
      <3>5. request[t].role = "tool"
        BY <3>4 DEF i
      <3> QED BY <3>2, <3>5
    <2>2. CASE calls < t
      <3>1. calls \in c .. t - 1 /\ calls <= Len(request)
        BY <1>1, <1>4, <1>7, <1>10, <1>11, <2>2
      <3>2. request[calls].role = "call"
        BY <1>2, <3>1 DEF Follows
      <3> QED BY <1>9, <3>1, <3>2 DEF RunIs
    <2> QED BY <1>4, <1>10, <2>1, <2>2
  <1>13. \A j \in calls .. i : request[j].role = "tool"
    <2> SUFFICES ASSUME NEW j \in calls .. i PROVE request[j].role = "tool"
      OBVIOUS
    <2>1. j = i \/ j \in t .. i - 1
      BY <1>7, <1>10, <1>12
    <2>2. j = i \/ request[j].role = "tool"
      BY <1>2, <2>1 DEF Follows
    <2> QED BY <2>2 DEF i
  <1>14. ASSUME NEW e \in 1..Len(request), calls <= e,
                \A j \in calls .. e : request[j].role = "tool"
         PROVE  /\ \E d \in a .. calls - 1 : request[d].call = request[e].call
                /\ \A j \in calls .. e - 1 : request[j].call # request[e].call
    <2>1. /\ l \in Reads /\ RunIs(Start(segments[l]), calls)
          /\ request[Start(segments[l])].role = "call"
      BY <1>6, <1>8, <1>9 DEF a
    <2>2. Sturdy /\ phase # "build" /\ Tidy
      OBVIOUS
    <2>3. /\ \E d \in Start(segments[l]) .. calls - 1 :
                 request[d].call = request[e].call
          /\ \A j \in calls .. e - 1 : request[j].call # request[e].call
      BY <1>10, <1>14, <2>1, <2>2, RunTakesOutputs
    <2> QED BY <2>3 DEF a
  <1>15. i < RunEnd(a)
    <2> DEFINE e == RunEnd(a)
    <2> SUFFICES ASSUME ~(i < e) PROVE FALSE
      OBVIOUS
    <2>1. e \in 1..Len(request) /\ e <= i /\ calls <= e
      BY <1>1, <1>6, <1>7, <1>8, <1>10
    <2>2. \A j \in calls .. e : request[j].role = "tool"
      <3>1. \A j \in calls .. e : j \in calls .. i
        BY <1>7, <1>10, <2>1
      <3> QED BY <1>13, <3>1
    <2>3. e \in calls .. e
      BY <1>10, <2>1
    <2>4. request[e].role = "tool"
      BY <2>2, <2>3
    <2> HIDE DEF e
    <2>5. /\ \E d \in a .. calls - 1 : request[d].call = request[e].call
          /\ \A j \in calls .. e - 1 : request[j].call # request[e].call
      BY <2>1, <2>2, <1>14
    <2>6. /\ e <= Len(request)
          /\ \/ request[e].role # "tool"
             \/ \A d \in a .. calls - 1 : request[d].call # request[e].call
             \/ \E j \in calls .. e - 1 : request[j].call = request[e].call
      <3>1. e <= Len(request)
        BY <2>1
      <3> QED BY <1>9, <3>1 DEF RunIs, e
    <2> QED BY <2>4, <2>5, <2>6
  <1>16. Holds(l, i)
    <2>1. a <= i /\ i < EndOf(a)
      BY <1>4, <1>6, <1>7, <1>8, <1>15
    <2> QED BY <1>6, <2>1 DEF Holds, a
  <1>17. l = k
    BY <1>3, <1>7, <1>16, HeldOnce
  <1>18. request[i].role = "call"
    BY <1>8, <1>17 DEF a, i
  <1> QED BY <1>18 DEF i

\* A request is valid when no call is repeated and every output has a call.
Answered(messages) ==
    \A i \in 1..Len(messages) :
      /\ messages[i].role = "call" =>
           \A j \in 1 .. i - 1 : ~(/\ messages[j].role = "call"
                                   /\ messages[j].call = messages[i].call)
      /\ messages[i].role = "tool" =>
           \E j \in 1 .. i - 1 : /\ messages[j].role = "call"
                                 /\ messages[j].call = messages[i].call

LEMMA ValidIs ==
    ASSUME NEW messages \in Seq(Message)
    PROVE  Valid(messages) <=> messages # <<>> /\ Answered(messages)
  <1>1. DOMAIN messages = 1..Len(messages)
    BY LenProperties
  <1> QED BY <1>1 DEF Valid, Answered

LEMMA RunsStay ==
    ASSUME Sturdy
    PROVE  ToolRunsStayWhole
  <1> SUFFICES ASSUME phase = "invalid", Valid(request), Tidy, assembled # <<>>
               PROVE  FALSE
    BY DEF ToolRunsStayWhole
  <1>1. PICK line, place : Stands(line, place)
    BY Assembled
  <1>2. assembled \in Seq(Message) /\ InputTypes /\ request \in Seq(Message)
    BY Assembled DEF Sturdy, Held, InputTypes
  <1>3. Answered(request)
    BY <1>2, ValidIs
  <1>4. ASSUME NEW x \in 1..Len(assembled), assembled[x].role = "call",
               NEW y \in 1 .. x - 1, assembled[y].role = "call",
               assembled[y].call = assembled[x].call
        PROVE  FALSE
    <2>1. y \in 1..Len(assembled) /\ x # y
      BY <1>2, <1>4
    <2>2. PICK i : Sends(line, place, i, x)
      BY <1>1, <1>4, ToolsAreSent
    <2>3. PICK j : Sends(line, place, j, y)
      BY <1>1, <1>4, <2>1, ToolsAreSent
    <2>4. i # j
      BY <1>1, <2>1, <2>2, <2>3, SendsOnce
    <2>5. /\ i \in 1..Len(request) /\ Carries(assembled[x], request[i])
          /\ j \in 1..Len(request) /\ Carries(assembled[y], request[j])
      BY <1>1, <2>2, <2>3, SendsIs
    <2>6. /\ request[i].role = "call" /\ request[j].role = "call"
          /\ request[i].call = request[j].call
      BY <1>4, <2>5 DEF Carries
    <2>7. i \in 1 .. j - 1 \/ j \in 1 .. i - 1
      <3>1. i \in 1..Len(request) /\ j \in 1..Len(request) /\ i # j
            /\ Len(request) \in Nat
        BY <1>2, <2>4, <2>5
      <3> QED BY <3>1
    <2> QED BY <1>3, <2>5, <2>6, <2>7 DEF Answered
  <1>5. ASSUME NEW x \in 1..Len(assembled), assembled[x].role = "tool"
        PROVE  \E y \in 1 .. x - 1 : /\ assembled[y].role = "call"
                                     /\ assembled[y].call = assembled[x].call
    <2>1. PICK i : Sends(line, place, i, x)
      BY <1>1, <1>5, ToolsAreSent
    <2>2. /\ i \in 1..Len(request) /\ request[i].role = "tool"
          /\ assembled[x].call = request[i].call
      BY <1>1, <1>5, <2>1, SendsIs DEF Carries
    <2>3. PICK n \in 1..Cardinality(Chosen) :
                 /\ Holds(line[n], i)
                 /\ x = place[n] + (i - Start(segments[line[n]]) + 1)
                 /\ i - Start(segments[line[n]]) + 1
                      \in 1..Len(segments[line[n]].messages)
      BY <1>1, <2>1, SendsIs
    <2> DEFINE s == segments[line[n]]
               a == Start(s)
    <2>4. /\ line[n] \in Reads /\ a <= i /\ i < EndOf(a)
          /\ a \in 1..Len(request) /\ Len(request) \in Nat
          /\ EndOf(a) \in a + 1 .. Len(request) + 1
      BY <2>3, ReadsAre DEF Holds
    <2>5. request[a].role = "call" /\ EndOf(a) = RunEnd(a)
      <3>1. a # i
        BY <2>2, <2>4, NoOrphans
      <3>2. i \in Nat
        BY <2>2
      <3> HIDE DEF a
      <3>3. request[a].role = "call"
        BY <1>2, <2>4, <3>1, <3>2, RunsOfTools
      <3> QED BY <3>3 DEF EndOf
    <2>6. PICK calls : RunIs(a, calls)
      BY <1>2, <2>4, <2>5, RunShape
    <2> HIDE DEF a, s
    <2>7. calls \in a + 1 .. RunEnd(a)
      BY <2>6 DEF RunIs
    <2>8. i \in calls .. RunEnd(a) - 1
      <3> SUFFICES ASSUME i \notin calls .. RunEnd(a) - 1 PROVE FALSE
        OBVIOUS
      <3>1. i \in a .. calls - 1
        BY <2>2, <2>4, <2>5, <2>7
      <3>2. request[i].role = "call"
        BY <2>6, <3>1 DEF RunIs
      <3> QED BY <2>2, <3>2
    <2>9. PICK c \in a .. calls - 1 : request[c].call = request[i].call
      BY <2>6, <2>8 DEF RunIs
    <2>10. /\ c \in 1..Len(request) /\ c < i /\ a <= c /\ c < EndOf(a)
           /\ c \in Nat /\ i \in Nat
      BY <2>2, <2>4, <2>5, <2>7, <2>8
    <2>11. request[c].role = "call"
      BY <2>6, <2>9 DEF RunIs
    <2>12. line[n] \in Chosen /\ Holds(line[n], c)
      BY <1>1, <2>4, <2>10 DEF Stands, Lines, Holds, a, s
    <2>13. PICK y : Sends(line, place, c, y)
      BY <1>1, <2>10, <2>12, HeldIsSent
    <2>14. /\ y \in 1..Len(assembled) /\ Carries(assembled[y], request[c])
           /\ \E m \in 1..Cardinality(Chosen) :
                 /\ Holds(line[m], c)
                 /\ y = place[m] + (c - Start(segments[line[m]]) + 1)
                 /\ c - Start(segments[line[m]]) + 1
                      \in 1..Len(segments[line[m]].messages)
      BY <1>1, <2>13, SendsIs
    <2>15. PICK m \in 1..Cardinality(Chosen) :
                 /\ Holds(line[m], c)
                 /\ y = place[m] + (c - Start(segments[line[m]]) + 1)
      BY <2>14
    <2>16. m = n
      <3>1. line[m] = line[n] /\ line[n] \in DOMAIN segments
        BY <2>10, <2>12, <2>15, HeldOnce DEF Chosen
      <3>2. ~Precedes(line[m], line[n]) /\ ~Precedes(line[n], line[m])
        BY <3>1, PrecedesOrders DEF Sturdy, Held
      <3>3. ~(m < n) /\ ~(n < m)
        BY <1>1, <3>2 DEF Stands, Lines
      <3>4. Cardinality(Chosen) \in Nat
        BY Assembled
      <3> QED BY <3>3, <3>4
    <2>17. place[n] \in Nat
      <3>1. n \in 1..Len(SelectedSegments)
        BY Assembled
      <3> QED BY <1>1, <3>1 DEF Stands, Spread
    <2>18. y = place[n] + (c - a + 1) /\ x = place[n] + (i - a + 1)
      BY <2>3, <2>15, <2>16 DEF a, s
    <2>19. y < x
      <3>1. c - a + 1 < i - a + 1 /\ c - a + 1 \in Int /\ i - a + 1 \in Int
        BY <2>4, <2>10
      <3> QED BY <2>17, <2>18, <3>1
    <2>20. y \in 1 .. x - 1
      <3>1. y \in 1..Len(assembled) /\ x \in 1..Len(assembled)
        BY <2>14
      <3> QED BY <2>19, <3>1
    <2>21. assembled[y].role = "call" /\ assembled[y].call = assembled[x].call
      BY <2>2, <2>9, <2>11, <2>14 DEF Carries
    <2> QED BY <2>20, <2>21
  <1>6. Answered(assembled)
    BY <1>4, <1>5 DEF Answered
  <1>7. Valid(assembled)
    BY <1>2, <1>6, ValidIs
  <1> QED BY <1>7 DEF Sturdy, PutTogether

-----------------------------------------------------------------------------
(* What the assembled request promises, whatever the messages, the memory   *)
(* and the budget                                                           *)

(* The assembled request, with the schemas of the tools, costs exactly the  *)
(* usedTokens that were charged, which is within the budget, and nothing    *)
(* reported as dropped is in it, when no two segments share an id.          *)
THEOREM BudgetAlwaysKept == Spec => []BudgetKept
  <1>1. IInv => BudgetKept
    BY BudgetStays
  <1> QED BY <1>1, IInvAlways, PTL

(* The turn in progress is in the assembled request, all of it and to the   *)
(* letter where its tools need it; the request's last calls and outputs are *)
(* the turn's, and so is its last user message when no system message came  *)
(* during the turn: neither history nor memory stands behind it.  What is   *)
(* kept of the conversation keeps its order, the memory in the place where  *)
(* the last system message stood.                                           *)
THEOREM TurnAlwaysLast == Spec => []TurnStaysLast
  <1>1. IInv => TurnStaysLast
    BY TurnIsLast
  <1> QED BY <1>1, IInvAlways, PTL

(* Dropping history tears no output from its call: of a valid request that  *)
(* keeps its outputs next to their calls the assembly is valid, unless      *)
(* nothing is left of it.                                                   *)
THEOREM RunsAlwaysWhole == Spec => []ToolRunsStayWhole
  <1>1. IInv => ToolRunsStayWhole
    BY RunsStay DEF IInv
  <1> QED BY <1>1, IInvAlways, PTL
=============================================================================
