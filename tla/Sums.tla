---------------------------------- MODULE Sums ----------------------------------
(***************************************************************************)
(* What the other proofs share: a set of numbers has a smallest element,   *)
(* induction and recursion on the subsets of a finite set, and what a fold *)
(* over a finite set computes, the sums of adjustments, file remarks,      *)
(* deposits and what is left to pay.                                       *)
(***************************************************************************)
EXTENDS Naturals, FiniteSetsExt, FiniteSetTheorems, WellFoundedInduction, TLAPS

--------------------------------------------------------------------------------
\* Induction and recursion on finite sets.

LessThan == {pair \in Nat \X Nat : pair[1] < pair[2]}

\* A set of numbers that is not empty has a smallest one.
LEMMA Smallest ==
  ASSUME NEW T \in SUBSET Nat, T # {}
  PROVE  \E x \in T : \A y \in T : x <= y
<1>1. IsWellFoundedOn(LessThan, Nat)
  BY NatLessThanWellFounded DEF OpToRel, LessThan
<1>2. PICK x \in T : \A y \in T : <<y, x>> \notin LessThan
  BY <1>1, WFMin
<1>3. ASSUME NEW y \in T PROVE x <= y
  <2>1. x \in Nat /\ y \in Nat /\ <<y, x>> \notin LessThan
    BY <1>2
  <2>2. ~(y < x)
    BY <2>1 DEF LessThan
  <2> QED
    BY <2>1, <2>2
<1> QED
  BY <1>3

\* A set is good if it is whenever all sets with an element less are.
LEMMA EverySubset ==
  ASSUME NEW S, IsFiniteSet(S), NEW Good,
         \A T \in SUBSET S : (\A x \in T : T \ {x} \in Good) => T \in Good
  PROVE  \A T \in SUBSET S : T \in Good
<1> SUFFICES ASSUME NEW B \in SUBSET S, B \notin Good PROVE FALSE
  OBVIOUS
<1> DEFINE Sizes == {n \in Nat : \E T \in SUBSET S : T \notin Good /\ Cardinality(T) = n}
<1>1. \A T \in SUBSET S : IsFiniteSet(T) /\ Cardinality(T) \in Nat
  BY FS_Subset, FS_CardinalityType
<1>2. Sizes \in SUBSET Nat /\ Sizes # {}
  BY <1>1
<1>3. PICK n \in Sizes : \A m \in Sizes : n <= m
  <2> HIDE DEF Sizes
  <2> QED
    BY <1>2, Smallest
<1>4. PICK T \in SUBSET S : T \notin Good /\ Cardinality(T) = n
  OBVIOUS
<1>5. PICK x \in T : T \ {x} \notin Good
  BY <1>4
<1>6. T \ {x} \in SUBSET S
  OBVIOUS
<1>7. Cardinality(T \ {x}) = n - 1 /\ n \in Nat
  BY <1>1, <1>4, <1>5, FS_RemoveElement
<1>8. Cardinality(T \ {x}) \in Sizes
  BY <1>1, <1>5, <1>6
<1> HIDE DEF Sizes
<1>9. n <= n - 1
  BY <1>3, <1>7, <1>8
<1> QED
  BY <1>7, <1>9

\* A recursion that takes its element away from the set, and its solution.
Solves(sol, S, base, step, pick) ==
  \A T \in SUBSET S :
    sol[T] = IF T = {} THEN base ELSE step[<<pick[T], sol[T \ {pick[T]}]>>]

\* Such a recursion has a solution, found set size by set size.
LEMMA Solvable ==
  ASSUME NEW S, IsFiniteSet(S), NEW V, NEW base \in V, NEW step \in [S \X V -> V],
         NEW pick, \A T \in SUBSET S : T # {} => pick[T] \in T
  PROVE  \E sol \in [SUBSET S -> V] : Solves(sol, S, base, step, pick)
<1> DEFINE Step(sol, T) == sol[T] = IF T = {} THEN base
                                    ELSE step[<<pick[T], sol[T \ {pick[T]}]>>]
           Right(sol, n) == \A T \in SUBSET S : Cardinality(T) < n => Step(sol, T)
           Found == {n \in Nat : \E sol \in [SUBSET S -> V] : Right(sol, n)}
           Missing == Nat \ Found
<1>1. \A T \in SUBSET S : IsFiniteSet(T) /\ Cardinality(T) \in Nat
  BY FS_Subset, FS_CardinalityType
<1>2. 0 \in Found
  <2>1. [T \in SUBSET S |-> base] \in [SUBSET S -> V]
    OBVIOUS
  <2>2. \A T \in SUBSET S : ~(Cardinality(T) < 0)
    BY <1>1
  <2>3. Right([T \in SUBSET S |-> base], 0)
    BY <2>2
  <2> QED
    BY <2>1, <2>3
<1>3. ASSUME NEW n \in Nat, n \in Found PROVE n + 1 \in Found
  <2>1. PICK sol \in [SUBSET S -> V] : Right(sol, n)
    BY <1>3
  <2> DEFINE value(T) == IF T = {} THEN base ELSE step[<<pick[T], sol[T \ {pick[T]}]>>]
             more == [T \in SUBSET S |-> IF Cardinality(T) = n THEN value(T) ELSE sol[T]]
  <2>2. ASSUME NEW T \in SUBSET S, T # {}
        PROVE  /\ pick[T] \in S /\ T \ {pick[T]} \in SUBSET S
               /\ Cardinality(T \ {pick[T]}) = Cardinality(T) - 1
    BY <1>1, <2>2, FS_RemoveElement
  <2>3. \A T \in SUBSET S : value(T) \in V
    BY <2>2
  <2>4. more \in [SUBSET S -> V]
    <3> HIDE DEF value
    <3> QED
      BY <2>3
  <2>5. ASSUME NEW T \in SUBSET S, Cardinality(T) < n + 1
        PROVE  Step(more, T)
    <3>1. T # {} => more[T \ {pick[T]}] = sol[T \ {pick[T]}]
      <4> SUFFICES ASSUME T # {} PROVE more[T \ {pick[T]}] = sol[T \ {pick[T]}]
        OBVIOUS
      <4> DEFINE rest == T \ {pick[T]}
      <4>1. rest \in SUBSET S /\ Cardinality(rest) # n
        BY <1>1, <2>2, <2>5
      <4> HIDE DEF rest, value
      <4>2. more[rest] = sol[rest]
        BY <4>1
      <4> QED
        BY <4>2 DEF rest
    <3>2. more[T] = value(T)
      <4>1. CASE Cardinality(T) = n
        BY <4>1
      <4>2. CASE Cardinality(T) # n
        <5>1. Cardinality(T) < n
          BY <1>1, <2>5, <4>2
        <5>2. sol[T] = value(T)
          BY <2>1, <5>1
        <5> HIDE DEF value
        <5> QED
          BY <4>2, <5>2
      <4> QED
        BY <4>1, <4>2
    <3> HIDE DEF more
    <3> QED
      BY <3>1, <3>2
  <2>6. Right(more, n + 1)
    <3> HIDE DEF more, Step
    <3> QED
      BY <2>5
  <2> HIDE DEF more, Right
  <2> QED
    BY <2>4, <2>6
<1>4. Missing = {}
  <2> SUFFICES ASSUME Missing # {} PROVE FALSE
    OBVIOUS
  <2>1. PICK n \in Missing : \A m \in Missing : n <= m
    <3>1. Missing \in SUBSET Nat
      OBVIOUS
    <3> HIDE DEF Missing
    <3> QED
      BY <3>1, Smallest
  <2> HIDE DEF Found
  <2>2. n \in Nat /\ n # 0 /\ n \notin Found
    BY <1>2
  <2>3. n - 1 \in Nat /\ n - 1 + 1 = n /\ ~(n <= n - 1)
    BY <2>2
  <2>4. n - 1 \in Found
    BY <2>1, <2>3
  <2> QED
    BY <1>3, <2>2, <2>3, <2>4
<1>5. Cardinality(S) + 1 \in Found
  <2>1. Cardinality(S) \in Nat
    BY <1>1
  <2> HIDE DEF Found
  <2> QED
    BY <1>4, <2>1
<1>6. PICK sol \in [SUBSET S -> V] : Right(sol, Cardinality(S) + 1)
  BY <1>5
<1>7. \A T \in SUBSET S : Cardinality(T) < Cardinality(S) + 1
  <2>1. \A T \in SUBSET S : Cardinality(T) <= Cardinality(S)
    BY FS_Subset
  <2> QED
    BY <1>1, <2>1
<1>8. \A T \in SUBSET S : Step(sol, T)
  <2> HIDE DEF Step
  <2> QED
    BY <1>6, <1>7
<1> QED
  BY <1>8 DEF Solves

--------------------------------------------------------------------------------
\* Sums.  FoldFunctionOnSet adds the values in an order of its own.

SumOn(f, S) == FoldFunctionOnSet(+, 0, f, S)

First(T) == CHOOSE x \in T : TRUE
Firsts(S) == [T \in SUBSET S |-> First(T)]
AddTo(f, S) == [p \in S \X Nat |-> f[p[1]] + p[2]]

\* What the fold computes: the solution of its recursion.
LEMMA SumSolves ==
  ASSUME NEW S, IsFiniteSet(S), NEW f, \A x \in S : f[x] \in Nat
  PROVE  \E sol \in [SUBSET S -> Nat] :
           /\ \A T \in SUBSET S : SumOn(f, T) = sol[T]
           /\ Solves(sol, S, 0, AddTo(f, S), Firsts(S))
<1>1. \A T \in SUBSET S : T # {} => Firsts(S)[T] \in T
  BY DEF Firsts, First
<1>2. AddTo(f, S) \in [S \X Nat -> Nat]
  BY DEF AddTo
<1>3. PICK sol \in [SUBSET S -> Nat] : Solves(sol, S, 0, AddTo(f, S), Firsts(S))
  BY <1>1, <1>2, Solvable
<1>4. ASSUME NEW T \in SUBSET S PROVE SumOn(f, T) = sol[T]
  <2> DEFINE P(g) == g = [U \in SUBSET T |-> IF U = {} THEN 0
                                             ELSE f[First(U)] + g[U \ {First(U)}]]
             iter == CHOOSE g : P(g)
  <2>1. SumOn(f, T) = iter[T]
    BY Zenon DEF SumOn, FoldFunctionOnSet, MapThenFoldSet, First
  <2>2. ASSUME NEW U \in SUBSET T, U # {}
        PROVE  /\ U \in SUBSET S /\ First(U) \in S /\ Firsts(S)[U] = First(U)
               /\ U \ {First(U)} \in SUBSET T
               /\ \A n \in Nat : AddTo(f, S)[<<First(U), n>>] = f[First(U)] + n
    <3>1. First(U) \in U /\ Firsts(S)[U] = First(U)
      BY <2>2 DEF Firsts, First
    <3>2. First(U) \in S
      BY <3>1
    <3>3. \A x \in S, n \in Nat : AddTo(f, S)[<<x, n>>] = f[x] + n
      BY DEF AddTo
    <3> QED
      BY <3>1, <3>2, <3>3
  <2>3. \E g : P(g)
    <3> DEFINE part == [U \in SUBSET T |-> sol[U]]
    <3>1. ASSUME NEW U \in SUBSET T
          PROVE  sol[U] = IF U = {} THEN 0 ELSE f[First(U)] + sol[U \ {First(U)}]
      <4>1. CASE U = {}
        BY <1>3, <4>1 DEF Solves
      <4>2. CASE U # {}
        <5>1. sol[U] = AddTo(f, S)[<<First(U), sol[U \ {First(U)}]>>]
          BY <1>3, <2>2, <4>2 DEF Solves
        <5>2. sol[U \ {First(U)}] \in Nat
          OBVIOUS
        <5> QED
          BY <2>2, <4>2, <5>1, <5>2
      <4> QED
        BY <4>1, <4>2
    <3>2. \A U \in SUBSET T : U \ {First(U)} \in SUBSET T
      OBVIOUS
    <3>3. P(part)
      BY <3>1, <3>2
    <3> QED
      BY <3>3
  <2>4. P(iter)
    <3> HIDE DEF P
    <3> QED
      BY <2>3
  <2> DEFINE Good == {U \in SUBSET T : iter[U] = sol[U]}
  <2>5. ASSUME NEW U \in SUBSET T, \A x \in U : U \ {x} \in Good PROVE iter[U] = sol[U]
    <3>1. iter[U] = IF U = {} THEN 0 ELSE f[First(U)] + iter[U \ {First(U)}]
      <4> HIDE DEF iter
      <4> QED
        BY <2>4
    <3> HIDE DEF iter
    <3>2. CASE U = {}
      BY <1>3, <3>1, <3>2 DEF Solves
    <3>3. CASE U # {}
      <4>1. First(U) \in U
        BY <3>3 DEF First
      <4>2. iter[U \ {First(U)}] = sol[U \ {First(U)}] /\ sol[U \ {First(U)}] \in Nat
        BY <2>5, <4>1
      <4>3. sol[U] = AddTo(f, S)[<<First(U), sol[U \ {First(U)}]>>]
        BY <1>3, <2>2, <3>3 DEF Solves
      <4> QED
        BY <2>2, <3>1, <3>3, <4>2, <4>3
    <3> QED
      BY <3>2, <3>3
  <2> HIDE DEF iter
  <2>6. IsFiniteSet(T)
    BY FS_Subset
  <2>7. T \in Good
    <3>1. \A U \in SUBSET T : (\A x \in U : U \ {x} \in Good) => U \in Good
      BY <2>5
    <3> HIDE DEF Good
    <3> QED
      BY <2>6, <3>1, EverySubset
  <2> QED
    BY <2>1, <2>7
<1> QED
  BY <1>3, <1>4

\* The order does not matter.
LEMMA AnyOrder ==
  ASSUME NEW S, IsFiniteSet(S), NEW f, \A x \in S : f[x] \in Nat, NEW T \in SUBSET S
  PROVE  /\ SumOn(f, T) \in Nat /\ SumOn(f, {}) = 0
         /\ \A x \in T : SumOn(f, T) = f[x] + SumOn(f, T \ {x})
<1>1. PICK sol \in [SUBSET S -> Nat] :
        /\ \A U \in SUBSET S : SumOn(f, U) = sol[U]
        /\ Solves(sol, S, 0, AddTo(f, S), Firsts(S))
  BY SumSolves
<1>2. sol[{}] = 0
  BY <1>1 DEF Solves
<1>3. ASSUME NEW U \in SUBSET S, U # {}
      PROVE  First(U) \in U /\ sol[U] = f[First(U)] + sol[U \ {First(U)}]
  <2>1. First(U) \in U /\ Firsts(S)[U] = First(U)
    BY <1>3 DEF Firsts, First
  <2>2. sol[U] = AddTo(f, S)[<<First(U), sol[U \ {First(U)}]>>]
    BY <1>1, <1>3, <2>1 DEF Solves
  <2>3. sol[U \ {First(U)}] \in Nat /\ First(U) \in S
    BY <2>1
  <2> QED
    BY <2>1, <2>2, <2>3 DEF AddTo
<1> DEFINE Good == {U \in SUBSET S : \A x \in U : sol[U] = f[x] + sol[U \ {x}]}
<1>4. ASSUME NEW U \in SUBSET S, \A x \in U : U \ {x} \in Good, NEW x \in U
      PROVE  sol[U] = f[x] + sol[U \ {x}]
  <2> DEFINE y == First(U)
  <2>1. y \in U /\ sol[U] = f[y] + sol[U \ {y}]
    BY <1>3
  <2> HIDE DEF y
  <2>2. CASE x = y
    BY <2>1, <2>2
  <2>3. CASE x # y
    <3>1. sol[U \ {y}] = f[x] + sol[(U \ {y}) \ {x}]
      BY <1>4, <2>1, <2>3
    <3>2. sol[U \ {x}] = f[y] + sol[(U \ {x}) \ {y}]
      BY <1>4, <2>1, <2>3
    <3>3. (U \ {y}) \ {x} = (U \ {x}) \ {y} /\ (U \ {x}) \ {y} \in SUBSET S
      OBVIOUS
    <3>4. f[x] \in Nat /\ f[y] \in Nat /\ sol[(U \ {x}) \ {y}] \in Nat
      BY <2>1, <3>3
    <3> DEFINE rest == sol[(U \ {x}) \ {y}]
    <3>5. sol[U] = f[y] + (f[x] + rest) /\ sol[U \ {x}] = f[y] + rest
      BY <2>1, <3>1, <3>2, <3>3
    <3> HIDE DEF rest
    <3>6. rest \in Nat
      BY <3>4 DEF rest
    <3> QED
      BY <3>4, <3>5, <3>6
  <2> QED
    BY <2>2, <2>3
<1>5. T \in Good
  <2>1. \A U \in SUBSET S : (\A x \in U : U \ {x} \in Good) => U \in Good
    BY <1>4
  <2> HIDE DEF Good
  <2> QED
    BY <2>1, EverySubset
<1> QED
  BY <1>1, <1>2, <1>5

\* Values that agree have the same sum; sums add up.
LEMMA SumsAdd ==
  ASSUME NEW S, IsFiniteSet(S), NEW f, NEW g, NEW h,
         \A x \in S : f[x] \in Nat /\ g[x] \in Nat /\ h[x] = f[x] + g[x]
  PROVE  SumOn(h, S) = SumOn(f, S) + SumOn(g, S)
<1> DEFINE Good == {T \in SUBSET S : SumOn(h, T) = SumOn(f, T) + SumOn(g, T)}
<1>1. \A x \in S : h[x] \in Nat
  OBVIOUS
<1>2. ASSUME NEW T \in SUBSET S, \A x \in T : T \ {x} \in Good
      PROVE  SumOn(h, T) = SumOn(f, T) + SumOn(g, T)
  <2>1. CASE T = {}
    <3>1. SumOn(h, {}) = 0 /\ SumOn(f, {}) = 0 /\ SumOn(g, {}) = 0
      BY <1>1, AnyOrder
    <3> QED
      BY <2>1, <3>1
  <2>2. CASE T # {}
    <3>1. PICK x \in T : TRUE
      BY <2>2
    <3>2. /\ SumOn(h, T) = h[x] + SumOn(h, T \ {x})
          /\ SumOn(f, T) = f[x] + SumOn(f, T \ {x})
          /\ SumOn(g, T) = g[x] + SumOn(g, T \ {x})
      BY <1>1, AnyOrder
    <3>3. SumOn(f, T \ {x}) \in Nat /\ SumOn(g, T \ {x}) \in Nat
      <4>1. T \ {x} \in SUBSET S
        OBVIOUS
      <4> QED
        BY <1>1, <4>1, AnyOrder
    <3>4. SumOn(h, T \ {x}) = SumOn(f, T \ {x}) + SumOn(g, T \ {x})
      BY <1>2
    <3> QED
      BY <3>2, <3>3, <3>4
  <2> QED
    BY <2>1, <2>2
<1>3. S \in Good
  <2>1. \A T \in SUBSET S : (\A x \in T : T \ {x} \in Good) => T \in Good
    BY <1>2
  <2>2. S \in SUBSET S
    OBVIOUS
  <2> HIDE DEF Good
  <2> QED
    BY <2>1, <2>2, EverySubset
<1> QED
  BY <1>3

\* Nothing adds up to nothing.
LEMMA NoSum ==
  ASSUME NEW S, IsFiniteSet(S), NEW f, \A x \in S : f[x] = 0
  PROVE  SumOn(f, S) = 0
<1> DEFINE all == SumOn(f, S)
<1>1. all \in Nat
  BY AnyOrder
<1>2. all = all + all
  BY SumsAdd
<1> HIDE DEF all
<1>3. all = 0
  BY <1>1, <1>2
<1> QED
  BY <1>3 DEF all

\* Values that agree have the same sum.
LEMMA SumsAgree ==
  ASSUME NEW S, IsFiniteSet(S), NEW f, NEW g, \A x \in S : f[x] \in Nat /\ g[x] = f[x]
  PROVE  SumOn(g, S) = SumOn(f, S)
<1> DEFINE zero == [x \in S |-> 0]
<1>1. SumOn(zero, S) = 0
  BY NoSum
<1>2. SumOn(g, S) = SumOn(f, S) + SumOn(zero, S)
  <2>1. \A x \in S : f[x] \in Nat /\ zero[x] \in Nat /\ g[x] = f[x] + zero[x]
    OBVIOUS
  <2> HIDE DEF zero
  <2> QED
    BY <2>1, SumsAdd
<1>3. SumOn(f, S) \in Nat
  BY AnyOrder
<1> QED
  BY <1>1, <1>2, <1>3

\* Changing one value changes the sum by the difference.
LEMMA OneChange ==
  ASSUME NEW S, IsFiniteSet(S), NEW f, NEW g, NEW a \in S, f[a] \in Nat, g[a] \in Nat,
         \A x \in S \ {a} : f[x] \in Nat /\ g[x] = f[x]
  PROVE  SumOn(g, S) + f[a] = SumOn(f, S) + g[a]
<1>1. \A x \in S : f[x] \in Nat /\ g[x] \in Nat
  OBVIOUS
<1>2. SumOn(f, S) = f[a] + SumOn(f, S \ {a}) /\ SumOn(g, S) = g[a] + SumOn(g, S \ {a})
  BY <1>1, AnyOrder
<1>3. SumOn(g, S \ {a}) = SumOn(f, S \ {a})
  BY FS_RemoveElement, SumsAgree
<1>4. SumOn(f, S \ {a}) \in Nat
  <2>1. S \ {a} \in SUBSET S
    OBVIOUS
  <2> QED
    BY <1>1, <2>1, AnyOrder
<1> QED
  BY <1>2, <1>3, <1>4

\* No number is larger than the sum it is part of.
LEMMA Bounded ==
  ASSUME NEW S, IsFiniteSet(S), NEW f, \A x \in S : f[x] \in Nat
  PROVE  SumOn(f, S) \in Nat /\ \A x \in S : f[x] <= SumOn(f, S)
<1>1. S \in SUBSET S
  OBVIOUS
<1>2. SumOn(f, S) \in Nat /\ \A x \in S : SumOn(f, S) = f[x] + SumOn(f, S \ {x})
  BY <1>1, AnyOrder
<1>3. \A x \in S : SumOn(f, S \ {x}) \in Nat
  <2> SUFFICES ASSUME NEW x \in S PROVE SumOn(f, S \ {x}) \in Nat
    OBVIOUS
  <2>1. S \ {x} \in SUBSET S
    OBVIOUS
  <2> QED
    BY <2>1, AnyOrder
<1>4. ASSUME NEW x \in S PROVE f[x] <= SumOn(f, S)
  <2> DEFINE all == SumOn(f, S)
             rest == SumOn(f, S \ {x})
  <2>1. all = f[x] + rest /\ rest \in Nat /\ f[x] \in Nat
    BY <1>2, <1>3
  <2> HIDE DEF all, rest
  <2>2. f[x] <= all
    BY <2>1
  <2> QED
    BY <2>2 DEF all
<1> QED
  BY <1>2, <1>4

\* A fold of a function adds the values on its domain.
LEMMA FoldIsSum ==
  ASSUME NEW S, NEW f, DOMAIN f = S
  PROVE  FoldFunction(+, 0, f) = SumOn(f, S)
BY Zenon DEF FoldFunction, SumOn

\* Smaller values have a smaller sum, and an equal one only if they are equal.
LEMMA SumsOrdered ==
  ASSUME NEW S, IsFiniteSet(S), NEW f, NEW g,
         \A x \in S : f[x] \in Nat /\ g[x] \in Nat /\ f[x] <= g[x]
  PROVE  /\ SumOn(f, S) \in Nat /\ SumOn(g, S) \in Nat /\ SumOn(f, S) <= SumOn(g, S)
         /\ SumOn(f, S) = SumOn(g, S) => \A x \in S : f[x] = g[x]
<1> DEFINE more == [x \in S |-> g[x] - f[x]]
<1>1. \A x \in S : f[x] \in Nat /\ more[x] \in Nat /\ g[x] = f[x] + more[x]
  OBVIOUS
<1> HIDE DEF more
<1>2. SumOn(g, S) = SumOn(f, S) + SumOn(more, S)
  BY <1>1, SumsAdd
<1>3. SumOn(f, S) \in Nat
  BY <1>1, Bounded
<1>4. SumOn(more, S) \in Nat /\ \A x \in S : more[x] <= SumOn(more, S)
  BY <1>1, Bounded
<1>5. SumOn(f, S) <= SumOn(g, S) /\ SumOn(g, S) \in Nat
  BY <1>2, <1>3, <1>4
<1>6. ASSUME SumOn(f, S) = SumOn(g, S), NEW x \in S PROVE f[x] = g[x]
  <2>1. SumOn(more, S) = 0
    BY <1>2, <1>3, <1>4, <1>6
  <2> QED
    BY <1>1, <1>4, <2>1
<1> QED
  BY <1>3, <1>5, <1>6

\* The sum on a part is the sum of what the part has of each value.
LEMMA SumOnPart ==
  ASSUME NEW S, IsFiniteSet(S), NEW T \in SUBSET S, NEW f, \A x \in S : f[x] \in Nat
  PROVE  SumOn(f, T) = SumOn([x \in S |-> IF x \in T THEN f[x] ELSE 0], S)
<1> DEFINE part == [x \in S |-> IF x \in T THEN f[x] ELSE 0]
           Good == {U \in SUBSET S : SumOn(f, U \cap T) = SumOn(part, U)}
<1>1. \A x \in S : part[x] \in Nat /\ part[x] = IF x \in T THEN f[x] ELSE 0
  OBVIOUS
<1> HIDE DEF part
<1>2. ASSUME NEW U \in SUBSET S, \A x \in U : U \ {x} \in Good
      PROVE  SumOn(f, U \cap T) = SumOn(part, U)
  <2>1. CASE U = {}
    <3>1. SumOn(f, {}) = 0 /\ SumOn(part, {}) = 0 /\ U \cap T = {}
      BY <1>1, <2>1, AnyOrder
    <3> QED
      BY <2>1, <3>1
  <2>2. CASE U # {}
    <3>1. PICK x \in U : TRUE
      BY <2>2
    <3> DEFINE rest == U \ {x}
    <3>2. SumOn(part, U) = part[x] + SumOn(part, rest)
      BY <1>1, AnyOrder
    <3>3. SumOn(f, rest \cap T) = SumOn(part, rest)
      BY <1>2
    <3>4. SumOn(part, rest) \in Nat
      <4>1. rest \in SUBSET S
        OBVIOUS
      <4> HIDE DEF rest
      <4> QED
        BY <1>1, <4>1, AnyOrder
    <3>5. CASE x \in T
      <4> DEFINE both == U \cap T
      <4>1. both \in SUBSET S /\ x \in both /\ both \ {x} = rest \cap T
        BY <3>5
      <4> HIDE DEF both, rest
      <4>2. SumOn(f, both) = f[x] + SumOn(f, both \ {x})
        BY <4>1, AnyOrder
      <4>3. SumOn(f, both) = SumOn(part, U)
        BY <1>1, <3>2, <3>3, <3>5, <4>1, <4>2
      <4> QED
        BY <4>3 DEF both
    <3>6. CASE x \notin T
      <4>1. U \cap T = rest \cap T
        BY <3>6
      <4>2. part[x] = 0
        BY <1>1, <3>6
      <4> HIDE DEF rest
      <4>3. SumOn(part, U) = SumOn(part, rest)
        BY <3>2, <3>4, <4>2
      <4> QED
        BY <3>3, <4>1, <4>3
    <3> QED
      BY <3>5, <3>6
  <2> QED
    BY <2>1, <2>2
<1>3. S \in Good
  <2>1. \A U \in SUBSET S : (\A x \in U : U \ {x} \in Good) => U \in Good
    BY <1>2
  <2>2. S \in SUBSET S
    OBVIOUS
  <2> HIDE DEF Good
  <2> QED
    BY <2>1, <2>2, EverySubset
<1>4. S \cap T = T
  OBVIOUS
<1> QED
  BY <1>3, <1>4 DEF part

================================================================================
