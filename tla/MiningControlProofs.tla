------------------------ MODULE MiningControlProofs ------------------------
(***************************************************************************)
(* What the arbitration promises, for any devices, streams, quotes, rates, *)
(* margin and timeout. The first lemmas are about the decision: the stream *)
(* that sorts first is one of the candidates (there are finitely many, so  *)
(* one has the fewest before it), a candidate pays what was quoted, and    *)
(* the incumbent stays unless it is beaten by the margin. ControlInv then  *)
(* says how old the quotes are and how far reconcileArbPauses has come;    *)
(* the pool session and the price goroutine touch neither. The activity    *)
(* books are sums over finite sets, which the lemmas on SumOver split and  *)
(* regroup by stream.                                                      *)
(***************************************************************************)
EXTENDS MiningControl, FiniteSetTheorems, TLAPS

\* A non-empty set of naturals has a least element.
LEMMA LeastNat ==
  ASSUME NEW S, S \subseteq Nat, S # {}
  PROVE  \E m \in S : \A k \in S : m <= k
<1> DEFINE R == {ss \in Nat \X Nat : ss[1] < ss[2]}
<1>1. IsWellFoundedOn(R, Nat)
  <2>1. OpToRel(<, Nat) = R  BY Zenon DEF OpToRel
  <2> QED  BY Zenon, <2>1, NatLessThanWellFounded
<1>2. PICK m \in S : \A k \in S : <<k, m>> \notin R  BY <1>1, WFMin, Zenon
<1>3. ASSUME NEW k \in S PROVE m <= k
  <2>1. m \in Nat /\ k \in Nat  BY Zenon
  <2>2. k < m => <<k, m>> \in R  BY <2>1, Zenon
  <2> QED  BY <1>2, <2>1, <2>2
<1> QED  BY <1>3, Zenon

\* The image of a finite set is finite.
LEMMA Images ==
  ASSUME NEW S, IsFiniteSet(S), NEW f, NEW T, T = {f[x] : x \in S}
  PROVE  IsFiniteSet(T)
<1> DEFINE g == [x \in S |-> f[x]]
<1>1. g \in Surjection(S, T)  BY Zenon DEF Surjection
<1> QED  BY <1>1, FS_Surjection, Zenon

\* Induction over the subsets of a finite set, with the sets that are good as a set.
LEMMA FiniteInduction ==
  ASSUME NEW S, IsFiniteSet(S), NEW Good,
         \A T \in SUBSET S : (\A u \in SUBSET T : u # T => u \in Good) => T \in Good
  PROVE  S \in Good
<1> DEFINE Bad == {T \in SUBSET S : T \notin Good}
           Sizes == {Cardinality(T) : T \in Bad}
<1>1. ASSUME NEW T \in SUBSET S PROVE IsFiniteSet(T) /\ Cardinality(T) \in Nat
  BY <1>1, FS_Subset, FS_CardinalityType, Zenon
<1>2. SUFFICES ASSUME S \notin Good PROVE FALSE  OBVIOUS
<1>3. Sizes \subseteq Nat
  <2>1. ASSUME NEW T \in Bad PROVE Cardinality(T) \in Nat  BY <1>1, Zenon
  <2> HIDE DEF Bad
  <2> QED  BY <2>1, Zenon
<1>0. Sizes # {}
  <2>1. S \in Bad  BY <1>2, Zenon
  <2>2. Cardinality(S) \in Sizes  BY <2>1, Zenon
  <2> QED  BY <2>2, Zenon
<1>4. PICK m \in Sizes : \A k \in Sizes : m <= k
  <2> HIDE DEF Sizes
  <2> QED  BY <1>0, <1>3, LeastNat, Zenon
<1>5. PICK T \in Bad : m = Cardinality(T)  BY <1>4, Zenon
<1>6. ASSUME NEW u \in SUBSET T, u # T PROVE u \in Good
  <2>1. u \in SUBSET S  BY <1>5, Zenon
  <2>2. /\ Cardinality(u) <= Cardinality(T) /\ Cardinality(u) # Cardinality(T)
        /\ Cardinality(u) \in Nat /\ Cardinality(T) \in Nat
    <3>1. T \in SUBSET S /\ IsFiniteSet(T)  BY <1>1, <1>5, Zenon
    <3> QED  BY <1>1, <1>6, <2>1, <3>1, FS_Subset, Zenon
  <2>3. SUFFICES ASSUME u \in Bad PROVE FALSE  BY <2>1, Zenon
  <2>4. Cardinality(u) \in Sizes  BY <2>3, Zenon
  <2>5. Cardinality(T) <= Cardinality(u)  BY <1>4, <1>5, <2>4, Zenon
  <2> QED  BY <2>2, <2>5, SMT
<1> QED  BY <1>5, <1>6, Zenon

\* g sums f over the subsets of T, one element at a time, as MapThenSumSet does.
Sums(f, g, T) ==
  g = [s \in SUBSET T |->
         IF s = {} THEN 0 ELSE f[CHOOSE x \in s : TRUE] + g[s \ {CHOOSE x \in s : TRUE}]]

\* The element it takes.
Any(s) == CHOOSE x \in s : TRUE

\* The sum over nothing.
LEMMA SumsNone ==
  ASSUME NEW f, NEW g, NEW T, Sums(f, g, T)
  PROVE  g[{}] = 0
<1>1. {} \in SUBSET T  BY Zenon
<1> QED  BY <1>1, Zenon DEF Sums

\* The sum over a set is one term and the sum over the rest.
LEMMA SumsMore ==
  ASSUME NEW f, NEW g, NEW T, Sums(f, g, T), NEW s, s \in SUBSET T, s # {}
  PROVE  g[s] = f[Any(s)] + g[s \ {Any(s)}]
BY Zenon DEF Sums, Any

\* The element taken is one of the set's.
LEMMA AnyIsIn ==
  ASSUME NEW s, s # {}
  PROVE  Any(s) \in s /\ s \ {Any(s)} \in SUBSET s /\ s \ {Any(s)} # s
<1>1. Any(s) \in s  BY Zenon DEF Any
<1> QED  BY <1>1, Zenon

\* A set has one sum, whatever superset it was computed in.
LEMMA SumsAgree ==
  ASSUME NEW f, NEW g, NEW h, NEW A, NEW B, Sums(f, g, A), Sums(f, h, B),
         NEW S, IsFiniteSet(S), S \subseteq A, S \subseteq B
  PROVE  g[S] = h[S]
<1> DEFINE Good == {u \in SUBSET S : g[u] = h[u]}
<1>1. ASSUME NEW T \in SUBSET S, \A u \in SUBSET T : u # T => u \in Good PROVE T \in Good
  <2>1. T \in SUBSET A /\ T \in SUBSET B  BY Zenon
  <2>2. CASE T = {}
    <3>1. g[T] = 0  BY <2>2, SumsNone, Zenon
    <3>2. h[T] = 0  BY <2>2, SumsNone, Zenon
    <3> QED  BY <3>1, <3>2, Zenon
  <2>3. CASE T # {}
    <3>1. g[T \ {Any(T)}] = h[T \ {Any(T)}]  BY <1>1, <2>3, AnyIsIn, Zenon
    <3>2. g[T] = f[Any(T)] + g[T \ {Any(T)}]  BY ONLY Sums(f, g, A), <2>1, <2>3, SumsMore, SMT
    <3>3. h[T] = f[Any(T)] + h[T \ {Any(T)}]  BY ONLY Sums(f, h, B), <2>1, <2>3, SumsMore, SMT
    <3> QED  BY <3>1, <3>2, <3>3, Zenon
  <2> QED  BY <2>2, <2>3, Zenon
<1>2. S \in Good
  <2> HIDE DEF Good
  <2> QED  BY <1>1, FiniteInduction, Zenon
<1> QED  BY <1>2, Zenon

\* Every finite set has a sum.
LEMMA SumsExist ==
  ASSUME NEW f, NEW S, IsFiniteSet(S)
  PROVE  \E g : Sums(f, g, S)
<1> DEFINE Good == {u \in SUBSET S : \E g : Sums(f, g, u)}
           Of(u) == CHOOSE g : Sums(f, g, u)
<1>1. ASSUME NEW T \in SUBSET S, \A u \in SUBSET T : u # T => u \in Good PROVE T \in Good
  <2> DEFINE G == [s \in SUBSET T |-> IF s = {} THEN 0 ELSE f[Any(s)] + Of(s \ {Any(s)})[s \ {Any(s)}]]
  <2>1. ASSUME NEW u \in SUBSET T, u # T PROVE Sums(f, Of(u), u)
    <3>1. \E g : Sums(f, g, u)  BY <1>1, <2>1, Zenon
    <3> QED  BY <3>1, Zenon
  <2>2. ASSUME NEW u \in SUBSET T, u # T PROVE G[u] = Of(u)[u]
    <3> HIDE DEF Of
    <3>1. CASE u = {}  BY <2>1, <2>2, <3>1, SumsNone, Zenon
    <3>2. CASE u # {}
      <4> DEFINE v == u \ {Any(u)}
      <4>1. Any(u) \in u  BY <3>2, Zenon DEF Any
      <4>2. v \in SUBSET T /\ v # T /\ v \subseteq u  BY <4>1, Zenon
      <4>3. IsFiniteSet(v)  BY <4>2, FS_Subset, Zenon
      <4>4. Of(u)[u] = f[Any(u)] + Of(u)[v]
        <5>1. Sums(f, Of(u), u) /\ u \in SUBSET u  BY <2>1, <2>2, Zenon
        <5> QED  BY <3>2, <5>1, SumsMore, SMT
      <4>5. Sums(f, Of(v), v) /\ Sums(f, Of(u), u)  BY <2>1, <2>2, <4>2, Zenon
      <4>6. Of(u)[v] = Of(v)[v]
        <5> HIDE DEF v
        <5>1. v \subseteq v  BY Zenon
        <5> HIDE DEF Of
        <5> QED  BY <4>2, <4>3, <4>5, <5>1, SumsAgree, SMT
      <4>7. G[u] = f[Any(u)] + Of(v)[v]  BY <3>2, Zenon
      <4> QED  BY <4>4, <4>6, <4>7, Zenon
    <3> QED  BY <3>1, <3>2, Zenon
  <2>3. ASSUME NEW s \in SUBSET T
        PROVE G[s] = IF s = {} THEN 0 ELSE f[Any(s)] + G[s \ {Any(s)}]
    <3>1. CASE s = {}  BY <3>1, Zenon
    <3>2. CASE s # {}
      <4>1. Any(s) \in s  BY <3>2, Zenon DEF Any
      <4>2. s \ {Any(s)} \in SUBSET T /\ s \ {Any(s)} # T  BY <4>1, Zenon
      <4>3. G[s] = f[Any(s)] + Of(s \ {Any(s)})[s \ {Any(s)}]  BY <3>2, Zenon
      <4>4. G[s \ {Any(s)}] = Of(s \ {Any(s)})[s \ {Any(s)}]
        <5> HIDE DEF G, Of
        <5> QED  BY <2>2, <4>2, Zenon
      <4> HIDE DEF G, Of
      <4> QED  BY <3>2, <4>3, <4>4, Zenon
    <3> QED  BY <3>1, <3>2, Zenon
  <2>4. G = [s \in SUBSET T |-> G[s]]  OBVIOUS
  <2>5. Sums(f, G, T)
    <3> HIDE DEF G
    <3> QED  BY <2>3, <2>4, Zenon DEF Sums, Any
  <2> QED  BY <2>5, Zenon
<1>2. S \in Good
  <2> HIDE DEF Good
  <2> QED  BY <1>1, FiniteInduction, Zenon
<1> QED  BY <1>2, Zenon

\* SumOver is that sum.
LEMMA SumIsSums ==
  ASSUME NEW f, NEW S, IsFiniteSet(S)
  PROVE  \E g : Sums(f, g, S) /\ SumOver(f, S) = g[S]
<1> DEFINE g == CHOOSE g : Sums(f, g, S)
<1>1. Sums(f, g, S)  BY SumsExist, Zenon
<1>2. SumOver(f, S) = g[S]  BY Zenon DEF SumOver, MapThenSumSet, MapThenFoldSet, Sums
<1> QED  BY <1>1, <1>2, Zenon

\* SumOver of nothing is 0.
LEMMA SumNone ==
  ASSUME NEW f
  PROVE  SumOver(f, {}) = 0
<1>1. PICK g : Sums(f, g, {}) /\ SumOver(f, {}) = g[{}]  BY FS_EmptySet, SumIsSums, Zenon
<1> QED  BY <1>1, SumsNone, Zenon

\* SumOver takes one term off at a time.
LEMMA SumAny ==
  ASSUME NEW f, NEW S, IsFiniteSet(S), S # {}
  PROVE  SumOver(f, S) = f[Any(S)] + SumOver(f, S \ {Any(S)})
<1> DEFINE R == S \ {Any(S)}
<1>1. IsFiniteSet(R) /\ R \subseteq S /\ R \subseteq R /\ S \in SUBSET S  BY FS_RemoveElement, Zenon
<1>2. PICK g : Sums(f, g, S) /\ SumOver(f, S) = g[S]  BY SumIsSums, Zenon
<1>3. PICK h : Sums(f, h, R) /\ SumOver(f, R) = h[R]  BY <1>1, SumIsSums, Zenon
<1>4. g[R] = h[R]
  <2> HIDE DEF R
  <2> QED  BY ONLY <1>1, <1>2, <1>3, SumsAgree, SMT
<1>5. g[S] = f[Any(S)] + g[R]  BY ONLY <1>1, <1>2, S # {}, SumsMore, SMT
<1> QED  BY <1>2, <1>3, <1>4, <1>5, Zenon

\* A sum of integers is an integer.
LEMMA SumInt ==
  ASSUME NEW f, NEW S, IsFiniteSet(S), \A x \in S : f[x] \in Int
  PROVE  SumOver(f, S) \in Int
<1> DEFINE Good == {u \in SUBSET S : SumOver(f, u) \in Int}
<1>1. ASSUME NEW T \in SUBSET S, \A u \in SUBSET T : u # T => u \in Good PROVE T \in Good
  <2>1. CASE T = {}  BY <2>1, SumNone, SMT
  <2>2. CASE T # {}
    <3>1. Any(T) \in T /\ T \ {Any(T)} \in Good  BY <1>1, <2>2, AnyIsIn, Zenon
    <3>2. f[Any(T)] \in Int /\ SumOver(f, T \ {Any(T)}) \in Int  BY <3>1, Zenon
    <3>3. IsFiniteSet(T)  BY FS_Subset, Zenon
    <3>4. SumOver(f, T) = f[Any(T)] + SumOver(f, T \ {Any(T)})  BY <2>2, <3>3, SumAny, Zenon
    <3>5. SumOver(f, T) \in Int  BY ONLY <3>2, <3>4, SMT
    <3> QED  BY <3>5, Zenon
  <2> QED  BY <2>1, <2>2, Zenon
<1>2. S \in Good
  <2> HIDE DEF Good
  <2> QED  BY <1>1, FiniteInduction, Zenon
<1> QED  BY <1>2, Zenon

\* A sum does not depend on the order of its terms: any of them can come first.
LEMMA SumTerm ==
  ASSUME NEW f, NEW S, IsFiniteSet(S), \A x \in S : f[x] \in Int, NEW a \in S
  PROVE  SumOver(f, S) = f[a] + SumOver(f, S \ {a})
<1> DEFINE Good == {u \in SUBSET S : \A b \in u : SumOver(f, u) = f[b] + SumOver(f, u \ {b})}
<1>0. ASSUME NEW T \in SUBSET S PROVE IsFiniteSet(T) /\ SumOver(f, T) \in Int
  <2>1. IsFiniteSet(T) /\ \A x \in T : f[x] \in Int  BY FS_Subset, Zenon
  <2> QED  BY <2>1, SumInt, Zenon
<1>1. ASSUME NEW T \in SUBSET S, \A u \in SUBSET T : u # T => u \in Good PROVE T \in Good
  <2>1. SUFFICES ASSUME NEW b \in T PROVE SumOver(f, T) = f[b] + SumOver(f, T \ {b})
    BY Zenon
  <2> DEFINE x == Any(T)
  <2>2. x \in T /\ T # {}  BY AnyIsIn, Zenon
  <2>3. SumOver(f, T) = f[x] + SumOver(f, T \ {x})  BY <1>0, <2>2, SumAny, Zenon
  <2>4. CASE x = b  BY <2>3, <2>4, Zenon
  <2>5. CASE x # b
    <3>1. T \ {x} \in Good /\ T \ {b} \in Good  BY <1>1, <2>2, Zenon
    <3>2. b \in T \ {x} /\ x \in T \ {b}  BY <2>2, <2>5, Zenon
    <3>3. SumOver(f, T \ {x}) = f[b] + SumOver(f, (T \ {x}) \ {b})  BY <3>1, <3>2, Zenon
    <3>4. SumOver(f, T \ {b}) = f[x] + SumOver(f, (T \ {b}) \ {x})  BY <3>1, <3>2, Zenon
    <3>5. (T \ {x}) \ {b} = (T \ {b}) \ {x} /\ (T \ {b}) \ {x} \in SUBSET S  BY Zenon
    <3>6. f[x] \in Int /\ f[b] \in Int /\ SumOver(f, (T \ {b}) \ {x}) \in Int  BY <1>0, <2>2, <3>5, Zenon
    <3> DEFINE p == SumOver(f, T)
               q == SumOver(f, T \ {x})
               m == SumOver(f, T \ {b})
               n == SumOver(f, (T \ {b}) \ {x})
               fx == f[x]
               fb == f[b]
    <3>7. p = fx + q /\ q = fb + n /\ m = fx + n /\ fx \in Int /\ fb \in Int /\ n \in Int
      BY <2>3, <3>3, <3>4, <3>5, <3>6, Zenon
    <3>8. p = fb + m
      <4> HIDE DEF p, q, m, n, fx, fb
      <4> QED  BY ONLY <3>7, SMT
    <3> QED  BY <3>8, Zenon
  <2> QED  BY <2>4, <2>5, Zenon
<1>2. S \in Good
  <2> HIDE DEF Good
  <2> QED  BY <1>1, FiniteInduction, Zenon
<1> QED  BY <1>2, Zenon

\* Two sums over sets with nothing in common make one.
LEMMA SumUnion ==
  ASSUME NEW f, NEW A, NEW B, IsFiniteSet(A), IsFiniteSet(B), A \cap B = {},
         \A x \in A \cup B : f[x] \in Int
  PROVE  SumOver(f, A \cup B) = SumOver(f, A) + SumOver(f, B)
<1> DEFINE Good == {u \in SUBSET A : SumOver(f, u \cup B) = SumOver(f, u) + SumOver(f, B)}
<1>0. ASSUME NEW T \in SUBSET A
      PROVE  IsFiniteSet(T) /\ SumOver(f, T) \in Int /\ IsFiniteSet(T \cup B) /\ SumOver(f, T \cup B) \in Int
  <2>1. IsFiniteSet(T) /\ IsFiniteSet(T \cup B)  BY FS_Subset, FS_Union, Zenon
  <2>2. (\A x \in T : f[x] \in Int) /\ (\A x \in T \cup B : f[x] \in Int)  BY Zenon
  <2> QED  BY <2>1, <2>2, SumInt, Zenon
<1>1. SumOver(f, B) \in Int  BY SumInt, Zenon
<1>2. ASSUME NEW T \in SUBSET A, \A u \in SUBSET T : u # T => u \in Good PROVE T \in Good
  <2>1. CASE T = {}
    <3>1. T \cup B = B /\ SumOver(f, T) = 0  BY <2>1, SumNone, Zenon
    <3>2. 0 + SumOver(f, B) = SumOver(f, B)  BY <1>1, SMT
    <3> QED  BY <3>1, <3>2, Zenon
  <2>2. CASE T # {}
    <3> DEFINE a == Any(T)
    <3>1. a \in T /\ T \ {a} \in Good  BY <1>2, <2>2, AnyIsIn, Zenon
    <3>2. (T \cup B) \ {a} = (T \ {a}) \cup B /\ a \in T \cup B /\ T \ {a} \in SUBSET A  BY <3>1, Zenon
    <3>0. \A x \in T \cup B : f[x] \in Int  BY Zenon
    <3>3. SumOver(f, T) = f[a] + SumOver(f, T \ {a})  BY <1>0, <2>2, SumAny, Zenon
    <3>4. SumOver(f, T \cup B) = f[a] + SumOver(f, (T \cup B) \ {a})
      <4> DEFINE U == T \cup B
      <4>1. IsFiniteSet(U) /\ a \in U /\ \A x \in U : f[x] \in Int  BY <1>0, <3>0, <3>2, Zenon
      <4>2. SumOver(f, U) = f[a] + SumOver(f, U \ {a})
        <5> HIDE DEF U, a
        <5> QED  BY ONLY <4>1, SumTerm, SMT
      <4> QED  BY <4>2, Zenon
    <3>5. SumOver(f, (T \ {a}) \cup B) = SumOver(f, T \ {a}) + SumOver(f, B)  BY <3>1, Zenon
    <3>6. f[a] \in Int /\ SumOver(f, T \ {a}) \in Int  BY <1>0, <3>1, <3>2, Zenon
    <3>7. SumOver(f, T \cup B) = SumOver(f, T) + SumOver(f, B)
      <4> DEFINE p == SumOver(f, T \cup B)
                 q == SumOver(f, T)
                 m == SumOver(f, T \ {a})
                 n == SumOver(f, B)
                 fa == f[a]
      <4>1. p = fa + (m + n) /\ q = fa + m /\ fa \in Int /\ m \in Int /\ n \in Int
        BY <1>1, <3>2, <3>3, <3>4, <3>5, <3>6, Zenon
      <4>2. p = q + n
        <5> HIDE DEF p, q, m, n, fa
        <5> QED  BY ONLY <4>1, SMT
      <4> QED  BY <4>2, Zenon
    <3> QED  BY <3>7, Zenon
  <2> QED  BY <2>1, <2>2, Zenon
<1>3. A \in Good
  <2> HIDE DEF Good
  <2> QED  BY <1>2, FiniteInduction, Zenon
<1> QED  BY <1>3, Zenon

\* A sum of zeros is 0.
LEMMA SumZero ==
  ASSUME NEW f, NEW S, IsFiniteSet(S), \A x \in S : f[x] = 0
  PROVE  SumOver(f, S) = 0
<1> DEFINE Good == {u \in SUBSET S : SumOver(f, u) = 0}
<1>1. ASSUME NEW T \in SUBSET S, \A u \in SUBSET T : u # T => u \in Good PROVE T \in Good
  <2>1. CASE T = {}  BY <2>1, SumNone, Zenon
  <2>2. CASE T # {}
    <3>1. Any(T) \in T /\ T \ {Any(T)} \in Good  BY <1>1, <2>2, AnyIsIn, Zenon
    <3>2. f[Any(T)] = 0 /\ SumOver(f, T \ {Any(T)}) = 0  BY <3>1, Zenon
    <3>3. IsFiniteSet(T)  BY FS_Subset, Zenon
    <3>4. SumOver(f, T) = f[Any(T)] + SumOver(f, T \ {Any(T)})  BY <2>2, <3>3, SumAny, Zenon
    <3>5. SumOver(f, T) = 0  BY ONLY <3>2, <3>4, SMT
    <3> QED  BY <3>5, Zenon
  <2> QED  BY <2>1, <2>2, Zenon
<1>2. S \in Good
  <2> HIDE DEF Good
  <2> QED  BY <1>1, FiniteInduction, Zenon
<1> QED  BY <1>2, Zenon

Group(D, of, G) == {d \in D : of[d] \in G}

\* Summed by group and then over the groups, the terms give their sum.
LEMMA SumByGroup ==
  ASSUME NEW f, NEW D, NEW of, NEW G, NEW g,
         IsFiniteSet(D), IsFiniteSet(G), \A d \in D : f[d] \in Int,
         \A k \in G : g[k] = SumOver(f, Group(D, of, {k}))
  PROVE  SumOver(g, G) = SumOver(f, Group(D, of, G))
<1> DEFINE Good == {u \in SUBSET G : SumOver(g, u) = SumOver(f, Group(D, of, u))}
<1>1. ASSUME NEW T \in SUBSET G, \A u \in SUBSET T : u # T => u \in Good PROVE T \in Good
  <2>1. CASE T = {}
    <3>1. Group(D, of, T) = {}  BY <2>1, Zenon DEF Group
    <3>2. SumOver(f, Group(D, of, T)) = 0 /\ SumOver(g, T) = 0  BY <2>1, <3>1, SumNone, Zenon
    <3> QED  BY <3>2, Zenon
  <2>2. CASE T # {}
    <3> DEFINE k == Any(T)
               B == Group(D, of, T \ {k})
               C == Group(D, of, {k})
    <3>1. k \in T /\ T \ {k} \in Good  BY <1>1, <2>2, AnyIsIn, Zenon
    <3>2. SumOver(g, T) = g[k] + SumOver(g, T \ {k})
      <4>1. IsFiniteSet(T)  BY FS_Subset, Zenon
      <4> QED  BY <2>2, <4>1, SumAny, Zenon
    <3>3. g[k] = SumOver(f, C) /\ SumOver(g, T \ {k}) = SumOver(f, B)  BY <3>1, Zenon
    <3>4. C \subseteq D /\ B \subseteq D /\ C \cap B = {} /\ C \cup B = Group(D, of, T)
      BY <3>1, Zenon DEF Group
    <3> HIDE DEF k, B, C
    <3>5. SumOver(f, C \cup B) = SumOver(f, C) + SumOver(f, B)
      <4>1. IsFiniteSet(C) /\ IsFiniteSet(B)  BY <3>4, FS_Subset, Zenon
      <4>2. \A x \in C \cup B : f[x] \in Int  BY <3>4, Zenon
      <4> QED  BY <3>4, <4>1, <4>2, SumUnion, Zenon
    <3>6. SumOver(g, T) = SumOver(f, Group(D, of, T))  BY <3>2, <3>3, <3>4, <3>5, Zenon
    <3> QED  BY <3>6, Zenon
  <2> QED  BY <2>1, <2>2, Zenon
<1>2. G \in Good
  <2> HIDE DEF Good
  <2> QED  BY <1>1, FiniteInduction, Zenon
<1> QED  BY <1>2, Zenon
-----------------------------------------------------------------------------
\* Under the policy of the loop the score is the yield.
LEMMA Scores ==
  ASSUME NEW c
  PROVE  Score(c, "earnings") = c.yield * 100
BY Zenon DEF Score, policyScore

\* Best is a candidate: a stream with the fewest others before it has none before it.
LEMMA BestIsFirst ==
  ASSUME NEW C, IsFiniteSet(C), C # {},
         \A c \in C : c.stream.id \in Nat /\ c.yield \in Nat,
         \A c, o \in C : c.stream.id = o.stream.id => c = o
  PROVE  Best(C, "earnings") \in C
<1> DEFINE Before(o, c) == \/ o.yield > c.yield
                           \/ o.yield = c.yield /\ o.stream.id < c.stream.id
           Ahead(c) == {o \in C : Before(o, c)}
           Counts == {Cardinality(Ahead(c)) : c \in C}
<1>1. \A c \in C : IsFiniteSet(Ahead(c)) /\ Cardinality(Ahead(c)) \in Nat
  <2>1. \A c \in C : Ahead(c) \in SUBSET C  BY Zenon
  <2>2. \A c \in C : IsFiniteSet(Ahead(c))  BY <2>1, FS_Subset, Zenon
  <2> QED  BY <2>2, FS_CardinalityType, Zenon
<1>2. PICK first \in C : \A c \in C : Cardinality(Ahead(first)) <= Cardinality(Ahead(c))
  <2> HIDE DEF Ahead
  <2>1. Counts \subseteq Nat /\ Counts # {}  BY <1>1, Zenon
  <2>2. PICK n \in Counts : \A k \in Counts : n <= k
    <3> HIDE DEF Counts
    <3> QED  BY <2>1, LeastNat, Zenon
  <2> QED  BY <2>2
<1>3. Ahead(first) = {}
  <2> SUFFICES ASSUME NEW o \in Ahead(first) PROVE FALSE  BY Zenon
  <2>1. o \in C /\ Before(o, first)  BY Zenon
  <2>2. Ahead(o) \in SUBSET Ahead(first)
    <3> SUFFICES ASSUME NEW x \in C, Before(x, o) PROVE Before(x, first)  BY Zenon
    <3> QED  BY <2>1
  <2>3. o \notin Ahead(o)  BY <2>1
  <2>4. Ahead(o) # Ahead(first)  BY <2>3, Zenon
  <2> HIDE DEF Ahead
  <2>5. /\ Cardinality(Ahead(o)) <= Cardinality(Ahead(first))
        /\ Cardinality(Ahead(first)) # Cardinality(Ahead(o))
    BY <1>1, <2>2, <2>4, FS_Subset, Zenon
  <2> QED  BY <1>1, <1>2, <2>1, <2>5
<1>4. \A o \in C \ {first} : \/ Score(first, "earnings") > Score(o, "earnings")
                             \/ /\ Score(first, "earnings") = Score(o, "earnings")
                                /\ first.stream.id < o.stream.id
  <2> SUFFICES ASSUME NEW o \in C, o # first
               PROVE  \/ first.yield * 100 > o.yield * 100
                      \/ first.yield * 100 = o.yield * 100 /\ first.stream.id < o.stream.id
    BY Scores, ZenonT(60)
  <2>1. ~Before(o, first)  BY <1>3, Zenon
  <2>2. o.stream.id # first.stream.id  BY Zenon
  <2> QED  BY <2>1, <2>2
<1> QED  BY <1>4, Zenon DEF Best

\* Effective never counts below zero, and counts nothing for no yield.
LEMMA Yields ==
  ASSUME NEW y \in [sats : Int, conf : Int]
  PROVE  Effective(y) \in Nat /\ Effective(ZeroYield) = 0
<1>1. y.sats \in Int /\ y.conf \in Int  BY Zenon
<1>2. Effective(ZeroYield) = 0  BY DEF Effective, ZeroYield
<1>3. CASE y.sats <= 0 \/ y.conf <= 0  BY <1>1, <1>2, <1>3, Zenon DEF Effective
<1>4. CASE y.sats > 0 /\ y.conf > 0
  <2> DEFINE c == IF y.conf > 10 THEN 10 ELSE y.conf
  <2>1. c \in Nat /\ y.sats \in Nat  BY <1>1, <1>4
  <2>2. Effective(y) \in {0, y.sats * c}  BY <1>1, Zenon DEF Effective
  <2> HIDE DEF c
  <2> QED  BY <1>2, <2>1, <2>2
<1> QED  BY <1>1, <1>3, <1>4

\* streamsSlice: one stream per provider, and what it pays a device was quoted for that
\* device or for any.
LEMMA Slices ==
  ASSUME NEW m, IsTable(m)
  PROVE  /\ IsFiniteSet(streamsSlice(m))
         /\ \A s \in streamsSlice(m) : s.id \in Nat \ {NoStream}
         /\ \A s, t \in streamsSlice(m) : s.id = t.id => s = t
         /\ \A s \in streamsSlice(m), d \in Nat :
              \/ YieldFor(s, d) = ZeroYield
              \/ \E k \in DOMAIN m : /\ k[1] = s.id /\ k[2] \in {d, AnyDevice}
                                     /\ YieldFor(s, d) = m[k].yield
<1> DEFINE Ids == {k[1] : k \in DOMAIN m}
           Quoted(s) == {k[2] : k \in {j \in DOMAIN m : j[1] = s}} \ {AnyDevice}
           Pays(s) == [d \in Quoted(s) |-> m[<<s, d>>].yield]
           Default(s) == IF <<s, AnyDevice>> \in DOMAIN m THEN m[<<s, AnyDevice>>].yield
                         ELSE ZeroYield
           F == [s \in Ids |->
                  [id |-> s, families |-> m[CHOOSE k \in DOMAIN m : k[1] = s].families,
                   yields |-> Pays(s), default |-> Default(s),
                   privacy |-> 0, environment |-> 0, mining |-> s \in Mining]]
<1>1. IsFiniteSet(DOMAIN m) /\ DOMAIN m \subseteq (Nat \ {NoStream}) \X Nat
  BY Zenon DEF IsTable
<1>2. streamsSlice(m) = {F[s] : s \in Ids}  BY Zenon DEF streamsSlice
<1>3. \A s \in Ids : F[s].id = s /\ F[s].yields = Pays(s) /\ F[s].default = Default(s)
  BY Zenon
<1> HIDE DEF F
<1>4. IsFiniteSet(Ids)
  <2> DEFINE g == [k \in DOMAIN m |-> k[1]]
  <2>1. Ids = {g[k] : k \in DOMAIN m}  BY Zenon
  <2> HIDE DEF g, Ids
  <2> QED  BY <1>1, <2>1, Images, Zenon
<1>5. \A s \in Ids : s \in Nat \ {NoStream}  BY <1>1, Zenon
<1>6. IsFiniteSet(streamsSlice(m))
  <2> HIDE DEF Ids
  <2> QED  BY <1>2, <1>4, Images
<1>7. ASSUME NEW s \in Ids, NEW d \in Nat
      PROVE  \/ YieldFor(F[s], d) = ZeroYield
             \/ \E k \in DOMAIN m : /\ k[1] = s /\ k[2] \in {d, AnyDevice}
                                    /\ YieldFor(F[s], d) = m[k].yield
  <2>1. CASE d \in Quoted(s)
    <3>1. PICK k \in DOMAIN m : k[1] = s /\ k[2] = d  BY <2>1, Zenon
    <3>2. k = <<s, d>>  BY <1>1, <3>1
    <3>3. DOMAIN F[s].yields = Quoted(s) /\ Pays(s)[d] = m[<<s, d>>].yield
      BY <1>3, <2>1, Zenon
    <3>4. YieldFor(F[s], d) = m[<<s, d>>].yield  BY <1>3, <2>1, <3>3, Zenon DEF YieldFor
    <3> QED  BY <3>1, <3>2, <3>4, Zenon
  <2>2. CASE d \notin Quoted(s)
    <3>1. DOMAIN F[s].yields = Quoted(s)  BY <1>3, ZenonT(60)
    <3>2. YieldFor(F[s], d) = Default(s)  BY <1>3, <2>2, <3>1, Zenon DEF YieldFor
    <3>3. <<s, AnyDevice>>[1] = s /\ <<s, AnyDevice>>[2] = AnyDevice  BY Zenon
    <3> QED  BY <3>2, <3>3, Zenon
  <2> QED  BY <2>1, <2>2, Zenon
<1>8. \A s \in streamsSlice(m) : s.id \in Ids /\ s = F[s.id]
  <2> HIDE DEF Ids
  <2> SUFFICES ASSUME NEW s \in streamsSlice(m) PROVE s.id \in Ids /\ s = F[s.id]  BY Zenon
  <2>1. PICK i \in Ids : s = F[i]  BY <1>2, Zenon
  <2>2. F[i].id = i  BY <1>3, Zenon
  <2> QED  BY <2>1, <2>2, Zenon
<1> HIDE DEF Ids
<1>9. \A s \in streamsSlice(m), d \in Nat :
        \/ YieldFor(s, d) = ZeroYield
        \/ \E k \in DOMAIN m : /\ k[1] = s.id /\ k[2] \in {d, AnyDevice}
                               /\ YieldFor(s, d) = m[k].yield
  <2> TAKE s \in streamsSlice(m), d \in Nat
  <2>1. PICK i \in Ids : s = F[i] /\ s.id = i  BY <1>8, Zenon
  <2> QED  BY <1>7, <2>1
<1> QED  BY <1>5, <1>6, <1>8, <1>9, Zenon

\* candidateStreams: streams that accept the device and pay above the floor; what a
\* candidate pays was quoted for that device or for any.
LEMMA Candidates ==
  ASSUME NEW m, IsTable(m), NEW d \in Nat, NEW family, NEW minYield \in Nat
  PROVE  LET C == candidateStreams([id |-> d, family |-> family], streamsSlice(m), minYield) IN
         /\ IsFiniteSet(C)
         /\ \A c \in C : c.stream.id \in Nat \ {NoStream} /\ c.yield \in Nat
         /\ \A c, o \in C : c.stream.id = o.stream.id => c = o
         /\ \A c \in C : \E k \in DOMAIN m :
              /\ k[1] = c.stream.id /\ k[2] \in {d, AnyDevice}
              /\ c.yield = Effective(m[k].yield)
         /\ \A s \in streamsSlice(m) :
              LET y == Effective(YieldFor(s, d)) IN
              /\ y \in Nat
              /\ family \in s.families /\ y # 0 /\ y >= minYield =>
                   [stream |-> s, yield |-> y] \in C
<1> DEFINE dev == [id |-> d, family |-> family]
           S == streamsSlice(m)
           C == candidateStreams(dev, S, minYield)
           Y(s) == Effective(YieldFor(s, d))
           Open == {t \in S : Accepts(t, family) /\ Y(t) > 0 /\ Y(t) >= minYield}
           F == [s \in S |-> [stream |-> s, yield |-> Y(s)]]
<1> SUFFICES /\ IsFiniteSet(C)
             /\ \A c \in C : c.stream.id \in Nat \ {NoStream} /\ c.yield \in Nat
             /\ \A c, o \in C : c.stream.id = o.stream.id => c = o
             /\ \A c \in C : \E k \in DOMAIN m :
                  /\ k[1] = c.stream.id /\ k[2] \in {d, AnyDevice}
                  /\ c.yield = Effective(m[k].yield)
             /\ \A s \in S : /\ Y(s) \in Nat
                             /\ family \in s.families /\ Y(s) # 0 /\ Y(s) >= minYield =>
                                  [stream |-> s, yield |-> Y(s)] \in C
  BY Zenon
<1>1. dev.id = d /\ dev.family = family  BY Zenon
<1>2. C = {F[s] : s \in Open}  BY <1>1, Zenon DEF candidateStreams
<1>3. \A s \in S : /\ F[s] = [stream |-> s, yield |-> Y(s)]
                   /\ F[s].stream = s /\ F[s].yield = Y(s)
  BY Zenon
<1> HIDE DEF F, C
<1>4. /\ IsFiniteSet(S)
      /\ \A s \in S : s.id \in Nat \ {NoStream}
      /\ \A s, t \in S : s.id = t.id => s = t
  BY Slices, Zenon
<1>5. ASSUME NEW s \in S
      PROVE  \/ Y(s) = 0
             \/ \E k \in DOMAIN m : /\ k[1] = s.id /\ k[2] \in {d, AnyDevice}
                                    /\ Y(s) = Effective(m[k].yield) /\ Y(s) \in Nat
  <2>1. CASE YieldFor(s, d) = ZeroYield  BY <2>1 DEF Effective, ZeroYield
  <2>2. ASSUME NEW k \in DOMAIN m, k[1] = s.id, k[2] \in {d, AnyDevice},
               YieldFor(s, d) = m[k].yield
        PROVE  \E j \in DOMAIN m : /\ j[1] = s.id /\ j[2] \in {d, AnyDevice}
                                   /\ Y(s) = Effective(m[j].yield) /\ Y(s) \in Nat
    <3>1. m[k].yield \in [sats : Int, conf : Int]  BY Zenon DEF IsTable, Entries
    <3>2. Effective(m[k].yield) \in Nat  BY <3>1, Yields, Zenon
    <3> QED  BY <2>2, <3>2, Zenon
  <2> QED  BY <2>1, <2>2, Slices, ZenonT(60)
<1>6. \A s \in S : Y(s) \in Nat
  <2>1. 0 \in Nat  BY Zenon
  <2> QED  BY <1>5, <2>1, Zenon
<1> HIDE DEF S, Y
<1>7. Open \in SUBSET S /\ IsFiniteSet(Open)
  <2>1. Open \in SUBSET S  BY Zenon
  <2> QED  BY <1>4, <2>1, FS_Subset, Zenon
<1>8. IsFiniteSet(C)
  <2> HIDE DEF Open
  <2> QED  BY <1>2, <1>7, Images, Zenon
<1>9. \A c \in C : \E s \in S : c.stream = s /\ c.yield = Y(s) /\ c = F[s] /\ Y(s) > 0
  <2> SUFFICES ASSUME NEW c \in C
               PROVE  \E s \in S : c.stream = s /\ c.yield = Y(s) /\ c = F[s] /\ Y(s) > 0
    BY Zenon
  <2>1. PICK s \in Open : c = F[s]  BY <1>2, Zenon
  <2>2. s \in S /\ Y(s) > 0  BY Zenon
  <2>3. c.stream = s /\ c.yield = Y(s)  BY <1>3, <2>1, <2>2, Zenon
  <2> QED  BY <2>1, <2>2, <2>3, Zenon
<1>10. \A c \in C : c.stream.id \in Nat \ {NoStream} /\ c.yield \in Nat
  BY <1>4, <1>6, <1>9, ZenonT(60)
<1>11. \A c, o \in C : c.stream.id = o.stream.id => c = o
  BY <1>4, <1>9
<1>12. ASSUME NEW c \in C
       PROVE  \E k \in DOMAIN m : /\ k[1] = c.stream.id /\ k[2] \in {d, AnyDevice}
                                  /\ c.yield = Effective(m[k].yield)
  <2>1. PICK s \in S : c.stream = s /\ c.yield = Y(s) /\ Y(s) > 0  BY <1>9, Zenon
  <2>2. Y(s) # 0  BY <1>6, <2>1
  <2> QED  BY <1>5, <2>1, <2>2, Zenon
<1>13. ASSUME NEW s \in S, family \in s.families, Y(s) # 0, Y(s) >= minYield
       PROVE  [stream |-> s, yield |-> Y(s)] \in C
  <2>1. Y(s) > 0  BY <1>6, <1>13
  <2>2. s \in Open  BY <1>13, <2>1, Zenon DEF Accepts
  <2> HIDE DEF Open
  <2>3. F[s] \in C  BY <1>2, <2>2, Zenon
  <2> QED  BY <1>3, <2>3, Zenon
<1> QED  BY <1>6, <1>8, <1>10, <1>11, <1>12, <1>13, Zenon

\* chooseForDevice routes to a candidate, and to another than the previous stream only
\* if that one is none or is beaten by more than the margin.
LEMMA Choice ==
  ASSUME Hysteresis \in Nat, NEW m, IsTable(m), NEW d \in Nat, NEW family, NEW minYield \in Nat,
         NEW previous
  PROVE  LET dev == [id |-> d, family |-> family]
             C == candidateStreams(dev, streamsSlice(m), minYield)
             a == chooseForDevice(dev, streamsSlice(m), previous, "earnings", Hysteresis,
                                  minYield)
         IN  /\ <<a.stream, a.yield>> \in {<<c.stream.id, c.yield>> : c \in C} \cup {<<NoStream, 0>>}
             /\ a.stream # previous /\ ~Idle(a) =>
                  \A c \in C : c.stream.id = previous =>
                    a.yield * 100 > c.yield * (100 + Hysteresis)
             /\ a = [stream |-> a.stream, yield |-> a.yield, from |-> a.from, held |-> a.held,
                     heldIdle |-> a.heldIdle, foregone |-> a.foregone]
<1> DEFINE dev == [id |-> d, family |-> family]
           C == candidateStreams(dev, streamsSlice(m), minYield)
           a == chooseForDevice(dev, streamsSlice(m), previous, "earnings", Hysteresis, minYield)
           best == Best(C, "earnings")
           inc == {c \in C : c.stream.id = previous /\ Holds(c, best, "earnings", Hysteresis)}
           chosen == IF inc = {} THEN best ELSE CHOOSE c \in inc : TRUE
           From == IF previous \in {NoStream, chosen.stream.id} THEN NoStream ELSE previous
           Rec == [stream |-> chosen.stream.id, yield |-> chosen.yield, from |-> From,
                   held |-> chosen.stream.id # best.stream.id, heldIdle |-> FALSE,
                   foregone |-> Max({c.yield : c \in C}) - chosen.yield]
<1> SUFFICES /\ <<a.stream, a.yield>> \in {<<c.stream.id, c.yield>> : c \in C} \cup {<<NoStream, 0>>}
             /\ a.stream # previous /\ ~Idle(a) =>
                  \A c \in C : c.stream.id = previous =>
                    a.yield * 100 > c.yield * (100 + Hysteresis)
             /\ a = [stream |-> a.stream, yield |-> a.yield, from |-> a.from, held |-> a.held,
                     heldIdle |-> a.heldIdle, foregone |-> a.foregone]
  BY Zenon
<1>1. a = IF C = {} THEN IdleAssignment ELSE Rec  BY Zenon DEF chooseForDevice
<1>2. /\ IsFiniteSet(C)
      /\ \A c \in C : c.stream.id \in Nat \ {NoStream} /\ c.yield \in Nat
      /\ \A c, o \in C : c.stream.id = o.stream.id => c = o
  BY Candidates, Zenon
<1> HIDE DEF C, a
<1>3. CASE C = {}
  <2>1. a = IdleAssignment  BY <1>1, <1>3, Zenon
  <2>2. IdleAssignment.stream = NoStream /\ IdleAssignment.yield = 0  BY Zenon DEF IdleAssignment
  <2>3. IdleAssignment = [stream |-> IdleAssignment.stream, yield |-> IdleAssignment.yield,
          from |-> IdleAssignment.from, held |-> IdleAssignment.held,
          heldIdle |-> IdleAssignment.heldIdle, foregone |-> IdleAssignment.foregone]
    BY Zenon DEF IdleAssignment
  <2>4. Idle(a)  BY <2>1, <2>2, Zenon DEF Idle
  <2> QED  BY <2>1, <2>2, <2>3, <2>4, Zenon
<1>4. CASE C # {}
  <2>1. a = Rec  BY <1>1, <1>4, Zenon
  <2>2. best \in C
    <3>1. \A c \in C : c.stream.id \in Nat /\ c.yield \in Nat  BY <1>2, Zenon
    <3> QED  BY <1>2, <1>4, <3>1, BestIsFirst, Zenon
  <2>3. chosen \in C /\ (inc # {} => chosen.stream.id = previous) /\ (inc = {} => chosen = best)
    BY <2>2, Zenon
  <2> HIDE DEF chosen
  <2>4. Rec.stream = chosen.stream.id /\ Rec.yield = chosen.yield  BY Zenon
  <2>5. Rec = [stream |-> Rec.stream, yield |-> Rec.yield, from |-> Rec.from,
               held |-> Rec.held, heldIdle |-> Rec.heldIdle, foregone |-> Rec.foregone]
    BY Zenon
  <2> HIDE DEF Rec
  <2>6. ASSUME a.stream # previous, NEW c \in C, c.stream.id = previous
        PROVE  a.yield * 100 > c.yield * (100 + Hysteresis)
    <3>1. inc = {} /\ chosen = best  BY <2>1, <2>3, <2>4, <2>6, Zenon
    <3>2. ~Holds(c, best, "earnings", Hysteresis)  BY <2>6, <3>1, Zenon
    <3> HIDE DEF inc, best
    <3>3. ~((best.yield * 100) * 100 <= (c.yield * 100) * (100 + Hysteresis))
      <4>1. Score(best, "earnings") = best.yield * 100 /\ Score(c, "earnings") = c.yield * 100
        BY Scores, Zenon
      <4> QED  BY <3>2, <4>1, ZenonT(30) DEF Holds
    <3>4. a.yield = best.yield /\ best.yield \in Nat /\ c.yield \in Nat
      BY <1>2, <2>1, <2>2, <2>4, <3>1, Zenon
    <3>5. (c.yield * 100) * (100 + Hysteresis) = (c.yield * (100 + Hysteresis)) * 100
      BY <3>4
    <3>6. c.yield * (100 + Hysteresis) \in Nat  BY <3>4
    <3> QED  BY <3>3, <3>4, <3>5, <3>6
  <2>7. ~Idle(a)  BY <1>2, <2>1, <2>3, <2>4, Zenon DEF Idle
  <2> QED  BY <2>1, <2>3, <2>4, <2>5, <2>6, <2>7, Zenon
<1> QED  BY <1>3, <1>4, Zenon

\* Decide: every device has one assignment, the one chooseForDevice makes.
LEMMA Decisions ==
  ASSUME ConstantsOK, NEW m, IsTable(m), NEW previous, NEW minYield \in Nat
  PROVE  LET new == Decide(DeviceRefs, streamsSlice(m), previous, "earnings", Hysteresis,
                           minYield)
         IN  /\ new = [d \in Devices |-> new[d]]
             /\ \A d \in Devices :
                  LET a == chooseForDevice([id |-> d, family |-> Families[d]], streamsSlice(m),
                             PreviousStream(previous, d), "earnings", Hysteresis, minYield)
                  IN  new[d].stream = a.stream /\ new[d].yield = a.yield
<1> DEFINE S == streamsSlice(m)
           Ref(d) == [id |-> d, family |-> Families[d]]
           A(dev) == chooseForDevice(dev, S, PreviousStream(previous, dev.id),
                                     "earnings", Hysteresis, minYield)
           B(dev) == [A(dev) EXCEPT !.heldIdle = Idle(A(dev)) /\ dev.id \in DOMAIN previous
                                                 /\ Idle(previous[dev.id])]
           new == Decide(DeviceRefs, S, previous, "earnings", Hysteresis, minYield)
<1> SUFFICES /\ new = [d \in Devices |-> new[d]]
             /\ \A d \in Devices :
                  LET a == chooseForDevice(Ref(d), S, PreviousStream(previous, d),
                                           "earnings", Hysteresis, minYield)
                  IN  new[d].stream = a.stream /\ new[d].yield = a.yield
  BY Zenon
<1>1. \A d \in Devices : Ref(d).id = d /\ d \in Nat  BY DEF Devices
<1>2. DeviceRefs = {Ref(d) : d \in Devices}  BY Zenon DEF DeviceRefs
<1>3. {dev.id : dev \in DeviceRefs} = Devices  BY <1>1, <1>2, Zenon
<1>4. \A d \in Devices : (CHOOSE dev \in DeviceRefs : dev.id = d) = Ref(d)
  <2> TAKE d \in Devices
  <2>1. Ref(d) \in DeviceRefs /\ Ref(d).id = d  BY <1>1, <1>2, Zenon
  <2>2. \A dev \in DeviceRefs : dev.id = d => dev = Ref(d)  BY <1>1, <1>2, Zenon
  <2> HIDE DEF Ref
  <2> QED  BY <2>1, <2>2, Zenon
<1>5. new = [d \in {dev.id : dev \in DeviceRefs} |->
               B(CHOOSE dev \in DeviceRefs : dev.id = d)]
  BY Zenon DEF Decide
<1> HIDE DEF new
<1>6. DOMAIN new = Devices /\ \A d \in Devices : new[d] = B(Ref(d))
  <2> HIDE DEF B, Ref
  <2> QED  BY <1>3, <1>4, <1>5, Zenon
<1>7. new = [d \in Devices |-> new[d]]
  <2> HIDE DEF B, Ref
  <2> QED  BY <1>3, <1>5
<1>8. ASSUME NEW d \in Devices
      PROVE  B(Ref(d)).stream = A(Ref(d)).stream /\ B(Ref(d)).yield = A(Ref(d)).yield
  <2> DEFINE a == A(Ref(d))
             h == Idle(a) /\ d \in DOMAIN previous /\ Idle(previous[d])
  <2>1. a = [stream |-> a.stream, yield |-> a.yield, from |-> a.from, held |-> a.held,
             heldIdle |-> a.heldIdle, foregone |-> a.foregone]
    <3>1. Hysteresis \in Nat /\ d \in Nat  BY <1>1, Zenon DEF ConstantsOK
    <3> HIDE DEF S
    <3> DEFINE prev == PreviousStream(previous, Ref(d).id)
    <3>2. a = chooseForDevice([id |-> d, family |-> Families[d]], S, prev, "earnings",
                              Hysteresis, minYield)
      BY Zenon
    <3> HIDE DEF a, prev
    <3> QED  BY <3>1, <3>2, Choice DEF S
  <2>2. B(Ref(d)) = [a EXCEPT !.heldIdle = h]  BY <1>1, Zenon
  <2> HIDE DEF h, a
  <2>3. [a EXCEPT !.heldIdle = h].stream = a.stream /\ [a EXCEPT !.heldIdle = h].yield = a.yield
    BY <2>1, Zenon
  <2> QED  BY <2>2, <2>3, ZenonT(60) DEF a
<1>9. \A d \in Devices :
        A(Ref(d)) = chooseForDevice(Ref(d), S, PreviousStream(previous, d),
                                    "earnings", Hysteresis, minYield)
  BY <1>1, Zenon
<1> HIDE DEF A, B, Ref
<1> QED  BY <1>6, <1>7, <1>8, <1>9, ZenonT(60)
-----------------------------------------------------------------------------
\* pruneStaleStreams and the passing of an interval keep the table a table; what is left
\* is not stale, and was not received longer ago than that.
LEMMA TableLater ==
  ASSUME ConstantsOK, MarketInv, NEW live, live = pruneStaleStreams(Later(streamMap)),
         NEW later, later = [k \in DOMAIN live |-> HeardLater[k]]
  PROVE  /\ IsTable(live)
         /\ later \in [DOMAIN live -> Nat]
         /\ \A k \in DOMAIN live : later[k] <= live[k].age /\ later[k] <= StaleAge
<1> DEFINE D == DOMAIN streamMap
           L == Later(streamMap)
<1>1. /\ IsFiniteSet(D) /\ D \subseteq (Nat \ {NoStream}) \X Nat
      /\ \A k \in D : streamMap[k] \in Entries
      /\ \A k \in D : heard[k] \in Nat /\ heard[k] <= streamMap[k].age
      /\ DOMAIN heard = D /\ StaleAge \in Nat
  BY Zenon DEF MarketInv, IsTable, ConstantsOK
<1>2. DOMAIN L = D /\ \A k \in D : L[k] \in Entries
  BY SMTT(60), <1>1 DEF Later, Entries
<1>3. \A k \in D : L[k].age = IF streamMap[k].age > StaleAge THEN streamMap[k].age
                              ELSE streamMap[k].age + 1
  BY <1>1, Zenon DEF Later, Entries
<1>4. \A k \in D : HeardLater[k] = IF heard[k] > StaleAge THEN heard[k] ELSE heard[k] + 1
  BY <1>1, Zenon DEF HeardLater
<1>5. \A k \in D : streamMap[k].age \in Nat  BY <1>1, Zenon DEF Entries
<1>6. \A k \in D : HeardLater[k] \in Nat /\ (L[k].age <= StaleAge => HeardLater[k] <= L[k].age)
  BY <1>1, <1>3, <1>4, <1>5
<1> HIDE DEF L, D
<1>7. DOMAIN live = {k \in D : L[k].age <= StaleAge}
      /\ live = [k \in DOMAIN live |-> L[k]]
  BY <1>2, Zenon DEF pruneStaleStreams, L
<1>8. DOMAIN live \in SUBSET D /\ IsFiniteSet(DOMAIN live)
  <2>1. DOMAIN live \in SUBSET D  BY <1>7, Zenon
  <2> QED  BY <1>1, <2>1, FS_Subset, Zenon
<1>9. \A k \in DOMAIN live : live[k] = L[k] /\ L[k].age <= StaleAge /\ k \in D  BY <1>7, Zenon
<1>10. live \in [DOMAIN live -> Entries]  BY <1>2, <1>7, <1>9, Zenon
<1>11. IsTable(live)  BY <1>1, <1>8, <1>10, Zenon DEF IsTable
<1>12. later \in [DOMAIN live -> Nat]  BY <1>6, <1>9, Zenon
<1>13. \A k \in DOMAIN live : later[k] <= live[k].age /\ later[k] <= StaleAge
  <2> SUFFICES ASSUME NEW k \in DOMAIN live
               PROVE  later[k] <= live[k].age /\ later[k] <= StaleAge
    BY Zenon
  <2>1. later[k] = HeardLater[k] /\ live[k].age = L[k].age  BY <1>9, Zenon
  <2>2. L[k].age \in Nat  BY <1>2, <1>9, Zenon DEF Entries
  <2> QED  BY SMTT(30), <1>1, <1>6, <1>9, <2>1, <2>2
<1> QED  BY <1>11, <1>12, <1>13, Zenon

\* The floor of a decision is a number.
LEMMA Floors ==
  ASSUME ConstantsOK, NEW rate \in Rates
  PROVE  Max({MinYield, powerFloor(rate)}) \in Nat
<1>1. MinYield \in Nat /\ PowerCost \in Nat /\ rate \in Nat  BY Zenon DEF ConstantsOK
<1>2. powerFloor(rate) \in Nat  BY <1>1 DEF powerFloor
<1>3. \E x \in {MinYield, powerFloor(rate)} : \A y \in {MinYield, powerFloor(rate)} : x >= y
  BY <1>1, <1>2
<1> QED  BY <1>1, <1>2, <1>3, Zenon DEF Max

\* arbitrationTick: the table ages, and what each device is routed on was quoted for it
\* within the timeout; a device leaves a stream only for a clear gain.
LEMMA TickSound ==
  ASSUME ConstantsOK, ControlInv, NEW rate \in Rates, ArbitrationTick(rate)
  PROVE  /\ MarketInv' /\ RoutedOnFreshQuote'
         /\ alloc' = [d \in Devices |-> alloc'[d]]
         /\ \A d \in Devices : alloc'[d].yield \in Int /\ (Idle(alloc'[d]) => alloc'[d].yield = 0)
         /\ \A d \in DOMAIN alloc :
              ~Idle(alloc[d]) /\ ~Idle(alloc'[d]) /\ alloc'[d].stream # alloc[d].stream =>
                \A s \in streamsSlice(streamMap') :
                  s.id = alloc[d].stream /\ Families[d] \in s.families =>
                    LET y == Effective(YieldFor(s, d)) IN
                    \/ y = 0 \/ y < floor'
                    \/ alloc'[d].yield * 100 > y * (100 + Hysteresis)
<1> DEFINE S == streamsSlice(streamMap')
           Ref(d) == [id |-> d, family |-> Families[d]]
           A(d) == chooseForDevice(Ref(d), S, PreviousStream(alloc, d), "earnings",
                                   Hysteresis, floor')
           C(d) == candidateStreams(Ref(d), S, floor')
<1>1. /\ streamMap' = pruneStaleStreams(Later(streamMap))
      /\ heard' = [k \in DOMAIN streamMap' |-> HeardLater[k]]
      /\ floor' = Max({MinYield, powerFloor(rate)})
      /\ alloc' = Decide(DeviceRefs, S, alloc, "earnings", Hysteresis, floor')
  BY Zenon DEF ArbitrationTick
<1>2. floor' \in Nat /\ Hysteresis \in Nat  BY <1>1, Floors, Zenon DEF ConstantsOK
<1>3. /\ IsTable(streamMap') /\ heard' \in [DOMAIN streamMap' -> Nat]
      /\ \A k \in DOMAIN streamMap' : heard'[k] <= streamMap'[k].age /\ heard'[k] <= StaleAge
  BY <1>1, TableLater, Zenon DEF ControlInv
<1>4. MarketInv'  BY <1>3, Zenon DEF MarketInv
<1>5. /\ alloc' = [d \in Devices |-> alloc'[d]]
      /\ \A d \in Devices : alloc'[d].stream = A(d).stream /\ alloc'[d].yield = A(d).yield
  <2> DEFINE new == Decide(DeviceRefs, S, alloc, "earnings", Hysteresis, floor')
  <2>1. /\ new = [d \in Devices |-> new[d]]
        /\ \A d \in Devices : new[d].stream = A(d).stream /\ new[d].yield = A(d).yield
    BY <1>2, <1>3, Decisions, ZenonT(60)
  <2>2. alloc' = new  BY <1>1, Zenon
  <2> HIDE DEF new, A
  <2> QED  BY <2>1, <2>2, Zenon
<1>6. \A d \in Devices : d \in Nat  BY DEF Devices
<1>7. \A d \in Devices :
        /\ \/ A(d).stream = NoStream /\ A(d).yield = 0
           \/ \E c \in C(d) : A(d).stream = c.stream.id /\ A(d).yield = c.yield
        /\ A(d).stream # PreviousStream(alloc, d) /\ ~Idle(A(d)) =>
             \A c \in C(d) : c.stream.id = PreviousStream(alloc, d) =>
               A(d).yield * 100 > c.yield * (100 + Hysteresis)
  <2> TAKE d \in Devices
  <2>1. d \in Nat  BY <1>6, Zenon
  <2>2. <<A(d).stream, A(d).yield>> \in {<<c.stream.id, c.yield>> : c \in C(d)} \cup {<<NoStream, 0>>}
    BY <1>2, <1>3, <2>1, Choice, Zenon
  <2>3. A(d).stream # PreviousStream(alloc, d) /\ ~Idle(A(d)) =>
          \A c \in C(d) : c.stream.id = PreviousStream(alloc, d) =>
            A(d).yield * 100 > c.yield * (100 + Hysteresis)
    BY <1>2, <1>3, <2>1, Choice, ZenonT(60)
  <2> HIDE DEF A, C
  <2> QED  BY <2>2, <2>3, Zenon
<1>8. \A d \in Devices :
        /\ \A c \in C(d) : \E k \in DOMAIN streamMap' :
             /\ k[1] = c.stream.id /\ k[2] \in {d, AnyDevice}
             /\ c.yield = Effective(streamMap'[k].yield)
        /\ \A s \in S : /\ Effective(YieldFor(s, d)) \in Nat
                        /\ Families[d] \in s.families /\ Effective(YieldFor(s, d)) # 0
                             /\ Effective(YieldFor(s, d)) >= floor' =>
                             [stream |-> s, yield |-> Effective(YieldFor(s, d))] \in C(d)
  BY <1>2, <1>3, <1>6, Candidates, Zenon
<1>0. \A d \in Devices : \A c \in C(d) : c.stream.id \in Nat \ {NoStream} /\ c.yield \in Nat
  BY <1>2, <1>3, <1>6, Candidates, Zenon
<1> HIDE DEF A, C, S
<1>9. RoutedOnFreshQuote'
  <2> SUFFICES ASSUME NEW d \in Devices, ~Idle(alloc'[d])
               PROVE  \E k \in DOMAIN heard' :
                        /\ k[1] = alloc'[d].stream /\ k[2] \in {d, AnyDevice}
                        /\ heard'[k] <= StaleAge
                        /\ Effective(streamMap'[k].yield) = alloc'[d].yield
    BY Zenon DEF RoutedOnFreshQuote, Devices
  <2>1. ~Idle(A(d))  BY <1>5, Zenon DEF Idle
  <2>2. PICK c \in C(d) : A(d).stream = c.stream.id /\ A(d).yield = c.yield
    BY <1>7, <2>1, Zenon DEF Idle
  <2>3. PICK k \in DOMAIN streamMap' : /\ k[1] = c.stream.id /\ k[2] \in {d, AnyDevice}
                                       /\ c.yield = Effective(streamMap'[k].yield)
    BY <1>8, Zenon
  <2>4. k \in DOMAIN heard' /\ heard'[k] <= StaleAge  BY <1>3, Zenon
  <2>5. alloc'[d].stream = k[1] /\ alloc'[d].yield = c.yield  BY <1>5, <2>2, <2>3, Zenon
  <2> QED  BY <2>3, <2>4, <2>5, Zenon
<1>10. ASSUME NEW d \in DOMAIN alloc, ~Idle(alloc[d]), ~Idle(alloc'[d]),
              alloc'[d].stream # alloc[d].stream,
              NEW s \in S, s.id = alloc[d].stream, Families[d] \in s.families,
              Effective(YieldFor(s, d)) # 0, ~(Effective(YieldFor(s, d)) < floor')
       PROVE  alloc'[d].yield * 100 > Effective(YieldFor(s, d)) * (100 + Hysteresis)
  <2> DEFINE y == Effective(YieldFor(s, d))
             c == [stream |-> s, yield |-> y]
  <2>1. d \in Devices
    <3>1. DOMAIN EmptyFcn = {}  BY Zenon DEF EmptyFcn
    <3> QED  BY <3>1, Zenon DEF ControlInv, PauseInv
  <2>2. PreviousStream(alloc, d) = alloc[d].stream  BY Zenon DEF PreviousStream
  <2>3. ~Idle(A(d)) /\ A(d).stream # PreviousStream(alloc, d)
    BY <1>5, <1>10, <2>1, <2>2, ZenonT(60) DEF Idle
  <2>4. y \in Nat /\ y # 0 /\ y >= floor'
    <3>1. y \in Nat  BY <1>8, <2>1, Zenon
    <3> HIDE DEF y
    <3> QED  BY <1>2, <1>10, <3>1 DEF y
  <2>5. c \in C(d)  BY <1>8, <1>10, <2>1, <2>4, Zenon
  <2>6. c.stream = s /\ c.yield = y  BY Zenon
  <2>7. c.stream.id = PreviousStream(alloc, d)  BY <1>10, <2>2, <2>6, Zenon
  <2> HIDE DEF c
  <2>8. A(d).yield * 100 > c.yield * (100 + Hysteresis)
    BY <1>7, <2>1, <2>3, <2>5, <2>7, ZenonT(60)
  <2> HIDE DEF y
  <2>9. alloc'[d].yield = A(d).yield  BY <1>5, <2>1, Zenon
  <2> QED  BY <2>6, <2>8, <2>9, Zenon DEF y
<1>11. ASSUME NEW d \in Devices
       PROVE  alloc'[d].yield \in Int /\ (Idle(alloc'[d]) => alloc'[d].yield = 0)
  <2>1. alloc'[d].yield = A(d).yield /\ (Idle(alloc'[d]) <=> Idle(A(d)))  BY <1>5, Zenon DEF Idle
  <2>2. A(d).yield \in Nat \/ A(d).yield = 0  BY <1>0, <1>7, Zenon
  <2>4. Idle(A(d)) => A(d).yield = 0  BY <1>0, <1>7, Zenon DEF Idle
  <2>3. A(d).yield \in Int  BY <2>2
  <2> QED  BY <2>1, <2>3, <2>4, Zenon
<1> QED  BY <1>4, <1>5, <1>9, <1>10, <1>11, Zenon DEF S

\* recordActivity: the yields summed by stream are all of them, since an idle device has none.
LEMMA Booked ==
  ASSUME ConstantsOK, NEW a,
         \A d \in Devices : a[d].yield \in Int /\ (Idle(a[d]) => a[d].yield = 0),
         NEW act,
         act = [s \in {a[d].stream : d \in Devices} \ {NoStream} |->
                  SumOver(Expected(a), {d \in Devices : a[d].stream = s})]
  PROVE  SumOver(act, DOMAIN act) = SumOver(Expected(a), Devices)
<1> DEFINE f == Expected(a)
           of == [d \in Devices |-> a[d].stream]
           G == {of[d] : d \in Devices} \ {NoStream}
           R == {d \in Devices : of[d] \in G}
           I == {d \in Devices : of[d] = NoStream}
<1>2. \A d \in Devices : f[d] \in Int /\ (of[d] = NoStream => f[d] = 0)
  BY Zenon DEF Expected, Idle
<1>3. IsFiniteSet(Devices)
  <2>1. 1 \in Int /\ Len(Families) \in Int  BY DEF ConstantsOK
  <2> QED  BY <2>1, FS_Interval, Zenon DEF Devices
<1>4. IsFiniteSet(G)
  <2> DEFINE T == {of[d] : d \in Devices}
  <2>1. IsFiniteSet(T)
    <3> HIDE DEF of
    <3> QED  BY <1>3, Images, Zenon
  <2>2. G \in SUBSET T  BY Zenon
  <2> QED  BY <2>1, <2>2, FS_Subset, Zenon
<1>5. act = [s \in G |-> SumOver(f, {d \in Devices : of[d] = s})]
  <2>2. G = {a[d].stream : d \in Devices} \ {NoStream}  BY Zenon
  <2>3. \A s : {d \in Devices : of[d] = s} = {d \in Devices : a[d].stream = s}  BY Zenon
  <2> HIDE DEF G, of
  <2> QED  BY <2>2, <2>3, ZenonT(60)
<1> HIDE DEF f
<1>6. DOMAIN act = G
      /\ \A s \in G : act[s] = SumOver(f, {d \in Devices : of[d] = s})
  <2> HIDE DEF G, of
  <2> QED  BY <1>5, Zenon
<1>7. SumOver(act, G) = SumOver(f, R)
  <2>1. \A d \in Devices : f[d] \in Int  BY <1>2, Zenon
  <2>2. \A s : {d \in Devices : of[d] = s} = Group(Devices, of, {s})
    <3> HIDE DEF of
    <3> QED  BY Zenon DEF Group
  <2>3. \A s \in G : act[s] = SumOver(f, Group(Devices, of, {s}))
    <3> HIDE DEF of, G
    <3> QED  BY <1>6, <2>2, Zenon
  <2> HIDE DEF of, G
  <2>4. SumOver(act, G) = SumOver(f, Group(Devices, of, G))
    BY ONLY <1>3, <1>4, <2>1, <2>3, SumByGroup
  <2> QED  BY <2>4, Zenon DEF Group
<1>8. I \cap R = {} /\ I \cup R = Devices /\ I \in SUBSET Devices /\ R \in SUBSET Devices  BY Zenon
<1>9. \A d \in I : f[d] = 0  BY <1>2, Zenon
<1> HIDE DEF I, R, G
<1>10. IsFiniteSet(I) /\ IsFiniteSet(R)  BY <1>3, <1>8, FS_Subset, Zenon
<1>11. SumOver(f, I) = 0  BY <1>9, <1>10, SumZero, Zenon
<1>12. SumOver(f, Devices) = SumOver(f, I) + SumOver(f, R)
  <2>1. \A x \in I \cup R : f[x] \in Int  BY <1>2, <1>8, Zenon
  <2>2. SumOver(f, I \cup R) = SumOver(f, I) + SumOver(f, R)
    BY <1>8, <1>10, <2>1, SumUnion, Zenon
  <2> QED  BY <1>8, <2>2, Zenon
<1>13. SumOver(f, R) \in Int
  <2>1. \A x \in R : f[x] \in Int  BY <1>2, <1>8, Zenon
  <2> QED  BY <1>10, <2>1, SumInt, Zenon
<1>14. 0 + SumOver(f, R) = SumOver(f, R)  BY <1>13, SMT
<1> QED  BY <1>6, <1>7, <1>11, <1>12, <1>14, Zenon DEF f

\* A tick leaves in the activity map what the decision expects to earn.
LEMMA TickActivity ==
  ASSUME ConstantsOK, ControlInv, NEW rate \in Rates, ArbitrationTick(rate)
  PROVE  SumOver(activity', DOMAIN activity') = SumOver(Expected(alloc'), Devices)
<1>1. \A d \in Devices : alloc'[d].yield \in Int /\ (Idle(alloc'[d]) => alloc'[d].yield = 0)
  BY TickSound, Zenon
<1>2. activity' = [s \in {alloc'[d].stream : d \in Devices} \ {NoStream} |->
                    SumOver(Expected(alloc'), {d \in Devices : alloc'[d].stream = s})]
  BY Zenon DEF ArbitrationTick
<1> QED  BY <1>1, <1>2, Booked, Zenon

\* The loop before its first tick.
LEMMA ControlStarts ==
  ASSUME ConstantsOK, ControlInit
  PROVE  ControlInv
<1>1. DOMAIN EmptyFcn = {} /\ EmptyFcn \in [{} -> Entries] /\ EmptyFcn \in [{} -> Nat]
  BY Zenon DEF EmptyFcn
<1>2. IsFiniteSet({})  BY FS_EmptySet, Zenon
<1>3. MarketInv  BY <1>1, <1>2, Zenon DEF ControlInit, MarketInv, IsTable
<1>4. 1 \in Devices  BY DEF ConstantsOK, Devices
<1>5. arb = [pc |-> "rest", next |-> 1] /\ paused = {} /\ alloc = EmptyFcn  BY Zenon DEF ControlInit
<1>6. PauseInv /\ arb.pc # "reconcile"  BY <1>4, <1>5, Zenon DEF PauseInv
<1> QED  BY <1>3, <1>5, <1>6, Zenon DEF ControlInv, ActivityInv, RoutedOnFreshQuote

\* updateStream: the entry of the quote is new, and was received now.
LEMMA QuoteKeeps ==
  ASSUME ConstantsOK, MarketInv, NEW q \in Quotes, ReceiveQuote(q)
  PROVE  MarketInv'
<1> DEFINE D == DOMAIN streamMap
           key == <<q.provider, q.device>>
           e == [families |-> IF q.families = NilFamilies THEN AllFamilies ELSE q.families,
                 yield |-> [sats |-> netSats(q), conf |-> q.conf],
                 age |-> quoteFreshness(q.at)]
<1>1. /\ q.provider \in Nat \ {NoStream} /\ q.device \in Nat
      /\ q.families \in (SUBSET AllFamilies) \cup {NilFamilies}
      /\ q.net \in Int /\ q.gross \in Int /\ q.conf \in Int /\ q.at \in Int
  BY Zenon DEF ConstantsOK
<1>2. e \in Entries /\ e.age \in Nat
  <2>1. netSats(q) \in Int  BY <1>1, Zenon DEF netSats
  <2>2. quoteFreshness(q.at) \in Nat  BY <1>1 DEF quoteFreshness, ZeroTime
  <2>3. (IF q.families = NilFamilies THEN AllFamilies ELSE q.families) \in SUBSET AllFamilies
    BY <1>1, Zenon
  <2> QED  BY <1>1, <2>1, <2>2, <2>3, Zenon DEF Entries
<1>3. key \in (Nat \ {NoStream}) \X Nat  BY <1>1, Zenon
<1>4. streamMap' = Put(streamMap, key, e) /\ heard' = Put(heard, key, 0)
  BY Zenon DEF ReceiveQuote
<1> HIDE DEF key, e
<1>5. /\ IsFiniteSet(D) /\ D \subseteq (Nat \ {NoStream}) \X Nat
      /\ streamMap \in [D -> Entries] /\ heard \in [D -> Nat]
      /\ \A k \in D : heard[k] <= streamMap[k].age
  BY Zenon DEF MarketInv, IsTable
<1> HIDE DEF D
<1>6. IsFiniteSet(D \cup {key})  BY <1>5, FS_AddElement, Zenon
<1>7. DOMAIN streamMap' = D \cup {key} /\ streamMap' \in [D \cup {key} -> Entries]
  BY <1>2, <1>4, <1>5, Zenon DEF Put, D
<1>8. heard' \in [D \cup {key} -> Nat]  BY <1>4, <1>5, Zenon DEF Put
<1>9. \A k \in D \cup {key} : heard'[k] <= streamMap'[k].age
  <2>1. streamMap'[key] = e /\ heard'[key] = 0  BY <1>4, Zenon DEF Put
  <2>2. \A k \in D : k # key => streamMap'[k] = streamMap[k] /\ heard'[k] = heard[k]
    BY <1>4, <1>5, Zenon DEF Put, D
  <2> QED  BY <1>2, <1>5, <2>1, <2>2
<1> QED  BY <1>3, <1>5, <1>6, <1>7, <1>8, <1>9, Zenon DEF MarketInv, IsTable

\* reconcileArbPauses sets one device right and moves on.
LEMMA ReconcileKeeps ==
  ASSUME ConstantsOK, PauseInv, Reconcile
  PROVE  PauseInv' /\ RoutedOnFreshQuote'
<1> DEFINE n == arb.next
           Right(d) == d \in paused <=> OffMining(alloc[d])
<1>1. /\ arb \in [pc : {"rest", "reconcile", "apply"}, next : Devices] /\ paused \subseteq Devices
      /\ arb.pc = "reconcile" /\ alloc # EmptyFcn /\ DOMAIN alloc = Devices
      /\ \A d \in Devices : d < n => Right(d)
  BY Zenon DEF PauseInv, Reconcile
<1>2. n \in 1 .. Len(Families) /\ Len(Families) \in Nat /\ 1 \in 1 .. Len(Families)
  BY <1>1 DEF Devices, ConstantsOK
<1>3. /\ paused' = IF OffMining(alloc[n]) THEN paused \cup {n} ELSE paused \ {n}
      /\ alloc' = alloc
  BY Zenon DEF Reconcile, decisionVars
<1>4. paused' \subseteq Devices /\ (n \in paused' <=> OffMining(alloc[n]))
  BY <1>1, <1>2, <1>3, Zenon DEF Devices
<1>5. \A d \in Devices : d < n => (d \in paused' <=> OffMining(alloc[d]))
  <2>1. \A d \in Devices : d < n => d # n  BY <1>2 DEF Devices
  <2> QED  BY <1>1, <1>3, <2>1, Zenon
<1>6. CASE n = Len(Families)
  <2>1. arb' = [pc |-> "apply", next |-> 1]  BY <1>6, Zenon DEF Reconcile
  <2>2. \A d \in Devices : d < n \/ d = n  BY <1>2, <1>6 DEF Devices
  <2>3. \A d \in Devices : d \in paused' <=> OffMining(alloc'[d])
    BY <1>3, <1>4, <1>5, <2>2, Zenon
  <2>4. arb' \in [pc : {"rest", "reconcile", "apply"}, next : Devices] /\ arb'.pc = "apply"
    BY <1>2, <2>1, Zenon DEF Devices
  <2>5. PauseInv'
    BY <1>1, <1>3, <1>4, <2>3, <2>4, Zenon DEF PauseInv, Devices
  <2>6. arb'.pc # "reconcile"  BY <2>4, Zenon
  <2> QED  BY <2>5, <2>6, Zenon DEF RoutedOnFreshQuote
<1>7. CASE n # Len(Families)
  <2>1. arb' = [arb EXCEPT !.next = n + 1]  BY <1>7, Zenon DEF Reconcile
  <2>2. arb' \in [pc : {"rest", "reconcile", "apply"}, next : Devices]
        /\ arb'.pc = "reconcile" /\ arb'.next = n + 1
    BY <1>1, <1>2, <1>7, <2>1 DEF Devices
  <2>3. \A d \in Devices : d < n + 1 => d < n \/ d = n  BY <1>2 DEF Devices
  <2>4. \A d \in Devices : d < n + 1 => (d \in paused' <=> OffMining(alloc'[d]))
    BY <1>3, <1>4, <1>5, <2>3, Zenon
  <2>5. PauseInv'
    BY <1>1, <1>3, <1>4, <2>2, <2>4, Zenon DEF PauseInv, Devices
  <2>6. arb'.next # 1  BY <1>2, <2>2
  <2> QED  BY <2>5, <2>6, Zenon DEF RoutedOnFreshQuote
<1> QED  BY <1>6, <1>7, Zenon

\* applyAllocation idles one worker and moves on; the pause set is as it was.
LEMMA ApplyKeeps ==
  ASSUME ConstantsOK, PauseInv, Apply
  PROVE  PauseInv' /\ RoutedOnFreshQuote'
<1> DEFINE n == arb.next
<1>1. /\ arb \in [pc : {"rest", "reconcile", "apply"}, next : Devices]
      /\ arb.pc = "apply" /\ alloc' = alloc /\ paused' = paused
  BY Zenon DEF PauseInv, Apply, decisionVars
<1>2. n \in 1 .. Len(Families) /\ Len(Families) \in Nat /\ 1 \in 1 .. Len(Families)
  BY <1>1 DEF Devices, ConstantsOK
<1>3. /\ arb' \in [pc : {"rest", "reconcile", "apply"}, next : Devices]
      /\ arb'.pc # "reconcile"
  <2>1. CASE n = Len(Families)
    <3>1. arb' = [pc |-> "rest", next |-> 1]  BY <2>1, Zenon DEF Apply
    <3> QED  BY <1>2, <3>1, Zenon DEF Devices
  <2>2. CASE n # Len(Families)
    <3>1. arb' = [arb EXCEPT !.next = n + 1]  BY <2>2, Zenon DEF Apply
    <3> QED  BY <1>1, <1>2, <2>2, <3>1 DEF Devices
  <2> QED  BY <2>1, <2>2, Zenon
<1>4. /\ paused \subseteq Devices /\ alloc # EmptyFcn /\ DOMAIN alloc = Devices
      /\ \A d \in Devices : d \in paused <=> OffMining(alloc[d])
  <2>1. arb.pc # "rest" /\ arb.pc # "reconcile"  BY <1>1, Zenon
  <2> QED  BY <2>1, Zenon DEF PauseInv
<1>5. PauseInv'  BY <1>1, <1>3, <1>4, Zenon DEF PauseInv, Devices
<1> QED  BY <1>3, <1>5, Zenon DEF RoutedOnFreshQuote

\* Every step keeps the invariant; only a tick changes the allocation.
LEMMA ControlStep ==
  ASSUME ConstantsOK, ControlInv, [ControlNext]_controlVars
  PROVE  /\ ControlInv'
         /\ alloc' = alloc \/ \E rate \in Rates : ArbitrationTick(rate)
<1>1. MarketInv /\ PauseInv /\ ActivityInv /\ RoutedOnFreshQuote  BY Zenon DEF ControlInv
<1>0. ASSUME UNCHANGED <<alloc, activity>> PROVE ActivityInv'
  <2>1. Expected(alloc)' = Expected(alloc)  BY <1>0, Zenon DEF Expected, Devices
  <2> QED  BY <1>0, <1>1, <2>1, Zenon DEF ActivityInv, Devices
<1>2. ASSUME UNCHANGED <<marketVars, decisionVars, paused, arb>>
      PROVE  ControlInv' /\ alloc' = alloc
  <2>1. /\ streamMap' = streamMap /\ heard' = heard /\ alloc' = alloc /\ paused' = paused
        /\ arb' = arb
    BY <1>2, Zenon DEF marketVars, decisionVars
  <2>2. MarketInv'  BY <1>1, <2>1, Zenon DEF MarketInv
  <2>3. PauseInv'  BY <1>1, <2>1, Zenon DEF PauseInv, Devices
  <2>4. RoutedOnFreshQuote'  BY <1>1, <2>1, Zenon DEF RoutedOnFreshQuote, Devices
  <2>5. ActivityInv'  BY <1>0, <1>2, Zenon DEF decisionVars
  <2> QED  BY <2>1, <2>2, <2>3, <2>4, <2>5, Zenon DEF ControlInv
<1>3. ASSUME NEW q \in Quotes, ReceiveQuote(q) PROVE ControlInv' /\ alloc' = alloc
  <2>1. arb.pc = "rest" /\ arb' = arb /\ alloc' = alloc /\ paused' = paused
    BY <1>3, Zenon DEF ReceiveQuote, decisionVars
  <2>2. MarketInv'  BY <1>1, <1>3, QuoteKeeps, Zenon
  <2>3. PauseInv'  BY <1>1, <2>1, Zenon DEF PauseInv, Devices
  <2>4. arb'.pc # "reconcile"  BY <2>1, Zenon
  <2>5. RoutedOnFreshQuote'  BY <2>4, Zenon DEF RoutedOnFreshQuote
  <2>6. ActivityInv'  BY <1>0, <1>3, Zenon DEF ReceiveQuote, decisionVars
  <2> QED  BY <2>1, <2>2, <2>3, <2>5, <2>6, Zenon DEF ControlInv
<1>4. ASSUME NEW rate \in Rates, ArbitrationTick(rate) PROVE ControlInv'
  <2>1. MarketInv' /\ RoutedOnFreshQuote' /\ alloc' = [d \in Devices |-> alloc'[d]]
    BY <1>4, TickSound, Zenon
  <2>2. arb' = [pc |-> "reconcile", next |-> 1] /\ paused' = paused
    BY <1>4, Zenon DEF ArbitrationTick
  <2>3. 1 \in Devices /\ \A d \in Devices : ~(d < 1)  BY DEF Devices, ConstantsOK
  <2>4. arb' \in [pc : {"rest", "reconcile", "apply"}, next : Devices]
        /\ arb'.pc = "reconcile" /\ arb'.next = 1
    BY <2>2, <2>3, Zenon
  <2>5. DOMAIN alloc' = Devices  BY <2>1, Zenon
  <2>6. alloc' # EmptyFcn
    <3>1. DOMAIN EmptyFcn = {}  BY Zenon DEF EmptyFcn
    <3> QED  BY <2>3, <2>5, <3>1, Zenon
  <2>7. paused \subseteq Devices  BY <1>1, Zenon DEF PauseInv
  <2>8. PauseInv'  BY <2>2, <2>3, <2>4, <2>5, <2>6, <2>7, Zenon DEF PauseInv, Devices
  <2>9. ActivityInv'
    <3>1. SumOver(activity', DOMAIN activity') = SumOver(Expected(alloc'), Devices)
      BY <1>4, TickActivity, Zenon
    <3> QED  BY <3>1, Zenon DEF ActivityInv, Expected, Devices
  <2> QED  BY <2>1, <2>8, <2>9, Zenon DEF ControlInv
<1>5. ASSUME Reconcile \/ Apply PROVE ControlInv' /\ alloc' = alloc
  <2>1. streamMap' = streamMap /\ heard' = heard /\ alloc' = alloc
    BY <1>5, Zenon DEF Reconcile, Apply, marketVars, decisionVars
  <2>2. MarketInv'  BY <1>1, <2>1, Zenon DEF MarketInv
  <2>3. ActivityInv'  BY <1>0, <1>5, Zenon DEF Reconcile, Apply, decisionVars
  <2> QED  BY <1>1, <1>5, <2>1, <2>2, <2>3, ReconcileKeeps, ApplyKeeps, Zenon DEF ControlInv
<1>6. ASSUME JobArrives \/ DispatchStep \/ SessionEnds \/ PriceIdles
      PROVE  ControlInv' /\ alloc' = alloc
  BY <1>2, <1>6, Zenon DEF JobArrives, DispatchStep, CheckPaused, ArmWorker, SessionEnds,
                           PriceIdles
<1>7. ASSUME NEW rate \in Rates, NEW fresh \in BOOLEAN, PriceTick(rate, fresh)
      PROVE  ControlInv' /\ alloc' = alloc
  BY <1>2, <1>7, Zenon DEF PriceTick
<1>8. ASSUME UNCHANGED controlVars PROVE ControlInv' /\ alloc' = alloc
  BY <1>2, <1>8, Zenon DEF controlVars, marketVars, decisionVars
<1> QED  BY <1>3, <1>4, <1>5, <1>6, <1>7, <1>8, Zenon DEF ControlNext

\* A device is only ever routed on a yield that a provider quoted for it, or for any
\* device, within streamStaleTimeout: arbitrationTick prunes before it decides, and no
\* quote is older than its entry says, whatever time the provider put on it.
THEOREM RoutesAreFresh ==
  ASSUME ConstantsOK
  PROVE  ControlSpec => []RoutedOnFreshQuote
<1>1. ControlInit => ControlInv  BY ControlStarts, Zenon
<1>2. ControlInv /\ [ControlNext]_controlVars => ControlInv'  BY ControlStep, Zenon
<1>3. ControlInv => RoutedOnFreshQuote  BY Zenon DEF ControlInv
<1> QED  BY <1>1, <1>2, <1>3, PTL DEF ControlSpec

\* At rest the pause set and the activity map say what the last decision says: exactly the
\* devices it left idle or routed off mining are in the set that updateWork and applyJob
\* consult, and the yields by stream add up to what the devices are expected to earn.
THEOREM BooksFollowAllocation ==
  ASSUME ConstantsOK
  PROVE  ControlSpec => []MirrorsAllocation
<1>1. ControlInit => ControlInv  BY ControlStarts, Zenon
<1>2. ControlInv /\ [ControlNext]_controlVars => ControlInv'  BY ControlStep, Zenon
<1>3. ControlInv => MirrorsAllocation
  <2> SUFFICES ASSUME PauseInv, ActivityInv, arb.pc = "rest", alloc # EmptyFcn
               PROVE  /\ paused = {d \in Devices : OffMining(alloc[d])}
                      /\ SumOver(activity, DOMAIN activity) = SumOver(Expected(alloc), Devices)
    BY Zenon DEF ControlInv, MirrorsAllocation
  <2>1. arb.pc # "reconcile"  BY Zenon
  <2>2. paused = {d \in Devices : OffMining(alloc[d])}  BY <2>1, Zenon DEF PauseInv
  <2> QED  BY <2>2, Zenon DEF ActivityInv
<1> QED  BY <1>1, <1>2, <1>3, PTL DEF ControlSpec

\* incumbentHold works: a device leaves a stream that still pays it above the floor only
\* for one that pays more by over the hysteresis margin.
THEOREM SwitchesPay ==
  ASSUME ConstantsOK
  PROVE  ControlSpec => SwitchOnlyOnGain
<1> DEFINE Gain == \A d \in DOMAIN alloc :
             ~Idle(alloc[d]) /\ ~Idle(alloc'[d]) /\ alloc'[d].stream # alloc[d].stream =>
               \A s \in streamsSlice(streamMap') :
                 s.id = alloc[d].stream /\ Families[d] \in s.families =>
                   LET y == Effective(YieldFor(s, d)) IN
                   \/ y = 0 \/ y < floor'
                   \/ alloc'[d].yield * 100 > y * (100 + Hysteresis)
<1>1. ControlInit => ControlInv  BY ControlStarts, Zenon
<1>2. ControlInv /\ [ControlNext]_controlVars => ControlInv'  BY ControlStep, Zenon
<1>3. ControlInv /\ [ControlNext]_controlVars => [Gain]_controlVars
  <2> SUFFICES ASSUME ControlInv, [ControlNext]_controlVars PROVE Gain  BY Zenon
  <2>1. CASE alloc' = alloc  BY <2>1, Zenon
  <2>2. ASSUME NEW rate \in Rates, ArbitrationTick(rate) PROVE Gain  BY <2>2, TickSound, Zenon
  <2> QED  BY <2>1, <2>2, ControlStep, Zenon
<1>4. SwitchOnlyOnGain <=> [][Gain]_controlVars  BY Zenon DEF SwitchOnlyOnGain
<1> HIDE DEF Gain
<1> QED  BY <1>1, <1>2, <1>3, <1>4, PTL DEF ControlSpec
=============================================================================
