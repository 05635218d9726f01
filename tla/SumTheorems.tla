---------------------------- MODULE SumTheorems ----------------------------
(***************************************************************************)
(* Sums over finite sets: SumFunctionOnSet(f, S), the sum of f[x] for all  *)
(* x in S.  The community modules define it by recursion over the subsets  *)
(* of S, removing a chosen element; here it is shown to be what one        *)
(* expects.  Induction is stated with sets instead of predicates.          *)
(***************************************************************************)
EXTENDS Integers, Functions, FiniteSetTheorems, WellFoundedInduction, TLAPS

-----------------------------------------------------------------------------
(* Induction *)

\* A set of natural numbers that has 0 and with each number the next has all.
LEMMA InductionOnNat ==
  ASSUME NEW T \in SUBSET Nat, 0 \in T, \A n \in T : n + 1 \in T
  PROVE  T = Nat
<1> DEFINE R == {s \in Nat \X Nat : s[1] < s[2]}
<1> SUFFICES ASSUME Nat \ T # {} PROVE FALSE
  OBVIOUS
<1>1. IsWellFoundedOn(R, Nat)
  BY NatLessThanWellFounded DEF OpToRel
<1>2. \E x \in Nat \ T : \A y \in Nat \ T : ~ (<<y, x>> \in R)
  <2> HIDE DEF R
  <2>1. Nat \ T \subseteq Nat
    OBVIOUS
  <2>q. QED
    BY <1>1, <2>1, WFMin
<1>3. PICK x \in Nat \ T : \A y \in Nat \ T : ~(y < x)
  BY <1>2
<1>4. x - 1 \in Nat /\ x - 1 < x
  BY <1>3
<1>5. x - 1 \in T
  BY <1>3, <1>4
<1>q. QED
  BY <1>3, <1>4, <1>5

\* The element that a recursion over sets removes.
Chosen(s) == CHOOSE x \in s : TRUE

LEMMA ChosenIsElement == ASSUME NEW s, s # {} PROVE Chosen(s) \in s
  BY DEF Chosen

\* A set of subsets of a finite set that has the empty one, and each whose rest
\* after removing the chosen element it has, has all.
LEMMA InductionByRemoval ==
  ASSUME NEW U, IsFiniteSet(U), NEW T \in SUBSET (SUBSET U), {} \in T,
         \A s \in SUBSET U : s # {} /\ s \ {Chosen(s)} \in T => s \in T
  PROVE  T = SUBSET U
<1> DEFINE N == {n \in Nat : \A s \in SUBSET U : Cardinality(s) = n => s \in T}
<1>1. \A s \in SUBSET U : IsFiniteSet(s) /\ Cardinality(s) \in Nat
  BY FS_Subset, FS_CardinalityType
<1>2. 0 \in N
  BY <1>1, FS_EmptySet
<1>3. ASSUME NEW n \in N PROVE n + 1 \in N
  <2> SUFFICES ASSUME NEW s \in SUBSET U, Cardinality(s) = n + 1
               PROVE  s \in T
    OBVIOUS
  <2>1. n \in Nat /\ \A r \in SUBSET U : Cardinality(r) = n => r \in T
    OBVIOUS
  <2>2. s # {}
    BY <1>1, <2>1, FS_EmptySet
  <2>3. Chosen(s) \in s
    BY <2>2, ChosenIsElement
  <2>4. IsFiniteSet(s)
    BY <1>1
  <2>5. Cardinality(s \ {Chosen(s)}) = Cardinality(s) - 1
    BY <2>3, <2>4, FS_RemoveElement
  <2>6. Cardinality(s \ {Chosen(s)}) = n
    BY <2>1, <2>5
  <2>7. s \ {Chosen(s)} \in T
    BY <2>1, <2>6
  <2>q. QED
    BY <2>2, <2>7
<1>4. N \subseteq Nat
  OBVIOUS
<1> HIDE DEF N
<1>5. N = Nat
  BY <1>2, <1>3, <1>4, InductionOnNat
<1>q. QED
  BY <1>1, <1>5 DEF N

\* A set of subsets of a finite set that has the empty one, and with each one
\* those with an element more, has the whole set.
LEMMA InductionByAddition ==
  ASSUME NEW U, IsFiniteSet(U), NEW T \in SUBSET (SUBSET U), {} \in T,
         \A s \in T : \A x \in U \ s : s \cup {x} \in T
  PROVE  U \in T
<1>1. ASSUME NEW s \in SUBSET U, s # {}, s \ {Chosen(s)} \in T PROVE s \in T
  <2>1. Chosen(s) \in s
    BY <1>1, ChosenIsElement
  <2>2. s = (s \ {Chosen(s)}) \cup {Chosen(s)} /\ Chosen(s) \in U \ (s \ {Chosen(s)})
    BY <2>1
  <2>q. QED
    BY <1>1, <2>2
<1>2. T = SUBSET U
  BY <1>1, InductionByRemoval
<1>q. QED
  BY <1>2

-----------------------------------------------------------------------------
(* The recursion and what it computes *)

\* g is what the recursion defines on the subsets of S.
Recursion(f, S, g) ==
  g = [s \in SUBSET S |-> IF s = {} THEN 0 ELSE f[Chosen(s)] + g[s \ {Chosen(s)}]]

\* g grows by f[x] whenever x is added, whatever the order.
Additive(f, S, g) ==
  /\ g \in [SUBSET S -> Int]
  /\ g[{}] = 0
  /\ \A s \in SUBSET S : \A x \in s : g[s] = f[x] + g[s \ {x}]

\* A function that is additive on the subsets of S.
LEMMA AdditiveExists ==
  ASSUME NEW f, NEW S, IsFiniteSet(S), \A x \in S : f[x] \in Int
  PROVE  \E g : Additive(f, S, g)
<1> DEFINE T == {U \in SUBSET S : \E g : Additive(f, U, g)}
<1>1. {} \in T
  <2>1. Additive(f, {}, [s \in SUBSET {} |-> 0])
    BY DEF Additive
  <2>q. QED
    BY <2>1
<1>2. ASSUME NEW U \in T, NEW x \in S \ U PROVE U \cup {x} \in T
  <2>1. PICK g : Additive(f, U, g)
    OBVIOUS
  <2> DEFINE V == U \cup {x}
             h == [s \in SUBSET V |-> IF x \in s THEN f[x] + g[s \ {x}] ELSE g[s]]
  <2>2. /\ g \in [SUBSET U -> Int] /\ g[{}] = 0
        /\ \A s \in SUBSET U : \A y \in s : g[s] = f[y] + g[s \ {y}]
    BY <2>1 DEF Additive
  <2>3. \A s \in SUBSET V : /\ x \in s => s \ {x} \in SUBSET U
                            /\ x \notin s => s \in SUBSET U
    OBVIOUS
  <2>4. f[x] \in Int
    OBVIOUS
  <2>5. h \in [SUBSET V -> Int]
    BY <2>2, <2>3, <2>4
  <2>6. h[{}] = 0
    BY <2>2
  <2>7. ASSUME NEW s \in SUBSET V, NEW y \in s PROVE h[s] = f[y] + h[s \ {y}]
    <3>1. s \ {y} \in SUBSET V
      OBVIOUS
    <3>2. CASE y = x
      BY <3>1, <3>2
    <3>3. CASE y # x /\ x \notin s
      BY <2>2, <2>3, <3>1, <3>3
    <3>4. CASE y # x /\ x \in s
      <4>1. h[s] = f[x] + g[s \ {x}]
        BY <3>4
      <4>2. h[s \ {y}] = f[x] + g[(s \ {y}) \ {x}]
        BY <3>1, <3>4
      <4>3. (s \ {y}) \ {x} = (s \ {x}) \ {y}
        OBVIOUS
      <4>4. s \ {x} \in SUBSET U /\ y \in s \ {x}
        BY <2>3, <3>4
      <4>5. g[s \ {x}] = f[y] + g[(s \ {x}) \ {y}]
        BY <2>2, <4>4
      <4>6. f[y] \in Int /\ g[(s \ {x}) \ {y}] \in Int
        <5>1. y \in S
          OBVIOUS
        <5>2. (s \ {x}) \ {y} \in SUBSET U
          BY <4>4
        <5>q. QED
          BY <2>2, <5>1, <5>2
      <4>7. h[s \ {y}] = f[x] + g[(s \ {x}) \ {y}]
        BY <4>2, <4>3
      <4>8. h[s] = f[x] + (f[y] + g[(s \ {x}) \ {y}])
        BY <4>1, <4>5
      <4>9. \A a, b, c \in Int : a + (b + c) = b + (a + c)
        OBVIOUS
      <4> HIDE DEF h
      <4>q. QED
        BY <2>4, <4>6, <4>7, <4>8, <4>9
    <3>q. QED
      BY <3>2, <3>3, <3>4
  <2> HIDE DEF h
  <2>8. Additive(f, V, h)
    BY <2>5, <2>6, <2>7 DEF Additive
  <2>q. QED
    BY <2>8
<1>3. T \in SUBSET (SUBSET S)
  OBVIOUS
<1> HIDE DEF T
<1>4. S \in T
  BY <1>1, <1>2, <1>3, InductionByAddition
<1>q. QED
  BY <1>4 DEF T

\* The recursion computes it.
LEMMA RecursionIsAdditive ==
  ASSUME NEW f, NEW S, IsFiniteSet(S), NEW g, NEW h, Recursion(f, S, g), Additive(f, S, h)
  PROVE  g = h
<1> DEFINE T == {s \in SUBSET S : g[s] = h[s]}
<1>1. {} \in T
  BY DEF Recursion, Additive
<1>2. ASSUME NEW s \in SUBSET S, s # {}, s \ {Chosen(s)} \in T PROVE s \in T
  <2>1. Chosen(s) \in s
    BY <1>2, ChosenIsElement
  <2>2. g[s] = f[Chosen(s)] + g[s \ {Chosen(s)}]
    BY <1>2 DEF Recursion
  <2>3. h[s] = f[Chosen(s)] + h[s \ {Chosen(s)}]
    BY <2>1 DEF Additive
  <2>q. QED
    BY <1>2, <2>2, <2>3
<1>3. T \in SUBSET (SUBSET S)
  OBVIOUS
<1> HIDE DEF T
<1>4. T = SUBSET S
  BY <1>1, <1>2, <1>3, InductionByRemoval
<1>5. \A s \in SUBSET S : g[s] = h[s]
  BY <1>4 DEF T
<1>6. DOMAIN g = SUBSET S /\ DOMAIN h = SUBSET S /\ g = [s \in DOMAIN g |-> g[s]]
      /\ h = [s \in DOMAIN h |-> h[s]]
  BY DEF Recursion, Additive
<1>q. QED
  BY <1>5, <1>6

LEMMA AdditiveIsRecursion ==
  ASSUME NEW f, NEW S, NEW h, Additive(f, S, h)
  PROVE  Recursion(f, S, h)
<1>1. \A s \in SUBSET S : s # {} => h[s] = f[Chosen(s)] + h[s \ {Chosen(s)}]
  BY ChosenIsElement DEF Additive
<1>2. h = [s \in SUBSET S |-> h[s]] /\ h[{}] = 0
  BY DEF Additive
<1>3. [s \in SUBSET S |-> h[s]] =
      [s \in SUBSET S |-> IF s = {} THEN 0 ELSE f[Chosen(s)] + h[s \ {Chosen(s)}]]
  BY <1>1, <1>2
<1>q. QED
  BY <1>2, <1>3 DEF Recursion

\* The sum is that of any function that is additive.
LEMMA SumIsAdditive ==
  ASSUME NEW f, NEW S, IsFiniteSet(S), NEW h, Additive(f, S, h)
  PROVE  \A s \in SUBSET S : SumFunctionOnSet(f, s) = h[s]
<1> SUFFICES ASSUME NEW s \in SUBSET S PROVE SumFunctionOnSet(f, s) = h[s]
  OBVIOUS
<1> DEFINE k == [r \in SUBSET s |-> h[r]]
           Iter == CHOOSE g : g = [r \in SUBSET s |-> IF r = {} THEN 0
                                   ELSE f[CHOOSE x \in r : TRUE] + g[r \ {CHOOSE x \in r : TRUE}]]
<1>1. SumFunctionOnSet(f, s) = Iter[s]
  BY DEF SumFunctionOnSet, FoldFunctionOnSet, MapThenFoldSet
<1>2. Additive(f, s, k)
  <2>1. SUBSET s \subseteq SUBSET S
    OBVIOUS
  <2>2. \A r \in SUBSET s : \A x \in r : r \ {x} \in SUBSET s
    OBVIOUS
  <2>q. QED
    BY <2>1, <2>2 DEF Additive
<1>3. Recursion(f, s, k)
  <2> HIDE DEF k
  <2>q. QED
    BY <1>2, AdditiveIsRecursion
<1>4. Recursion(f, s, Iter)
  <2> HIDE DEF k
  <2>q. QED
    BY Zenon, <1>3 DEF Recursion, Chosen
<1>5. IsFiniteSet(s)
  BY FS_Subset
<1> HIDE DEF k, Iter
<1>6. Iter = k
  BY <1>2, <1>4, <1>5, RecursionIsAdditive
<1>q. QED
  BY <1>1, <1>6 DEF k

-----------------------------------------------------------------------------
(* Sums *)

LEMMA SumEmpty == ASSUME NEW f PROVE SumFunctionOnSet(f, {}) = 0
<1>1. \A x \in {} : f[x] \in Int
  OBVIOUS
<1>2. IsFiniteSet({})
  BY FS_EmptySet
<1>3. PICK h : Additive(f, {}, h)
  BY <1>1, <1>2, AdditiveExists
<1>4. {} \in SUBSET {}
  OBVIOUS
<1>5. SumFunctionOnSet(f, {}) = h[{}]
  BY <1>2, <1>3, <1>4, SumIsAdditive
<1>q. QED
  BY <1>3, <1>5 DEF Additive

\* The sum is an integer, and one element more adds its summand.
LEMMA SumAdd ==
  ASSUME NEW f, NEW S, IsFiniteSet(S), \A x \in S : f[x] \in Int, NEW x \in S
  PROVE  /\ SumFunctionOnSet(f, S) \in Int /\ SumFunctionOnSet(f, S \ {x}) \in Int
         /\ SumFunctionOnSet(f, S) = f[x] + SumFunctionOnSet(f, S \ {x})
<1>1. PICK h : Additive(f, S, h)
  BY AdditiveExists
<1>2. S \in SUBSET S /\ S \ {x} \in SUBSET S
  OBVIOUS
<1>3. SumFunctionOnSet(f, S) = h[S] /\ SumFunctionOnSet(f, S \ {x}) = h[S \ {x}]
  BY <1>1, <1>2, SumIsAdditive
<1>q. QED
  BY <1>1, <1>2, <1>3 DEF Additive

LEMMA SumType ==
  ASSUME NEW f, NEW S, IsFiniteSet(S), \A x \in S : f[x] \in Int
  PROVE  SumFunctionOnSet(f, S) \in Int
<1>1. CASE S = {}
  BY <1>1, SumEmpty
<1>2. CASE S # {}
  BY <1>2, SumAdd
<1>q. QED
  BY <1>1, <1>2

LEMMA SumOfNaturals ==
  ASSUME NEW f, NEW S, IsFiniteSet(S), \A x \in S : f[x] \in Nat
  PROVE  SumFunctionOnSet(f, S) \in Nat
<1> DEFINE T == {s \in SUBSET S : SumFunctionOnSet(f, s) \in Nat}
<1>1. {} \in T
  BY SumEmpty
<1>2. ASSUME NEW s \in T, NEW x \in S \ s PROVE s \cup {x} \in T
  <2>1. IsFiniteSet(s \cup {x}) /\ x \in s \cup {x} /\ (s \cup {x}) \ {x} = s
    BY FS_Subset
  <2>2. \A y \in s \cup {x} : f[y] \in Int
    OBVIOUS
  <2>3. SumFunctionOnSet(f, s \cup {x}) = f[x] + SumFunctionOnSet(f, (s \cup {x}) \ {x})
    BY <2>1, <2>2, SumAdd
  <2>4. f[x] \in Nat /\ SumFunctionOnSet(f, s) \in Nat
    OBVIOUS
  <2>q. QED
    BY <2>1, <2>3, <2>4
<1>3. T \in SUBSET (SUBSET S)
  OBVIOUS
<1> HIDE DEF T
<1>4. S \in T
  BY <1>1, <1>2, <1>3, InductionByAddition
<1>q. QED
  BY <1>4 DEF T

\* The sum depends on the summands only.
LEMMA SumSame ==
  ASSUME NEW f, NEW g, NEW S, IsFiniteSet(S), \A x \in S : f[x] \in Int /\ g[x] = f[x]
  PROVE  SumFunctionOnSet(g, S) = SumFunctionOnSet(f, S)
<1>1. PICK h : Additive(f, S, h)
  BY AdditiveExists
<1>2. Additive(g, S, h)
  BY <1>1 DEF Additive
<1>q. QED
  BY <1>1, <1>2, SumIsAdditive

\* One summand changes.
LEMMA SumChange ==
  ASSUME NEW f, NEW g, NEW S, IsFiniteSet(S), NEW x \in S,
         \A y \in S : f[y] \in Int /\ g[y] \in Int,
         \A y \in S \ {x} : g[y] = f[y]
  PROVE  SumFunctionOnSet(g, S) - g[x] = SumFunctionOnSet(f, S) - f[x]
<1> DEFINE R == S \ {x}
<1>0. (\A y \in S : f[y] \in Int) /\ (\A y \in S : g[y] \in Int)
  OBVIOUS
<1>1. IsFiniteSet(R)
  BY FS_Subset
<1>2. SumFunctionOnSet(g, R) = SumFunctionOnSet(f, R)
  BY <1>1, SumSame
<1>3. SumFunctionOnSet(g, S) = g[x] + SumFunctionOnSet(g, R) /\ SumFunctionOnSet(g, R) \in Int
  BY <1>0, SumAdd
<1>4. SumFunctionOnSet(f, S) = f[x] + SumFunctionOnSet(f, R) /\ SumFunctionOnSet(f, R) \in Int
  BY <1>0, SumAdd
<1>5. f[x] \in Int /\ g[x] \in Int
  OBVIOUS
<1> HIDE DEF R
<1>q. QED
  BY <1>2, <1>3, <1>4, <1>5

\* The sum over two sets that share nothing.
LEMMA SumUnion ==
  ASSUME NEW f, NEW A, NEW B, IsFiniteSet(A), IsFiniteSet(B), A \cap B = {},
         \A x \in A \cup B : f[x] \in Int
  PROVE  SumFunctionOnSet(f, A \cup B) = SumFunctionOnSet(f, A) + SumFunctionOnSet(f, B)
<1> DEFINE T == {s \in SUBSET B : SumFunctionOnSet(f, A \cup s)
                                 = SumFunctionOnSet(f, A) + SumFunctionOnSet(f, s)}
<1>0. SumFunctionOnSet(f, A) \in Int
  BY SumType
<1>1. {} \in T
  <2>1. A \cup {} = A
    OBVIOUS
  <2>q. QED
    BY <1>0, <2>1, SumEmpty
<1>2. ASSUME NEW s \in T, NEW x \in B \ s PROVE s \cup {x} \in T
  <2>0. IsFiniteSet(A \cup B)
    BY FS_Union
  <2>1. /\ IsFiniteSet(s \cup {x}) /\ IsFiniteSet(A \cup (s \cup {x}))
        /\ IsFiniteSet(s) /\ s \subseteq B
    <3>1. s \cup {x} \in SUBSET (A \cup B) /\ A \cup (s \cup {x}) \in SUBSET (A \cup B) /\ s \in SUBSET B
      OBVIOUS
    <3>q. QED
      BY <2>0, <3>1, FS_Subset
  <2>2. /\ (s \cup {x}) \ {x} = s /\ (A \cup (s \cup {x})) \ {x} = A \cup s
        /\ x \in s \cup {x} /\ x \in A \cup (s \cup {x})
    OBVIOUS
  <2>3. SumFunctionOnSet(f, s \cup {x}) = f[x] + SumFunctionOnSet(f, s)
    <3>1. SumFunctionOnSet(f, s \cup {x}) = f[x] + SumFunctionOnSet(f, (s \cup {x}) \ {x})
      BY <2>1, <2>2, SumAdd
    <3>q. QED
      BY <2>2, <3>1
  <2>4. SumFunctionOnSet(f, A \cup (s \cup {x})) = f[x] + SumFunctionOnSet(f, A \cup s)
    <3>1. SumFunctionOnSet(f, A \cup (s \cup {x})) = f[x] + SumFunctionOnSet(f, (A \cup (s \cup {x})) \ {x})
      BY <2>1, <2>2, SumAdd
    <3>q. QED
      BY <2>2, <3>1
  <2>5. SumFunctionOnSet(f, s) \in Int /\ f[x] \in Int
    BY <2>1, SumType
  <2>6. SumFunctionOnSet(f, A \cup s) = SumFunctionOnSet(f, A) + SumFunctionOnSet(f, s)
    OBVIOUS
  <2>7. s \cup {x} \subseteq B
    BY <2>1
  <2> HIDE DEF T
  <2>8. SumFunctionOnSet(f, A \cup (s \cup {x})) = SumFunctionOnSet(f, A) + SumFunctionOnSet(f, s \cup {x})
    BY <1>0, <2>3, <2>4, <2>5, <2>6
  <2>q. QED
    BY <2>7, <2>8 DEF T
<1>3. T \in SUBSET (SUBSET B)
  OBVIOUS
<1> HIDE DEF T
<1>4. B \in T
  BY <1>1, <1>2, <1>3, InductionByAddition
<1>q. QED
  BY <1>4 DEF T

\* The sum of n summands that are all c.
LEMMA SumOfConstant ==
  ASSUME NEW f, NEW S, IsFiniteSet(S), NEW c \in Int, \A x \in S : f[x] = c
  PROVE  SumFunctionOnSet(f, S) = Cardinality(S) * c
<1> DEFINE T == {s \in SUBSET S : SumFunctionOnSet(f, s) = Cardinality(s) * c}
<1>1. {} \in T
  BY SumEmpty, FS_EmptySet
<1>2. ASSUME NEW s \in T, NEW x \in S \ s PROVE s \cup {x} \in T
  <2>1. /\ IsFiniteSet(s \cup {x}) /\ IsFiniteSet(s) /\ x \in s \cup {x}
        /\ (s \cup {x}) \ {x} = s
    BY FS_Subset
  <2>2. \A y \in s \cup {x} : f[y] \in Int
    OBVIOUS
  <2>3. SumFunctionOnSet(f, s \cup {x}) = f[x] + SumFunctionOnSet(f, (s \cup {x}) \ {x})
    BY <2>1, <2>2, SumAdd
  <2>4. Cardinality(s \cup {x}) = Cardinality(s) + 1
    BY <2>1, FS_AddElement
  <2>5. Cardinality(s) \in Nat
    BY <2>1, FS_CardinalityType
  <2>6. (Cardinality(s) + 1) * c = c + Cardinality(s) * c
    BY <2>5
  <2>7. SumFunctionOnSet(f, s) = Cardinality(s) * c /\ f[x] = c
    OBVIOUS
  <2>q. QED
    BY <2>1, <2>3, <2>4, <2>6, <2>7
<1>3. T \in SUBSET (SUBSET S)
  OBVIOUS
<1> HIDE DEF T
<1>4. S \in T
  BY <1>1, <1>2, <1>3, InductionByAddition
<1>q. QED
  BY <1>4 DEF T
=============================================================================
