-------------------------------- MODULE Folding --------------------------------
(***************************************************************************)
(* Facts about folds over finite sets, which are recursive functions on    *)
(* the subsets of the set.  The step of a fold is a function here, so that *)
(* the facts can be cited for every fold; induction is over sets, for the  *)
(* same reason.                                                            *)
(***************************************************************************)
EXTENDS SequencesExt, FiniteSetTheorems, TLAPS

\* Induction over the numbers in a set.
LEMMA NumbersInduction ==
  ASSUME NEW N, 0 \in N, \A n \in Nat : n \in N => n + 1 \in N
  PROVE  Nat \subseteq N
<1> SUFFICES ASSUME Nat \ N # {} PROVE FALSE
  OBVIOUS
<1>1. PICK n \in Nat \ N : \A k \in Nat \ N : ~(<<k, n>> \in OpToRel(<, Nat))
  BY NatLessThanWellFounded, WFMin
<1>2. \A k \in Nat \ N : ~(k < n)
  BY <1>1 DEF OpToRel
<1>3. n # 0 /\ n - 1 \in Nat
  OBVIOUS
<1>4. n - 1 \in N
  BY <1>2, <1>3
<1>5. n - 1 + 1 \in N
  BY <1>3, <1>4
<1>6. QED
  BY <1>5

\* Induction over the subsets of a finite set that belong to F.
LEMMA SubsetsInduction ==
  ASSUME NEW S, IsFiniteSet(S), NEW F,
         \A T \in SUBSET S : (\A x \in T : T \ {x} \in F) => T \in F
  PROVE  SUBSET S \subseteq F
<1> DEFINE N == {n \in Nat : \A T \in SUBSET S : Cardinality(T) = n => T \in F}
<1>1. \A T \in SUBSET S : IsFiniteSet(T) /\ Cardinality(T) \in Nat
  BY FS_Subset, FS_CardinalityType
<1>2. 0 \in N
  <2>1. ASSUME NEW T \in SUBSET S, Cardinality(T) = 0 PROVE T \in F
    <3>1. T = {}
      BY <1>1, <2>1, FS_EmptySet
    <3>2. QED
      BY <3>1
  <2>2. QED
    BY <2>1
<1>3. \A n \in Nat : n \in N => n + 1 \in N
  <2> SUFFICES ASSUME NEW n \in Nat, n \in N, NEW T \in SUBSET S, Cardinality(T) = n + 1
               PROVE  T \in F
    OBVIOUS
  <2>1. ASSUME NEW x \in T PROVE T \ {x} \in F
    <3>1. Cardinality(T \ {x}) = n
      BY <1>1, FS_RemoveElement
    <3>2. QED
      BY <3>1
  <2>2. QED
    BY <2>1
<1>4. Nat \subseteq N
  <2> HIDE DEF N
  <2>1. QED
    BY <1>2, <1>3, NumbersInduction
<1>5. QED
  BY <1>1, <1>4

-----------------------------------------------------------------------------
(* The recursive function behind a fold.                                   *)

\* c picks an element of each set, h combines it with the fold of the rest.
IsFold(it, S, base, h, c) ==
  it = [s \in SUBSET S |-> IF s = {} THEN base ELSE h[c[s]][it[s \ {c[s]}]]]

Picks(c, S) == \A s \in SUBSET S : s # {} => c[s] \in s

\* There is such a function, and its values are of the type of the step.
LEMMA FoldExists ==
  ASSUME NEW S, IsFiniteSet(S), NEW c, Picks(c, S),
         NEW V, NEW base \in V, NEW h \in [S -> [V -> V]]
  PROVE  \E it \in [SUBSET S -> V] : IsFold(it, S, base, h, c)
<1> DEFINE Upto(n) == {s \in SUBSET S : Cardinality(s) <= n}
           Step(it, s) == IF s = {} THEN base ELSE h[c[s]][it[s \ {c[s]}]]
           Good(it, n) == it \in [Upto(n) -> V] /\ \A s \in Upto(n) : it[s] = Step(it, s)
           N == {n \in Nat : \E it : Good(it, n)}
<1>1. \A s \in SUBSET S : IsFiniteSet(s) /\ Cardinality(s) \in Nat /\ (Cardinality(s) = 0 <=> s = {})
  BY FS_Subset, FS_CardinalityType, FS_EmptySet
<1>2. ASSUME NEW n \in Nat, NEW s \in Upto(n + 1), s # {}
      PROVE  c[s] \in S /\ s \ {c[s]} \in Upto(n)
  <2>1. c[s] \in s /\ s \in SUBSET S
    BY <1>2 DEF Picks
  <2>2. Cardinality(s \ {c[s]}) = Cardinality(s) - 1
    BY <1>1, <2>1, FS_RemoveElement
  <2>3. QED
    BY <1>1, <2>1, <2>2
<1>3. 0 \in N
  <2>1. Upto(0) = {{}}
    BY <1>1
  <2>2. Good([s \in {{}} |-> base], 0)
    BY <2>1
  <2>3. QED
    BY <2>2
<1>4. \A n \in Nat : n \in N => n + 1 \in N
  <2> SUFFICES ASSUME NEW n \in Nat, \E it : Good(it, n) PROVE \E it : Good(it, n + 1)
    <3> HIDE DEF Good
    <3>1. QED
      OBVIOUS
  <2>1. PICK f : Good(f, n)
    OBVIOUS
  <2> DEFINE g == [s \in Upto(n + 1) |-> Step(f, s)]
  <2>2. Upto(n) \subseteq Upto(n + 1)
    BY <1>1
  <2>3. \A s \in Upto(n) : g[s] = f[s]
    BY <2>1, <2>2
  <2>4. ASSUME NEW s \in Upto(n + 1) PROVE g[s] \in V /\ g[s] = Step(g, s)
    <3>1. CASE s = {}
      BY <3>1
    <3>2. CASE s # {}
      <4>1. c[s] \in S /\ s \ {c[s]} \in Upto(n)
        BY <1>2, <3>2
      <4>2. f[s \ {c[s]}] \in V /\ g[s \ {c[s]}] = f[s \ {c[s]}]
        BY <2>1, <2>3, <4>1
      <4>3. g[s] = h[c[s]][f[s \ {c[s]}]]
        BY <3>2
      <4>4. h[c[s]][f[s \ {c[s]}]] \in V
        <5>1. \A x \in S : \A v \in V : h[x][v] \in V
          OBVIOUS
        <5> HIDE DEF Upto, Step, Good, g
        <5>2. QED
          BY <4>1, <4>2, <5>1
      <4>5. QED
        BY <3>2, <4>2, <4>3, <4>4
    <3>3. QED
      BY <3>1, <3>2
  <2>5. Good(g, n + 1)
    <3>1. g \in [Upto(n + 1) -> V]
      BY <2>4
    <3> HIDE DEF g
    <3>2. QED
      BY <2>4, <3>1
  <2>6. QED
    BY <2>5
<1>5. Nat \subseteq N
  <2> HIDE DEF N
  <2>1. QED
    BY <1>3, <1>4, NumbersInduction
<1>6. Cardinality(S) \in Nat /\ Upto(Cardinality(S)) = SUBSET S
  BY <1>1, FS_Subset
<1>7. PICK it : Good(it, Cardinality(S))
  BY <1>5, <1>6
<1>8. it \in [SUBSET S -> V] /\ \A s \in SUBSET S : it[s] = Step(it, s)
  BY <1>6, <1>7
<1>9. IsFold(it, S, base, h, c)
  BY <1>8 DEF IsFold
<1>10. QED
  BY <1>8, <1>9

-----------------------------------------------------------------------------
(* Sums of functions.                                                      *)

Pick(s) == CHOOSE x \in s : TRUE

\* The recursive function behind SumFunctionOnSet.
IsSum(it, f, S) ==
  it = [s \in SUBSET S |-> IF s = {} THEN 0 ELSE f[Pick(s)] + it[s \ {Pick(s)}]]

LEMMA SumIsChosen ==
  ASSUME NEW f, NEW S
  PROVE  SumFunctionOnSet(f, S) = (CHOOSE it : IsSum(it, f, S))[S]
BY Zenon DEF SumFunctionOnSet, FoldFunctionOnSet, MapThenFoldSet, IsSum, Pick

\* One function has the sums of all subsets.
LEMMA SumsExist ==
  ASSUME NEW S, IsFiniteSet(S), NEW f, \A x \in S : f[x] \in Int
  PROVE  \E it \in [SUBSET S -> Int] : IsSum(it, f, S)
<1> DEFINE c == [s \in SUBSET S |-> Pick(s)]
           h == [x \in S |-> [v \in Int |-> f[x] + v]]
<1>1. \A s \in SUBSET S : s # {} => Pick(s) \in s
  BY Zenon DEF Pick
<1>2. Picks(c, S)
  BY <1>1 DEF Picks
<1>3. h \in [S -> [Int -> Int]]
  OBVIOUS
<1>4. PICK it \in [SUBSET S -> Int] : IsFold(it, S, 0, h, c)
  <2> HIDE DEF h, c
  <2>1. 0 \in Int
    OBVIOUS
  <2>2. QED
    BY <1>2, <1>3, <2>1, FoldExists, Zenon
<1>5. \A s \in SUBSET S : it[s] = IF s = {} THEN 0 ELSE h[c[s]][it[s \ {c[s]}]]
  BY <1>4 DEF IsFold
<1>6. \A s \in SUBSET S : it[s] = IF s = {} THEN 0 ELSE f[Pick(s)] + it[s \ {Pick(s)}]
  <2> SUFFICES ASSUME NEW s \in SUBSET S, s # {}
               PROVE  it[s] = f[Pick(s)] + it[s \ {Pick(s)}]
    BY <1>5
  <2>1. c[s] = Pick(s) /\ Pick(s) \in S /\ it[s \ {Pick(s)}] \in Int
    BY <1>1
  <2>2. QED
    BY <1>5, <2>1
<1>7. IsSum(it, f, S)
  BY <1>6 DEF IsSum
<1>8. QED
  BY <1>7

\* What holds of a function that is a sum.
LEMMA SumUnfolds ==
  ASSUME NEW S, NEW f, NEW it, IsSum(it, f, S)
  PROVE  \A s \in SUBSET S :
           it[s] = IF s = {} THEN 0 ELSE f[Pick(s)] + it[s \ {Pick(s)}]
<1> TAKE s \in SUBSET S
<1> DEFINE g == [t \in SUBSET S |-> IF t = {} THEN 0 ELSE f[Pick(t)] + it[t \ {Pick(t)}]]
<1>1. it = g
  BY DEF IsSum
<1>2. g[s] = IF s = {} THEN 0 ELSE f[Pick(s)] + it[s \ {Pick(s)}]
  OBVIOUS
<1>3. QED
  BY <1>1, <1>2, Zenon

\* Functions that agree on a set have the same sum over it.
LEMMA SumsAgree ==
  ASSUME NEW S, IsFiniteSet(S), NEW f, NEW g, \A x \in S : f[x] = g[x],
         NEW R, NEW T, S \subseteq R, S \subseteq T,
         NEW it, IsSum(it, f, R), NEW jt, IsSum(jt, g, T)
  PROVE  it[S] = jt[S]
<1> DEFINE F == {s \in SUBSET S : it[s] = jt[s]}
<1>1. ASSUME NEW s \in SUBSET S, \A x \in s : s \ {x} \in F PROVE s \in F
  <2>1. /\ it[s] = IF s = {} THEN 0 ELSE f[Pick(s)] + it[s \ {Pick(s)}]
        /\ jt[s] = IF s = {} THEN 0 ELSE g[Pick(s)] + jt[s \ {Pick(s)}]
    <3>1. s \in SUBSET R /\ s \in SUBSET T
      OBVIOUS
    <3>2. \A t \in SUBSET R : it[t] = IF t = {} THEN 0 ELSE f[Pick(t)] + it[t \ {Pick(t)}]
      BY SumUnfolds
    <3>3. \A t \in SUBSET T : jt[t] = IF t = {} THEN 0 ELSE g[Pick(t)] + jt[t \ {Pick(t)}]
      BY SumUnfolds
    <3>4. QED
      BY <3>1, <3>2, <3>3, Zenon
  <2>2. CASE s = {}
    BY <2>1, <2>2
  <2>3. CASE s # {}
    <3>1. Pick(s) \in s
      BY <2>3, Zenon DEF Pick
    <3>2. f[Pick(s)] = g[Pick(s)] /\ it[s \ {Pick(s)}] = jt[s \ {Pick(s)}]
      BY <1>1, <3>1
    <3>3. QED
      BY <2>1, <2>3, <3>2
  <2>4. QED
    BY <2>2, <2>3
<1>2. SUBSET S \subseteq F
  <2> HIDE DEF F
  <2>1. QED
    BY <1>1, SubsetsInduction
<1>3. QED
  BY <1>2

\* The function with the sums of all subsets is SumFunctionOnSet.
LEMMA SumsAre ==
  ASSUME NEW S, IsFiniteSet(S), NEW f, \A x \in S : f[x] \in Int,
         NEW it, IsSum(it, f, S), NEW T \in SUBSET S
  PROVE  it[T] = SumFunctionOnSet(f, T)
<1> DEFINE jt == CHOOSE jt : IsSum(jt, f, T)
<1>1. IsFiniteSet(T) /\ \A x \in T : f[x] \in Int
  BY FS_Subset
<1>2. \E kt : IsSum(kt, f, T)
  BY <1>1, SumsExist
<1>3. IsSum(jt, f, T)
  BY <1>2, Zenon
<1> HIDE DEF jt
<1>4. it[T] = jt[T]
  BY <1>1, <1>3, SumsAgree
<1>5. QED
  BY <1>4, SumIsChosen, Zenon DEF jt

\* A sum is zero over nothing, and an integer.
LEMMA SumEmpty == ASSUME NEW f PROVE SumFunctionOnSet(f, {}) = 0
<1>1. IsFiniteSet({}) /\ {} \in SUBSET {}
  BY FS_EmptySet
<1>2. PICK it : IsSum(it, f, {})
  BY <1>1, SumsExist
<1>3. it[{}] = 0
  BY <1>1, <1>2, SumUnfolds
<1>4. it[{}] = SumFunctionOnSet(f, {})
  BY <1>1, <1>2, SumsAre
<1>5. QED
  BY <1>3, <1>4

LEMMA SumType ==
  ASSUME NEW S, IsFiniteSet(S), NEW f, \A x \in S : f[x] \in Int
  PROVE  SumFunctionOnSet(f, S) \in Int
<1>1. PICK it \in [SUBSET S -> Int] : IsSum(it, f, S)
  BY SumsExist
<1>2. it[S] = SumFunctionOnSet(f, S)
  BY <1>1, SumsAre
<1>3. it[S] \in Int
  OBVIOUS
<1>4. QED
  BY <1>2, <1>3

\* An element's value can be taken out of a sum, whichever element it is.
LEMMA SumRemove ==
  ASSUME NEW S, IsFiniteSet(S), NEW f, \A x \in S : f[x] \in Int, NEW a \in S
  PROVE  SumFunctionOnSet(f, S) = f[a] + SumFunctionOnSet(f, S \ {a})
<1> DEFINE F == {T \in SUBSET S : \A x \in T : SumFunctionOnSet(f, T)
                                      = f[x] + SumFunctionOnSet(f, T \ {x})}
<1>0. ASSUME NEW G, \A T \in SUBSET S : (\A x \in T : T \ {x} \in G) => T \in G
      PROVE  SUBSET S \subseteq G
  BY <1>0, SubsetsInduction
<1>1. PICK it \in [SUBSET S -> Int] : IsSum(it, f, S)
  BY SumsExist
<1>2. \A T \in SUBSET S : it[T] = SumFunctionOnSet(f, T)
  BY <1>1, SumsAre
<1>3. \A T \in SUBSET S :
        it[T] = IF T = {} THEN 0 ELSE f[Pick(T)] + it[T \ {Pick(T)}]
  BY <1>1, SumUnfolds
<1>4. ASSUME NEW T \in SUBSET S, \A x \in T : T \ {x} \in F PROVE T \in F
  <2> SUFFICES ASSUME NEW x \in T PROVE it[T] = f[x] + it[T \ {x}]
    <3>1. \A x \in T : T \ {x} \in SUBSET S
      OBVIOUS
    <3>2. QED
      BY <1>2, <3>1
  <2> DEFINE p == Pick(T)
  <2>1. p \in T
    BY Zenon DEF Pick
  <2>2. it[T] = f[p] + it[T \ {p}]
    BY <1>3, <2>1
  <2>3. CASE p = x
    BY <2>2, <2>3
  <2>4. CASE p # x
    <3>1. T \ {p} \in F /\ T \ {x} \in F
      BY <1>4, <2>1
    <3>2. x \in T \ {p} /\ p \in T \ {x}
      BY <2>1, <2>4
    <3>3. (T \ {p}) \ {x} = (T \ {x}) \ {p}
      OBVIOUS
    <3>4. SumFunctionOnSet(f, T \ {p}) = f[x] + SumFunctionOnSet(f, (T \ {p}) \ {x})
      BY <3>1, <3>2
    <3>5. SumFunctionOnSet(f, T \ {x}) = f[p] + SumFunctionOnSet(f, (T \ {p}) \ {x})
      BY <3>1, <3>2, <3>3
    <3>6. /\ it[T \ {p}] = SumFunctionOnSet(f, T \ {p})
          /\ it[T \ {x}] = SumFunctionOnSet(f, T \ {x})
          /\ it[(T \ {p}) \ {x}] = SumFunctionOnSet(f, (T \ {p}) \ {x})
          /\ it[(T \ {p}) \ {x}] \in Int
      BY <1>2
    <3>7. f[p] \in Int /\ f[x] \in Int
      BY <2>1
    <3> HIDE DEF p, F
    <3>8. QED
      BY <2>2, <3>4, <3>5, <3>6, <3>7
  <2>5. QED
    BY <2>3, <2>4
<1>5. SUBSET S \subseteq F
  <2> HIDE DEF F
  <2>1. \A T \in SUBSET S : (\A x \in T : T \ {x} \in F) => T \in F
    BY <1>4
  <2>2. QED
    BY <2>1, <1>0, Zenon
<1>6. S \in F
  BY <1>5
<1>7. QED
  BY <1>6

\* Functions that agree have equal sums.
LEMMA SumEqual ==
  ASSUME NEW S, IsFiniteSet(S), NEW f, NEW g, \A x \in S : f[x] \in Int /\ f[x] = g[x]
  PROVE  SumFunctionOnSet(f, S) = SumFunctionOnSet(g, S)
<1>1. \A x \in S : f[x] \in Int
  OBVIOUS
<1>2. \A x \in S : g[x] \in Int
  OBVIOUS
<1>3. PICK it : IsSum(it, f, S)
  BY <1>1, SumsExist
<1>4. PICK jt : IsSum(jt, g, S)
  BY <1>2, SumsExist
<1>5. it[S] = SumFunctionOnSet(f, S) /\ jt[S] = SumFunctionOnSet(g, S)
  BY <1>1, <1>2, <1>3, <1>4, SumsAre
<1>6. it[S] = jt[S]
  BY <1>3, <1>4, SumsAgree
<1>7. QED
  BY <1>5, <1>6

\* f is a function from a finite set of keys to integers.
Numbers(f, S) == IsFiniteSet(S) /\ DOMAIN f = S /\ \A x \in S : f[x] \in Int

\* f has the values of g but at the key a.
OnlyAt(f, g, S, a) == \A x \in S \ {a} : f[x] = g[x]

LEMMA SumFunctionType ==
  ASSUME NEW S, NEW f, Numbers(f, S)
  PROVE  SumFunction(f) = SumFunctionOnSet(f, S) /\ SumFunction(f) \in Int
<1>1. SumFunction(f) = SumFunctionOnSet(f, S)
  BY DEF SumFunction, Numbers
<1>2. SumFunctionOnSet(f, S) \in Int
  BY SumType DEF Numbers
<1>3. QED
  BY <1>1, <1>2

\* Adding a key adds its value.
LEMMA SumFunctionAdd ==
  ASSUME NEW S, NEW f, Numbers(f, S), NEW a \in S, NEW g, Numbers(g, S \ {a}), OnlyAt(f, g, S, a)
  PROVE  SumFunction(f) = f[a] + SumFunction(g)
<1>1. SumFunction(f) = SumFunctionOnSet(f, S) /\ SumFunction(g) = SumFunctionOnSet(g, S \ {a})
  BY SumFunctionType
<1>2. SumFunctionOnSet(f, S) = f[a] + SumFunctionOnSet(f, S \ {a})
  BY SumRemove DEF Numbers
<1>3. \A x \in S \ {a} : f[x] \in Int /\ f[x] = g[x]
  BY DEF Numbers, OnlyAt
<1>4. SumFunctionOnSet(f, S \ {a}) = SumFunctionOnSet(g, S \ {a})
  <2>1. IsFiniteSet(S \ {a})
    BY DEF Numbers
  <2>2. QED
    BY <1>3, <2>1, SumEqual
<1>5. QED
  BY <1>1, <1>2, <1>4

\* Adding a number to the value of a key, new or not, adds it to the sum.
LEMMA SumFunctionPlus ==
  ASSUME NEW S, NEW g, Numbers(g, S), NEW a, NEW n \in Int,
         NEW f, DOMAIN f = S \cup {a}, OnlyAt(f, g, S \cup {a}, a),
         f[a] = (IF a \in S THEN g[a] ELSE 0) + n
  PROVE  SumFunction(f) = SumFunction(g) + n
<1> DEFINE T == S \cup {a}
           h == [x \in S \ {a} |-> g[x]]
<1>1. IsFiniteSet(T) /\ IsFiniteSet(S \ {a}) /\ a \in T /\ T \ {a} = S \ {a}
  BY FS_AddElement, FS_Subset DEF Numbers
<1>2. Numbers(f, T)
  BY <1>1 DEF Numbers, OnlyAt
<1>3. Numbers(h, S \ {a})
  BY <1>1 DEF Numbers
<1>4. OnlyAt(f, h, T, a) /\ OnlyAt(g, h, S, a)
  BY DEF OnlyAt
<1> HIDE DEF T, h
<1>5. SumFunction(h) \in Int
  BY <1>3, SumFunctionType
<1>6. SumFunction(f) = f[a] + SumFunction(h)
  BY <1>1, <1>2, <1>3, <1>4, SumFunctionAdd
<1>7. CASE a \in S
  <2>1. SumFunction(g) = g[a] + SumFunction(h)
    BY <1>3, <1>4, <1>7, SumFunctionAdd
  <2>2. g[a] \in Int
    BY <1>7 DEF Numbers
  <2>3. QED
    BY <1>5, <1>6, <1>7, <2>1, <2>2
<1>8. CASE a \notin S
  <2>1. S \ {a} = S
    BY <1>8
  <2>2. \A x \in S : h[x] = g[x] /\ h[x] \in Int
    BY <2>1 DEF h, Numbers
  <2>3. SumFunctionOnSet(h, S) = SumFunctionOnSet(g, S)
    BY <2>2, SumEqual DEF Numbers
  <2>4. SumFunction(h) = SumFunction(g)
    BY <1>3, <2>1, <2>3, SumFunctionType
  <2>5. QED
    BY <1>5, <1>6, <1>8, <2>4
<1>9. QED
  BY <1>7, <1>8

-----------------------------------------------------------------------------
(* The greatest number of a finite set.                                    *)

\* A function has a greatest value on a finite set.
LEMMA HighestExists ==
  ASSUME NEW S, IsFiniteSet(S), S # {}, NEW f, \A x \in S : f[x] \in Int
  PROVE  \E x \in S : \A y \in S : f[x] >= f[y]
<1> DEFINE F == {T \in SUBSET S : T # {} => \E x \in T : \A y \in T : f[x] >= f[y]}
<1>1. ASSUME NEW T \in SUBSET S, \A x \in T : T \ {x} \in F PROVE T \in F
  <2> SUFFICES ASSUME NEW a \in T PROVE \E x \in T : \A y \in T : f[x] >= f[y]
    OBVIOUS
  <2>1. CASE T \ {a} = {}
    BY <2>1
  <2>2. CASE T \ {a} # {}
    <3>1. PICK x \in T \ {a} : \A y \in T \ {a} : f[x] >= f[y]
      BY <1>1, <2>2
    <3>2. CASE f[x] >= f[a]
      BY <3>1, <3>2
    <3>3. CASE ~(f[x] >= f[a])
      BY <3>1, <3>3
    <3>4. QED
      BY <3>2, <3>3
  <2>3. QED
    BY <2>1, <2>2
<1>2. SUBSET S \subseteq F
  <2> HIDE DEF F
  <2>1. QED
    BY <1>1, SubsetsInduction
<1>3. QED
  BY <1>2

LEMMA MaxIsGreatest ==
  ASSUME NEW S, IsFiniteSet(S), S \subseteq Int, S # {}
  PROVE  Max(S) \in S /\ \A y \in S : Max(S) >= y
<1> DEFINE f == [x \in S |-> x]
<1>1. \A x \in S : f[x] \in Int
  OBVIOUS
<1>2. \E x \in S : \A y \in S : f[x] >= f[y]
  <2> HIDE DEF f
  <2>1. QED
    BY <1>1, HighestExists
<1>3. \E x \in S : \A y \in S : x >= y
  BY <1>2
<1>4. QED
  BY <1>3, Zenon DEF Max

=============================================================================
