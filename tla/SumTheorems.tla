---------------------------- MODULE SumTheorems -----------------------------
(***************************************************************************)
(* Sums over finite sets, the SumFunctionOnSet of the community modules,   *)
(* for sums of any length.  Its definition is a recursive function; what   *)
(* it computes is found by looking at a smallest set for which the claim   *)
(* would fail.                                                             *)
(***************************************************************************)
EXTENDS Integers, FiniteSets, Functions, FiniteSetTheorems, TLAPS

(* The element a sum takes first.                                          *)
Pick(s) == CHOOSE x \in s : TRUE

(* g is the table of the sums of f over all subsets of S.                  *)
IsTable(f, S, g) ==
  g = [s \in SUBSET S |-> IF s = {} THEN 0 ELSE f[Pick(s)] + g[s \ {Pick(s)}]]

(* A sum is the last entry of such a table.                                *)
LEMMA SumIsTable ==
  ASSUME NEW f, NEW S
  PROVE  SumFunctionOnSet(f, S) = (CHOOSE g : IsTable(f, S, g))[S]
BY DEF SumFunctionOnSet, FoldFunctionOnSet, MapThenFoldSet, IsTable, Pick

(* A non-empty set has an element to take.                                 *)
LEMMA PickIsIn ==
  ASSUME NEW s, s # {}
  PROVE  Pick(s) \in s
BY DEF Pick

(* Among subsets of a finite set some has none of the others below it.     *)
LEMMA SmallestSet ==
  ASSUME NEW S, IsFiniteSet(S), NEW B \in SUBSET SUBSET S, B # {}
  PROVE  \E T \in B : \A U \in B : U \subseteq T => U = T
<1>1. B \subseteq FiniteSubsetsOf(S)
  BY FS_Subset DEF FiniteSubsetsOf
<1>2. \E T \in B : \A U \in B : ~ (<<U, T>> \in StrictSubsetOrdering(S))
  BY <1>1, FS_StrictSubsetOrderingWellFounded, WFMin, Zenon
<1>3. \A T, U \in B : U \subseteq T /\ U # T => <<U, T>> \in StrictSubsetOrdering(S)
  BY DEF StrictSubsetOrdering
<1> QED
  BY <1>2, <1>3

(* Two tables agree where both are defined.                                *)
LEMMA TablesAgree ==
  ASSUME NEW f, NEW S, NEW T, NEW g, NEW h, IsTable(f, S, g), IsTable(f, T, h),
         NEW U, U \subseteq S, U \subseteq T, IsFiniteSet(U)
  PROVE  g[U] = h[U]
<1> DEFINE B == {V \in SUBSET U : g[V] # h[V]}
<1> SUFFICES ASSUME B # {} PROVE FALSE
  OBVIOUS
<1>1. B \in SUBSET SUBSET U
  OBVIOUS
<1>2. PICK V \in B : \A W \in B : W \subseteq V => W = V
  <2> HIDE DEF B
  <2> QED
    BY <1>1, SmallestSet
<1>3. V \subseteq U /\ g[V] # h[V] /\ V \in SUBSET S /\ V \in SUBSET T
  OBVIOUS
<1>4. g[V] = IF V = {} THEN 0 ELSE f[Pick(V)] + g[V \ {Pick(V)}]
  BY <1>3 DEF IsTable
<1>5. h[V] = IF V = {} THEN 0 ELSE f[Pick(V)] + h[V \ {Pick(V)}]
  BY <1>3 DEF IsTable
<1>6. V # {}
  BY <1>3, <1>4, <1>5
<1>7. V \ {Pick(V)} # V /\ V \ {Pick(V)} \subseteq V
  BY <1>6, PickIsIn
<1>8. g[V \ {Pick(V)}] = h[V \ {Pick(V)}]
  BY <1>2, <1>3, <1>7
<1> QED
  BY <1>3, <1>4, <1>5, <1>8

(* There is a table for every finite set.                                  *)
LEMMA TableExists ==
  ASSUME NEW f, NEW S, IsFiniteSet(S)
  PROVE  \E g : IsTable(f, S, g)
<1> DEFINE B == {T \in SUBSET S : ~ \E g : IsTable(f, T, g)}
<1> SUFFICES ASSUME B # {} PROVE FALSE
  OBVIOUS
<1>1. B \in SUBSET SUBSET S
  OBVIOUS
<1>2. PICK T \in B : \A U \in B : U \subseteq T => U = T
  <2> HIDE DEF B
  <2> QED
    BY <1>1, SmallestSet
<1> DEFINE G(U) == CHOOSE g : IsTable(f, U, g)
           h == [s \in SUBSET T |->
                   IF s = {} THEN 0 ELSE f[Pick(s)] + G(s \ {Pick(s)})[s \ {Pick(s)}]]
<1>3. \A U \in SUBSET T : U # T => IsTable(f, U, G(U)) /\ IsFiniteSet(U)
  BY <1>2, FS_Subset
<1>4. \A u \in SUBSET T : u # T => h[u] = G(u)[u]
  <2> SUFFICES ASSUME NEW u \in SUBSET T, u # T PROVE h[u] = G(u)[u]
    OBVIOUS
  <2>1. IsTable(f, u, G(u))
    BY <1>3
  <2>2. G(u)[u] = IF u = {} THEN 0 ELSE f[Pick(u)] + G(u)[u \ {Pick(u)}]
    <3> HIDE DEF G
    <3> QED
      BY <2>1 DEF IsTable
  <2>3. h[u] = IF u = {} THEN 0 ELSE f[Pick(u)] + G(u \ {Pick(u)})[u \ {Pick(u)}]
    OBVIOUS
  <2>4. CASE u # {}
    <3> DEFINE v == u \ {Pick(u)}
    <3>1. v \in SUBSET T /\ v # T /\ v \subseteq u
      BY <2>4, PickIsIn
    <3>2. IsTable(f, v, G(v)) /\ IsFiniteSet(v)
      BY <1>3, <3>1
    <3>3. G(u)[v] = G(v)[v]
      <4> HIDE DEF G, v
      <4> QED
        BY <2>1, <3>1, <3>2, TablesAgree
    <3> HIDE DEF G, h
    <3> QED
      BY <2>2, <2>3, <2>4, <3>3
  <2> HIDE DEF G, h
  <2> QED
    BY <2>2, <2>3, <2>4
<1>5. IsTable(f, T, h)
  <2>1. \A s \in SUBSET T : s # {} => s \ {Pick(s)} \in SUBSET T /\ s \ {Pick(s)} # T
    BY PickIsIn
  <2>2. \A s \in SUBSET T : s # {} => h[s \ {Pick(s)}] = G(s \ {Pick(s)})[s \ {Pick(s)}]
    <3> HIDE DEF G, h
    <3> QED
      BY <1>4, <2>1
  <2>3. h = [s \in SUBSET T |-> h[s]]
    OBVIOUS
  <2>4. \A s \in SUBSET T : h[s] = IF s = {} THEN 0 ELSE f[Pick(s)] + h[s \ {Pick(s)}]
    <3>1. \A s \in SUBSET T :
            h[s] = IF s = {} THEN 0 ELSE f[Pick(s)] + G(s \ {Pick(s)})[s \ {Pick(s)}]
      OBVIOUS
    <3> HIDE DEF G, h
    <3> QED
      BY <2>2, <3>1
  <2> HIDE DEF h
  <2> QED
    BY <2>3, <2>4 DEF IsTable
<1> QED
  <2> HIDE DEF h
  <2> QED
    BY <1>5

-----------------------------------------------------------------------------
(* The defining equations of a sum.                                        *)
LEMMA SumUnfolds ==
  ASSUME NEW f, NEW S, IsFiniteSet(S)
  PROVE  SumFunctionOnSet(f, S) =
           IF S = {} THEN 0 ELSE f[Pick(S)] + SumFunctionOnSet(f, S \ {Pick(S)})
<1> DEFINE g(T) == CHOOSE h : IsTable(f, T, h)
           T    == S \ {Pick(S)}
<1>1. IsFiniteSet(T)
  BY FS_Subset
<1>2. IsTable(f, S, g(S)) /\ IsTable(f, T, g(T))
  BY <1>1, TableExists
<1>3. SumFunctionOnSet(f, S) = g(S)[S] /\ SumFunctionOnSet(f, T) = g(T)[T]
  BY SumIsTable
<1> HIDE DEF g
<1>4. g(S)[S] = IF S = {} THEN 0 ELSE f[Pick(S)] + g(S)[T]
  BY <1>2 DEF IsTable
<1>5. g(S)[T] = g(T)[T]
  BY <1>1, <1>2, TablesAgree
<1> HIDE DEF T
<1>6. SumFunctionOnSet(f, S) = IF S = {} THEN 0 ELSE f[Pick(S)] + SumFunctionOnSet(f, T)
  BY <1>3, <1>4, <1>5
<1> QED
  BY <1>6 DEF T

(* The sum over no elements.                                               *)
LEMMA SumEmpty ==
  ASSUME NEW f
  PROVE  SumFunctionOnSet(f, {}) = 0
BY SumUnfolds, FS_EmptySet

(* A sum of integers is one.                                               *)
LEMMA SumType ==
  ASSUME NEW f, NEW S, IsFiniteSet(S), \A x \in S : f[x] \in Int
  PROVE  SumFunctionOnSet(f, S) \in Int
<1> DEFINE B == {T \in SUBSET S : SumFunctionOnSet(f, T) \notin Int}
<1> SUFFICES ASSUME B # {} PROVE FALSE
  OBVIOUS
<1>1. B \in SUBSET SUBSET S
  OBVIOUS
<1>2. PICK T \in B : \A U \in B : U \subseteq T => U = T
  <2> HIDE DEF B
  <2> QED
    BY <1>1, SmallestSet
<1>3. T \subseteq S /\ IsFiniteSet(T) /\ SumFunctionOnSet(f, T) \notin Int
  BY FS_Subset
<1>4. T # {}
  BY <1>3, SumEmpty
<1>5. Pick(T) \in T /\ T \ {Pick(T)} \subseteq T /\ T \ {Pick(T)} # T
  BY <1>4, PickIsIn
<1>6. SumFunctionOnSet(f, T \ {Pick(T)}) \in Int /\ f[Pick(T)] \in Int
  BY <1>2, <1>3, <1>5
<1> QED
  BY <1>3, <1>4, <1>6, SumUnfolds

(* Any element may be taken out of a sum.                                  *)
LEMMA SumRemove ==
  ASSUME NEW f, NEW S, IsFiniteSet(S), \A x \in S : f[x] \in Int, NEW y \in S
  PROVE  SumFunctionOnSet(f, S) = f[y] + SumFunctionOnSet(f, S \ {y})
<1> DEFINE Sum(T) == SumFunctionOnSet(f, T)
           B == {T \in SUBSET S : \E z \in T : Sum(T) # f[z] + Sum(T \ {z})}
<1> SUFFICES ASSUME B # {} PROVE FALSE
  OBVIOUS
<1>1. B \in SUBSET SUBSET S
  OBVIOUS
<1>2. PICK T \in B : \A U \in B : U \subseteq T => U = T
  <2> HIDE DEF B
  <2> QED
    BY <1>1, SmallestSet
<1>3. PICK z \in T : Sum(T) # f[z] + Sum(T \ {z})
  OBVIOUS
<1> DEFINE x == Pick(T)
<1>4. \A U \in SUBSET S : IsFiniteSet(U) /\ Sum(U) \in Int
  BY FS_Subset, SumType
<1>5. x \in T /\ T \in SUBSET S /\ T # {}
  BY PickIsIn
<1>6. Sum(T) = f[x] + Sum(T \ {x})
  BY <1>4, <1>5, SumUnfolds
<1>7. z # x
  BY <1>3, <1>6
<1>8. \A U \in SUBSET T : U # T => \A v \in U : Sum(U) = f[v] + Sum(U \ {v})
  BY <1>2, <1>5
<1>9. Sum(T \ {x}) = f[z] + Sum((T \ {x}) \ {z})
  BY <1>5, <1>7, <1>8
<1>10. Sum(T \ {z}) = f[x] + Sum((T \ {z}) \ {x})
  BY <1>5, <1>7, <1>8
<1>11. (T \ {x}) \ {z} = (T \ {z}) \ {x}
  OBVIOUS
<1>12. f[x] \in Int /\ f[z] \in Int /\ Sum((T \ {x}) \ {z}) \in Int
  BY <1>4, <1>5
<1> DEFINE r == Sum((T \ {x}) \ {z})
<1>13. /\ Sum(T) = f[x] + (f[z] + r) /\ Sum(T \ {z}) = f[x] + r
       /\ f[x] \in Int /\ f[z] \in Int /\ r \in Int
  BY <1>6, <1>9, <1>10, <1>11, <1>12
<1> HIDE DEF Sum, x, r
<1>14. f[x] + (f[z] + r) = f[z] + (f[x] + r)
  BY <1>13
<1> QED
  BY <1>3, <1>13, <1>14

(* A new element adds its value.                                           *)
LEMMA SumAdd ==
  ASSUME NEW f, NEW S, IsFiniteSet(S), \A x \in S : f[x] \in Int, NEW y, y \notin S, f[y] \in Int
  PROVE  SumFunctionOnSet(f, S \cup {y}) = SumFunctionOnSet(f, S) + f[y]
<1>1. IsFiniteSet(S \cup {y}) /\ (S \cup {y}) \ {y} = S
  BY FS_AddElement
<1>2. SumFunctionOnSet(f, S \cup {y}) = f[y] + SumFunctionOnSet(f, S)
  BY <1>1, SumRemove
<1> QED
  BY <1>2, SumType

(* Equal values have equal sums.                                           *)
LEMMA SumEqual ==
  ASSUME NEW f, NEW g, NEW S, IsFiniteSet(S), \A x \in S : f[x] = g[x]
  PROVE  SumFunctionOnSet(f, S) = SumFunctionOnSet(g, S)
<1> DEFINE B == {T \in SUBSET S : SumFunctionOnSet(f, T) # SumFunctionOnSet(g, T)}
<1> SUFFICES ASSUME B # {} PROVE FALSE
  OBVIOUS
<1>1. B \in SUBSET SUBSET S
  OBVIOUS
<1>2. PICK T \in B : \A U \in B : U \subseteq T => U = T
  <2> HIDE DEF B
  <2> QED
    BY <1>1, SmallestSet
<1>3. T \subseteq S /\ IsFiniteSet(T) /\ SumFunctionOnSet(f, T) # SumFunctionOnSet(g, T)
  BY FS_Subset
<1>4. T # {}
  BY <1>3, SumEmpty
<1>5. Pick(T) \in T /\ T \ {Pick(T)} \subseteq T /\ T \ {Pick(T)} # T
  BY <1>4, PickIsIn
<1>6. /\ SumFunctionOnSet(f, T \ {Pick(T)}) = SumFunctionOnSet(g, T \ {Pick(T)})
      /\ f[Pick(T)] = g[Pick(T)]
  BY <1>2, <1>3, <1>5
<1> QED
  BY <1>3, <1>4, <1>6, SumUnfolds

(* A change of one value changes the sum by as much.                       *)
LEMMA SumChange ==
  ASSUME NEW f, NEW g, NEW S, IsFiniteSet(S), \A x \in S : f[x] \in Int /\ g[x] \in Int,
         NEW y \in S, \A x \in S \ {y} : f[x] = g[x]
  PROVE  SumFunctionOnSet(g, S) = SumFunctionOnSet(f, S) + (g[y] - f[y])
<1>1. IsFiniteSet(S \ {y})
  BY FS_Subset
<1>2. SumFunctionOnSet(f, S \ {y}) = SumFunctionOnSet(g, S \ {y})
  BY <1>1, SumEqual
<1>3. /\ SumFunctionOnSet(f, S) = f[y] + SumFunctionOnSet(f, S \ {y})
      /\ SumFunctionOnSet(g, S) = g[y] + SumFunctionOnSet(g, S \ {y})
  BY SumRemove
<1>4. SumFunctionOnSet(f, S \ {y}) \in Int
  BY <1>1, SumType
<1> QED
  BY <1>2, <1>3, <1>4

(* A larger summand makes no smaller sum.                                  *)
LEMMA SumMonotone ==
  ASSUME NEW f, NEW g, NEW S, IsFiniteSet(S), \A x \in S : f[x] \in Int /\ g[x] \in Int,
         \A x \in S : f[x] <= g[x]
  PROVE  SumFunctionOnSet(f, S) <= SumFunctionOnSet(g, S)
<1> DEFINE B == {T \in SUBSET S : ~ (SumFunctionOnSet(f, T) <= SumFunctionOnSet(g, T))}
<1> SUFFICES ASSUME B # {} PROVE FALSE
  OBVIOUS
<1>1. B \in SUBSET SUBSET S
  OBVIOUS
<1>2. PICK T \in B : \A U \in B : U \subseteq T => U = T
  <2> HIDE DEF B
  <2> QED
    BY <1>1, SmallestSet
<1>3. /\ T \subseteq S /\ IsFiniteSet(T)
      /\ ~ (SumFunctionOnSet(f, T) <= SumFunctionOnSet(g, T))
  BY FS_Subset
<1>4. T # {}
  BY <1>3, SumEmpty
<1>5. Pick(T) \in T /\ T \ {Pick(T)} \subseteq T /\ T \ {Pick(T)} # T
  BY <1>4, PickIsIn
<1>6. /\ SumFunctionOnSet(f, T \ {Pick(T)}) <= SumFunctionOnSet(g, T \ {Pick(T)})
      /\ f[Pick(T)] <= g[Pick(T)] /\ f[Pick(T)] \in Int /\ g[Pick(T)] \in Int
  BY <1>2, <1>3, <1>5
<1>7. IsFiniteSet(T \ {Pick(T)})
  BY <1>3, FS_Subset
<1>8. /\ SumFunctionOnSet(f, T \ {Pick(T)}) \in Int
      /\ SumFunctionOnSet(g, T \ {Pick(T)}) \in Int
  BY <1>3, <1>7, SumType
<1>9. /\ SumFunctionOnSet(f, T) = f[Pick(T)] + SumFunctionOnSet(f, T \ {Pick(T)})
      /\ SumFunctionOnSet(g, T) = g[Pick(T)] + SumFunctionOnSet(g, T \ {Pick(T)})
  BY <1>3, <1>4, SumUnfolds
<1> QED
  BY <1>3, <1>6, <1>8, <1>9

(* The sum of naturals is one.                                             *)
LEMMA SumNat ==
  ASSUME NEW f, NEW S, IsFiniteSet(S), \A x \in S : f[x] \in Nat
  PROVE  SumFunctionOnSet(f, S) \in Nat
<1> DEFINE B == {T \in SUBSET S : SumFunctionOnSet(f, T) \notin Nat}
<1> SUFFICES ASSUME B # {} PROVE FALSE
  OBVIOUS
<1>1. B \in SUBSET SUBSET S
  OBVIOUS
<1>2. PICK T \in B : \A U \in B : U \subseteq T => U = T
  <2> HIDE DEF B
  <2> QED
    BY <1>1, SmallestSet
<1>3. T \subseteq S /\ IsFiniteSet(T) /\ SumFunctionOnSet(f, T) \notin Nat
  BY FS_Subset
<1>4. T # {}
  BY <1>3, SumEmpty
<1>5. Pick(T) \in T /\ T \ {Pick(T)} \subseteq T /\ T \ {Pick(T)} # T
  BY <1>4, PickIsIn
<1>6. SumFunctionOnSet(f, T \ {Pick(T)}) \in Nat /\ f[Pick(T)] \in Nat
  BY <1>2, <1>3, <1>5
<1> QED
  BY <1>3, <1>4, <1>6, SumUnfolds

(* Values moved to other places by a bijection have the same sum.          *)
LEMMA SumMoved ==
  ASSUME NEW f, NEW g, NEW S, NEW T, NEW b, IsFiniteSet(S), IsFiniteSet(T),
         \A x \in S : b[x] \in T /\ f[x] = g[b[x]],
         \A x, y \in S : b[x] = b[y] => x = y,
         \A z \in T : g[z] \in Int /\ \E x \in S : b[x] = z
  PROVE  SumFunctionOnSet(f, S) = SumFunctionOnSet(g, T)
<1> DEFINE Im(U) == {z \in T : \E x \in U : b[x] = z}
           B == {U \in SUBSET S : SumFunctionOnSet(f, U) # SumFunctionOnSet(g, Im(U))}
<1>0. Im(S) = T
  OBVIOUS
<1> SUFFICES ASSUME B # {} PROVE FALSE
  BY <1>0
<1>1. B \in SUBSET SUBSET S
  OBVIOUS
<1>2. PICK U \in B : \A W \in B : W \subseteq U => W = U
  <2> HIDE DEF B
  <2> QED
    BY <1>1, SmallestSet
<1>3. /\ U \subseteq S /\ IsFiniteSet(U) /\ IsFiniteSet(Im(U))
      /\ SumFunctionOnSet(f, U) # SumFunctionOnSet(g, Im(U))
  BY FS_Subset
<1>4. U # {}
  <2>1. Im({}) = {}
    OBVIOUS
  <2> QED
    BY <1>3, <2>1, SumEmpty
<1> DEFINE x == Pick(U)
           W == U \ {x}
<1>5. x \in U /\ W \subseteq U /\ W # U
  BY <1>4, PickIsIn
<1>6. SumFunctionOnSet(f, W) = SumFunctionOnSet(g, Im(W))
  BY <1>2, <1>3, <1>5
<1>7. b[x] \in Im(U) /\ Im(W) = Im(U) \ {b[x]} /\ f[x] = g[b[x]]
  BY <1>3, <1>5
<1>8. SumFunctionOnSet(g, Im(U)) = g[b[x]] + SumFunctionOnSet(g, Im(U) \ {b[x]})
  <2> HIDE DEF x
  <2>1. \A z \in Im(U) : g[z] \in Int
    OBVIOUS
  <2> HIDE DEF Im
  <2> QED
    BY <1>3, <1>7, <2>1, SumRemove
<1>9. SumFunctionOnSet(f, U) = f[x] + SumFunctionOnSet(f, W)
  BY <1>3, <1>4, SumUnfolds
<1> HIDE DEF x, W, Im
<1> QED
  BY <1>3, <1>6, <1>7, <1>8, <1>9

(* The sum over two sets that share nothing.                               *)
LEMMA SumUnion ==
  ASSUME NEW f, NEW S, NEW T, IsFiniteSet(S), IsFiniteSet(T), S \cap T = {},
         \A x \in S \cup T : f[x] \in Int
  PROVE  SumFunctionOnSet(f, S \cup T) = SumFunctionOnSet(f, S) + SumFunctionOnSet(f, T)
<1> DEFINE Sum(U) == SumFunctionOnSet(f, U)
           B == {U \in SUBSET T : Sum(S \cup U) # Sum(S) + Sum(U)}
<1> SUFFICES ASSUME B # {} PROVE FALSE
  OBVIOUS
<1>1. B \in SUBSET SUBSET T
  OBVIOUS
<1>2. PICK U \in B : \A V \in B : V \subseteq U => V = U
  <2> HIDE DEF B
  <2> QED
    BY <1>1, SmallestSet
<1>3. U \subseteq T /\ Sum(S \cup U) # Sum(S) + Sum(U) /\ IsFiniteSet(U)
  BY FS_Subset
<1>4. Sum(S) \in Int /\ Sum({}) = 0
  BY SumType, SumEmpty
<1>5. U # {}
  <2> SUFFICES ASSUME U = {} PROVE FALSE
    OBVIOUS
  <2>1. S \cup U = S
    OBVIOUS
  <2>2. Sum(S \cup U) = Sum(S) /\ Sum(U) = 0
    BY <1>4, <2>1
  <2> HIDE DEF Sum
  <2> QED
    BY <1>3, <1>4, <2>2
<1>6. PICK y \in U : TRUE
  BY <1>5
<1> DEFINE V == U \ {y}
           W == S \cup V
<1>7. V \subseteq U /\ V # U /\ V \subseteq T /\ y \notin W /\ y \notin V
  BY <1>3
<1>8. S \cup U = W \cup {y} /\ U = V \cup {y}
  OBVIOUS
<1>9. Sum(W) = Sum(S) + Sum(V)
  BY <1>2, <1>7
<1>10. IsFiniteSet(V) /\ IsFiniteSet(W)
  BY <1>3, FS_Subset, FS_Union
<1>11. f[y] \in Int /\ \A x \in W : f[x] \in Int
  BY <1>3
<1>12. \A x \in V : f[x] \in Int
  BY <1>11
<1> HIDE DEF V, W
<1>13. /\ Sum(W \cup {y}) = Sum(W) + f[y]
       /\ Sum(V \cup {y}) = Sum(V) + f[y]
       /\ Sum(V) \in Int
  BY <1>7, <1>10, <1>11, <1>12, SumAdd, SumType
<1>14. Sum(S \cup U) = Sum(W) + f[y] /\ Sum(U) = Sum(V) + f[y]
  BY <1>8, <1>13
<1> HIDE DEF Sum, B
<1> QED
  BY <1>3, <1>4, <1>9, <1>11, <1>13, <1>14

(* A sum of zeros.                                                         *)
LEMMA SumZero ==
  ASSUME NEW f, NEW S, IsFiniteSet(S), \A x \in S : f[x] = 0
  PROVE  SumFunctionOnSet(f, S) = 0
<1> DEFINE B == {T \in SUBSET S : SumFunctionOnSet(f, T) # 0}
<1> SUFFICES ASSUME B # {} PROVE FALSE
  OBVIOUS
<1>1. B \in SUBSET SUBSET S
  OBVIOUS
<1>2. PICK T \in B : \A U \in B : U \subseteq T => U = T
  <2> HIDE DEF B
  <2> QED
    BY <1>1, SmallestSet
<1>3. T \subseteq S /\ IsFiniteSet(T) /\ SumFunctionOnSet(f, T) # 0
  BY FS_Subset
<1>4. T # {}
  BY <1>3, SumEmpty
<1>5. Pick(T) \in T /\ T \ {Pick(T)} \subseteq T /\ T \ {Pick(T)} # T
  BY <1>4, PickIsIn
<1>6. SumFunctionOnSet(f, T \ {Pick(T)}) = 0 /\ f[Pick(T)] = 0
  BY <1>2, <1>3, <1>5
<1> QED
  BY <1>3, <1>4, <1>6, SumUnfolds

(* No natural is above a sum it is part of.                                *)
LEMMA SumAtLeast ==
  ASSUME NEW f, NEW S, IsFiniteSet(S), \A x \in S : f[x] \in Nat, NEW y \in S
  PROVE  f[y] <= SumFunctionOnSet(f, S)
<1>1. IsFiniteSet(S \ {y})
  BY FS_Subset
<1>2. SumFunctionOnSet(f, S \ {y}) \in Nat
  BY <1>1, SumNat
<1>3. SumFunctionOnSet(f, S) = f[y] + SumFunctionOnSet(f, S \ {y})
  BY SumRemove
<1> QED
  BY <1>2, <1>3

-----------------------------------------------------------------------------
(* Division.                                                               *)

(* What integer division is, for a positive divisor.                       *)
LEMMA DivMod ==
  ASSUME NEW a \in Int, NEW w \in Nat \ {0}
  PROVE  /\ a \div w \in Int
         /\ w * (a \div w) <= a /\ a < w * (a \div w) + w
OBVIOUS

(* The quotient is the only multiple in reach.                             *)
LEMMA Between ==
  ASSUME NEW w \in Nat \ {0}, NEW q \in Int, NEW r \in Int, NEW a \in Int,
         w * q <= a, a < w * q + w, w * r <= a, a < w * r + w
  PROVE  q = r
<1>1. CASE q < r
  <2>1. q + 1 <= r
    BY <1>1
  <2>2. w * (q + 1) <= w * r
    BY <2>1
  <2>3. w * (q + 1) = w * q + w
    OBVIOUS
  <2> QED
    BY <2>2, <2>3
<1>2. CASE r < q
  <2>1. r + 1 <= q
    BY <1>2
  <2>2. w * (r + 1) <= w * q
    BY <2>1
  <2>3. w * (r + 1) = w * r + w
    OBVIOUS
  <2> QED
    BY <2>2, <2>3
<1> QED
  BY <1>1, <1>2

(* One divisor less is one less in the quotient.                           *)
LEMMA DivSub ==
  ASSUME NEW a \in Int, NEW w \in Nat \ {0}
  PROVE  (a - w) \div w = (a \div w) - 1
<1>1. /\ a \div w \in Int /\ w * (a \div w) <= a /\ a < w * (a \div w) + w
  BY DivMod
<1>2. /\ (a - w) \div w \in Int /\ w * ((a - w) \div w) <= a - w /\ a - w < w * ((a - w) \div w) + w
  BY DivMod
<1> DEFINE q == a \div w
           r == (a - w) \div w
<1> HIDE DEF q, r
<1>3. w * (q - 1) = w * q - w
  BY <1>1 DEF q
<1> QED
  BY <1>1, <1>2, <1>3, Between DEF q, r

(* The quotient of naturals is positive when the divisor fits at least once.*)
LEMMA DivPos ==
  ASSUME NEW a \in Nat, NEW w \in Nat \ {0}
  PROVE  /\ a \div w \in Nat
         /\ a \div w > 0 <=> w <= a
<1>1. /\ a \div w \in Int /\ w * (a \div w) <= a /\ a < w * (a \div w) + w
  BY DivMod
<1> DEFINE q == a \div w
<1> HIDE DEF q
<1>2. q \in Int /\ w * q <= a /\ a < w * q + w
  BY <1>1 DEF q
<1>3. q >= 0
  <2> SUFFICES ASSUME q <= -1 PROVE FALSE
    BY <1>2
  <2>1. w * q <= w * (-1)
    BY <1>2
  <2> QED
    BY <1>2, <2>1
<1>4. CASE q = 0
  BY <1>2, <1>4
<1>5. CASE q >= 1
  <2>1. w * 1 <= w * q
    BY <1>2, <1>5
  <2> QED
    BY <1>2, <1>5, <2>1
<1> QED
  BY <1>2, <1>3, <1>4, <1>5 DEF q

(* Division is monotone in the dividend.                                   *)
LEMMA DivMono ==
  ASSUME NEW a \in Int, NEW b \in Int, a <= b, NEW w \in Nat \ {0}
  PROVE  a \div w <= b \div w
<1> DEFINE q == a \div w
           r == b \div w
<1>1. q \in Int /\ w * q <= a /\ r \in Int /\ b < w * r + w
  BY DivMod
<1> HIDE DEF q, r
<1> SUFFICES ASSUME r + 1 <= q PROVE FALSE
  BY <1>1 DEF q, r
<1>2. w * (r + 1) <= w * q
  BY <1>1
<1>3. w * (r + 1) = w * r + w
  BY <1>1
<1> QED
  BY <1>1, <1>2, <1>3
=============================================================================
