-------------------------------- MODULE Sums --------------------------------
(***************************************************************************)
(* Sums over finite sets, as SqliteStorage and NodeTraffic take them of    *)
(* the buckets of node_traffic: one element after the other, by recursion. *)
(* The lemmas are by a least counterexample, which the order of the finite *)
(* sets by inclusion gives.                                                *)
(***************************************************************************)
EXTENDS Naturals, FiniteSets, FiniteSetTheorems, WellFoundedInduction, TLAPS

(***************************************************************************)
(* The recursion defines a function.                                       *)
(***************************************************************************)
Pick(S) == CHOOSE x \in S : TRUE

\* g gives the sum of f over every part of S, taking one element after the other.
SumsUp(g, f, S) ==
    g = [s \in SUBSET S |-> IF s = {} THEN 0 ELSE f[Pick(s)] + g[s \ {Pick(s)}]]

LEMMA PickIn == ASSUME NEW S, S # {} PROVE Pick(S) \in S
BY DEF Pick

\* Of some parts of a finite set there is one no other is within.
LEMMA LeastSet ==
    ASSUME NEW S, IsFiniteSet(S), NEW B \in SUBSET SUBSET S, B # {}
    PROVE  \E s \in B : \A r \in B : r \subseteq s => r = s
<1>1. IsWellFoundedOn(StrictSubsetOrdering(S), SUBSET S)
  BY FS_StrictSubsetOrderingWellFounded, FS_FiniteSubsetsOfFinite, Zenon
<1>2. PICK s \in B : \A r \in B : ~(<<r, s>> \in StrictSubsetOrdering(S))
  BY <1>1, WFMin, Zenon
<1>3. ASSUME NEW r \in B, r \subseteq s PROVE r = s
  BY <1>2, <1>3 DEF StrictSubsetOrdering
<1> QED BY <1>3

\* Two that sum up the same agree, whatever they are defined on.
LEMMA SumsAgree ==
    ASSUME NEW f, NEW S, IsFiniteSet(S), NEW T \in SUBSET S,
           NEW g, SumsUp(g, f, S), NEW h, SumsUp(h, f, T)
    PROVE  \A s \in SUBSET T : g[s] = h[s]
<1> DEFINE B == {s \in SUBSET T : g[s] # h[s]}
<1>1. SUFFICES ASSUME B # {} PROVE FALSE
  OBVIOUS
<1>2. B \in SUBSET SUBSET S
  OBVIOUS
<1>3. PICK s \in B : \A r \in B : r \subseteq s => r = s
  <2> HIDE DEF B
  <2> QED BY <1>1, <1>2, LeastSet
<1>4. s \in SUBSET T /\ s \in SUBSET S
  OBVIOUS
<1>5. CASE s = {}
  BY <1>3, <1>4, <1>5 DEF SumsUp
<1>6. CASE s # {}
  <2>1. Pick(s) \in s
    BY <1>6, PickIn
  <2>2. g[s \ {Pick(s)}] = h[s \ {Pick(s)}]
    <3>1. s \ {Pick(s)} \in SUBSET T /\ s \ {Pick(s)} \subseteq s /\ s \ {Pick(s)} # s
      BY <2>1
    <3> QED BY <1>3, <3>1
  <2>3. /\ g[s] = f[Pick(s)] + g[s \ {Pick(s)}]
        /\ h[s] = f[Pick(s)] + h[s \ {Pick(s)}]
    BY <1>4, <1>6 DEF SumsUp
  <2> QED BY <2>2, <2>3
<1> QED BY <1>5, <1>6

\* There is one.
LEMMA SumsExist ==
    ASSUME NEW f, NEW S, IsFiniteSet(S)
    PROVE  \E g : SumsUp(g, f, S)
<1> DEFINE B == {T \in SUBSET S : ~\E g : SumsUp(g, f, T)}
<1>1. SUFFICES ASSUME B # {} PROVE FALSE
  OBVIOUS
<1>2. PICK T \in B : \A R \in B : R \subseteq T => R = T
  <2>1. B \in SUBSET SUBSET S
    OBVIOUS
  <2> HIDE DEF B
  <2> QED BY <1>1, <2>1, LeastSet
<1> DEFINE G(R) == CHOOSE g : SumsUp(g, f, R)
           Value(R) == IF R = {} THEN 0 ELSE f[Pick(R)] + G(R \ {Pick(R)})[R \ {Pick(R)}]
           all == [s \in SUBSET T |-> Value(s)]
<1>3. ASSUME NEW R \in SUBSET T, R # T PROVE SumsUp(G(R), f, R)
  <2>1. R \notin B /\ R \in SUBSET S
    BY <1>2, <1>3
  <2>2. \E g : SumsUp(g, f, R)
    BY <2>1
  <2> QED BY <2>2
<1>4. ASSUME NEW R \in SUBSET T, R # T PROVE Value(R) = G(R)[R]
  <2>1. SumsUp(G(R), f, R)
    BY <1>3, <1>4
  <2>2. CASE R = {}
    <3>1. G(R)[R] = 0
      <4> HIDE DEF G
      <4> QED BY <2>1, <2>2 DEF SumsUp
    <3> QED BY <2>2, <3>1
  <2>3. CASE R # {}
    <3> DEFINE Q == R \ {Pick(R)}
    <3>1. Pick(R) \in R
      BY <2>3, PickIn
    <3>2. Q \in SUBSET T /\ Q # T /\ Q \in SUBSET R
      BY <3>1
    <3>3. SumsUp(G(Q), f, Q)
      <4> HIDE DEF Q, G
      <4> QED BY <1>3, <3>2
    <3>4. IsFiniteSet(R)
      BY FS_Subset
    <3>5. G(R)[Q] = G(Q)[Q]
      <4> HIDE DEF G, Q
      <4> QED BY <2>1, <3>2, <3>3, <3>4, SumsAgree
    <3>6. G(R)[R] = f[Pick(R)] + G(R)[Q]
      <4> HIDE DEF G
      <4> QED BY <2>1, <2>3 DEF SumsUp
    <3>7. Value(R) = f[Pick(R)] + G(Q)[Q]
      <4> HIDE DEF G
      <4> QED BY <2>3
    <3> HIDE DEF G, Value, Q
    <3> QED BY <3>5, <3>6, <3>7
  <2> HIDE DEF G, Value
  <2> QED BY <2>2, <2>3
<1>5. ASSUME NEW s \in SUBSET T, s # {} PROVE Value(s) = f[Pick(s)] + all[s \ {Pick(s)}]
  <2> DEFINE r == s \ {Pick(s)}
  <2>1. Pick(s) \in s
    BY <1>5, PickIn
  <2>2. r \in SUBSET T /\ r # T
    BY <2>1
  <2>3. all[r] = Value(r)
    <3> HIDE DEF Value, r
    <3> QED BY <2>2
  <2>4. Value(r) = G(r)[r]
    <3> HIDE DEF Value, G, r
    <3> QED BY <1>4, <2>2
  <2>5. Value(s) = f[Pick(s)] + G(r)[r]
    <3> HIDE DEF G
    <3> QED BY <1>5
  <2> HIDE DEF all, Value, G
  <2> QED BY <2>3, <2>4, <2>5
<1>6. Value({}) = 0
  OBVIOUS
<1>7. SumsUp(all, f, T)
  <2>1. \A s \in SUBSET T : Value(s) = IF s = {} THEN 0 ELSE f[Pick(s)] + all[s \ {Pick(s)}]
    <3> HIDE DEF Value, all
    <3> QED BY <1>5, <1>6
  <2>2. all = [s \in SUBSET T |-> IF s = {} THEN 0 ELSE f[Pick(s)] + all[s \ {Pick(s)}]]
    <3> DEFINE other == [s \in SUBSET T |-> IF s = {} THEN 0 ELSE f[Pick(s)] + all[s \ {Pick(s)}]]
    <3> HIDE DEF Value
    <3>1. DOMAIN all = SUBSET T /\ DOMAIN other = SUBSET T
      OBVIOUS
    <3>2. \A s \in SUBSET T : all[s] = Value(s)
      OBVIOUS
    <3>3. \A s \in SUBSET T : other[s] = IF s = {} THEN 0 ELSE f[Pick(s)] + all[s \ {Pick(s)}]
      <4> HIDE DEF all
      <4> QED OBVIOUS
    <3>4. all = [s \in SUBSET T |-> all[s]] /\ other = [s \in SUBSET T |-> other[s]]
      OBVIOUS
    <3> HIDE DEF all, other
    <3>5. all = other
      BY <2>1, <3>2, <3>3, <3>4
    <3> QED BY <3>5 DEF other
  <2> HIDE DEF all
  <2> QED BY <2>2 DEF SumsUp
<1> HIDE DEF all
<1> QED BY <1>2, <1>7

(***************************************************************************)
(* What it gives.                                                          *)
(***************************************************************************)
\* The sum of f over S.
Total(f, S) == (CHOOSE g : SumsUp(g, f, S))[S]

\* Whatever is defined by the recursion gives the sum.
LEMMA TotalIs ==
    ASSUME NEW f, NEW S, IsFiniteSet(S), NEW g, SumsUp(g, f, S)
    PROVE  g[S] = Total(f, S)
<1> DEFINE G == CHOOSE h : SumsUp(h, f, S)
<1>1. SumsUp(G, f, S)
  BY SumsExist
<1> HIDE DEF G
<1>2. g[S] = G[S]
  BY <1>1, SumsAgree
<1> QED BY <1>2 DEF Total, G

\* The recursion.
LEMMA TotalStep ==
    ASSUME NEW f, NEW S, IsFiniteSet(S)
    PROVE  /\ S = {} => Total(f, S) = 0
           /\ S # {} => Total(f, S) = f[Pick(S)] + Total(f, S \ {Pick(S)})
<1> DEFINE G(R) == CHOOSE g : SumsUp(g, f, R)
           R == S \ {Pick(S)}
<1>1. SumsUp(G(S), f, S)
  BY SumsExist
<1>2. IsFiniteSet(R) /\ R \in SUBSET S
  BY FS_Subset
<1>3. SumsUp(G(R), f, R)
  BY <1>2, SumsExist
<1>4. G(S)[R] = G(R)[R]
  <2> HIDE DEF G, R
  <2> QED BY <1>1, <1>2, <1>3, SumsAgree
<1>5. Total(f, S) = G(S)[S] /\ Total(f, R) = G(R)[R]
  BY DEF Total
<1>6. G(S)[S] = IF S = {} THEN 0 ELSE f[Pick(S)] + G(S)[R]
  <2> HIDE DEF G
  <2> QED BY <1>1 DEF SumsUp
<1> HIDE DEF G
<1> QED BY <1>4, <1>5, <1>6

\* A sum of numbers is a number.
LEMMA TotalType ==
    ASSUME NEW D, NEW f \in [D -> Nat], NEW S \in SUBSET D, IsFiniteSet(S)
    PROVE  Total(f, S) \in Nat
<1> DEFINE B == {s \in SUBSET S : Total(f, s) \notin Nat}
<1>1. SUFFICES ASSUME B # {} PROVE FALSE
  OBVIOUS
<1>2. PICK s \in B : \A r \in B : r \subseteq s => r = s
  <2>1. B \in SUBSET SUBSET S
    OBVIOUS
  <2> HIDE DEF B
  <2> QED BY <1>1, <2>1, LeastSet
<1>3. IsFiniteSet(s)
  BY FS_Subset
<1>4. CASE s = {}
  <2>1. Total(f, s) = 0
    BY <1>3, <1>4, TotalStep
  <2> QED BY <1>2, <2>1
<1>5. CASE s # {}
  <2>1. Pick(s) \in s
    BY <1>5, PickIn
  <2>2. Total(f, s \ {Pick(s)}) \in Nat
    <3>1. s \ {Pick(s)} \in SUBSET S /\ s \ {Pick(s)} \subseteq s /\ s \ {Pick(s)} # s
      BY <2>1
    <3> QED BY <1>2, <3>1
  <2>3. f[Pick(s)] \in Nat
    BY <2>1
  <2>4. Total(f, s) = f[Pick(s)] + Total(f, s \ {Pick(s)})
    BY <1>3, <1>5, TotalStep
  <2> QED BY <2>2, <2>3, <2>4
<1> QED BY <1>4, <1>5

\* Any element may be taken first.
LEMMA TotalWithout ==
    ASSUME NEW D, NEW f \in [D -> Nat], NEW S \in SUBSET D, IsFiniteSet(S), NEW x \in S
    PROVE  Total(f, S) = f[x] + Total(f, S \ {x})
<1> DEFINE B == {s \in SUBSET S : \E y \in s : Total(f, s) # f[y] + Total(f, s \ {y})}
<1>1. SUFFICES ASSUME B # {} PROVE FALSE
  OBVIOUS
<1>2. PICK s \in B : \A r \in B : r \subseteq s => r = s
  <2>1. B \in SUBSET SUBSET S
    OBVIOUS
  <2> HIDE DEF B
  <2> QED BY <1>1, <2>1, LeastSet
<1>3. PICK y \in s : Total(f, s) # f[y] + Total(f, s \ {y})
  BY <1>2
<1> DEFINE z == Pick(s)
           both == (s \ {y}) \ {z}
<1>4. z \in s /\ f[z] \in Nat /\ f[y] \in Nat
  BY PickIn
<1>5. /\ IsFiniteSet(s) /\ IsFiniteSet(s \ {y}) /\ IsFiniteSet(s \ {z}) /\ IsFiniteSet(both)
      /\ s \in SUBSET D /\ both \in SUBSET D
  BY FS_Subset
<1>6. Total(f, s) = f[z] + Total(f, s \ {z})
  BY <1>5, TotalStep
<1> HIDE DEF z
<1>7. z # y
  BY <1>3, <1>6
<1>8. Total(f, s \ {z}) = f[y] + Total(f, both)
  <2>1. s \ {z} \notin B
    BY <1>2, <1>4
  <2>2. (s \ {z}) \ {y} = both /\ y \in s \ {z}
    BY <1>7
  <2> QED BY <2>1, <2>2
<1>9. Total(f, s \ {y}) = f[z] + Total(f, both)
  <2>1. s \ {y} \notin B
    BY <1>2, <1>3
  <2>2. z \in s \ {y}
    BY <1>4, <1>7
  <2> QED BY <2>1, <2>2
<1>10. Total(f, both) \in Nat
  BY <1>5, TotalType
<1> HIDE DEF both
<1> QED BY <1>3, <1>4, <1>6, <1>8, <1>9, <1>10

\* More to add up, and more of it, is no less.
LEMMA TotalGrows ==
    ASSUME NEW D, NEW f \in [D -> Nat], NEW g \in [D -> Nat],
           NEW T \in SUBSET D, IsFiniteSet(T), NEW S \in SUBSET T,
           \A x \in S : f[x] <= g[x]
    PROVE  Total(f, S) <= Total(g, T)
<1> DEFINE B == {t \in SUBSET T : ~(Total(f, S \cap t) <= Total(g, t))}
<1>1. SUFFICES ASSUME B # {} PROVE FALSE
  <2>1. S \cap T = S
    OBVIOUS
  <2> QED BY <2>1
<1>2. PICK t \in B : \A r \in B : r \subseteq t => r = t
  <2>1. B \in SUBSET SUBSET T
    OBVIOUS
  <2> HIDE DEF B
  <2> QED BY <1>1, <2>1, LeastSet
<1>3. /\ IsFiniteSet(t) /\ IsFiniteSet(S \cap t) /\ t \in SUBSET D /\ S \cap t \in SUBSET D
  BY FS_Subset
<1>4. CASE t = {}
  <2>1. S \cap t = {}
    BY <1>4
  <2>2. Total(f, S \cap t) = 0 /\ Total(g, t) = 0
    BY <1>3, <1>4, <2>1, TotalStep
  <2> QED BY <1>2, <2>2
<1>5. CASE t # {}
  <2> DEFINE x == Pick(t)
             r == t \ {x}
  <2>1. x \in t /\ x \in D
    BY <1>5, PickIn
  <2>2. r \in SUBSET T /\ r \in SUBSET D /\ r # t /\ IsFiniteSet(r) /\ IsFiniteSet(S \cap r)
    BY <2>1, <1>3, FS_Subset
  <2>3. Total(f, S \cap r) <= Total(g, r)
    BY <1>2, <2>2
  <2>4. Total(g, t) = g[x] + Total(g, r)
    BY <1>3, <1>5, TotalStep
  <2>5. Total(f, S \cap r) \in Nat /\ Total(g, r) \in Nat /\ f[x] \in Nat /\ g[x] \in Nat
    BY <2>1, <2>2, TotalType
  <2> HIDE DEF x
  <2>6. CASE x \in S
    <3>1. (S \cap t) \ {x} = S \cap r /\ x \in S \cap t
      BY <2>1, <2>6
    <3>2. Total(f, S \cap t) = f[x] + Total(f, S \cap r)
      BY <1>3, <3>1, TotalWithout
    <3>3. f[x] <= g[x]
      BY <2>6
    <3> HIDE DEF r
    <3> QED BY <1>2, <2>3, <2>4, <2>5, <3>2, <3>3
  <2>7. CASE x \notin S
    <3>1. S \cap t = S \cap r
      BY <2>7
    <3>2. Total(f, S \cap t) <= Total(g, r)
      BY <2>3, <3>1
    <3>3. Total(f, S \cap t) \in Nat
      BY <2>5, <3>1
    <3> HIDE DEF r
    <3>4. Total(f, S \cap t) <= Total(g, t)
      BY <2>4, <2>5, <3>2, <3>3
    <3> QED BY <1>2, <3>4
  <2> QED BY <2>6, <2>7
<1> QED BY <1>4, <1>5

\* What is the same on a set has the same sum.
LEMMA TotalSame ==
    ASSUME NEW D, NEW f \in [D -> Nat], NEW g \in [D -> Nat],
           NEW S \in SUBSET D, IsFiniteSet(S), \A x \in S : f[x] = g[x]
    PROVE  Total(f, S) = Total(g, S)
<1>1. \A x \in S : f[x] <= g[x] /\ g[x] <= f[x] /\ f[x] \in Nat /\ g[x] \in Nat
  OBVIOUS
<1>2. Total(f, S) <= Total(g, S) /\ Total(g, S) <= Total(f, S)
  BY <1>1, TotalGrows
<1>3. Total(f, S) \in Nat /\ Total(g, S) \in Nat
  BY TotalType
<1> QED BY <1>2, <1>3

\* No number is more than the sum it is in.
LEMMA TotalPart ==
    ASSUME NEW D, NEW f \in [D -> Nat], NEW S \in SUBSET D, IsFiniteSet(S), NEW x \in S
    PROVE  f[x] <= Total(f, S)
<1>1. Total(f, S) = f[x] + Total(f, S \ {x})
  BY TotalWithout
<1>2. IsFiniteSet(S \ {x}) /\ S \ {x} \in SUBSET D
  BY FS_Subset
<1>3. Total(f, S \ {x}) \in Nat /\ f[x] \in Nat
  BY <1>2, TotalType
<1> QED BY <1>1, <1>3

\* Nothing adds up to nothing.
LEMMA TotalZero ==
    ASSUME NEW D, NEW f \in [D -> Nat], NEW S \in SUBSET D, IsFiniteSet(S),
           \A x \in S : f[x] = 0
    PROVE  Total(f, S) = 0
<1> DEFINE B == {s \in SUBSET S : Total(f, s) # 0}
<1>1. SUFFICES ASSUME B # {} PROVE FALSE
  OBVIOUS
<1>2. PICK s \in B : \A r \in B : r \subseteq s => r = s
  <2>1. B \in SUBSET SUBSET S
    OBVIOUS
  <2> HIDE DEF B
  <2> QED BY <1>1, <2>1, LeastSet
<1>3. IsFiniteSet(s)
  BY FS_Subset
<1>4. CASE s = {}
  BY <1>2, <1>3, <1>4, TotalStep
<1>5. CASE s # {}
  <2>1. Pick(s) \in s
    BY <1>5, PickIn
  <2>2. Total(f, s \ {Pick(s)}) = 0
    <3>1. s \ {Pick(s)} \in SUBSET S /\ s \ {Pick(s)} \subseteq s /\ s \ {Pick(s)} # s
      BY <2>1
    <3> QED BY <1>2, <3>1
  <2>3. f[Pick(s)] = 0
    BY <2>1
  <2>4. Total(f, s) = f[Pick(s)] + Total(f, s \ {Pick(s)})
    BY <1>3, <1>5, TotalStep
  <2> QED BY <1>2, <2>2, <2>3, <2>4
<1> QED BY <1>4, <1>5

\* Where one number changes, the sum changes by as much.
LEMMA TotalChange ==
    ASSUME NEW D, NEW f \in [D -> Nat], NEW g \in [D -> Nat],
           NEW S \in SUBSET D, IsFiniteSet(S), NEW x \in S,
           \A y \in S \ {x} : f[y] = g[y]
    PROVE  Total(g, S) + f[x] = Total(f, S) + g[x]
<1>1. /\ Total(f, S) = f[x] + Total(f, S \ {x})
      /\ Total(g, S) = g[x] + Total(g, S \ {x})
  BY TotalWithout
<1>2. IsFiniteSet(S \ {x}) /\ S \ {x} \in SUBSET D
  BY FS_Subset
<1>3. Total(f, S \ {x}) = Total(g, S \ {x})
  BY <1>2, TotalSame
<1>4. Total(f, S \ {x}) \in Nat /\ f[x] \in Nat /\ g[x] \in Nat
  BY <1>2, TotalType
<1> QED BY <1>1, <1>3, <1>4
=============================================================================
