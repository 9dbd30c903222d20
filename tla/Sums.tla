-------------------------------- MODULE Sums --------------------------------
(***************************************************************************)
(* Sums of the values of a function, as SumFunctionOnSet of the community  *)
(* modules computes them: that the recursion it is made of defines         *)
(* something, and how a sum follows a change of the function or of the     *)
(* set.  The counters of EventPath are such sums.                          *)
(***************************************************************************)
EXTENDS Integers, Sequences, Functions, FiniteSetTheorems, WellFoundedInduction, TLAPS

Pick(s) == CHOOSE x \in s : TRUE

\* A table of the sums of f over every part of S.
IsTotal(f, S, g) ==
    g = [s \in SUBSET S |-> IF s = {} THEN 0 ELSE f[Pick(s)] + g[s \ {Pick(s)}]]

(* A sum is the entry of the whole set in the table of its parts.          *)
LEMMA SumByTable ==
    ASSUME NEW f, NEW S
    PROVE  SumFunctionOnSet(f, S) = (CHOOSE g : IsTotal(f, S, g))[S]
BY DEF SumFunctionOnSet, FoldFunctionOnSet, MapThenFoldSet, IsTotal, Pick

(* Of the parts of a finite set that have some fault, one is least: no     *)
(* smaller part of it has the fault.                                       *)
LEMMA LeastPart ==
    ASSUME NEW S, IsFiniteSet(S), NEW B \in SUBSET (SUBSET S), B # {}
    PROVE  \E s \in B : \A t \in SUBSET s : t # s => t \notin B
<1>1. IsWellFoundedOn(StrictSubsetOrdering(S), FiniteSubsetsOf(S))
  BY FS_StrictSubsetOrderingWellFounded
<1>2. B \subseteq FiniteSubsetsOf(S)
  BY FS_Subset DEF FiniteSubsetsOf
<1>3. PICK s \in B : \A t \in B : ~(<<t, s>> \in StrictSubsetOrdering(S))
  BY <1>1, <1>2, WFMin
<1>4. \A t \in SUBSET s : t # s => t \notin B
  BY <1>3 DEF StrictSubsetOrdering
<1>5. QED
  BY <1>3, <1>4

(* The element that is taken first belongs to the set.                     *)
LEMMA PickIn ==
    ASSUME NEW s, s # {}
    PROVE  Pick(s) \in s /\ s \ {Pick(s)} \in SUBSET s /\ s \ {Pick(s)} # s
BY DEF Pick

(* What a table says of a part.                                            *)
LEMMA TotalAt ==
    ASSUME NEW f, NEW S, NEW g, IsTotal(f, S, g), NEW s \in SUBSET S
    PROVE  g[s] = IF s = {} THEN 0 ELSE f[Pick(s)] + g[s \ {Pick(s)}]
BY DEF IsTotal

(* Two tables, of a set and of a part of it, agree where both say          *)
(* something.                                                              *)
LEMMA TotalsAgree ==
    ASSUME NEW f, NEW S, IsFiniteSet(S), NEW T \in SUBSET S, NEW g, IsTotal(f, S, g),
           NEW h, IsTotal(f, T, h), NEW s \in SUBSET T
    PROVE  g[s] = h[s]
<1> DEFINE B == {u \in SUBSET T : g[u] # h[u]}
<1>1. SUFFICES ASSUME B # {} PROVE FALSE
  OBVIOUS
<1>2. IsFiniteSet(T)
  BY FS_Subset
<1>3. PICK u \in B : \A v \in SUBSET u : v # u => v \notin B
  <2> HIDE DEF B
  <2>1. B \in SUBSET (SUBSET T)
    BY DEF B
  <2>2. QED
    BY <1>1, <1>2, <2>1, LeastPart
<1>4. u \in SUBSET T /\ u \in SUBSET S /\ g[u] # h[u]
  BY <1>3
<1>5. u # {}
  BY <1>4, TotalAt
<1>6. g[u \ {Pick(u)}] = h[u \ {Pick(u)}]
  BY <1>3, <1>4, <1>5, PickIn
<1>7. QED
  BY <1>4, <1>5, <1>6, TotalAt

(* Every finite set has a table.                                           *)
LEMMA TotalExists ==
    ASSUME NEW f, NEW S, IsFiniteSet(S)
    PROVE  \E g : IsTotal(f, S, g)
<1> DEFINE B == {u \in SUBSET S : \A g : ~IsTotal(f, u, g)}
<1>1. SUFFICES ASSUME B # {} PROVE FALSE
  OBVIOUS
<1>2. PICK s \in B : \A t \in SUBSET s : t # s => t \notin B
  <2> HIDE DEF B
  <2>1. B \in SUBSET (SUBSET S)
    BY DEF B
  <2>2. QED
    BY <1>1, <2>1, LeastPart
<1>3. s \in SUBSET S /\ IsFiniteSet(s)
  BY FS_Subset
<1> DEFINE G(t) == CHOOSE g : IsTotal(f, t, g)
           h == [t \in SUBSET s |->
                   IF t = {} THEN 0 ELSE f[Pick(t)] + G(t \ {Pick(t)})[t \ {Pick(t)}]]
<1>4. \A t \in SUBSET s : t # s => IsTotal(f, t, G(t))
  BY <1>2, <1>3
<1> HIDE DEF G
<1>5. ASSUME NEW t \in SUBSET s, t # s
      PROVE  h[t] = G(t)[t]
  <2>1. CASE t = {}
    BY <1>4, <1>5, <2>1, TotalAt
  <2>2. CASE t # {}
    <3> DEFINE u == t \ {Pick(t)}
    <3>1. u \in SUBSET t /\ u \in SUBSET s /\ u # s
      BY <1>5, <2>2, PickIn
    <3>2. IsFiniteSet(t)
      BY <1>3, <1>5, FS_Subset
    <3>3. G(t)[u] = G(u)[u]
      BY <1>4, <1>5, <3>1, <3>2, TotalsAgree
    <3>4. G(t)[t] = f[Pick(t)] + G(t)[u]
      BY <1>4, <1>5, <2>2, TotalAt
    <3>5. h[t] = f[Pick(t)] + G(u)[u]
      BY <2>2
    <3>6. QED
      BY <3>3, <3>4, <3>5
  <2>3. QED
    BY <2>1, <2>2
<1>6. ASSUME NEW t \in SUBSET s
      PROVE  h[t] = IF t = {} THEN 0 ELSE f[Pick(t)] + h[t \ {Pick(t)}]
  <2>1. CASE t = {}
    BY <2>1
  <2>2. CASE t # {}
    <3>1. t \ {Pick(t)} \in SUBSET s /\ t \ {Pick(t)} # s
      BY <2>2, PickIn
    <3>2. h[t] = f[Pick(t)] + G(t \ {Pick(t)})[t \ {Pick(t)}]
      BY <2>2
    <3> HIDE DEF h
    <3>3. QED
      BY <1>5, <2>2, <3>1, <3>2
  <2>3. QED
    BY <2>1, <2>2
<1>7. DOMAIN h = SUBSET s /\ h = [t \in SUBSET s |-> h[t]]
  OBVIOUS
<1> HIDE DEF h
<1>8. IsTotal(f, s, h)
  BY <1>6, <1>7 DEF IsTotal
<1>9. QED
  BY <1>2, <1>8

(* The sum over a finite set is its entry in any of its tables.            *)
LEMMA SumInTable ==
    ASSUME NEW f, NEW S, IsFiniteSet(S), NEW g, IsTotal(f, S, g)
    PROVE  \A s \in SUBSET S : SumFunctionOnSet(f, s) = g[s]
<1> SUFFICES ASSUME NEW s \in SUBSET S
             PROVE  SumFunctionOnSet(f, s) = g[s]
  OBVIOUS
<1> DEFINE h == CHOOSE k : IsTotal(f, s, k)
<1>1. IsFiniteSet(s)
  BY FS_Subset
<1>2. IsTotal(f, s, h)
  BY <1>1, TotalExists
<1>3. SumFunctionOnSet(f, s) = h[s]
  BY SumByTable
<1> HIDE DEF h
<1>4. QED
  BY <1>2, <1>3, TotalsAgree

-----------------------------------------------------------------------------
(* Nothing sums up to nothing.                                             *)
LEMMA SumEmpty ==
    ASSUME NEW f
    PROVE  SumFunctionOnSet(f, {}) = 0
<1>1. IsFiniteSet({})
  BY FS_EmptySet
<1>2. PICK g : IsTotal(f, {}, g)
  BY <1>1, TotalExists
<1>3. QED
  BY <1>1, <1>2, SumInTable, TotalAt

(* The sum is made by taking one element after the other.                  *)
LEMMA SumPick ==
    ASSUME NEW f, NEW S, IsFiniteSet(S), S # {}
    PROVE  SumFunctionOnSet(f, S) = f[Pick(S)] + SumFunctionOnSet(f, S \ {Pick(S)})
<1>1. PICK g : IsTotal(f, S, g)
  BY TotalExists
<1>2. SumFunctionOnSet(f, S) = g[S] /\ SumFunctionOnSet(f, S \ {Pick(S)}) = g[S \ {Pick(S)}]
  BY <1>1, SumInTable
<1>3. QED
  BY <1>1, <1>2, TotalAt

(* A sum of numbers is a number.                                           *)
LEMMA SumIsNat ==
    ASSUME NEW f, NEW S, IsFiniteSet(S), \A x \in S : f[x] \in Nat
    PROVE  SumFunctionOnSet(f, S) \in Nat
<1> DEFINE B == {u \in SUBSET S : SumFunctionOnSet(f, u) \notin Nat}
<1>1. SUFFICES ASSUME B # {} PROVE FALSE
  OBVIOUS
<1>2. PICK s \in B : \A t \in SUBSET s : t # s => t \notin B
  <2> HIDE DEF B
  <2>1. B \in SUBSET (SUBSET S)
    BY DEF B
  <2>2. QED
    BY <1>1, <2>1, LeastPart
<1>3. IsFiniteSet(s) /\ s \in SUBSET S /\ SumFunctionOnSet(f, s) \notin Nat
  BY <1>2, FS_Subset
<1>4. s # {}
  BY <1>3, SumEmpty
<1>5. Pick(s) \in s /\ s \ {Pick(s)} \in SUBSET s /\ s \ {Pick(s)} # s
  BY <1>4, PickIn
<1>6. SumFunctionOnSet(f, s \ {Pick(s)}) \in Nat
  BY <1>2, <1>3, <1>5
<1>7. f[Pick(s)] \in Nat
  BY <1>3, <1>5
<1>8. SumFunctionOnSet(f, s) = f[Pick(s)] + SumFunctionOnSet(f, s \ {Pick(s)})
  BY <1>3, <1>4, SumPick
<1>9. QED
  BY <1>3, <1>6, <1>7, <1>8

(* Any element may be taken first.                                         *)
LEMMA SumTake ==
    ASSUME NEW f, NEW S, IsFiniteSet(S), \A x \in S : f[x] \in Nat, NEW x \in S
    PROVE  SumFunctionOnSet(f, S) = f[x] + SumFunctionOnSet(f, S \ {x})
<1> DEFINE Sum(u) == SumFunctionOnSet(f, u)
           B == {u \in SUBSET S : \E y \in u : Sum(u) # f[y] + Sum(u \ {y})}
<1>1. SUFFICES ASSUME B # {} PROVE FALSE
  OBVIOUS
<1>2. PICK s \in B : \A t \in SUBSET s : t # s => t \notin B
  <2> HIDE DEF B
  <2>1. B \in SUBSET (SUBSET S)
    BY DEF B
  <2>2. QED
    BY <1>1, <2>1, LeastPart
<1>3. \A u \in SUBSET S : IsFiniteSet(u) /\ Sum(u) \in Nat
  BY FS_Subset, SumIsNat
<1>4. s \in SUBSET S
  BY <1>2
<1>5. PICK y \in s : Sum(s) # f[y] + Sum(s \ {y})
  BY <1>2
<1> DEFINE p == Pick(s)
<1>6. p \in s
  BY <1>5, PickIn
<1>7. Sum(s) = f[p] + Sum(s \ {p})
  BY <1>3, <1>4, <1>5, SumPick
<1> HIDE DEF p, Sum
<1>8. p # y
  BY <1>5, <1>7
<1>9. \A t \in SUBSET s : t # s => \A z \in t : Sum(t) = f[z] + Sum(t \ {z})
  BY <1>2, <1>4
<1>10. Sum(s \ {p}) = f[y] + Sum((s \ {p}) \ {y})
  BY <1>5, <1>6, <1>8, <1>9
<1>11. Sum(s \ {y}) = f[p] + Sum((s \ {y}) \ {p})
  BY <1>5, <1>6, <1>8, <1>9
<1>12. (s \ {p}) \ {y} = (s \ {y}) \ {p}
  OBVIOUS
<1>13. f[p] \in Nat /\ f[y] \in Nat /\ Sum((s \ {p}) \ {y}) \in Nat
  BY <1>3, <1>4, <1>5, <1>6
<1>14. QED
  BY <1>5, <1>7, <1>10, <1>11, <1>12, <1>13

(* Functions that agree on a set have one sum over it.                     *)
LEMMA SumAgree ==
    ASSUME NEW f, NEW g, NEW S, IsFiniteSet(S), \A x \in S : f[x] = g[x]
    PROVE  SumFunctionOnSet(f, S) = SumFunctionOnSet(g, S)
<1> DEFINE B == {u \in SUBSET S : SumFunctionOnSet(f, u) # SumFunctionOnSet(g, u)}
<1>1. SUFFICES ASSUME B # {} PROVE FALSE
  OBVIOUS
<1>2. PICK s \in B : \A t \in SUBSET s : t # s => t \notin B
  <2> HIDE DEF B
  <2>1. B \in SUBSET (SUBSET S)
    BY DEF B
  <2>2. QED
    BY <1>1, <2>1, LeastPart
<1>3. IsFiniteSet(s) /\ s \in SUBSET S /\ SumFunctionOnSet(f, s) # SumFunctionOnSet(g, s)
  BY <1>2, FS_Subset
<1>4. s # {}
  BY <1>3, SumEmpty
<1>5. Pick(s) \in s /\ s \ {Pick(s)} \in SUBSET s /\ s \ {Pick(s)} # s
  BY <1>4, PickIn
<1>6. SumFunctionOnSet(f, s \ {Pick(s)}) = SumFunctionOnSet(g, s \ {Pick(s)})
  BY <1>2, <1>3, <1>5
<1>7. QED
  BY <1>3, <1>4, <1>5, <1>6, SumPick

(* A sum follows a change of the function at one point.                    *)
LEMMA SumChange ==
    ASSUME NEW f, NEW g, NEW S, IsFiniteSet(S), NEW x \in S,
           \A y \in S : f[y] \in Nat /\ g[y] \in Nat,
           \A y \in S \ {x} : f[y] = g[y]
    PROVE  SumFunctionOnSet(f, S) + g[x] = SumFunctionOnSet(g, S) + f[x]
<1>1. IsFiniteSet(S \ {x})
  BY FS_Subset
<1>2. SumFunctionOnSet(f, S \ {x}) = SumFunctionOnSet(g, S \ {x})
  BY <1>1, SumAgree
<1>3. SumFunctionOnSet(f, S \ {x}) \in Nat
  BY <1>1, SumIsNat
<1>4. SumFunctionOnSet(f, S) = f[x] + SumFunctionOnSet(f, S \ {x})
  BY SumTake
<1>5. SumFunctionOnSet(g, S) = g[x] + SumFunctionOnSet(g, S \ {x})
  BY SumTake
<1>6. f[x] \in Nat /\ g[x] \in Nat
  OBVIOUS
<1>7. QED
  BY <1>2, <1>3, <1>4, <1>5, <1>6

(* A sum of zeros is zero.                                                 *)
LEMMA SumZero ==
    ASSUME NEW f, NEW S, IsFiniteSet(S), \A x \in S : f[x] = 0
    PROVE  SumFunctionOnSet(f, S) = 0
<1> DEFINE B == {u \in SUBSET S : SumFunctionOnSet(f, u) # 0}
<1>1. SUFFICES ASSUME B # {} PROVE FALSE
  OBVIOUS
<1>2. PICK s \in B : \A t \in SUBSET s : t # s => t \notin B
  <2> HIDE DEF B
  <2>1. B \in SUBSET (SUBSET S)
    BY DEF B
  <2>2. QED
    BY <1>1, <2>1, LeastPart
<1>3. IsFiniteSet(s) /\ s \in SUBSET S /\ SumFunctionOnSet(f, s) # 0
  BY <1>2, FS_Subset
<1>4. s # {}
  BY <1>3, SumEmpty
<1>5. Pick(s) \in s /\ s \ {Pick(s)} \in SUBSET s /\ s \ {Pick(s)} # s
  BY <1>4, PickIn
<1>6. SumFunctionOnSet(f, s \ {Pick(s)}) = 0 /\ f[Pick(s)] = 0
  BY <1>2, <1>3, <1>5
<1>7. QED
  BY <1>3, <1>4, <1>6, SumPick

(* What is nothing can be left out of a sum.                               *)
LEMMA SumOfPart ==
    ASSUME NEW f, NEW S, IsFiniteSet(S), \A x \in S : f[x] \in Nat,
           NEW T \in SUBSET S, \A x \in S \ T : f[x] = 0
    PROVE  SumFunctionOnSet(f, S) = SumFunctionOnSet(f, T)
<1> DEFINE Sum(u) == SumFunctionOnSet(f, u)
           B == {u \in SUBSET S : Sum(u) # Sum(u \cap T)}
<1>1. SUFFICES ASSUME B # {} PROVE FALSE
  <2>1. S \in SUBSET S /\ S \cap T = T
    OBVIOUS
  <2>2. QED
    BY <1>1, <2>1
<1>2. PICK s \in B : \A t \in SUBSET s : t # s => t \notin B
  <2> HIDE DEF B
  <2>1. B \in SUBSET (SUBSET S)
    BY DEF B
  <2>2. QED
    BY <1>1, <2>1, LeastPart
<1>3. IsFiniteSet(s) /\ IsFiniteSet(s \cap T) /\ s \in SUBSET S /\ Sum(s) # Sum(s \cap T)
  BY <1>2, FS_Subset
<1>4. s # {}
  <2>1. {} \cap T = {}
    OBVIOUS
  <2>2. QED
    BY <1>3, <2>1
<1>5. PICK x \in s : TRUE
  BY <1>4
<1>6. s \ {x} \in SUBSET s /\ s \ {x} # s /\ s \ {x} \in SUBSET S
  BY <1>3, <1>5
<1>7. Sum(s \ {x}) = Sum((s \ {x}) \cap T)
  BY <1>2, <1>6
<1>8. \A y \in S : f[y] \in Nat
  OBVIOUS
<1>9. Sum(s) = f[x] + Sum(s \ {x})
  BY <1>3, <1>5, <1>8, SumTake
<1>10. Sum(s \ {x}) \in Nat
  <2>1. IsFiniteSet(s \ {x})
    BY <1>3, FS_Subset
  <2>2. QED
    BY <1>6, <1>8, <2>1, SumIsNat
<1>11. CASE x \in T
  <2>1. x \in s \cap T /\ (s \cap T) \ {x} = (s \ {x}) \cap T
    BY <1>5, <1>11
  <2>2. \A y \in s \cap T : f[y] \in Nat
    BY <1>3, <1>8
  <2>3. Sum(s \cap T) = f[x] + Sum((s \cap T) \ {x})
    BY <1>3, <2>1, <2>2, SumTake
  <2>4. QED
    BY <1>3, <1>7, <1>9, <2>1, <2>3
<1>12. CASE x \notin T
  <2>1. f[x] = 0 /\ (s \ {x}) \cap T = s \cap T
    BY <1>3, <1>5, <1>12
  <2>2. Sum(s \ {x}) = Sum(s \cap T)
    BY <1>7, <2>1, Zenon
  <2>3. f[x] + Sum(s \ {x}) = Sum(s \ {x})
    BY <1>10, <2>1
  <2>4. QED
    BY <1>3, <1>9, <2>2, <2>3
<1>13. QED
  BY <1>11, <1>12

-----------------------------------------------------------------------------
(* Sums along a sequence.                                                  *)

\* The places after the given ones.
Shifted(places) == {i + 1 : i \in places}

(* The values of a function read one place further on.                     *)
LEMMA SumShift ==
    ASSUME NEW n \in Nat, NEW f, NEW g, \A i \in 1..(n + 1) : f[i] \in Nat,
           \A i \in 1..n : g[i] = f[i + 1]
    PROVE  SumFunctionOnSet(g, 1..n) = SumFunctionOnSet(f, Shifted(1..n))
<1> DEFINE B == {u \in SUBSET (1..n) : SumFunctionOnSet(g, u) # SumFunctionOnSet(f, Shifted(u))}
<1>1. SUFFICES ASSUME B # {} PROVE FALSE
  OBVIOUS
<1>2. IsFiniteSet(1..n) /\ IsFiniteSet(1..(n + 1))
  BY FS_Interval
<1>3. PICK s \in B : \A t \in SUBSET s : t # s => t \notin B
  <2> HIDE DEF B
  <2>1. B \in SUBSET (SUBSET (1..n))
    BY DEF B
  <2>2. QED
    BY <1>1, <1>2, <2>1, LeastPart
<1>4. /\ s \in SUBSET (1..n) /\ IsFiniteSet(s)
      /\ SumFunctionOnSet(g, s) # SumFunctionOnSet(f, Shifted(s))
  BY <1>2, <1>3, FS_Subset
<1>5. s # {}
  <2>1. Shifted({}) = {}
    BY DEF Shifted
  <2>2. QED
    BY <1>4, <2>1, SumEmpty
<1> DEFINE x == Pick(s)
<1>6. x \in s /\ s \ {x} \in SUBSET s /\ s \ {x} # s
  BY <1>5, PickIn
<1>7. SumFunctionOnSet(g, s) = g[x] + SumFunctionOnSet(g, s \ {x})
  BY <1>4, <1>5, SumPick
<1>8. SumFunctionOnSet(g, s \ {x}) = SumFunctionOnSet(f, Shifted(s \ {x}))
  BY <1>3, <1>4, <1>6
<1> HIDE DEF x
<1>9. x \in 1..n /\ x \in Int
  BY <1>4, <1>6
<1>10. Shifted(s) \in SUBSET (1..(n + 1)) /\ x + 1 \in Shifted(s)
  BY <1>4, <1>6 DEF Shifted
<1>11. Shifted(s) \ {x + 1} = Shifted(s \ {x})
  BY <1>4, <1>9 DEF Shifted
<1>12. IsFiniteSet(Shifted(s))
  BY <1>2, <1>10, FS_Subset
<1>13. SumFunctionOnSet(f, Shifted(s)) = f[x + 1] + SumFunctionOnSet(f, Shifted(s \ {x}))
  BY <1>10, <1>11, <1>12, SumTake
<1>14. QED
  BY <1>4, <1>7, <1>8, <1>9, <1>13

(* The first value of a sequence is added to the sum of the others.        *)
LEMMA SumTail ==
    ASSUME NEW n \in Nat, NEW f, NEW g, \A i \in 1..(n + 1) : f[i] \in Nat,
           \A i \in 1..n : g[i] = f[i + 1]
    PROVE  SumFunctionOnSet(f, 1..(n + 1)) = f[1] + SumFunctionOnSet(g, 1..n)
<1>1. IsFiniteSet(1..(n + 1)) /\ 1 \in 1..(n + 1)
  BY FS_Interval
<1>2. SumFunctionOnSet(f, 1..(n + 1)) = f[1] + SumFunctionOnSet(f, (1..(n + 1)) \ {1})
  <2> DEFINE S == 1..(n + 1)
  <2>1. IsFiniteSet(S) /\ 1 \in S /\ \A i \in S : f[i] \in Nat
    BY <1>1
  <2> HIDE DEF S
  <2>2. SumFunctionOnSet(f, S) = f[1] + SumFunctionOnSet(f, S \ {1})
    BY <2>1, SumTake
  <2>3. QED
    BY <2>2 DEF S
<1>3. (1..(n + 1)) \ {1} = Shifted(1..n)
  <2>1. ASSUME NEW i \in (1..(n + 1)) \ {1}
        PROVE  i \in Shifted(1..n)
    <3>1. i - 1 \in 1..n /\ i = (i - 1) + 1
      OBVIOUS
    <3>2. QED
      BY <3>1 DEF Shifted
  <2>2. ASSUME NEW i \in Shifted(1..n)
        PROVE  i \in (1..(n + 1)) \ {1}
    <3>1. PICK j \in 1..n : i = j + 1
      BY DEF Shifted
    <3>2. QED
      BY <3>1
  <2>3. QED
    BY <2>1, <2>2
<1>4. QED
  BY <1>2, <1>3, SumShift

(* The last value of a sequence is added to the sum of the others.         *)
LEMMA SumLast ==
    ASSUME NEW n \in Nat, NEW f, NEW g, \A i \in 1..(n + 1) : f[i] \in Nat,
           \A i \in 1..n : g[i] = f[i]
    PROVE  SumFunctionOnSet(f, 1..(n + 1)) = f[n + 1] + SumFunctionOnSet(g, 1..n)
<1>1. IsFiniteSet(1..(n + 1)) /\ IsFiniteSet(1..n) /\ n + 1 \in 1..(n + 1)
  BY FS_Interval
<1>2. (1..(n + 1)) \ {n + 1} = 1..n
  OBVIOUS
<1>3. SumFunctionOnSet(f, 1..(n + 1)) = f[n + 1] + SumFunctionOnSet(f, 1..n)
  BY <1>1, <1>2, SumTake
<1>4. SumFunctionOnSet(f, 1..n) = SumFunctionOnSet(g, 1..n)
  BY <1>1, SumAgree
<1>5. QED
  BY <1>3, <1>4

\* The worth of a sequence, when each of its members has a worth.
WorthOf(W, q) == SumFunctionOnSet([i \in 1..Len(q) |-> W[q[i]]], 1..Len(q))

(* The worth of a sequence is a number, and nothing if each member's is.   *)
LEMMA WorthIsNat ==
    ASSUME NEW S, NEW W \in [S -> Nat], NEW q \in Seq(S)
    PROVE  /\ WorthOf(W, q) \in Nat
           /\ (\A i \in 1..Len(q) : W[q[i]] = 0) => WorthOf(W, q) = 0
<1> DEFINE f == [i \in 1..Len(q) |-> W[q[i]]]
           P == 1..Len(q)
<1>1. IsFiniteSet(P)
  BY FS_Interval
<1>2. \A i \in P : f[i] = W[q[i]] /\ f[i] \in Nat
  OBVIOUS
<1>3. WorthOf(W, q) = SumFunctionOnSet(f, P)
  BY DEF WorthOf
<1> HIDE DEF f, P
<1>4. WorthOf(W, q) \in Nat
  BY <1>1, <1>2, <1>3, SumIsNat
<1>5. (\A i \in P : W[q[i]] = 0) => WorthOf(W, q) = 0
  BY <1>1, <1>2, <1>3, SumZero
<1>6. QED
  BY <1>4, <1>5 DEF P

(* A member that is appended adds its worth.                               *)
LEMMA WorthOfAppend ==
    ASSUME NEW S, NEW W \in [S -> Nat], NEW q \in Seq(S), NEW x \in S
    PROVE  WorthOf(W, Append(q, x)) = WorthOf(W, q) + W[x]
<1> DEFINE n == Len(q)
           r == Append(q, x)
           f == [i \in 1..Len(r) |-> W[r[i]]]
           g == [i \in 1..Len(q) |-> W[q[i]]]
<1>1. /\ n \in Nat /\ Len(r) = n + 1 /\ r \in Seq(S) /\ r[n + 1] = x
      /\ \A i \in 1..n : r[i] = q[i]
  OBVIOUS
<1>2. WorthOf(W, r) = SumFunctionOnSet(f, 1..(n + 1)) /\ WorthOf(W, q) = SumFunctionOnSet(g, 1..n)
  BY <1>1 DEF WorthOf
<1>3. /\ \A i \in 1..(n + 1) : f[i] \in Nat
      /\ \A i \in 1..n : g[i] = f[i]
      /\ f[n + 1] = W[x]
  BY <1>1
<1>4. WorthOf(W, q) \in Nat
  BY WorthIsNat
<1> HIDE DEF n, r, f, g
<1>5. SumFunctionOnSet(f, 1..(n + 1)) = f[n + 1] + SumFunctionOnSet(g, 1..n)
  BY <1>1, <1>3, SumLast
<1>6. WorthOf(W, r) = WorthOf(W, q) + W[x]
  BY <1>2, <1>3, <1>4, <1>5
<1>7. QED
  BY <1>6 DEF r

(* The member in front takes its worth along.                              *)
LEMMA WorthOfTail ==
    ASSUME NEW S, NEW W \in [S -> Nat], NEW q \in Seq(S), q # <<>>
    PROVE  WorthOf(W, q) = W[Head(q)] + WorthOf(W, Tail(q))
<1> DEFINE r == Tail(q)
           n == Len(r)
           f == [i \in 1..Len(q) |-> W[q[i]]]
           g == [i \in 1..Len(r) |-> W[r[i]]]
<1>1. /\ r \in Seq(S) /\ n \in Nat /\ Len(q) = n + 1 /\ Head(q) = q[1]
      /\ \A i \in 1..n : r[i] = q[i + 1]
  OBVIOUS
<1>2. WorthOf(W, q) = SumFunctionOnSet(f, 1..(n + 1)) /\ WorthOf(W, r) = SumFunctionOnSet(g, 1..n)
  BY <1>1 DEF WorthOf
<1>3. /\ \A i \in 1..(n + 1) : f[i] \in Nat
      /\ \A i \in 1..n : g[i] = f[i + 1]
      /\ f[1] = W[Head(q)]
  BY <1>1
<1> HIDE DEF n, f, g
<1>4. SumFunctionOnSet(f, 1..(n + 1)) = f[1] + SumFunctionOnSet(g, 1..n)
  BY <1>1, <1>3, SumTail
<1>5. QED
  BY <1>2, <1>3, <1>4

(* The members at the end that are worth nothing can be cut off.           *)
LEMMA WorthOfPrefix ==
    ASSUME NEW S, NEW W \in [S -> Nat], NEW q \in Seq(S), NEW n \in 0..Len(q),
           NEW r \in Seq(S), Len(r) = n, \A i \in 1..n : r[i] = q[i],
           \A i \in (n + 1)..Len(q) : W[q[i]] = 0
    PROVE  WorthOf(W, r) = WorthOf(W, q)
<1> DEFINE f == [i \in 1..Len(q) |-> W[q[i]]]
           g == [i \in 1..Len(r) |-> W[r[i]]]
           P == 1..Len(q)
           T == 1..n
<1>1. /\ \A i \in P : f[i] \in Nat
      /\ \A i \in T : i \in P /\ g[i] = f[i]
      /\ \A i \in P \ T : f[i] = 0
  OBVIOUS
<1>2. IsFiniteSet(P) /\ IsFiniteSet(T)
  BY FS_Interval
<1>3. WorthOf(W, q) = SumFunctionOnSet(f, P) /\ WorthOf(W, r) = SumFunctionOnSet(g, T)
  BY DEF WorthOf
<1> HIDE DEF f, g, P, T
<1>4. SumFunctionOnSet(f, P) = SumFunctionOnSet(f, T)
  BY <1>1, <1>2, SumOfPart
<1>5. SumFunctionOnSet(g, T) = SumFunctionOnSet(f, T)
  BY <1>1, <1>2, SumAgree
<1>6. QED
  BY <1>3, <1>4, <1>5
=============================================================================
