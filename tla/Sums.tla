-------------------------------- MODULE Sums --------------------------------
(* Facts about sums over finite sets, as SumFunctionOnSet computes them:   *)
(* one element at a time, in an order of its own.  Induction over a finite *)
(* set is an argument about the smallest subset that has no such value.    *)
EXTENDS FiniteSetsExt, FiniteSetTheorems, WellFoundedInduction, TLAPS

Pick(s) == CHOOSE x \in s : TRUE

(* F holds the sums of f over the subsets of S.                            *)
SumsUp(F, f, S) ==
  F = [s \in SUBSET S |-> IF s = {} THEN 0 ELSE f[Pick(s)] + F[s \ {Pick(s)}]]

LEMMA SumIsLast ==
  ASSUME NEW f, NEW S
  PROVE  SumFunctionOnSet(f, S) = (CHOOSE F : SumsUp(F, f, S))[S]
BY DEF SumFunctionOnSet, FoldFunctionOnSet, MapThenFoldSet, SumsUp, Pick

-----------------------------------------------------------------------------
(* Among finite sets there is a smallest one.                              *)
LEMMA SmallestSet ==
  ASSUME NEW Q, Q # {}, \A s \in Q : IsFiniteSet(s)
  PROVE  \E s \in Q : \A x \in s : s \ {x} \notin Q
<1> DEFINE Sizes == {Cardinality(s) : s \in Q}
<1>1. Sizes \subseteq Nat /\ Sizes # {}
  BY FS_CardinalityType
<1>2. PICK n \in Sizes : \A m \in Sizes : <<m, n>> \notin OpToRel(<, Nat)
  BY <1>1, NatLessThanWellFounded, WFMin, Zenon
<1>3. PICK s \in Q : Cardinality(s) = n
  OBVIOUS
<1>4. ASSUME NEW x \in s, s \ {x} \in Q
      PROVE  FALSE
  <2>1. Cardinality(s \ {x}) = n - 1 /\ n \in Nat
    BY <1>1, <1>3, FS_RemoveElement
  <2>2. Cardinality(s \ {x}) \in Sizes
    BY <1>4
  <2>3. <<n - 1, n>> \in OpToRel(<, Nat)
    BY <1>1, <2>1, <2>2 DEF OpToRel
  <2>4. QED
    BY <1>2, <2>1, <2>2, <2>3
<1>5. QED
  BY <1>4

LEMMA PickIn == ASSUME NEW s, s # {} PROVE Pick(s) \in s
BY DEF Pick

LEMMA Fewer ==
  ASSUME NEW S, IsFiniteSet(S), NEW x PROVE IsFiniteSet(S \ {x})
BY FS_RemoveElement

(* What is computed for a set does not depend on the set it is part of.    *)
LEMMA SumsAgree ==
  ASSUME NEW f, NEW A, NEW B, NEW F, NEW G, SumsUp(F, f, A), SumsUp(G, f, B),
         NEW S, IsFiniteSet(S), S \subseteq A, S \subseteq B
  PROVE  F[S] = G[S]
<1> DEFINE Q == {s \in SUBSET S : F[s] # G[s]}
<1> SUFFICES ASSUME Q # {} PROVE FALSE
  OBVIOUS
<1>1. \A s \in Q : IsFiniteSet(s)
  BY FS_Subset
<1>2. PICK s \in Q : \A x \in s : s \ {x} \notin Q
  BY <1>1, SmallestSet
<1>3. s # {} /\ Pick(s) \in s
  <2>1. F[{}] = 0 /\ G[{}] = 0
    BY DEF SumsUp
  <2>2. s # {}
    BY <2>1
  <2>3. QED
    BY <2>2, PickIn
<1>4. F[s \ {Pick(s)}] = G[s \ {Pick(s)}]
  BY <1>2, <1>3
<1>5. /\ F[s] = f[Pick(s)] + F[s \ {Pick(s)}]
      /\ G[s] = f[Pick(s)] + G[s \ {Pick(s)}]
  BY <1>3 DEF SumsUp
<1>6. QED
  BY <1>4, <1>5

(* The recursion has a solution over every finite set.                     *)
LEMMA SumsExist ==
  ASSUME NEW f, NEW S, IsFiniteSet(S)
  PROVE  \E F : SumsUp(F, f, S)
<1> DEFINE Q == {s \in SUBSET S : ~\E F : SumsUp(F, f, s)}
           Value(s) == (CHOOSE F : SumsUp(F, f, s))[s]
<1> SUFFICES ASSUME Q # {} PROVE FALSE
  OBVIOUS
<1>1. \A s \in Q : IsFiniteSet(s)
  BY FS_Subset
<1>2. PICK s \in Q : \A x \in s : s \ {x} \notin Q
  BY <1>1, SmallestSet
<1>3. ASSUME NEW t \in SUBSET s, t # s
      PROVE  \E F : SumsUp(F, f, t)
  <2>1. PICK x \in s : x \notin t
    BY <1>3
  <2>2. PICK F : SumsUp(F, f, s \ {x})
    BY <1>2
  <2>3. SumsUp([u \in SUBSET t |-> F[u]], f, t)
    <3>1. ASSUME NEW u \in SUBSET t
          PROVE  F[u] = IF u = {} THEN 0 ELSE f[Pick(u)] + F[u \ {Pick(u)}]
      BY <2>1, <2>2 DEF SumsUp
    <3>2. \A u \in SUBSET t : u \ {Pick(u)} \in SUBSET t
      OBVIOUS
    <3>3. QED
      BY <3>1, <3>2 DEF SumsUp
  <2>4. QED
    BY <2>3
<1> DEFINE F == [t \in SUBSET s |-> IF t = {} THEN 0
                                   ELSE f[Pick(t)] + Value(t \ {Pick(t)})]
<1>4. ASSUME NEW t \in SUBSET s, t # s
      PROVE  F[t] = Value(t)
  <2>1. SumsUp(CHOOSE H : SumsUp(H, f, t), f, t)
    BY <1>3, <1>4
  <2>2. CASE t = {}
    BY <2>1, <2>2 DEF SumsUp
  <2>3. CASE t # {}
    <3> DEFINE u == t \ {Pick(t)}
    <3>1. u \in SUBSET s /\ u # s /\ IsFiniteSet(u)
      BY <1>1, <2>3, PickIn, FS_Subset
    <3>2. SumsUp(CHOOSE H : SumsUp(H, f, u), f, u)
      BY <1>3, <3>1
    <3>3. (CHOOSE H : SumsUp(H, f, t))[u] = Value(u)
      BY <2>1, <3>1, <3>2, SumsAgree
    <3>4. Value(t) = f[Pick(t)] + (CHOOSE H : SumsUp(H, f, t))[u]
      BY <2>1, <2>3 DEF SumsUp
    <3>5. QED
      BY <2>3, <3>3, <3>4
  <2>4. QED
    BY <2>2, <2>3
<1>5. SumsUp(F, f, s)
  <2>1. ASSUME NEW t \in SUBSET s, t # {}
        PROVE  F[t] = f[Pick(t)] + F[t \ {Pick(t)}]
    <3>1. t \ {Pick(t)} \in SUBSET s /\ t \ {Pick(t)} # s
      BY <2>1, PickIn
    <3>2. F[t \ {Pick(t)}] = Value(t \ {Pick(t)})
      BY <1>4, <3>1
    <3>3. QED
      BY <2>1, <3>2
  <2>2. F[{}] = 0 /\ F = [t \in SUBSET s |-> F[t]]
    OBVIOUS
  <2> HIDE DEF F
  <2>3. QED
    BY <2>1, <2>2 DEF SumsUp
<1>6. QED
  BY <1>2, <1>5

-----------------------------------------------------------------------------
(* The recursion, and its independence of the order.                       *)
LEMMA SumSolves ==
  ASSUME NEW f, NEW S, IsFiniteSet(S)
  PROVE  \E F : SumsUp(F, f, S) /\ SumFunctionOnSet(f, S) = F[S]
BY SumsExist, SumIsLast

LEMMA SumEmpty == ASSUME NEW f PROVE SumFunctionOnSet(f, {}) = 0
<1>1. PICK F : SumsUp(F, f, {}) /\ SumFunctionOnSet(f, {}) = F[{}]
  BY SumSolves, FS_EmptySet
<1>2. {} \in SUBSET {}
  OBVIOUS
<1>3. QED
  BY <1>1, <1>2 DEF SumsUp

LEMMA SumPick ==
  ASSUME NEW f, NEW S, IsFiniteSet(S), S # {}
  PROVE  SumFunctionOnSet(f, S) = f[Pick(S)] + SumFunctionOnSet(f, S \ {Pick(S)})
<1>1. PICK F : SumsUp(F, f, S) /\ SumFunctionOnSet(f, S) = F[S]
  BY SumSolves
<1>2. IsFiniteSet(S \ {Pick(S)})
  BY Fewer
<1>3. PICK G : SumsUp(G, f, S \ {Pick(S)})
               /\ SumFunctionOnSet(f, S \ {Pick(S)}) = G[S \ {Pick(S)}]
  BY <1>2, SumSolves
<1>4. F[S \ {Pick(S)}] = G[S \ {Pick(S)}]
  BY <1>1, <1>2, <1>3, SumsAgree
<1>5. F[S] = f[Pick(S)] + F[S \ {Pick(S)}]
  BY <1>1 DEF SumsUp
<1>6. QED
  BY <1>1, <1>3, <1>4, <1>5

LEMMA SumInt ==
  ASSUME NEW f, NEW S, IsFiniteSet(S), \A x \in S : f[x] \in Int
  PROVE  SumFunctionOnSet(f, S) \in Int
<1> DEFINE Q == {s \in SUBSET S : SumFunctionOnSet(f, s) \notin Int}
<1> SUFFICES ASSUME Q # {} PROVE FALSE
  OBVIOUS
<1>1. \A s \in Q : IsFiniteSet(s)
  BY FS_Subset
<1>2. PICK s \in Q : \A x \in s : s \ {x} \notin Q
  BY <1>1, SmallestSet
<1>3. s # {} /\ Pick(s) \in s
  BY SumEmpty, PickIn
<1>4. SumFunctionOnSet(f, s \ {Pick(s)}) \in Int
  BY <1>2, <1>3
<1>5. SumFunctionOnSet(f, s) = f[Pick(s)] + SumFunctionOnSet(f, s \ {Pick(s)})
  BY <1>1, <1>3, SumPick
<1>6. QED
  BY <1>3, <1>4, <1>5

(* Any element may be taken out of a sum.                                  *)
LEMMA SumRemove ==
  ASSUME NEW f, NEW S, IsFiniteSet(S), \A x \in S : f[x] \in Int, NEW y \in S
  PROVE  SumFunctionOnSet(f, S) = f[y] + SumFunctionOnSet(f, S \ {y})
<1> DEFINE Splits(s) ==
             \A x \in s :
               SumFunctionOnSet(f, s) = f[x] + SumFunctionOnSet(f, s \ {x})
           Q == {s \in SUBSET S : ~Splits(s)}
<1> SUFFICES ASSUME Q # {} PROVE FALSE
  OBVIOUS
<1>1. \A s \in SUBSET S : IsFiniteSet(s) /\ SumFunctionOnSet(f, s) \in Int
  BY FS_Subset, SumInt
<1>2. PICK s \in Q : \A x \in s : s \ {x} \notin Q
  BY <1>1, SmallestSet
<1>3. PICK x \in s : SumFunctionOnSet(f, s) # f[x] + SumFunctionOnSet(f, s \ {x})
  OBVIOUS
<1>4. /\ Pick(s) \in s
      /\ SumFunctionOnSet(f, s)
           = f[Pick(s)] + SumFunctionOnSet(f, s \ {Pick(s)})
  BY <1>1, <1>3, PickIn, SumPick
<1>5. x # Pick(s)
  BY <1>3, <1>4
<1> DEFINE r == (s \ {x}) \ {Pick(s)}
<1>6. r = (s \ {Pick(s)}) \ {x}
  OBVIOUS
<1>7. Splits(s \ {Pick(s)}) /\ Splits(s \ {x})
  BY <1>2, <1>4
<1>8. SumFunctionOnSet(f, s \ {Pick(s)}) = f[x] + SumFunctionOnSet(f, r)
  BY <1>5, <1>6, <1>7
<1>9. SumFunctionOnSet(f, s \ {x}) = f[Pick(s)] + SumFunctionOnSet(f, r)
  BY <1>4, <1>5, <1>7
<1>10. f[x] \in Int /\ f[Pick(s)] \in Int /\ SumFunctionOnSet(f, r) \in Int
  BY <1>1, <1>4
<1>11. QED
  BY <1>3, <1>4, <1>8, <1>9, <1>10

LEMMA SumAdd ==
  ASSUME NEW f, NEW S, IsFiniteSet(S), \A x \in S : f[x] \in Int,
         NEW y, y \notin S, f[y] \in Int
  PROVE  SumFunctionOnSet(f, S \cup {y}) = f[y] + SumFunctionOnSet(f, S)
<1>1. IsFiniteSet(S \cup {y}) /\ (S \cup {y}) \ {y} = S
  BY FS_AddElement
<1>2. QED
  BY <1>1, SumRemove

-----------------------------------------------------------------------------
(* Comparing sums.                                                         *)

(* A sum is the sum of the values: functions that agree have the same.     *)
LEMMA SumSame ==
  ASSUME NEW f, NEW g, NEW S, IsFiniteSet(S), \A x \in S : f[x] = g[x]
  PROVE  SumFunctionOnSet(f, S) = SumFunctionOnSet(g, S)
<1> DEFINE Q == {s \in SUBSET S : SumFunctionOnSet(f, s) # SumFunctionOnSet(g, s)}
<1> SUFFICES ASSUME Q # {} PROVE FALSE
  OBVIOUS
<1>1. \A s \in Q : IsFiniteSet(s)
  BY FS_Subset
<1>2. PICK s \in Q : \A x \in s : s \ {x} \notin Q
  BY <1>1, SmallestSet
<1>3. s # {} /\ Pick(s) \in s
  BY SumEmpty, PickIn
<1>4. SumFunctionOnSet(f, s \ {Pick(s)}) = SumFunctionOnSet(g, s \ {Pick(s)})
  BY <1>2, <1>3
<1>5. /\ SumFunctionOnSet(f, s) = f[Pick(s)] + SumFunctionOnSet(f, s \ {Pick(s)})
      /\ SumFunctionOnSet(g, s) = g[Pick(s)] + SumFunctionOnSet(g, s \ {Pick(s)})
  BY <1>1, <1>3, SumPick
<1>6. QED
  BY <1>3, <1>4, <1>5

(* One changed value changes the sum by the difference.                    *)
LEMMA SumChange ==
  ASSUME NEW f, NEW g, NEW S, IsFiniteSet(S), NEW y \in S,
         \A x \in S : f[x] \in Int, g[y] \in Int,
         \A x \in S \ {y} : g[x] = f[x]
  PROVE  SumFunctionOnSet(g, S) = SumFunctionOnSet(f, S) - f[y] + g[y]
<1>1. /\ SumFunctionOnSet(f, S) = f[y] + SumFunctionOnSet(f, S \ {y})
      /\ SumFunctionOnSet(g, S) = g[y] + SumFunctionOnSet(g, S \ {y})
  BY SumRemove
<1>2. /\ SumFunctionOnSet(f, S \ {y}) = SumFunctionOnSet(g, S \ {y})
      /\ SumFunctionOnSet(f, S \ {y}) \in Int
  BY Fewer, SumSame, SumInt
<1>3. QED
  BY <1>1, <1>2

LEMMA SumNat ==
  ASSUME NEW f, NEW S, IsFiniteSet(S), \A x \in S : f[x] \in Nat
  PROVE  SumFunctionOnSet(f, S) \in Nat
<1> DEFINE Q == {s \in SUBSET S : SumFunctionOnSet(f, s) \notin Nat}
<1> SUFFICES ASSUME Q # {} PROVE FALSE
  OBVIOUS
<1>1. \A s \in Q : IsFiniteSet(s)
  BY FS_Subset
<1>2. PICK s \in Q : \A x \in s : s \ {x} \notin Q
  BY <1>1, SmallestSet
<1>3. s # {} /\ Pick(s) \in s
  BY SumEmpty, PickIn
<1>4. SumFunctionOnSet(f, s \ {Pick(s)}) \in Nat
  BY <1>2, <1>3
<1>5. SumFunctionOnSet(f, s) = f[Pick(s)] + SumFunctionOnSet(f, s \ {Pick(s)})
  BY <1>1, <1>3, SumPick
<1>6. QED
  BY <1>3, <1>4, <1>5

(* No value exceeds a sum of naturals.                                     *)
LEMMA SumBounds ==
  ASSUME NEW f, NEW S, IsFiniteSet(S), \A x \in S : f[x] \in Nat, NEW y \in S
  PROVE  f[y] <= SumFunctionOnSet(f, S)
<1>1. SumFunctionOnSet(f, S) = f[y] + SumFunctionOnSet(f, S \ {y})
  BY SumRemove
<1>2. SumFunctionOnSet(f, S \ {y}) \in Nat
  BY Fewer, SumNat
<1>3. QED
  BY <1>1, <1>2

LEMMA SumZero ==
  ASSUME NEW f, NEW S, IsFiniteSet(S), \A x \in S : f[x] = 0
  PROVE  SumFunctionOnSet(f, S) = 0
<1> DEFINE Q == {s \in SUBSET S : SumFunctionOnSet(f, s) # 0}
<1> SUFFICES ASSUME Q # {} PROVE FALSE
  OBVIOUS
<1>1. \A s \in Q : IsFiniteSet(s)
  BY FS_Subset
<1>2. PICK s \in Q : \A x \in s : s \ {x} \notin Q
  BY <1>1, SmallestSet
<1>3. s # {} /\ Pick(s) \in s
  BY SumEmpty, PickIn
<1>4. SumFunctionOnSet(f, s \ {Pick(s)}) = 0
  BY <1>2, <1>3
<1>5. SumFunctionOnSet(f, s) = f[Pick(s)] + SumFunctionOnSet(f, s \ {Pick(s)})
  BY <1>1, <1>3, SumPick
<1>6. QED
  BY <1>3, <1>4, <1>5

LEMMA SumPlus ==
  ASSUME NEW f, NEW g, NEW h, NEW S, IsFiniteSet(S),
         \A x \in S : f[x] \in Int /\ g[x] \in Int /\ h[x] = f[x] + g[x]
  PROVE  SumFunctionOnSet(h, S) = SumFunctionOnSet(f, S) + SumFunctionOnSet(g, S)
<1> DEFINE Adds(s) == SumFunctionOnSet(h, s)
                        = SumFunctionOnSet(f, s) + SumFunctionOnSet(g, s)
           Q == {s \in SUBSET S : ~Adds(s)}
<1> SUFFICES ASSUME Q # {} PROVE FALSE
  OBVIOUS
<1>1. \A s \in SUBSET S : IsFiniteSet(s)
  BY FS_Subset
<1>2. PICK s \in Q : \A x \in s : s \ {x} \notin Q
  BY <1>1, SmallestSet
<1>3. s # {} /\ Pick(s) \in s
  <2>1. Adds({})
    BY SumEmpty
  <2>2. QED
    BY <2>1, PickIn
<1> DEFINE t == s \ {Pick(s)}
<1>4. Adds(t) /\ IsFiniteSet(t) /\ t \subseteq S
  BY <1>1, <1>2, <1>3
<1>5. SumFunctionOnSet(f, t) \in Int /\ SumFunctionOnSet(g, t) \in Int
  BY <1>4, SumInt
<1>6. /\ SumFunctionOnSet(f, s) = f[Pick(s)] + SumFunctionOnSet(f, t)
      /\ SumFunctionOnSet(g, s) = g[Pick(s)] + SumFunctionOnSet(g, t)
      /\ SumFunctionOnSet(h, s) = h[Pick(s)] + SumFunctionOnSet(h, t)
  BY <1>1, <1>3, SumPick
<1>7. /\ f[Pick(s)] \in Int /\ g[Pick(s)] \in Int
      /\ h[Pick(s)] = f[Pick(s)] + g[Pick(s)]
  BY <1>3
<1>8. Adds(s)
  BY <1>4, <1>5, <1>6, <1>7
<1>9. QED
  BY <1>8

(* Larger values make a larger sum.                                        *)
LEMMA SumGrows ==
  ASSUME NEW f, NEW g, NEW S, IsFiniteSet(S),
         \A x \in S : f[x] \in Int /\ g[x] \in Int /\ f[x] <= g[x]
  PROVE  SumFunctionOnSet(f, S) <= SumFunctionOnSet(g, S)
<1> DEFINE d == [x \in S |-> g[x] - f[x]]
<1>1. \A x \in S : d[x] \in Nat /\ g[x] = f[x] + d[x]
  OBVIOUS
<1>2. SumFunctionOnSet(d, S) \in Nat
  BY <1>1, SumNat
<1>3. SumFunctionOnSet(f, S) \in Int
  BY SumInt
<1> HIDE DEF d
<1>4. SumFunctionOnSet(g, S) = SumFunctionOnSet(f, S) + SumFunctionOnSet(d, S)
  BY <1>1, SumPlus
<1>5. QED
  BY <1>2, <1>3, <1>4

(* The sum over two disjoint sets.                                         *)
LEMMA SumJoin ==
  ASSUME NEW f, NEW S, IsFiniteSet(S), NEW T, IsFiniteSet(T), S \cap T = {},
         \A x \in S \cup T : f[x] \in Int
  PROVE  SumFunctionOnSet(f, S \cup T)
           = SumFunctionOnSet(f, S) + SumFunctionOnSet(f, T)
<1> DEFINE Joins(t) == SumFunctionOnSet(f, S \cup t)
                         = SumFunctionOnSet(f, S) + SumFunctionOnSet(f, t)
           Q == {t \in SUBSET T : ~Joins(t)}
<1> SUFFICES ASSUME Q # {} PROVE FALSE
  OBVIOUS
<1>1. \A t \in SUBSET T : IsFiniteSet(t) /\ IsFiniteSet(S \cup t)
  BY FS_Subset, FS_Union
<1>2. PICK t \in Q : \A x \in t : t \ {x} \notin Q
  BY <1>1, SmallestSet
<1>3. SumFunctionOnSet(f, S) \in Int /\ S \cup {} = S
  BY SumInt
<1>4. t # {} /\ Pick(t) \in t
  BY <1>3, SumEmpty, PickIn
<1> DEFINE r == t \ {Pick(t)}
<1>5. Joins(r)
  BY <1>2, <1>4
<1>6. (S \cup t) \ {Pick(t)} = S \cup r /\ Pick(t) \in S \cup t
  BY <1>4
<1>7. SumFunctionOnSet(f, S \cup t) = f[Pick(t)] + SumFunctionOnSet(f, S \cup r)
  BY <1>1, <1>6, SumRemove
<1>8. SumFunctionOnSet(f, t) = f[Pick(t)] + SumFunctionOnSet(f, r)
  BY <1>1, <1>4, SumPick
<1>9. f[Pick(t)] \in Int /\ SumFunctionOnSet(f, r) \in Int
  BY <1>1, <1>4, SumInt
<1>10. Joins(t)
  BY <1>3, <1>5, <1>7, <1>8, <1>9
<1>11. QED
  BY <1>10

(* A sum over a part is a sum over the whole with zeros elsewhere.         *)
LEMMA SumWithin ==
  ASSUME NEW f, NEW g, NEW S, IsFiniteSet(S), NEW T, T \subseteq S,
         \A x \in T : f[x] \in Int /\ g[x] = f[x],
         \A x \in S \ T : g[x] = 0
  PROVE  SumFunctionOnSet(f, T) = SumFunctionOnSet(g, S)
<1>1. IsFiniteSet(T) /\ IsFiniteSet(S \ T)
  BY FS_Subset
<1>2. T \cap (S \ T) = {} /\ T \cup (S \ T) = S
  OBVIOUS
<1>3. SumFunctionOnSet(g, S)
        = SumFunctionOnSet(g, T) + SumFunctionOnSet(g, S \ T)
  <2>1. \A x \in T \cup (S \ T) : g[x] \in Int
    OBVIOUS
  <2>2. QED
    BY <1>1, <1>2, <2>1, SumJoin
<1>4. SumFunctionOnSet(g, S \ T) = 0
  BY <1>1, SumZero
<1>5. SumFunctionOnSet(f, T) = SumFunctionOnSet(g, T)
  BY <1>1, SumSame
<1>6. SumFunctionOnSet(g, T) \in Int
  BY <1>1, SumInt
<1>7. QED
  BY <1>3, <1>4, <1>5, <1>6

=============================================================================
