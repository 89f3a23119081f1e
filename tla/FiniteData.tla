------------------------------ MODULE FiniteData ------------------------------
(* What the other proofs need of numbers, loops and finite sets, each from a   *)
(* least counterexample: least numbers, loops as functions of their turns, and *)
(* sums.                                                                       *)
EXTENDS Integers, FiniteSets, Functions, Folds, FiniteSetTheorems, WellFoundedInduction, TLAPS

LEMMA LessThanOnNat == OpToRel(<, Nat) = {ss \in Nat \X Nat : ss[1] < ss[2]}
  BY DEF OpToRel

\* The least of a set of numbers.
LEMMA LeastOf ==
  ASSUME NEW some \in SUBSET Nat, some # {}
  PROVE  \E x \in some : \A y \in some : x <= y
<1>1. PICK x \in some : \A y \in some : ~ (<<y, x>> \in OpToRel(<, Nat))
  BY NatLessThanWellFounded, WFMin
<1>2. \A y \in some : ~ (y < x)
  BY <1>1, LessThanOnNat
<1> QED
  BY <1>2

\* What holds before the first turn and is kept by each holds after any.
LEMMA EveryTurn ==
  ASSUME NEW turns \in Nat, NEW good, 0 \in good,
         \A n \in 1 .. turns : n - 1 \in good => n \in good
  PROVE  \A n \in 0 .. turns : n \in good
<1> DEFINE bad == {n \in 0 .. turns : n \notin good}
<1>1. SUFFICES ASSUME bad # {} PROVE FALSE
  OBVIOUS
<1>2. PICK n \in bad : \A m \in bad : n <= m
  <2>1. bad \in SUBSET Nat
    OBVIOUS
  <2> HIDE DEF bad
  <2> QED
    BY <1>1, <2>1, LeastOf
<1>3. n \in 1 .. turns /\ n - 1 \notin bad /\ n - 1 \in 0 .. turns
  BY <1>2
<1> QED
  BY <1>2, <1>3

\* r is a loop that starts from x; h[n] is its n-th turn.
IsLoop(r, turns, x, h) == r = [n \in 0 .. turns |-> IF n = 0 THEN x ELSE h[n][r[n - 1]]]

\* There is a loop, if each turn takes what may be before it to what may be after it.
LEMMA LoopIs ==
  ASSUME NEW turns \in Nat, NEW may, NEW x \in may[0], NEW h,
         \A n \in 1 .. turns : \A s \in may[n - 1] : h[n][s] \in may[n]
  PROVE  \E r : IsLoop(r, turns, x, h) /\ \A n \in 0 .. turns : r[n] \in may[n]
<1> DEFINE Made(r, k) == /\ r = [n \in 0 .. k |-> r[n]]
                         /\ r[0] = x /\ \A n \in 0 .. k : r[n] \in may[n]
                         /\ \A n \in 1 .. k : r[n] = h[n][r[n - 1]]
           good == {k \in 0 .. turns : \E r : Made(r, k)}
<1>1. 0 \in good
  <2>1. Made([n \in 0 .. 0 |-> x], 0)
    OBVIOUS
  <2> HIDE DEF Made
  <2> QED
    BY <2>1
<1>2. ASSUME NEW k \in 1 .. turns, k - 1 \in good
      PROVE  k \in good
  <2>1. PICK r : Made(r, k - 1)
    BY <1>2
  <2> DEFINE new == [n \in 0 .. k |-> IF n = k THEN h[k][r[k - 1]] ELSE r[n]]
  <2>2. h[k][r[k - 1]] \in may[k]
    BY <2>1
  <2>3. new[0] = x /\ new[k] = h[k][r[k - 1]] /\ new[k - 1] = r[k - 1]
    BY <2>1
  <2>4. ASSUME NEW n \in 1 .. k
        PROVE  new[n] = h[n][new[n - 1]]
    <3>1. CASE n = k
      BY <2>3, <3>1
    <3>2. CASE n # k
      <4>1. n \in 1 .. k - 1 /\ n \in 0 .. k /\ n - 1 \in 0 .. k /\ n - 1 # k
        BY <3>2
      <4>2. new[n] = r[n] /\ new[n - 1] = r[n - 1] /\ r[n] = h[n][r[n - 1]]
        BY <2>1, <3>2, <4>1
      <4> QED
        BY <4>2
    <3> QED
      BY <3>1, <3>2
  <2>5. \A n \in 0 .. k : new[n] \in may[n]
    <3>1. \A n \in 0 .. k : n # k => n \in 0 .. k - 1
      OBVIOUS
    <3> QED
      BY <2>1, <2>2, <3>1
  <2>6. Made(new, k)
    BY <2>3, <2>4, <2>5
  <2> HIDE DEF new, Made
  <2> QED
    BY <2>6
<1> HIDE DEF good
<1>3. turns \in good
  BY <1>1, <1>2, EveryTurn
<1>4. PICK r : Made(r, turns)
  BY <1>3 DEF good
<1>5. IsLoop(r, turns, x, h) /\ \A n \in 0 .. turns : r[n] \in may[n]
  <2>1. \A n \in 0 .. turns : n # 0 => n \in 1 .. turns
    OBVIOUS
  <2>2. \A n \in 0 .. turns : r[n] = IF n = 0 THEN x ELSE h[n][r[n - 1]]
    BY <1>4, <2>1
  <2> QED
    BY <1>4, <2>2 DEF IsLoop
<1> HIDE DEF Made
<1> QED
  BY <1>5

\* The values of a function on a finite set.
LEMMA FiniteImage ==
  ASSUME NEW S, IsFiniteSet(S), NEW f, f = [x \in S |-> f[x]]
  PROVE  IsFiniteSet({f[x] : x \in S})
<1>1. f \in Surjection(S, {f[x] : x \in S})
  BY DEF Surjection
<1> QED
  BY <1>1, FS_Surjection

-----------------------------------------------------------------------------
(* Sums over finite sets.  The folds of the community modules are recursive  *)
(* functions; that there is such a function on the subsets of a finite set,  *)
(* and that it does not matter in which order it takes the elements, is shown *)
(* from a least subset without it.                                            *)

Pick(s) == CHOOSE x \in s : TRUE

\* g gives the sum of f over each of the subsets of S.
SumsUp(g, f, S) == g = [s \in SUBSET S |-> IF s = {} THEN 0 ELSE f[Pick(s)] + g[s \ {Pick(s)}]]

\* There is one such function, and it is the fold.
OnlyFold(f, S) ==
  /\ \E g : SumsUp(g, f, S)
  /\ \A g : SumsUp(g, f, S) => \A s \in SUBSET S : g[s] = SumFunctionOnSet(f, s)

LEMMA SumIsFold ==
  ASSUME NEW f, NEW S
  PROVE  SumFunctionOnSet(f, S) = (CHOOSE g : SumsUp(g, f, S))[S]
BY DEF SumFunctionOnSet, FoldFunctionOnSet, MapThenFoldSet, SumsUp, Pick

LEMMA FoldOfSmaller ==
  ASSUME NEW f, NEW S, \A s \in (SUBSET S) \ {S} : OnlyFold(f, s)
  PROVE  OnlyFold(f, S)
<1> DEFINE sum == [s \in SUBSET S |-> IF s = {} THEN 0 ELSE f[Pick(s)] + SumFunctionOnSet(f, s \ {Pick(s)})]
<1>1. ASSUME NEW s \in SUBSET S, s # {}
      PROVE  /\ Pick(s) \in s
             /\ s \ {Pick(s)} \in (SUBSET S) \ {S}
  BY <1>1 DEF Pick
<1>2. ASSUME NEW s \in (SUBSET S) \ {S}
      PROVE  SumFunctionOnSet(f, s) = IF s = {} THEN 0 ELSE f[Pick(s)] + SumFunctionOnSet(f, s \ {Pick(s)})
  <2>1. PICK g : SumsUp(g, f, s)
    BY <1>2 DEF OnlyFold
  <2>2. /\ g[s] = IF s = {} THEN 0 ELSE f[Pick(s)] + g[s \ {Pick(s)}]
        /\ \A t \in SUBSET s : g[t] = SumFunctionOnSet(f, t)
    BY <1>2, <2>1 DEF OnlyFold, SumsUp
  <2>3. s \in SUBSET s /\ s \ {Pick(s)} \in SUBSET s
    OBVIOUS
  <2> QED
    BY <2>2, <2>3
<1>3. SumsUp(sum, f, S)
  <2>1. ASSUME NEW s \in SUBSET S
        PROVE  sum[s] = IF s = {} THEN 0 ELSE f[Pick(s)] + sum[s \ {Pick(s)}]
    <3>1. CASE s = {}
      BY <3>1
    <3>2. CASE s # {}
      <4>1. SumFunctionOnSet(f, s \ {Pick(s)}) = sum[s \ {Pick(s)}]
        BY <1>1, <1>2, <3>2
      <4> QED
        BY <3>2, <4>1
    <3> QED
      BY <3>1, <3>2
  <2> HIDE DEF sum
  <2>2. sum = [s \in SUBSET S |-> sum[s]]
    BY DEF sum
  <2> QED
    BY <2>1, <2>2 DEF SumsUp
<1> HIDE DEF sum
<1>4. ASSUME NEW g, SumsUp(g, f, S), NEW s \in (SUBSET S) \ {S}
      PROVE  g[s] = SumFunctionOnSet(f, s)
  <2> DEFINE h == [t \in SUBSET s |-> g[t]]
  <2>1. SumsUp(h, f, s)
    <3>1. ASSUME NEW t \in SUBSET s
          PROVE  h[t] = IF t = {} THEN 0 ELSE f[Pick(t)] + h[t \ {Pick(t)}]
      <4>1. t \in SUBSET S /\ t \ {Pick(t)} \in SUBSET s
        BY <1>4, <3>1
      <4>2. g[t] = IF t = {} THEN 0 ELSE f[Pick(t)] + g[t \ {Pick(t)}]
        BY <1>4, <4>1 DEF SumsUp
      <4> QED
        BY <4>1, <4>2
    <3> HIDE DEF h
    <3>2. h = [t \in SUBSET s |-> h[t]]
      BY DEF h
    <3> QED
      BY <3>1, <3>2 DEF SumsUp
  <2>2. h[s] = SumFunctionOnSet(f, s)
    BY <1>4, <2>1 DEF OnlyFold
  <2> QED
    BY <2>2
<1>5. ASSUME NEW g, SumsUp(g, f, S)
      PROVE  g[S] = IF S = {} THEN 0 ELSE f[Pick(S)] + SumFunctionOnSet(f, S \ {Pick(S)})
  <2>1. g[S] = IF S = {} THEN 0 ELSE f[Pick(S)] + g[S \ {Pick(S)}]
    BY <1>5 DEF SumsUp
  <2>2. S # {} => g[S \ {Pick(S)}] = SumFunctionOnSet(f, S \ {Pick(S)})
    BY <1>1, <1>4, <1>5
  <2> QED
    BY <2>1, <2>2
<1>6. SumFunctionOnSet(f, S) = IF S = {} THEN 0 ELSE f[Pick(S)] + SumFunctionOnSet(f, S \ {Pick(S)})
  <2> DEFINE fold == CHOOSE g : SumsUp(g, f, S)
  <2>1. SumsUp(fold, f, S)
    BY <1>3
  <2>2. SumFunctionOnSet(f, S) = fold[S]
    BY SumIsFold
  <2> HIDE DEF fold
  <2> QED
    BY <1>5, <2>1, <2>2
<1>7. ASSUME NEW g, SumsUp(g, f, S), NEW s \in SUBSET S
      PROVE  g[s] = SumFunctionOnSet(f, s)
  BY <1>4, <1>5, <1>6, <1>7
<1> QED
  BY <1>3, <1>7 DEF OnlyFold

\* Among subsets of a finite set there is one with none of the others inside it.
LEMMA LeastSubset ==
  ASSUME NEW S, IsFiniteSet(S), NEW some \in SUBSET (SUBSET S), some # {}
  PROVE  \E s \in some : \A t \in (SUBSET s) \ {s} : t \notin some
<1>1. some \subseteq FiniteSubsetsOf(S)
  BY FS_FiniteSubsetsOfFinite
<1>2. IsWellFoundedOn(StrictSubsetOrdering(S), FiniteSubsetsOf(S))
  BY FS_StrictSubsetOrderingWellFounded
<1>3. PICK s \in some : \A t \in some : ~ (<<t, s>> \in StrictSubsetOrdering(S))
  BY <1>1, <1>2, WFMin
<1>4. ASSUME NEW t \in (SUBSET s) \ {s}, t \in some
      PROVE  FALSE
  <2>1. <<t, s>> \in StrictSubsetOrdering(S)
    BY <1>4 DEF StrictSubsetOrdering
  <2> QED
    BY <1>3, <1>4, <2>1
<1> QED
  BY <1>4

LEMMA FoldOfFinite ==
  ASSUME NEW f, NEW S, IsFiniteSet(S)
  PROVE  \A s \in SUBSET S : OnlyFold(f, s)
<1> DEFINE bad == {s \in SUBSET S : ~ OnlyFold(f, s)}
<1>1. SUFFICES ASSUME bad # {} PROVE FALSE
  OBVIOUS
<1>2. PICK s \in bad : \A t \in (SUBSET s) \ {s} : t \notin bad
  <2>1. bad \in SUBSET (SUBSET S)
    OBVIOUS
  <2> HIDE DEF bad
  <2> QED
    BY <1>1, <2>1, LeastSubset
<1>3. \A t \in (SUBSET s) \ {s} : OnlyFold(f, t)
  BY <1>2
<1> QED
  BY <1>2, <1>3, FoldOfSmaller

LEMMA SumEmpty ==
  ASSUME NEW f
  PROVE  SumFunctionOnSet(f, {}) = 0
<1>1. \A s \in (SUBSET {}) \ {{}} : OnlyFold(f, s)
  OBVIOUS
<1>2. PICK g : SumsUp(g, f, {})
  BY <1>1, FoldOfSmaller DEF OnlyFold
<1>3. g[{}] = SumFunctionOnSet(f, {})
  BY <1>1, <1>2, FoldOfSmaller DEF OnlyFold
<1> QED
  BY <1>2, <1>3 DEF SumsUp

LEMMA SumPicks ==
  ASSUME NEW f, NEW S, IsFiniteSet(S), S # {}
  PROVE  /\ Pick(S) \in S
         /\ SumFunctionOnSet(f, S) = f[Pick(S)] + SumFunctionOnSet(f, S \ {Pick(S)})
<1>1. PICK g : SumsUp(g, f, S)
  BY FoldOfFinite DEF OnlyFold
<1>2. OnlyFold(f, S)
  BY FoldOfFinite
<1>3. \A s \in SUBSET S : g[s] = SumFunctionOnSet(f, s)
  BY <1>1, <1>2 DEF OnlyFold
<1>4. g[S] = f[Pick(S)] + g[S \ {Pick(S)}]
  BY <1>1 DEF SumsUp
<1>5. Pick(S) \in S
  BY DEF Pick
<1> QED
  BY <1>3, <1>4, <1>5

LEMMA SumType ==
  ASSUME NEW f, NEW S, IsFiniteSet(S), \A x \in S : f[x] \in Int
  PROVE  SumFunctionOnSet(f, S) \in Int
<1> DEFINE bad == {s \in SUBSET S : SumFunctionOnSet(f, s) \notin Int}
<1>1. SUFFICES ASSUME bad # {} PROVE FALSE
  OBVIOUS
<1>2. PICK s \in bad : \A t \in (SUBSET s) \ {s} : t \notin bad
  <2>1. bad \in SUBSET (SUBSET S)
    OBVIOUS
  <2> HIDE DEF bad
  <2> QED
    BY <1>1, <2>1, LeastSubset
<1>3. IsFiniteSet(s)
  BY FS_Subset
<1>4. s # {}
  <2>1. SumFunctionOnSet(f, {}) \in Int
    BY SumEmpty
  <2> QED
    BY <1>2, <2>1
<1>5. SumFunctionOnSet(f, s) = f[Pick(s)] + SumFunctionOnSet(f, s \ {Pick(s)}) /\ Pick(s) \in s
  BY <1>3, <1>4, SumPicks
<1>6. SumFunctionOnSet(f, s \ {Pick(s)}) \in Int
  BY <1>2, <1>5
<1>7. f[Pick(s)] \in Int
  BY <1>2, <1>5
<1> QED
  BY <1>2, <1>5, <1>6, <1>7

\* Any of the elements may be taken out first.
LEMMA SumRemove ==
  ASSUME NEW f, NEW S, IsFiniteSet(S), \A x \in S : f[x] \in Int, NEW y \in S
  PROVE  SumFunctionOnSet(f, S) = f[y] + SumFunctionOnSet(f, S \ {y})
<1> DEFINE bad == {s \in SUBSET S : \E x \in s : SumFunctionOnSet(f, s) # f[x] + SumFunctionOnSet(f, s \ {x})}
<1>1. SUFFICES ASSUME bad # {} PROVE FALSE
  OBVIOUS
<1>2. PICK s \in bad : \A t \in (SUBSET s) \ {s} : t \notin bad
  <2>1. bad \in SUBSET (SUBSET S)
    OBVIOUS
  <2> HIDE DEF bad
  <2> QED
    BY <1>1, <2>1, LeastSubset
<1>3. PICK x \in s : SumFunctionOnSet(f, s) # f[x] + SumFunctionOnSet(f, s \ {x})
  BY <1>2
<1> DEFINE p == Pick(s)
<1>4. IsFiniteSet(s) /\ s \in SUBSET S
  BY <1>2, FS_Subset
<1>5. SumFunctionOnSet(f, s) = f[p] + SumFunctionOnSet(f, s \ {p}) /\ p \in s
  BY <1>3, <1>4, SumPicks
<1> HIDE DEF p
<1>6. x # p
  BY <1>3, <1>5
<1>7. SumFunctionOnSet(f, s \ {p}) = f[x] + SumFunctionOnSet(f, (s \ {p}) \ {x})
  BY <1>2, <1>4, <1>5, <1>6
<1>8. SumFunctionOnSet(f, s \ {x}) = f[p] + SumFunctionOnSet(f, (s \ {x}) \ {p})
  BY <1>2, <1>4, <1>5, <1>6
<1>9. (s \ {x}) \ {p} = (s \ {p}) \ {x}
  OBVIOUS
<1>10. SumFunctionOnSet(f, (s \ {p}) \ {x}) \in Int
  <2>1. IsFiniteSet((s \ {p}) \ {x})
    BY <1>4, FS_RemoveElement
  <2> QED
    BY <1>4, <2>1, SumType
<1>11. f[x] \in Int /\ f[p] \in Int
  BY <1>4, <1>5
<1> DEFINE rest == SumFunctionOnSet(f, (s \ {p}) \ {x})
<1>12. /\ SumFunctionOnSet(f, s) = f[p] + (f[x] + rest)
       /\ f[x] + SumFunctionOnSet(f, s \ {x}) = f[x] + (f[p] + rest)
  BY <1>5, <1>7, <1>8, <1>9
<1>13. rest \in Int
  BY <1>10
<1> HIDE DEF rest, bad
<1>14. f[p] + (f[x] + rest) = f[x] + (f[p] + rest)
  BY <1>11, <1>13
<1> QED
  BY <1>3, <1>12, <1>14

LEMMA SumAdd ==
  ASSUME NEW f, NEW S, IsFiniteSet(S), NEW y, y \notin S, \A x \in S \cup {y} : f[x] \in Int
  PROVE  SumFunctionOnSet(f, S \cup {y}) = SumFunctionOnSet(f, S) + f[y]
<1>1. IsFiniteSet(S \cup {y})
  BY FS_AddElement
<1>2. SumFunctionOnSet(f, S \cup {y}) = f[y] + SumFunctionOnSet(f, (S \cup {y}) \ {y})
  BY <1>1, SumRemove
<1>3. (S \cup {y}) \ {y} = S
  OBVIOUS
<1> DEFINE sum == SumFunctionOnSet(f, S)
<1>4. sum \in Int /\ f[y] \in Int
  BY SumType
<1>5. SumFunctionOnSet(f, S \cup {y}) = f[y] + sum
  BY <1>2, <1>3
<1> HIDE DEF sum
<1>6. f[y] + sum = sum + f[y]
  BY <1>4
<1>7. SumFunctionOnSet(f, S) = sum
  BY DEF sum
<1> QED
  BY <1>5, <1>6, <1>7

\* Only what a function is on the set counts.
LEMMA SumSame ==
  ASSUME NEW f, NEW g, NEW S, IsFiniteSet(S), \A x \in S : f[x] = g[x]
  PROVE  SumFunctionOnSet(f, S) = SumFunctionOnSet(g, S)
<1> DEFINE bad == {s \in SUBSET S : SumFunctionOnSet(f, s) # SumFunctionOnSet(g, s)}
<1>1. SUFFICES ASSUME bad # {} PROVE FALSE
  OBVIOUS
<1>2. PICK s \in bad : \A t \in (SUBSET s) \ {s} : t \notin bad
  <2>1. bad \in SUBSET (SUBSET S)
    OBVIOUS
  <2> HIDE DEF bad
  <2> QED
    BY <1>1, <2>1, LeastSubset
<1>3. IsFiniteSet(s) /\ s \in SUBSET S
  BY <1>2, FS_Subset
<1>4. s # {}
  BY <1>2, SumEmpty
<1>5. /\ Pick(s) \in s
      /\ SumFunctionOnSet(f, s) = f[Pick(s)] + SumFunctionOnSet(f, s \ {Pick(s)})
      /\ SumFunctionOnSet(g, s) = g[Pick(s)] + SumFunctionOnSet(g, s \ {Pick(s)})
  BY <1>3, <1>4, SumPicks
<1>6. SumFunctionOnSet(f, s \ {Pick(s)}) = SumFunctionOnSet(g, s \ {Pick(s)})
  BY <1>2, <1>5
<1> QED
  BY <1>2, <1>3, <1>5, <1>6

LEMMA SumZero ==
  ASSUME NEW f, NEW S, IsFiniteSet(S), \A x \in S : f[x] = 0
  PROVE  SumFunctionOnSet(f, S) = 0
<1> DEFINE bad == {s \in SUBSET S : SumFunctionOnSet(f, s) # 0}
<1>1. SUFFICES ASSUME bad # {} PROVE FALSE
  OBVIOUS
<1>2. PICK s \in bad : \A t \in (SUBSET s) \ {s} : t \notin bad
  <2>1. bad \in SUBSET (SUBSET S)
    OBVIOUS
  <2> HIDE DEF bad
  <2> QED
    BY <1>1, <2>1, LeastSubset
<1>3. IsFiniteSet(s) /\ s \in SUBSET S
  BY <1>2, FS_Subset
<1>4. s # {}
  BY <1>2, SumEmpty
<1>5. Pick(s) \in s /\ SumFunctionOnSet(f, s) = f[Pick(s)] + SumFunctionOnSet(f, s \ {Pick(s)})
  BY <1>3, <1>4, SumPicks
<1>6. SumFunctionOnSet(f, s \ {Pick(s)}) = 0 /\ f[Pick(s)] = 0
  BY <1>2, <1>5
<1> QED
  BY <1>2, <1>5, <1>6

\* What is added one by one is added in all.
LEMMA SumPlus ==
  ASSUME NEW f, NEW g, NEW h, NEW S, IsFiniteSet(S),
         \A x \in S : f[x] \in Int /\ g[x] \in Int /\ h[x] = f[x] + g[x]
  PROVE  SumFunctionOnSet(h, S) = SumFunctionOnSet(f, S) + SumFunctionOnSet(g, S)
<1> DEFINE bad == {s \in SUBSET S : SumFunctionOnSet(h, s) # SumFunctionOnSet(f, s) + SumFunctionOnSet(g, s)}
<1>1. SUFFICES ASSUME bad # {} PROVE FALSE
  OBVIOUS
<1>2. PICK s \in bad : \A t \in (SUBSET s) \ {s} : t \notin bad
  <2>1. bad \in SUBSET (SUBSET S)
    OBVIOUS
  <2> HIDE DEF bad
  <2> QED
    BY <1>1, <2>1, LeastSubset
<1>3. IsFiniteSet(s) /\ s \in SUBSET S
  BY <1>2, FS_Subset
<1>4. s # {}
  <2>1. SumFunctionOnSet(h, {}) = SumFunctionOnSet(f, {}) + SumFunctionOnSet(g, {})
    BY SumEmpty
  <2> QED
    BY <1>2, <2>1
<1> DEFINE p == Pick(s)
           F == SumFunctionOnSet(f, s \ {p})
           G == SumFunctionOnSet(g, s \ {p})
<1>5. /\ p \in s
      /\ SumFunctionOnSet(f, s) = f[p] + F
      /\ SumFunctionOnSet(g, s) = g[p] + G
      /\ SumFunctionOnSet(h, s) = h[p] + SumFunctionOnSet(h, s \ {p})
  BY <1>3, <1>4, SumPicks
<1>6. SumFunctionOnSet(h, s \ {p}) = F + G
  BY <1>2, <1>5
<1>7. IsFiniteSet(s \ {p}) /\ \A x \in s \ {p} : f[x] \in Int /\ g[x] \in Int
  BY <1>3, FS_RemoveElement
<1>8. F \in Int /\ G \in Int
  BY <1>7, SumType
<1>9. f[p] \in Int /\ g[p] \in Int /\ h[p] = f[p] + g[p]
  BY <1>3, <1>5
<1> HIDE DEF p, F, G
<1>10. (f[p] + g[p]) + (F + G) = (f[p] + F) + (g[p] + G)
  BY <1>8, <1>9
<1> QED
  BY <1>2, <1>5, <1>6, <1>9, <1>10

\* A sequence that follows another adds its sum.
LEMMA SumAppended ==
  ASSUME NEW f, NEW g, NEW S, IsFiniteSet(S), \A x \in S : f[x] \in Int,
         NEW T, IsFiniteSet(T), NEW n \in Nat, T \subseteq Nat, IsFiniteSet(S \cup {n + k : k \in T}),
         \A k \in T : n + k \notin S /\ f[n + k] = g[k] /\ g[k] \in Int
  PROVE  SumFunctionOnSet(f, S \cup {n + k : k \in T}) = SumFunctionOnSet(f, S) + SumFunctionOnSet(g, T)
<1> DEFINE After(t) == S \cup {n + k : k \in t}
           bad == {t \in SUBSET T : SumFunctionOnSet(f, After(t)) # SumFunctionOnSet(f, S) + SumFunctionOnSet(g, t)}
<1>1. SUFFICES ASSUME bad # {} PROVE FALSE
  OBVIOUS
<1>2. PICK t \in bad : \A s \in (SUBSET t) \ {t} : s \notin bad
  <2>1. bad \in SUBSET (SUBSET T)
    OBVIOUS
  <2> HIDE DEF bad
  <2> QED
    BY <1>1, <2>1, LeastSubset
<1>3. IsFiniteSet(t) /\ t \in SUBSET T
  BY <1>2, FS_Subset
<1> DEFINE sum == SumFunctionOnSet(f, S)
<1>4. sum \in Int
  BY SumType
<1>5. t # {}
  <2>1. After({}) = S
    OBVIOUS
  <2>2. SumFunctionOnSet(f, S) = sum + 0 /\ SumFunctionOnSet(g, {}) = 0
    BY <1>4, SumEmpty
  <2> QED
    BY <1>2, <2>1, <2>2
<1> DEFINE p == Pick(t)
           G == SumFunctionOnSet(g, t \ {p})
<1>6. p \in t /\ SumFunctionOnSet(g, t) = g[p] + G
  BY <1>3, <1>5, SumPicks
<1>7. SumFunctionOnSet(f, After(t \ {p})) = sum + G
  BY <1>2, <1>6
<1>8. /\ p \in T /\ n + p \notin S /\ f[n + p] = g[p] /\ g[p] \in Int
  BY <1>3, <1>6
<1>9. IsFiniteSet(t \ {p})
  BY <1>3, FS_RemoveElement
<1>10. n + p \notin After(t \ {p})
  <2>1. p \in Nat /\ \A k \in t \ {p} : k \in Nat /\ k # p
    BY <1>3, <1>8
  <2> HIDE DEF p, bad
  <2>2. \A k \in t \ {p} : n + k # n + p
    BY <2>1
  <2> QED
    BY <1>8, <2>2
<1>11. /\ After(t) = After(t \ {p}) \cup {n + p} /\ IsFiniteSet(After(t \ {p}))
       /\ \A x \in After(t \ {p}) : f[x] \in Int
  <2>1. After(t) = After(t \ {p}) \cup {n + p}
    BY <1>6
  <2>2. After(t \ {p}) \subseteq S \cup {n + k : k \in T}
    BY <1>3
  <2>3. \A x \in After(t \ {p}) : f[x] \in Int
    BY <1>3
  <2>4. IsFiniteSet(After(t \ {p}))
    BY <2>2, FS_Subset
  <2> QED
    BY <2>1, <2>3, <2>4
<1>12. G \in Int
  BY <1>3, <1>9, SumType
<1> HIDE DEF After, p, G, sum
<1>13. SumFunctionOnSet(f, After(t)) = (sum + G) + g[p]
  <2>1. PICK A, y : A = After(t \ {p}) /\ y = n + p
    OBVIOUS
  <2>2. IsFiniteSet(A) /\ y \notin A /\ \A x \in A \cup {y} : f[x] \in Int
    BY <1>8, <1>10, <1>11, <2>1
  <2>3. SumFunctionOnSet(f, A \cup {y}) = SumFunctionOnSet(f, A) + f[y]
    BY <2>2, SumAdd
  <2> QED
    BY <1>7, <1>8, <1>11, <2>1, <2>3
<1>14. (sum + G) + g[p] = sum + (g[p] + G)
  BY <1>4, <1>8, <1>12
<1>15. SumFunctionOnSet(f, S) = sum
  BY DEF sum
<1> QED
  BY <1>2, <1>6, <1>13, <1>14, <1>15

===============================================================================
