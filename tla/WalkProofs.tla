----------------------------- MODULE WalkProofs -----------------------------
(***************************************************************************)
(* What the proofs need about recursion over numbers and sequences: the    *)
(* verifiers walk back over transactions and replay what they find from    *)
(* the first to the last.  Such functions are CHOOSEn as solutions of      *)
(* their equations; the lemmas show that the equations have solutions.     *)
(***************************************************************************)
EXTENDS Integers, Sequences, SequencesExt, WellFoundedInduction, TLAPS

-----------------------------------------------------------------------------
(* Induction on sets of numbers, which needs no operator as a parameter.   *)

\* A set of naturals with an element has a least one.
LEMMA LeastNatural ==
    ASSUME NEW X, X \subseteq Nat, X # {}
    PROVE  \E x \in X : \A y \in X : x <= y
<1> DEFINE below == OpToRel(<, Nat)
<1>1. IsWellFoundedOn(below, Nat)
  BY NatLessThanWellFounded
<1>2. \A x, y \in Nat : x < y => <<x, y>> \in below
  BY DEF OpToRel
<1> HIDE DEF below
<1>3. PICK x \in X : \A y \in X : ~ (<<y, x>> \in below)
  BY <1>1, WFMin
<1>4. \A y \in X : ~(y < x)
  BY <1>2, <1>3
<1> QED
  BY <1>4

\* A set that holds 0, and with every number the next, holds all.
LEMMA SetInduction ==
    ASSUME NEW T, 0 \in T, \A n \in Nat : n \in T => n + 1 \in T
    PROVE  Nat \subseteq T
<1> SUFFICES ASSUME Nat \ T # {} PROVE FALSE
  OBVIOUS
<1>1. PICK x \in Nat \ T : \A y \in Nat \ T : x <= y
  BY LeastNatural
<1>2. x - 1 \in Nat /\ x - 1 \in T
  BY <1>1
<1> QED
  BY <1>1, <1>2

\* A bounded set of numbers with an element has a greatest one.
LEMMA GreatestBelow ==
    ASSUME NEW N \in Nat, NEW X, X \subseteq 0 .. N, X # {}
    PROVE  \E x \in X : \A y \in X : y <= x
<1> DEFINE Z == {z \in Nat : N - z \in X}
<1>1. Z # {}
  <2>1. PICK x \in X : TRUE
    OBVIOUS
  <2>2. N - x \in Nat /\ N - (N - x) = x
    OBVIOUS
  <2> QED
    BY <2>1, <2>2
<1>2. PICK z \in Z : \A y \in Z : z <= y
  BY <1>1, LeastNatural
<1>3. ASSUME NEW y \in X PROVE y <= N - z
  <2>1. N - y \in Nat /\ N - (N - y) = y
    OBVIOUS
  <2>2. z <= N - y
    BY <1>2, <2>1
  <2> QED
    BY <1>2, <2>2
<1> QED
  BY <1>2, <1>3

\* A function on 0 .. N that looks back: its value at n is made by step[n]
\* from its value at an earlier point.
StepsBack(N, V, base, back, step) ==
    /\ base \in V
    /\ \A n \in 1 .. N : back[n] \in 0 .. n - 1
    /\ \A n \in 1 .. N : \A v \in V : step[n][v] \in V
Follows(f, N, V, base, back, step) ==
    /\ f \in [0 .. N -> V] /\ f[0] = base
    /\ \A n \in 1 .. N : f[n] = step[n][f[back[n]]]

LEMMA LooksBack ==
    ASSUME NEW N \in Nat, NEW V, NEW base, NEW back, NEW step,
           StepsBack(N, V, base, back, step)
    PROVE  \E f : Follows(f, N, V, base, back, step)
<1> USE DEF StepsBack
<1> DEFINE Upto(k) == {f \in [0 .. k -> V] :
                         /\ f[0] = base
                         /\ \A n \in 1 .. k : f[n] = step[n][f[back[n]]]}
           T == {k \in Nat : k <= N => Upto(k) # {}}
<1>1. 0 \in T
  <2>1. [n \in 0 .. 0 |-> base] \in Upto(0)
    OBVIOUS
  <2> QED
    BY <2>1
<1>2. ASSUME NEW k \in Nat, k \in T PROVE k + 1 \in T
  <2> SUFFICES ASSUME k + 1 <= N PROVE Upto(k + 1) # {}
    OBVIOUS
  <2>1. PICK f : f \in Upto(k)
    BY <1>2
  <2> DEFINE g == [n \in 0 .. k + 1 |->
                      IF n = k + 1 THEN step[k + 1][f[back[k + 1]]] ELSE f[n]]
  <2>2. back[k + 1] \in 0 .. k
    OBVIOUS
  <2>3. f[back[k + 1]] \in V
    BY <2>1, <2>2
  <2>4. g \in [0 .. k + 1 -> V]
    BY <2>1, <2>3
  <2>5. g[0] = base
    BY <2>1
  <2>6. ASSUME NEW n \in 1 .. k + 1 PROVE g[n] = step[n][g[back[n]]]
    <3>1. back[n] \in 0 .. n - 1
      OBVIOUS
    <3>2. back[n] \in 0 .. k
      BY <3>1
    <3>3. g[back[n]] = f[back[n]]
      BY <3>2
    <3>4. CASE n = k + 1
      BY <3>3, <3>4
    <3>5. CASE n # k + 1
      <4>1. n \in 1 .. k
        BY <3>5
      <4>2. g[n] = f[n] /\ f[n] = step[n][f[back[n]]]
        BY <2>1, <4>1
      <4> QED
        BY <3>3, <4>2
    <3> QED
      BY <3>4, <3>5
  <2> HIDE DEF g
  <2> QED
    BY <2>4, <2>5, <2>6
<1>3. N \in T
  <2> HIDE DEF T
  <2> QED
    BY <1>1, <1>2, SetInduction
<1> QED
  BY <1>3 DEF Follows

-----------------------------------------------------------------------------
LEMMA AppendFacts ==
    ASSUME NEW S, NEW q \in Seq(S), NEW e \in S
    PROVE  /\ Append(q, e) \in Seq(S)
           /\ Len(Append(q, e)) = Len(q) + 1
           /\ Len(q) \in Nat
           /\ DOMAIN q = 1 .. Len(q)
           /\ DOMAIN Append(q, e) = 1 .. Len(q) + 1
           /\ \A i \in 1 .. Len(q) : Append(q, e)[i] = q[i]
           /\ Append(q, e)[Len(q) + 1] = e
  OBVIOUS

-----------------------------------------------------------------------------
(* FoldLeft over a sequence of length N.                                   *)

\* A set of numbers that is bounded has a Max.
LEMMA MaxIs ==
    ASSUME NEW N \in Nat, NEW s \in SUBSET (1 .. N), s # {}
    PROVE  /\ Max(s) \in s /\ Max(s) \in 1 .. N /\ \A x \in s : x <= Max(s)
<1>1. PICK x \in s : \A y \in s : y <= x
  <2>1. s \subseteq 0 .. N
    OBVIOUS
  <2> QED
    BY <2>1, GreatestBelow
<1>2. \A y \in s : x >= y
  BY <1>1
<1> QED
  BY <1>2 DEF Max

\* The function on sets of positions that MapThenFoldSet is defined with.
FoldsBy(F, N, V, base, step) ==
    /\ F \in [SUBSET (1 .. N) -> V] /\ F[{}] = base
    /\ \A s \in SUBSET (1 .. N) : s # {} =>
          F[s] = step[Max(s)][F[s \ {Max(s)}]]

LEMMA FoldHasSolution ==
    ASSUME NEW N \in Nat, NEW V, NEW base \in V, NEW step,
           \A n \in 1 .. N : \A v \in V : step[n][v] \in V
    PROVE  \E F : FoldsBy(F, N, V, base, step)
<1> DEFINE T == {k \in Nat : k <= N => \E F : FoldsBy(F, k, V, base, step)}
<1>1. 0 \in T
  <2> DEFINE F == [s \in SUBSET (1 .. 0) |-> base]
  <2>1. SUBSET (1 .. 0) = {{}}
    OBVIOUS
  <2>2. FoldsBy(F, 0, V, base, step)
    BY <2>1 DEF FoldsBy
  <2> QED
    BY <2>2
<1>2. ASSUME NEW k \in Nat, k \in T PROVE k + 1 \in T
  <2> SUFFICES ASSUME k + 1 <= N PROVE \E F : FoldsBy(F, k + 1, V, base, step)
    OBVIOUS
  <2>1. PICK F : FoldsBy(F, k, V, base, step)
    BY <1>2
  <2> DEFINE top == k + 1
             G == [s \in SUBSET (1 .. top) |->
                      IF top \in s THEN step[top][F[s \ {top}]] ELSE F[s]]
  <2>2. top \in 1 .. N /\ top \in Nat /\ \A x \in 1 .. top : x # top => x \in 1 .. k
    OBVIOUS
  <2>3. 1 .. k \subseteq 1 .. top /\ top \notin 1 .. k
    OBVIOUS
  <2> HIDE DEF top
  <2>4. ASSUME NEW s \in SUBSET (1 .. top) PROVE G[s] \in V
    <3>1. CASE top \in s
      <4>1. s \ {top} \in SUBSET (1 .. k)
        BY <2>2
      <4>2. F[s \ {top}] \in V
        BY <2>1, <4>1 DEF FoldsBy
      <4> QED
        BY <2>2, <3>1, <4>2
    <3>2. CASE top \notin s
      <4>1. s \in SUBSET (1 .. k)
        BY <2>2, <3>2
      <4> QED
        BY <2>1, <3>2, <4>1 DEF FoldsBy
    <3> QED
      BY <3>1, <3>2
  <2>5. G[{}] = base
    BY <2>1 DEF FoldsBy
  <2>6. ASSUME NEW s \in SUBSET (1 .. top), s # {}
        PROVE  G[s] = step[Max(s)][G[s \ {Max(s)}]]
    <3>1. /\ Max(s) \in s /\ Max(s) \in 1 .. top /\ \A x \in s : x <= Max(s)
      BY <2>2, <2>6, MaxIs
    <3>2. CASE top \in s
      <4>1. Max(s) = top
        BY <2>2, <3>1, <3>2
      <4>2. G[s \ {top}] = F[s \ {top}]
        OBVIOUS
      <4> QED
        BY <3>2, <4>1, <4>2
    <3>3. CASE top \notin s
      <4>1. s \in SUBSET (1 .. k) /\ top \notin s \ {Max(s)}
        BY <2>2, <3>3
      <4>2. F[s] = step[Max(s)][F[s \ {Max(s)}]]
        BY <2>1, <2>6, <4>1 DEF FoldsBy
      <4>3. G[s] = F[s] /\ G[s \ {Max(s)}] = F[s \ {Max(s)}]
        BY <3>3, <4>1
      <4> QED
        BY <4>2, <4>3
    <3> QED
      BY <3>2, <3>3
  <2>7. G \in [SUBSET (1 .. top) -> V]
    BY <2>4
  <2> HIDE DEF G
  <2>8. FoldsBy(G, top, V, base, step)
    BY <2>5, <2>6, <2>7 DEF FoldsBy
  <2> QED
    BY <2>8 DEF top
<1>3. N \in T
  <2> HIDE DEF T
  <2> QED
    BY <1>1, <1>2, SetInduction
<1> QED
  BY <1>3

\* Along the initial segments it is the fold one expects.
LEMMA FoldSegments ==
    ASSUME NEW N \in Nat, NEW V, NEW base, NEW step, NEW F,
           FoldsBy(F, N, V, base, step), NEW k \in 1 .. N
    PROVE  F[1 .. k] = step[k][F[1 .. k - 1]]
<1>1. 1 .. k \in SUBSET (1 .. N) /\ 1 .. k # {} /\ k \in 1 .. k
  OBVIOUS
<1>2. Max(1 .. k) \in 1 .. k /\ \A x \in 1 .. k : x <= Max(1 .. k)
  BY <1>1, MaxIs
<1>3. Max(1 .. k) = k
  BY <1>1, <1>2
<1>4. (1 .. k) \ {k} = 1 .. k - 1
  OBVIOUS
<1>5. F[1 .. k] = step[Max(1 .. k)][F[(1 .. k) \ {Max(1 .. k)}]]
  BY <1>1 DEF FoldsBy
<1> QED
  BY <1>3, <1>4, <1>5
=============================================================================
