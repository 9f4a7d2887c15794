------------------------------ MODULE Induction ------------------------------
(***************************************************************************)
(* Induction over the natural numbers, stated with sets, and what follows  *)
(* for FoldLeft: a fold is what iterating its operator gives.              *)
(***************************************************************************)
EXTENDS Integers, Sequences, SequencesExt, WellFoundedInduction, TLAPS

(* A set of naturals has a least element.                                  *)
LEMMA LeastNatural ==
    ASSUME NEW T, T \subseteq Nat, T # {}
    PROVE  \E x \in T : \A y \in T : x <= y
<1> DEFINE R == OpToRel(<, Nat)
<1>1. IsWellFoundedOn(R, Nat)
  BY NatLessThanWellFounded, Zenon
<1>2. \A x, y \in Nat : y < x => << y, x >> \in R
  BY DEF OpToRel
<1> HIDE DEF R
<1>3. PICK x \in T : \A y \in T : ~(<< y, x >> \in R)
  BY <1>1, WFMin
<1>4. \A y \in T : ~(y < x)
  BY <1>2, <1>3
<1>5. \A y \in T : x <= y
  BY <1>4
<1> QED  BY <1>5

(* A set with 0 and the successor of each of its numbers has them all.     *)
LEMMA SetInduction ==
    ASSUME NEW S, 0 \in S, \A n \in Nat : n \in S => n + 1 \in S
    PROVE  Nat \subseteq S
<1> DEFINE T == Nat \ S
<1>1. SUFFICES ASSUME T # {} PROVE FALSE
  OBVIOUS
<1>2. PICK x \in T : \A y \in T : x <= y
  <2> HIDE DEF T
  <2>1. T \subseteq Nat
    BY DEF T
  <2> QED  BY <1>1, <2>1, LeastNatural
<1>3. x # 0
  OBVIOUS
<1>4. x - 1 \in Nat /\ x - 1 \notin T
  BY <1>2, <1>3
<1> QED  BY <1>4

-----------------------------------------------------------------------------
(* FoldLeft goes by the greatest index of what is left.                    *)

LEMMA MaxInterval ==
    ASSUME NEW n \in Nat, NEW s \in SUBSET (1 .. n + 1), n + 1 \in s
    PROVE  Max(s) = n + 1
<1>1. \A y \in s : n + 1 >= y
  OBVIOUS
<1>2. Max(s) \in s /\ \A y \in s : Max(s) >= y
  BY <1>1 DEF Max
<1>3. Max(s) \in 1 .. n + 1 /\ Max(s) >= n + 1
  BY <1>2
<1> QED  BY <1>3

LEMMA MaxInside ==
    ASSUME NEW n \in Nat, NEW s \in SUBSET (1 .. n), s # {}
    PROVE  Max(s) \in s /\ s \ {Max(s)} \in SUBSET (1 .. n)
<1> DEFINE T == {n - y : y \in s}
<1>1. T \subseteq Nat /\ T # {}
  OBVIOUS
<1>2. PICK x \in T : \A y \in T : x <= y
  <2> HIDE DEF T
  <2> QED  BY <1>1, LeastNatural
<1>3. PICK z \in s : x = n - z
  BY <1>2
<1>4. ASSUME NEW y \in s PROVE z >= y
  <2>1. n - y \in T /\ y \in Int /\ z \in Int
    OBVIOUS
  <2>2. n - z <= n - y
    <3> HIDE DEF T
    <3> QED  BY <1>2, <1>3, <2>1
  <2> QED  BY <2>1, <2>2
<1>5. Max(s) \in s
  BY <1>4 DEF Max
<1> QED  BY <1>5

(* it is the iteration of F over the first n elements of seq.              *)
Iterates(it, M, base, n, seq, F) ==
    /\ it \in [SUBSET (1 .. n) -> M] /\ it[{}] = base
    /\ \A s \in SUBSET (1 .. n) : s # {} => it[s] = F[<< it[s \ {Max(s)}], seq[Max(s)] >>]

(* There is one.                                                           *)
LEMMA FoldExists ==
    ASSUME NEW M, NEW E, NEW base \in M, NEW N \in Nat, NEW seq, \A i \in 1 .. N : seq[i] \in E,
           NEW F \in [M \X E -> M]
    PROVE  \E it : Iterates(it, M, base, N, seq, F)
<1> DEFINE Sol(it, n) == Iterates(it, M, base, n, seq, F)
           T == {n \in Nat : n <= N => \E it : Sol(it, n)}
<1>1. 0 \in T
  <2> DEFINE g == [s \in SUBSET (1 .. 0) |-> base]
  <2>1. SUBSET (1 .. 0) = {{}}
    OBVIOUS
  <2>2. Sol(g, 0)
    BY <2>1 DEF Iterates
  <2> HIDE DEF g, Sol
  <2> QED  BY <2>2
<1> HIDE DEF Sol
<1>2. ASSUME NEW n \in Nat, n \in T
      PROVE  n + 1 \in T
  <2> SUFFICES ASSUME n + 1 <= N PROVE \E it : Sol(it, n + 1)
    OBVIOUS
  <2>1. PICK g : Sol(g, n)
    BY <1>2
  <2> USE DEF Sol, Iterates
  <2> DEFINE h == [s \in SUBSET (1 .. n + 1) |->
                     IF n + 1 \in s THEN F[<< g[s \ {n + 1}], seq[n + 1] >>] ELSE g[s]]
  <2>2. \A s \in SUBSET (1 .. n + 1) : IF n + 1 \in s THEN s \ {n + 1} \in SUBSET (1 .. n)
                                                     ELSE s \in SUBSET (1 .. n)
    OBVIOUS
  <2>3. seq[n + 1] \in E
    OBVIOUS
  <2>4. h \in [SUBSET (1 .. n + 1) -> M]
    BY <2>1, <2>2, <2>3
  <2>5. h[{}] = base
    BY <2>1
  <2>6. ASSUME NEW s \in SUBSET (1 .. n + 1), s # {}
        PROVE  h[s] = F[<< h[s \ {Max(s)}], seq[Max(s)] >>]
    <3>1. CASE n + 1 \in s
      <4>1. Max(s) = n + 1
        BY <3>1, MaxInterval
      <4>2. s \ {n + 1} \in SUBSET (1 .. n + 1) /\ h[s \ {n + 1}] = g[s \ {n + 1}]
        OBVIOUS
      <4> QED  BY <3>1, <4>1, <4>2
    <3>2. CASE n + 1 \notin s
      <4>1. s \in SUBSET (1 .. n) /\ s \ {Max(s)} \in SUBSET (1 .. n)
        BY <2>2, <3>2
      <4>2. h[s] = g[s]
        BY <3>2, <4>1
      <4>3. h[s \ {Max(s)}] = g[s \ {Max(s)}]
        BY <4>1
      <4>4. g[s] = F[<< g[s \ {Max(s)}], seq[Max(s)] >>]
        BY <2>1, <2>6, <4>1
      <4> QED  BY <4>2, <4>3, <4>4
    <3> QED  BY <3>1, <3>2
  <2>7. Sol(h, n + 1)
    <3> HIDE DEF h
    <3> QED  BY <2>4, <2>5, <2>6
  <2> HIDE DEF h, Sol, Iterates
  <2> QED  BY <2>7
<1>3. N \in T
  <2> HIDE DEF T
  <2> QED  BY <1>1, <1>2, SetInduction
<1>4. PICK it : Sol(it, N)
  BY <1>3
<1> QED  BY <1>4 DEF Sol

(* Seen one after the other.                                               *)
LEMMA IteratesInSteps ==
    ASSUME NEW M, NEW E, NEW base \in M, NEW N \in Nat, NEW seq, NEW F, NEW it, Iterates(it, M, base, N, seq, F)
    PROVE  \E g \in [0 .. N -> M] : /\ g[0] = base /\ g[N] = it[1 .. N]
                                    /\ \A k \in 1 .. N : g[k] = F[<< g[k - 1], seq[k] >>]
<1> DEFINE g == [k \in 0 .. N |-> it[1 .. k]]
<1>1. /\ it \in [SUBSET (1 .. N) -> M] /\ it[{}] = base
      /\ \A s \in SUBSET (1 .. N) : s # {} => it[s] = F[<< it[s \ {Max(s)}], seq[Max(s)] >>]
  BY DEF Iterates
<1>2. \A k \in 0 .. N : 1 .. k \in SUBSET (1 .. N)
  OBVIOUS
<1>3. g \in [0 .. N -> M] /\ g[0] = base /\ g[N] = it[1 .. N]
  <2>1. 1 .. 0 = {}
    OBVIOUS
  <2> QED  BY <1>1, <1>2, <2>1
<1>4. ASSUME NEW k \in 1 .. N
      PROVE  g[k] = F[<< g[k - 1], seq[k] >>]
  <2> DEFINE s == 1 .. k
  <2>1. k - 1 \in Nat /\ s \in SUBSET (1 .. (k - 1) + 1) /\ (k - 1) + 1 \in s
    OBVIOUS
  <2>2. Max(s) = k
    <3>1. Max(s) = (k - 1) + 1
      <4> HIDE DEF s
      <4> QED  BY <2>1, MaxInterval
    <3> QED  BY <3>1
  <2>3. s \ {k} = 1 .. k - 1 /\ s \in SUBSET (1 .. N) /\ s # {}
    OBVIOUS
  <2>4. g[k] = it[s] /\ g[k - 1] = it[1 .. k - 1]
    OBVIOUS
  <2> HIDE DEF s, g
  <2> QED  BY <1>1, <2>2, <2>3, <2>4
<1> HIDE DEF g
<1> QED  BY <1>3, <1>4

(* Two that agree at the start and step alike agree on the whole sequence. *)
StepAlike(f, g, n) ==
    /\ f[{}] = g[{}]
    /\ \A s \in SUBSET (1 .. n) : s # {} /\ f[s \ {Max(s)}] = g[s \ {Max(s)}] => f[s] = g[s]

LEMMA FoldAgree ==
    ASSUME NEW N \in Nat, NEW f, NEW g, StepAlike(f, g, N)
    PROVE  f[1 .. N] = g[1 .. N]
<1> USE DEF StepAlike
<1> DEFINE T == {n \in Nat : n <= N => f[1 .. n] = g[1 .. n]}
<1>1. 0 \in T
  <2>1. 1 .. 0 = {}
    OBVIOUS
  <2> QED  BY <2>1
<1>2. ASSUME NEW n \in Nat, n \in T
      PROVE  n + 1 \in T
  <2> SUFFICES ASSUME n + 1 <= N PROVE f[1 .. n + 1] = g[1 .. n + 1]
    OBVIOUS
  <2> DEFINE s == 1 .. n + 1
  <2>1. s \in SUBSET (1 .. N) /\ s \in SUBSET (1 .. n + 1) /\ n + 1 \in s
    OBVIOUS
  <2>2. Max(s) = n + 1
    <3> HIDE DEF s
    <3> QED  BY <2>1, MaxInterval
  <2>3. s \ {n + 1} = 1 .. n
    OBVIOUS
  <2>4. f[1 .. n] = g[1 .. n]
    BY <1>2
  <2> HIDE DEF s
  <2>5. s # {} /\ f[s \ {Max(s)}] = g[s \ {Max(s)}]
    BY <2>1, <2>2, <2>3, <2>4
  <2>6. f[s] = g[s]
    BY <2>1, <2>5
  <2> QED  BY <2>6 DEF s
<1>3. Nat \subseteq T
  <2> HIDE DEF T
  <2> QED  BY <1>1, <1>2, SetInduction
<1> QED  BY <1>3

=============================================================================
