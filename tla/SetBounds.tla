------------------------------ MODULE SetBounds ------------------------------
(***************************************************************************)
(* Greatest and least elements of sets of numbers, for the proofs about    *)
(* queues, rings and windows that pick one.                                *)
(***************************************************************************)
EXTENDS Integers, FiniteSets, FiniteSetsExt, FiniteSetTheorems, WellFoundedInduction, TLAPS

(* A finite set of integers has a greatest element: a smallest subset      *)
(* without one would, less an element, have one.                           *)
LEMMA MaxExists ==
  ASSUME NEW S \in SUBSET Int, IsFiniteSet(S), S # {}
  PROVE  \E x \in S : \A y \in S : y <= x
<1> DEFINE Unbounded == {T \in FiniteSubsetsOf(S) : T # {} /\ \A x \in T : \E y \in T : ~(y <= x)}
<1> SUFFICES ASSUME Unbounded # {} PROVE FALSE
  BY FS_Subset DEF FiniteSubsetsOf
<1>1. PICK T \in Unbounded : \A U \in Unbounded : <<U, T>> \notin StrictSubsetOrdering(S)
  <2>1. IsWellFoundedOn(StrictSubsetOrdering(S), FiniteSubsetsOf(S))
    BY FS_StrictSubsetOrderingWellFounded
  <2> HIDE DEF Unbounded
  <2>2. Unbounded \subseteq FiniteSubsetsOf(S)
    BY DEF Unbounded
  <2> QED BY <2>1, <2>2, WFMin
<1>2. PICK x \in T : TRUE
  OBVIOUS
<1>3. PICK y \in T : ~(y <= x)
  OBVIOUS
<1> DEFINE U == T \ {x}
<1>4. U \in FiniteSubsetsOf(S) /\ y \in U /\ U \subseteq T /\ U # T
  <2>1. IsFiniteSet(T) /\ T \subseteq S
    BY DEF FiniteSubsetsOf
  <2>2. IsFiniteSet(U) /\ U \subseteq S
    BY <2>1, FS_RemoveElement
  <2>3. y # x
    BY <1>2, <1>3, <2>1
  <2> QED BY <2>1, <2>2, <2>3, <1>2, <1>3 DEF FiniteSubsetsOf
<1>5. U \notin Unbounded
  <2>1. U \subseteq S /\ T \subseteq S
    BY <1>4 DEF FiniteSubsetsOf
  <2>2. <<U, T>> \in StrictSubsetOrdering(S)
    BY <2>1, <1>4 DEF StrictSubsetOrdering
  <2> QED BY <2>2, <1>1
<1>6. PICK z \in U : \A v \in U : v <= z
  BY <1>4, <1>5
<1>7. \A v \in T : v <= z
  BY <1>3, <1>4, <1>6 DEF FiniteSubsetsOf
<1> QED BY <1>4, <1>6, <1>7

LEMMA MaxIs ==
  ASSUME NEW S \in SUBSET Int, IsFiniteSet(S), S # {}
  PROVE  Max(S) \in S /\ \A y \in S : y <= Max(S)
BY MaxExists DEF Max

LEMMA MaxGiven ==
  ASSUME NEW S \in SUBSET Int, NEW x \in S, \A y \in S : y <= x
  PROVE  Max(S) = x
<1>1. Max(S) \in S /\ \A y \in S : Max(S) >= y
  BY DEF Max
<1>2. Max(S) \in Int /\ x \in Int /\ Max(S) >= x /\ Max(S) <= x
  BY <1>1
<1> QED BY <1>2

(* And a least one.                                                        *)
LEMMA MinIs ==
  ASSUME NEW S \in SUBSET Int, IsFiniteSet(S), S # {}
  PROVE  Min(S) \in S /\ \A y \in S : Min(S) <= y
<1> DEFINE N == {0 - x : x \in S}
<1>1. N \in SUBSET Int /\ N # {}
  <2>1. \A x \in S : 0 - x \in Int
    OBVIOUS
  <2>2. PICK x \in S : TRUE
    OBVIOUS
  <2>3. 0 - x \in N
    BY <2>2
  <2> QED BY <2>1, <2>3
<1>2. IsFiniteSet(N)
  <2> DEFINE f == [x \in S |-> 0 - x]
  <2>1. f \in [S -> N]
    BY DEF N
  <2>2. ASSUME NEW n \in N PROVE \E x \in S : f[x] = n
    BY DEF N
  <2>3. f \in Surjection(S, N)
    BY <2>1, <2>2 DEF Surjection
  <2> QED BY <2>3, FS_Surjection
<1>3. PICK m \in N : \A y \in N : y <= m
  BY <1>1, <1>2, MaxExists
<1>4. PICK x \in S : m = 0 - x
  OBVIOUS
<1>5. \A y \in S : x <= y
  <2> TAKE y \in S
  <2>1. 0 - y <= m
    BY <1>3
  <2> QED BY <2>1, <1>4
<1> QED BY <1>4, <1>5 DEF Min

(* Any set of naturals has a least element.                                *)
LEMMA LeastOfNaturals ==
  ASSUME NEW S \in SUBSET Nat, S # {}
  PROVE  \E m \in S : \A y \in S : m <= y
<1>1. PICK x \in S : TRUE
  OBVIOUS
<1> DEFINE below == {y \in S : y <= x}
<1>2. below \in SUBSET Int /\ below # {} /\ IsFiniteSet(below)
  <2>1. below \in SUBSET Nat /\ x \in Nat /\ \A y \in below : y <= x
    OBVIOUS
  <2>2. IsFiniteSet(below)
    BY <2>1, FS_BoundedSetOfNaturals
  <2>3. x \in below
    BY <1>1
  <2> QED
    BY <2>1, <2>2, <2>3
<1>3. Min(below) \in below /\ \A y \in below : Min(below) <= y
  BY <1>2, MinIs
<1>4. \A y \in S : Min(below) <= y
  <2> TAKE y \in S
  <2>1. y \in Nat /\ x \in Nat /\ Min(below) \in Nat /\ Min(below) <= x
    BY <1>3
  <2> QED
    BY <1>3, <2>1
<1> QED
  BY <1>3, <1>4

(* Induction on a set: what holds 0 and every successor holds all naturals. *)
LEMMA AllNaturals ==
  ASSUME NEW S \in SUBSET Nat, 0 \in S, \A n \in S : n + 1 \in S
  PROVE  S = Nat
<1> SUFFICES ASSUME Nat \ S # {} PROVE FALSE
  OBVIOUS
<1>1. PICK m \in Nat \ S : \A y \in Nat \ S : m <= y
  BY LeastOfNaturals
<1>2. m - 1 \in Nat /\ (m - 1) + 1 = m
  BY <1>1
<1>3. m - 1 \in S
  BY <1>1, <1>2
<1> QED BY <1>1, <1>2, <1>3
=============================================================================
