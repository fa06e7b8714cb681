----------------------- MODULE SchedulingRulesProofs -----------------------
(***************************************************************************)
(* Facts about the scheduling rules, for any candidate library and policy: *)
(* claims_conflict is symmetric, the sort key is a strict total order, the *)
(* usage of a set of reservations is a natural number, and a plan keeps    *)
(* the reservations compatible and within the limits.                      *)
(***************************************************************************)
EXTENDS SchedulingRules, FiniteSetTheorems, WellFoundedInduction, TLAPS

(* claims_conflict does not depend on the order of its arguments.          *)
LEMMA ConflictSymmetric ==
  ASSUME NEW a, NEW b PROVE ClaimsConflict(a, b) <=> ClaimsConflict(b, a)
  BY DEF ClaimsConflict

(* The effective priority of a waiting candidate is an integer.            *)
LEMMA PriorityIsInt ==
  ASSUME NEW c \in Shapes, NEW w \in Nat
  PROVE  EffectivePriority(c, w) \in Int
<1>1. c.class \in Int
  BY CandidateAssumption DEF IsCandidate
<1>2. w \div AgingWindow \in Int
  BY PolicyAssumption
<1>3. AgingBoost(w) \in Int
  BY <1>2, PolicyAssumption DEF AgingBoost
<1> QED
  BY <1>1, <1>3 DEF EffectivePriority

(* The queue a plan is made from: packages with candidates that wait.      *)
IsQueue(c, w, Q) ==
  /\ Q \subseteq Package
  /\ \A p \in Q : c[p] \in Shapes /\ w[p] \in Nat

(* The parts of the sort key are integers.                                 *)
LEMMA KeyIsInt ==
  ASSUME NEW c, NEW w, NEW Q, IsQueue(c, w, Q), NEW p \in Q
  PROVE  /\ EffectivePriority(c[p], w[p]) \in Int
         /\ c[p].userPriority \in Int
         /\ w[p] \in Nat
         /\ p \in Nat
  BY PriorityIsInt, CandidateAssumption, PackageAssumption DEF IsQueue, IsCandidate

(* The sort key is total: two different candidates are never tied.         *)
LEMMA BeforeTotal ==
  ASSUME NEW c, NEW w, NEW Q, IsQueue(c, w, Q),
         NEW p \in Q, NEW q \in Q, p # q
  PROVE  Before(c, w, p, q) \/ Before(c, w, q, p)
  BY KeyIsInt DEF Before

LEMMA BeforeIrreflexive ==
  ASSUME NEW c, NEW w, NEW Q, IsQueue(c, w, Q), NEW p \in Q
  PROVE  ~Before(c, w, p, p)
  BY KeyIsInt DEF Before

LEMMA BeforeTransitive ==
  ASSUME NEW c, NEW w, NEW Q, IsQueue(c, w, Q),
         NEW p \in Q, NEW q \in Q, NEW r \in Q,
         Before(c, w, p, q), Before(c, w, q, r)
  PROVE  Before(c, w, p, r)
<1> DEFINE a(x) == EffectivePriority(c[x], w[x])
           u(x) == c[x].userPriority
<1>1. \A x \in {p, q, r} : a(x) \in Int /\ u(x) \in Int /\ w[x] \in Nat /\ x \in Nat
  BY KeyIsInt
<1>2. ASSUME NEW x, NEW y
      PROVE  Before(c, w, x, y) <=>
               \/ a(x) < a(y)
               \/ a(x) = a(y) /\ u(x) > u(y)
               \/ a(x) = a(y) /\ u(x) = u(y) /\ w[x] > w[y]
               \/ a(x) = a(y) /\ u(x) = u(y) /\ w[x] = w[y] /\ x < y
  BY DEF Before
<1> HIDE DEF a, u
<1> QED
  BY <1>1, <1>2

(* Among some of the candidates there is one ordered after all the others. *)
LEMMA LastExists ==
  ASSUME NEW c, NEW w, NEW Q, IsQueue(c, w, Q), NEW C \in SUBSET Q, C # {}
  PROVE  \E m \in C : \A x \in C \ {m} : Before(c, w, x, m)
<1> DEFINE Later(x) == {y \in C : Before(c, w, x, y)}
           N == {Cardinality(Later(x)) : x \in C}
<1>1. IsFiniteSet(C)
  BY PackageAssumption, FS_Subset DEF IsQueue
<1>2. \A x \in C : IsFiniteSet(Later(x)) /\ Cardinality(Later(x)) \in Nat
  <2> TAKE x \in C
  <2>1. Later(x) \in SUBSET C
    OBVIOUS
  <2> QED
    BY <1>1, <2>1, FS_Subset, FS_CardinalityType
<1>3. \E n \in N : \A k \in N : ~(<<k, n>> \in OpToRel(<, Nat))
  <2>1. N \subseteq Nat /\ N # {}
    BY <1>2
  <2> QED
    BY <2>1, NatLessThanWellFounded, WFMin
<1>4. PICK m \in C : \A x \in C : ~(Cardinality(Later(x)) < Cardinality(Later(m)))
  BY <1>2, <1>3 DEF OpToRel
<1>5. ASSUME NEW x \in C, Before(c, w, m, x) PROVE FALSE
  <2>1. Later(x) \subseteq Later(m)
    BY <1>5, BeforeTransitive
  <2>2. x \in Later(m) /\ x \notin Later(x)
    BY <1>5, BeforeIrreflexive
  <2>3. Cardinality(Later(x)) <= Cardinality(Later(m))
    BY <1>2, <2>1, FS_Subset
  <2>4. Cardinality(Later(x)) # Cardinality(Later(m))
    BY <1>2, <2>1, <2>2, FS_Subset
  <2>5. Cardinality(Later(x)) < Cardinality(Later(m))
    BY <1>2, <2>3, <2>4
  <2> QED
    BY <1>4, <2>5
<1> QED
  BY <1>5, BeforeTotal

-----------------------------------------------------------------------------
(* Usage.                                                                  *)

(* Packages whose candidates are well-formed: what a usage is summed over. *)
Charged(c, R) == R \subseteq Package /\ \A p \in R : c[p] \in Shapes

LEMMA ChargeIsNat ==
  ASSUME NEW c \in Shapes, NEW d PROVE Charge(c, d) \in Nat
  BY CandidateAssumption DEF Charge, IsCandidate

(* A finite number of packages holds finitely many units.                  *)
LEMMA UnitsFinite ==
  ASSUME NEW c, NEW R, Charged(c, R), NEW d
  PROVE  IsFiniteSet(Units(c, R, d)) /\ Usage(c, R, d) \in Nat
<1> DEFINE own == [p \in R |-> {p} \X (1..Charge(c[p], d))]
           Owns == {{p} \X (1..Charge(c[p], d)) : p \in R}
<1>1. IsFiniteSet(R)
  BY PackageAssumption, FS_Subset DEF Charged
<1>2. own \in Surjection(R, Owns)
  BY DEF Surjection
<1>3. IsFiniteSet(Owns)
  BY <1>1, <1>2, FS_Surjection
<1>4. \A p \in R : IsFiniteSet({p} \X (1..Charge(c[p], d)))
  <2> TAKE p \in R
  <2>1. IsFiniteSet(1..Charge(c[p], d))
    BY ChargeIsNat, FS_Interval DEF Charged
  <2> QED
    BY <2>1, FS_Singleton, FS_Product
<1>5. IsFiniteSet(UNION Owns)
  BY <1>3, <1>4, FS_UNION
<1> QED
  BY <1>5, FS_CardinalityType DEF Units, Usage

(* More reservations never use less.                                       *)
LEMMA UsageMonotone ==
  ASSUME NEW c, NEW R, NEW T, Charged(c, T), R \subseteq T, NEW d
  PROVE  Usage(c, R, d) <= Usage(c, T, d)
<1>1. Units(c, R, d) \in SUBSET Units(c, T, d)
  BY DEF Units
<1> QED
  BY <1>1, UnitsFinite, FS_Subset DEF Usage

(* Reserving one more package adds exactly its charge.                     *)
LEMMA UsageAdd ==
  ASSUME NEW c, NEW R, NEW p, p \notin R, Charged(c, R \cup {p}), NEW d
  PROVE  Usage(c, R \cup {p}, d) = Usage(c, R, d) + Charge(c[p], d)
<1> DEFINE U == Units(c, R, d)
           V == {p} \X (1..Charge(c[p], d))
<1>1. Charge(c[p], d) \in Nat
  BY ChargeIsNat DEF Charged
<1>2. IsFiniteSet(U) /\ Cardinality(U) \in Nat
  BY UnitsFinite DEF Charged, Usage
<1>3. IsFiniteSet(V) /\ Cardinality(V) = Charge(c[p], d)
  <2>1. IsFiniteSet(1..Charge(c[p], d)) /\ Cardinality(1..Charge(c[p], d)) = Charge(c[p], d)
    BY <1>1, FS_Interval
  <2>2. IsFiniteSet({p}) /\ Cardinality({p}) = 1
    BY FS_Singleton
  <2>3. IsFiniteSet(V) /\ Cardinality(V) = Cardinality({p}) * Cardinality(1..Charge(c[p], d))
    BY <2>1, <2>2, FS_Product
  <2>4. \A n \in Nat : 1 * n = n
    OBVIOUS
  <2> QED
    BY <1>1, <2>1, <2>2, <2>3, <2>4
<1>4. U \cap V = {}
  BY DEF Units
<1>5. Units(c, R \cup {p}, d) = U \cup V
  BY DEF Units
<1>6. Cardinality(U \cap V) = 0
  BY <1>4, FS_EmptySet
<1>7. Usage(c, R \cup {p}, d) = Cardinality(U \cup V) /\ Usage(c, R, d) = Cardinality(U)
  BY <1>5 DEF Usage
<1> HIDE DEF U, V
<1>8. Cardinality(U \cup V) = Cardinality(U) + Cardinality(V) - 0
  BY <1>2, <1>3, <1>6, FS_Union
<1> QED
  BY <1>1, <1>2, <1>3, <1>7, <1>8

(* Giving up reservations keeps the rest compatible and within the limits, *)
(* and only the candidates that hold them matter.                          *)
LEMMA FewerReservations ==
  ASSUME NEW c, NEW e, NEW R, NEW T, R \subseteq T, Charged(c, T), \A p \in R : c[p] = e[p],
         Compatible(c, T), WithinLimits(c, T)
  PROVE  Compatible(e, R) /\ WithinLimits(e, R)
<1>1. Compatible(e, R)
  BY DEF Compatible
<1>2. ASSUME NEW d \in DOMAIN Limit PROVE Usage(e, R, d) <= Limit[d]
  <2>1. Units(e, R, d) = Units(c, R, d)
    BY DEF Units
  <2>2. Usage(c, R, d) <= Usage(c, T, d) /\ Usage(c, T, d) <= Limit[d]
    BY <1>2, UsageMonotone DEF WithinLimits
  <2>3. Usage(c, R, d) \in Nat /\ Usage(c, T, d) \in Nat /\ Limit[d] \in Nat
    BY <1>2, UnitsFinite, PolicyAssumption DEF Charged
  <2> QED
    BY <2>1, <2>2, <2>3 DEF Usage
<1> QED
  BY <1>1, <1>2 DEF WithinLimits

-----------------------------------------------------------------------------
(* Plans.  Both lemmas are about any snapshot whose reservations are sound *)
(* and any set of selections the rules allow.                              *)

(* The selections of a plan are compatible with each other and with what   *)
(* was reserved when it was made.                                          *)
LEMMA PlanIsCompatible ==
  ASSUME NEW c, NEW cur, NEW done, NEW w, NEW R, NEW Q, NEW S,
         IsQueue(c, w, Q), Compatible(c, R), IsPlan(c, cur, done, w, R, Q, S)
  PROVE  Compatible(c, R \cup S)
<1> DEFINE Earlier(x) == {y \in S : Before(c, w, y, x)}
<1>1. S \subseteq Q
  BY DEF IsPlan
<1>2. ASSUME NEW x \in S, NEW h \in R \cup Earlier(x)
      PROVE  ~ClaimsConflict(c[x].claims, c[h].claims)
  BY <1>1, <1>2 DEF IsPlan, Admissible
<1> SUFFICES ASSUME NEW p \in R \cup S, NEW q \in R \cup S, p # q
             PROVE  ~ClaimsConflict(c[p].claims, c[q].claims)
  BY DEF Compatible
<1>3. CASE p \in R /\ q \in R
  BY <1>3 DEF Compatible
<1>4. CASE p \in S /\ q \in R
  BY <1>2, <1>4
<1>5. CASE p \in R /\ q \in S
  BY <1>2, <1>5, ConflictSymmetric
<1>6. CASE p \in S /\ q \in S
  <2>1. p \in Earlier(q) \/ q \in Earlier(p)
    BY <1>1, <1>6, BeforeTotal
  <2> QED
    BY <1>2, <1>6, <2>1, ConflictSymmetric
<1> QED
  BY <1>3, <1>4, <1>5, <1>6

(* The selections of a plan and what was reserved stay within every limit: *)
(* the last selection that uses a dimension was tested against all others. *)
LEMMA PlanIsWithinLimits ==
  ASSUME NEW c, NEW cur, NEW done, NEW w, NEW R, NEW Q, NEW S,
         IsQueue(c, w, Q), Charged(c, R), R \cap Q = {}, WithinLimits(c, R),
         IsPlan(c, cur, done, w, R, Q, S)
  PROVE  WithinLimits(c, R \cup S)
<1> SUFFICES ASSUME NEW d \in DOMAIN Limit PROVE Usage(c, R \cup S, d) <= Limit[d]
  BY DEF WithinLimits
<1> DEFINE C == {p \in S : d \in DOMAIN c[p].costs}
<1>1. S \subseteq Q /\ C \subseteq Q
  BY DEF IsPlan
<1>2. Charged(c, R \cup S)
  BY <1>1 DEF Charged, IsQueue
<1>3. Limit[d] \in Nat
  BY PolicyAssumption
<1>4. CASE C = {}
  <2>1. Units(c, R \cup S, d) = Units(c, R, d)
    BY <1>4 DEF Units, Charge
  <2> QED
    BY <2>1 DEF Usage, WithinLimits
<1>5. CASE C # {}
  <2>1. PICK m \in C : \A x \in C \ {m} : Before(c, w, x, m)
    BY <1>1, <1>5, LastExists
  <2> DEFINE H == R \cup {q \in S : Before(c, w, q, m)}
  <2>2. Admissible(c, cur, done, H, m)
    BY <1>1, <2>1 DEF IsPlan
  <2>3. Usage(c, H, d) + Charge(c[m], d) <= Limit[d]
    BY <2>1, <2>2 DEF Admissible, Charge
  <2>4. m \notin H
    BY <1>1, <2>1, BeforeIrreflexive
  <2>5. Charged(c, H \cup {m})
    BY <1>2, <2>1 DEF Charged
  <2>6. Usage(c, H \cup {m}, d) = Usage(c, H, d) + Charge(c[m], d)
    BY <2>4, <2>5, UsageAdd
  <2>7. Units(c, R \cup S, d) \in SUBSET Units(c, H \cup {m}, d)
    BY <2>1 DEF Units, Charge
  <2>8. Usage(c, R \cup S, d) <= Usage(c, H \cup {m}, d)
    BY <2>5, <2>7, UnitsFinite, FS_Subset DEF Usage
  <2>9. Usage(c, R \cup S, d) \in Nat /\ Usage(c, H \cup {m}, d) \in Nat
    BY <1>2, <2>5, UnitsFinite
  <2> QED
    BY <1>3, <2>3, <2>6, <2>8, <2>9
<1> QED
  BY <1>4, <1>5
(* A plan leaves no room: what it defers would not fit beside it, because  *)
(* it already did not fit beside the part of the plan ordered before it.   *)
LEMMA PlanLeavesNoRoom ==
  ASSUME NEW c, NEW cur, NEW done, NEW w, NEW R, NEW Q, NEW S,
         IsQueue(c, w, Q), Charged(c, R), IsPlan(c, cur, done, w, R, Q, S),
         NEW p \in Q \ S
  PROVE  ~Admissible(c, cur, done, R \cup S, p)
<1> SUFFICES ASSUME Admissible(c, cur, done, R \cup S, p) PROVE FALSE
  OBVIOUS
<1> DEFINE H == R \cup {q \in S : Before(c, w, q, p)}
<1>1. ~Admissible(c, cur, done, H, p)
  BY DEF IsPlan
<1>2. Charged(c, R \cup S) /\ Charged(c, H)
  BY DEF IsPlan, IsQueue, Charged
<1>3. ASSUME NEW d \in DOMAIN c[p].costs
      PROVE  d \in DOMAIN Limit /\ Usage(c, H, d) + c[p].costs[d] <= Limit[d]
  <2>1. Usage(c, H, d) <= Usage(c, R \cup S, d)
    BY <1>2, UsageMonotone
  <2>2. Usage(c, H, d) \in Nat /\ Usage(c, R \cup S, d) \in Nat
    BY <1>2, UnitsFinite
  <2>3. d \in DOMAIN Limit /\ Usage(c, R \cup S, d) + c[p].costs[d] <= Limit[d]
    BY <1>3 DEF Admissible
  <2>4. c[p].costs[d] \in Nat /\ Limit[d] \in Nat
    BY <1>3, <2>3, CandidateAssumption, PolicyAssumption DEF IsQueue, IsCandidate
  <2> QED
    BY <2>1, <2>2, <2>3, <2>4
<1> QED
  BY <1>1, <1>3 DEF Admissible

=============================================================================
