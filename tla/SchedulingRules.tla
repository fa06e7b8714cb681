-------------------------- MODULE SchedulingRules --------------------------
(***************************************************************************)
(* The rules of src/src/v3_aidlc/scheduler.py that decide whether two work *)
(* packages may hold reservations together, how much quota a set of        *)
(* reservations uses, in which order candidates are considered and why one *)
(* is deferred.  They are pure: Scheduler walks them one candidate at a    *)
(* time, Reservations uses them inside the shared project state.           *)
(*                                                                         *)
(* A candidate is a record                                                 *)
(*   claims        function from conflict domains to "read" | "write" |    *)
(*                 "exclusive" (non-empty domain)                          *)
(*   costs         function from quota dimensions to Nat (quotaCosts)      *)
(*   deps          the dependencyIds                                       *)
(*   rev           the subjectRevision the candidate was built against     *)
(*   class         PRIORITY_CLASS[priorityClass]: 0 = safety_recovery,     *)
(*                 1 = critical_path, ..., 6 = normal                      *)
(*   userPriority  an integer, larger first                                *)
(* Work package identifiers are naturals, so that their lexical order is <.*)
(***************************************************************************)
EXTENDS Integers, FiniteSets

CONSTANTS
  Package,        \* work package identifiers
  Domain,         \* conflict domains
  Dimension,      \* quota dimensions a candidate may name
  Limit,          \* policy.limits: function from the known dimensions to a maximum
  AgingWindow,    \* policy.agingWindowSeconds
  MaxAgingBoost,  \* policy.maxAgingBoost
  Revision,       \* subject revisions
  Shapes          \* the candidate records that may be submitted

NoRevision == 0   \* current_revisions has no entry for the package
Access == {"read", "write", "exclusive"}

IsCandidate(c) ==
  /\ c.claims \in [DOMAIN c.claims -> Access]
  /\ DOMAIN c.claims \subseteq Domain
  /\ DOMAIN c.claims # {}
  /\ c.costs \in [DOMAIN c.costs -> Nat]
  /\ DOMAIN c.costs \subseteq Dimension
  /\ c.deps \subseteq Package
  /\ c.rev \in Revision
  /\ c.class \in 0..6
  /\ c.userPriority \in Int

(* validate_policy and validate_candidate accept exactly such inputs.      *)
ASSUME PackageAssumption == Package \subseteq Nat /\ IsFiniteSet(Package)
ASSUME PolicyAssumption ==
  /\ DOMAIN Limit \subseteq Dimension
  /\ Limit \in [DOMAIN Limit -> Nat \ {0}]
  /\ AgingWindow \in Nat \ {0}
  /\ MaxAgingBoost \in 0..5
ASSUME CandidateAssumption ==
  /\ Revision \subseteq Nat \ {NoRevision}
  /\ \A c \in Shapes : IsCandidate(c)

-----------------------------------------------------------------------------
(* Claims and quotas.                                                      *)

(* claims_conflict, lifted to two candidates' claims: a shared domain that *)
(* at least one of them does not merely read.                              *)
ClaimsConflict(a, b) ==
  \E d \in DOMAIN a \cap DOMAIN b : a[d] # "read" \/ b[d] # "read"

Charge(c, d) == IF d \in DOMAIN c.costs THEN c.costs[d] ELSE 0

(* The usage of dimension d by the packages R whose candidates are cand:   *)
(* the sum of their charges, as the number of units they hold.             *)
Units(cand, R, d) == UNION {{p} \X (1..Charge(cand[p], d)) : p \in R}
Usage(cand, R, d) == Cardinality(Units(cand, R, d))

(* The packages R may hold their reservations at the same time.            *)
Compatible(cand, R) ==
  \A p, q \in R : p # q => ~ClaimsConflict(cand[p].claims, cand[q].claims)
WithinLimits(cand, R) == \A d \in DOMAIN Limit : Usage(cand, R, d) <= Limit[d]

-----------------------------------------------------------------------------
(* Order.                                                                  *)

AgingBoost(waited) ==
  LET windows == waited \div AgingWindow
  IN  IF windows < MaxAgingBoost THEN windows ELSE MaxAgingBoost

(* Mutation: aged work may reach the class of safety work.                 *)
EffectivePriorityUnfloored(c, waited) ==
  IF c.class - AgingBoost(waited) > 0 THEN c.class - AgingBoost(waited) ELSE 0
(* _effective_priority: safety work is never aged and nothing ages past    *)
(* critical path.                                                          *)
EffectivePriority(c, waited) ==
  IF c.class = 0 THEN 0
  ELSE IF c.class - AgingBoost(waited) > 1 THEN c.class - AgingBoost(waited) ELSE 1

(* The sort key of schedule: effective priority, then larger user          *)
(* priority, then longer waiting (earlier queuedAt), then identifier.      *)
Before(cand, waited, p, q) ==
  LET a == EffectivePriority(cand[p], waited[p])
      b == EffectivePriority(cand[q], waited[q])
      u == cand[p].userPriority
      v == cand[q].userPriority
  IN  \/ a < b
      \/ a = b /\ u > v
      \/ a = b /\ u = v /\ waited[p] > waited[q]
      \/ a = b /\ u = v /\ waited[p] = waited[q] /\ p < q

-----------------------------------------------------------------------------
(* Why a candidate is deferred.  A reason is a pair: its kind and what it  *)
(* names (a package or a dimension; the package itself for a revision).    *)

DependencyReasons(c, done) == {<<"dependency incomplete", q>> : q \in c.deps \ done}

RevisionReasons(p, c, current) ==
  CASE current = NoRevision -> {<<"revision unknown", p>>}
    [] current = c.rev      -> {}
    [] OTHER                -> {<<"revision stale", p>>}

(* _conflict_reasons: one per conflicting holder.                          *)
ConflictReasons(cand, p, held) ==
  {<<"conflict", q>> : q \in {h \in held : ClaimsConflict(cand[p].claims, cand[h].claims)}}

(* Mutation: the candidate's own cost is not counted.                      *)
QuotaReasonsOffByOne(c, used) ==
     {<<"unknown dimension", d>> : d \in DOMAIN c.costs \ DOMAIN Limit}
  \cup {<<"quota exceeded", d>> : d \in {x \in DOMAIN c.costs \cap DOMAIN Limit :
                                            used[x] > Limit[x]}}
(* _quota_reasons: a dimension the policy does not name fails closed.      *)
QuotaReasons(c, used) ==
     {<<"unknown dimension", d>> : d \in DOMAIN c.costs \ DOMAIN Limit}
  \cup {<<"quota exceeded", d>> : d \in {x \in DOMAIN c.costs \cap DOMAIN Limit :
                                            used[x] + c.costs[x] > Limit[x]}}

-----------------------------------------------------------------------------
(* What a schedule promises, without the loop that computes it: the set of *)
(* candidates chosen from queue is the one in which a candidate is present *)
(* exactly when it has no reason to wait, counting the reservations that   *)
(* are active and the chosen candidates ordered before it.                 *)
(* Mutation: a package without a recorded revision passes as current.      *)
AdmissibleUnknownRevision(cand, current, done, held, p) ==
  /\ cand[p].deps \subseteq done
  /\ current[p] \in {NoRevision, cand[p].rev}
  /\ \A h \in held : ~ClaimsConflict(cand[p].claims, cand[h].claims)
  /\ \A d \in DOMAIN cand[p].costs :
       /\ d \in DOMAIN Limit
       /\ Usage(cand, held, d) + cand[p].costs[d] <= Limit[d]
(* Every test of the loop passes, with the packages held so far.           *)
Admissible(cand, current, done, held, p) ==
  /\ cand[p].deps \subseteq done
  /\ current[p] = cand[p].rev
  /\ \A h \in held : ~ClaimsConflict(cand[p].claims, cand[h].claims)
  /\ \A d \in DOMAIN cand[p].costs :
       /\ d \in DOMAIN Limit
       /\ Usage(cand, held, d) + cand[p].costs[d] <= Limit[d]

IsPlan(cand, current, done, waited, reserved, queue, S) ==
  /\ S \subseteq queue
  /\ \A p \in queue :
       p \in S <=> Admissible(cand, current, done,
                              reserved \cup {q \in S : Before(cand, waited, q, p)}, p)

=============================================================================
