--------------------------- MODULE ExecutionProofs ---------------------------
(***************************************************************************)
(* Theorems about one execution of the reference orchestrator, for every   *)
(* scenario: any work, policies, contexts, runners, snapshots, acceptance  *)
(* data and integrations.  The argument: every package is either still in  *)
(* the list of the loop that runs, or has been taken out of it in one of   *)
(* the ways execute knows, and each way leaves its mark: a flag that keeps *)
(* the status from being "completed", or everything a completed package    *)
(* has to have.                                                            *)
(***************************************************************************)
EXTENDS Execution, FiniteSetTheorems, SequenceTheorems, WellFoundedInduction, TLAPS

Left == {todo[n] : n \in DOMAIN todo}
Preparing == phase \in {"authorize", "compile", "negotiate"}
Running == phase \in {"dispatch", "invoke", "accept"}
Closing == phase \in {"integrate", "finish"}
Over == phase \in {"returned", "refused", "raised"}

(* The work is in the loop that prepares it or has a trace; the loop that  *)
(* runs it takes what was prepared.                                        *)
LoopsCover ==
  /\ phase = "start" => traces = <<>> /\ prepared = <<>> /\ flags = {}
  /\ phase = "start" \/ Preparing => completions = {}
  /\ Preparing => Work = DOMAIN traces \cup Left /\ DOMAIN traces \cap Left = {}
  /\ Running => Work = DOMAIN traces /\ Left \subseteq DOMAIN prepared
  /\ Closing => Work = DOMAIN traces /\ todo = <<>>
  /\ phase \in {"compile", "negotiate", "invoke", "accept"} => todo # <<>>
  /\ \A m, n \in DOMAIN todo : todo[m] = todo[n] => m = n

(* What the policies of the execution say of facts lets the work proceed.  *)
Granted(facts) ==
  /\ Authorization!Evaluable(setting.policies)
  /\ Authorization!Evaluate(setting.policies, facts) \in Authorization!Auto

(* What is prepared, or is being prepared, was granted on its own facts,   *)
(* and its request carries the decision its trace shows.                   *)
GrantedOnly ==
  /\ phase \in {"compile", "negotiate"} =>
       /\ Granted(current.facts)
       /\ current.authorization = Authorization!Evaluate(setting.policies, current.facts)
  /\ \A p \in DOMAIN prepared :
       /\ Granted(prepared[p].facts)
       /\ prepared[p].request.authorization = traces[p].authorization
       /\ traces[p].authorization \in Authorization!Auto

(* A package that has left the loops shows why.                            *)
Finished(p) == traces[p].run = "completed" /\ p \in earned
LeavesShow ==
  /\ \A p \in DOMAIN traces \ DOMAIN prepared : flags \cap {"block", "decision"} # {}
  /\ Running \/ Closing => \A p \in DOMAIN prepared : p \in Left \/ flags # {} \/ Finished(p)
  /\ phase = "accept" => traces[Head(todo)].run = current.status
  /\ \A c \in completions :
       c.package \in DOMAIN prepared \ Left /\ Finished(c.package)

(* The status is set when the execution ends, and its integration before.  *)
EndsOnce ==
  /\ status = "open" <=> ~Over
  /\ integration # None => phase \in {"finish", "returned", "refused"}
  /\ integration \notin {None, "passed"} /\ phase = "finish" => flags # {}

IInv ==
  /\ TypeOK
  /\ LoopsCover
  /\ GrantedOnly
  /\ LeavesShow
  /\ EndsOnce
  /\ CompletedIsEarned
  /\ IntegrationIsEarned

-----------------------------------------------------------------------------
(* Lists made of sets.                                                     *)

(* In a finite set with a total order every rank is taken by one element.  *)
LEMMA EveryRankTaken ==
  ASSUME NEW S, IsFiniteSet(S), NEW R,
         \A x \in S : <<x, x>> \in R,
         \A x, y \in S : <<x, y>> \in R \/ <<y, x>> \in R,
         \A x, y \in S : <<x, y>> \in R /\ <<y, x>> \in R => x = y,
         \A x, y, z \in S : <<x, y>> \in R /\ <<y, z>> \in R => <<x, z>> \in R
  PROVE  /\ \A n \in 1..Cardinality(S) :
              \E x \in S : Cardinality({y \in S : <<y, x>> \in R}) = n
         /\ \A x \in S : Cardinality({y \in S : <<y, x>> \in R}) \in 1..Cardinality(S)
         /\ \A x, z \in S : Cardinality({y \in S : <<y, x>> \in R})
                              = Cardinality({y \in S : <<y, z>> \in R}) => x = z
<1> DEFINE below(x) == {y \in S : <<y, x>> \in R}
           rank == [x \in S |-> Cardinality(below(x))]
<1>1. ASSUME NEW x \in S PROVE IsFiniteSet(below(x)) /\ Cardinality(below(x)) \in 1..Cardinality(S)
  <2>1. IsFiniteSet(below(x)) /\ Cardinality(below(x)) <= Cardinality(S)
    BY FS_Subset
  <2>2. Cardinality(below(x)) \in Nat /\ Cardinality(S) \in Nat
    BY <2>1, FS_CardinalityType
  <2>3. below(x) # {}
    BY <1>1
  <2>4. Cardinality(below(x)) # 0
    BY <2>1, <2>3, FS_EmptySet
  <2> HIDE DEF below
  <2> QED
    BY <2>1, <2>2, <2>4
<1>2. ASSUME NEW x \in S, NEW z \in S, x # z, <<x, z>> \in R
      PROVE  Cardinality(below(x)) < Cardinality(below(z))
  <2>1. below(x) \subseteq below(z) /\ z \in below(z) /\ z \notin below(x)
    BY <1>2
  <2>2. IsFiniteSet(below(z))
    BY <1>1
  <2> HIDE DEF below
  <2>3. Cardinality(below(x)) <= Cardinality(below(z)) /\ Cardinality(below(x)) # Cardinality(below(z))
    BY <2>1, <2>2, FS_Subset
  <2>4. Cardinality(below(x)) \in Nat /\ Cardinality(below(z)) \in Nat
    BY <1>1
  <2> QED
    BY <2>3, <2>4
<1>3. ASSUME NEW x \in S, NEW z \in S, Cardinality(below(x)) = Cardinality(below(z)) PROVE x = z
  <2>1. Cardinality(below(x)) \in Nat
    BY <1>1
  <2>2. ASSUME x # z PROVE FALSE
    <3>1. CASE <<x, z>> \in R
      <4>1. Cardinality(below(x)) < Cardinality(below(z))
        BY <1>2, <2>2, <3>1
      <4> HIDE DEF below
      <4> QED
        BY <1>3, <2>1, <4>1
    <3>2. CASE <<z, x>> \in R
      <4>1. Cardinality(below(z)) < Cardinality(below(x))
        BY <1>2, <2>2, <3>2
      <4> HIDE DEF below
      <4> QED
        BY <1>3, <2>1, <4>1
    <3> QED
      BY <3>1, <3>2
  <2> QED
    BY <2>2
<1>4. rank \in Injection(S, 1..Cardinality(S))
  <2> HIDE DEF below
  <2>1. rank \in [S -> 1..Cardinality(S)]
    BY <1>1
  <2>2. \A x, z \in S : rank[x] = rank[z] => x = z
    BY <1>3
  <2> QED
    BY <2>1, <2>2 DEF Injection, IsInjective
<1>5. IsFiniteSet(1..Cardinality(S)) /\ Cardinality(1..Cardinality(S)) = Cardinality(S)
  <2>1. Cardinality(S) \in Nat
    BY FS_CardinalityType
  <2> QED
    BY <2>1, FS_Interval
<1>6. rank \in Surjection(S, 1..Cardinality(S))
  BY <1>4, <1>5, FS_Injection
<1>7. \A n \in 1..Cardinality(S) : \E x \in S : Cardinality(below(x)) = n
  <2> HIDE DEF below
  <2> QED
    BY <1>6 DEF Surjection
<1> QED
  BY <1>1, <1>3, <1>7

(* Listed lists each element of a set of packages, once.                   *)
LEMMA ListedIsList ==
  ASSUME NEW S, S \subseteq Package
  PROVE  /\ Listed(S) \in Seq(S)
         /\ \A p \in S : \E n \in DOMAIN Listed(S) : Listed(S)[n] = p
         /\ \A m, n \in DOMAIN Listed(S) : Listed(S)[m] = Listed(S)[n] => m = n
<1> DEFINE R == {r \in S \X S : r[1] <= r[2]}
           rank(p) == Cardinality({q \in S : q <= p})
<1>1. IsFiniteSet(S) /\ S \subseteq Nat /\ Cardinality(S) \in Nat
  BY PackageAssumption, FS_Subset, FS_CardinalityType
<1>2. \A p \in S : {q \in S : <<q, p>> \in R} = {q \in S : q <= p}
  OBVIOUS
<1>3. \A x, y \in S : <<x, y>> \in R <=> x <= y
  OBVIOUS
<1> HIDE DEF R
<1>4. /\ \A n \in 1..Cardinality(S) :
           \E x \in S : Cardinality({y \in S : <<y, x>> \in R}) = n
      /\ \A x \in S : Cardinality({y \in S : <<y, x>> \in R}) \in 1..Cardinality(S)
      /\ \A x, z \in S : Cardinality({y \in S : <<y, x>> \in R})
                           = Cardinality({y \in S : <<y, z>> \in R}) => x = z
  <2>1. /\ \A x \in S : <<x, x>> \in R
        /\ \A x, y \in S : <<x, y>> \in R \/ <<y, x>> \in R
        /\ \A x, y \in S : <<x, y>> \in R /\ <<y, x>> \in R => x = y
        /\ \A x, y, z \in S : <<x, y>> \in R /\ <<y, z>> \in R => <<x, z>> \in R
    BY <1>1, <1>3
  <2> QED
    BY <1>1, <2>1, EveryRankTaken
<1>5. /\ \A n \in 1..Cardinality(S) : \E p \in S : rank(p) = n
      /\ \A p \in S : rank(p) \in 1..Cardinality(S)
      /\ \A p, q \in S : rank(p) = rank(q) => p = q
  BY <1>2, <1>4
<1>6. Listed(S) = [n \in 1..Cardinality(S) |-> CHOOSE p \in S : rank(p) = n]
  BY DEF Listed
<1> HIDE DEF rank
<1>7. \A n \in 1..Cardinality(S) : Listed(S)[n] \in S /\ rank(Listed(S)[n]) = n
  BY <1>5, <1>6
<1>8. DOMAIN Listed(S) = 1..Cardinality(S)
  BY <1>6
<1>9. Listed(S) \in Seq(S)
  BY <1>1, <1>6, <1>7
<1> QED
  BY <1>5, <1>7, <1>8, <1>9

-----------------------------------------------------------------------------
(* What the rules promise.                                                 *)

(* The strictest of some decisions is one of them, and none is stricter.   *)
LEMMA StrictestIsLeast ==
  ASSUME NEW D \in SUBSET Authorization!Decision, D # {}
  PROVE  /\ Authorization!Strictest(D) \in D
         /\ \A e \in D : Authorization!Strictness[e] <=
                           Authorization!Strictness[Authorization!Strictest(D)]
<1>1. \E d \in D : \A e \in D : Authorization!Strictness[e] <= Authorization!Strictness[d]
  BY DEF Authorization!Decision, Authorization!Strictness, Authorization!Budgeted
<1> QED
  BY <1>1 DEF Authorization!Strictest

(* A set whose strictest decision proceeds has only decisions that do.     *)
LEMMA StrictestProceeds ==
  ASSUME NEW D \in SUBSET Authorization!Decision, D # {},
         Authorization!Strictest(D) \in Authorization!Auto
  PROVE  D \subseteq Authorization!Auto
<1>1. ASSUME NEW d \in Authorization!Decision, NEW e \in Authorization!Decision,
             d \in Authorization!Auto,
             Authorization!Strictness[e] <= Authorization!Strictness[d]
      PROVE  e \in Authorization!Auto
  BY <1>1 DEF Authorization!Decision, Authorization!Strictness, Authorization!Auto,
              Authorization!Budgeted
<1> QED
  BY <1>1, StrictestIsLeast

(* Work that is granted proceeds by every rule that speaks of it, within   *)
(* every budget it names.                                                  *)
LEMMA GrantIsSound ==
  ASSUME NEW policies, NEW facts,
         Authorization!Evaluable(policies),
         Authorization!Evaluate(policies, facts) \in Authorization!Auto
  PROVE  LET speaks(r) == \A m \in r.whenAll : m.fact \in DOMAIN facts /\ facts[m.fact] \in m.values
             rules == UNION {policy.rules : policy \in policies}
         IN  /\ \/ \E r \in rules : speaks(r)
                \/ \A policy \in policies :
                     policy.default \notin {"user_decision_required", "blocked"}
             /\ \A r \in rules : speaks(r) =>
                  /\ r.decision \notin {"user_decision_required", "blocked"}
                  /\ \A b \in r.budgets : b.fact \in DOMAIN facts /\ facts[b.fact] <= b.maximum
<1> DEFINE M == Authorization!Matched(policies, facts)
           applied == {Authorization!Applied(r, facts) : r \in M}
           defaults == {policy.default : policy \in policies}
<1>1. \A policy \in policies : /\ policy.default \in Authorization!Decision
                               /\ \A r \in policy.rules : Authorization!ValidRule(r)
  BY DEF Authorization!Evaluable, Authorization!ValidPolicy
<1>2. M = {r \in UNION {policy.rules : policy \in policies} :
             \A m \in r.whenAll : m.fact \in DOMAIN facts /\ facts[m.fact] \in m.values}
  BY DEF Authorization!Matched, Authorization!Matches
<1>3. \A r \in M : Authorization!ValidRule(r)
  BY <1>1, <1>2
<1>4. applied \subseteq Authorization!Decision
  <2>1. \A r \in M : r.decision \in Authorization!Decision
    BY <1>3 DEF Authorization!ValidRule
  <2>2. Authorization!Escalated \in Authorization!Decision
    BY DEF Authorization!Escalated, Authorization!Decision, Authorization!Strictness
  <2> HIDE DEF M
  <2> QED
    BY <2>1, <2>2 DEF Authorization!Applied
<1>5. CASE M = {}
  <2>1. Authorization!Strictest(defaults) \in Authorization!Auto
    BY <1>5 DEF Authorization!Evaluate
  <2>2. defaults \subseteq Authorization!Decision /\ defaults # {}
    BY <1>1 DEF Authorization!Evaluable
  <2>3. defaults \subseteq Authorization!Auto
    BY <2>1, <2>2, StrictestProceeds
  <2> QED
    BY <1>2, <1>5, <2>3 DEF Authorization!Auto, Authorization!Budgeted
<1>6. CASE M # {}
  <2>1. Authorization!Strictest(applied) \in Authorization!Auto
    BY <1>6 DEF Authorization!Evaluate
  <2>2. applied \subseteq Authorization!Auto
    BY <1>4, <1>6, <2>1, StrictestProceeds
  <2>3. \A r \in M : Authorization!Applied(r, facts) \in Authorization!Auto
    BY <2>2
  <2> HIDE DEF M
  <2>4. ASSUME NEW r \in M
        PROVE  /\ r.decision \notin {"user_decision_required", "blocked"}
               /\ \A b \in r.budgets : b.fact \in DOMAIN facts /\ facts[b.fact] <= b.maximum
    <3>1. r.decision = Authorization!Budgeted => Authorization!WithinBudget(r, facts)
      BY <2>3 DEF Authorization!Applied, Authorization!Auto, Authorization!Budgeted,
                  Authorization!Escalated
    <3>2. r.decision # Authorization!Budgeted => r.budgets = {}
      BY <1>3 DEF Authorization!ValidRule
    <3>3. r.decision \in Authorization!Auto
      BY <2>3, <3>1 DEF Authorization!Applied
    <3> QED
      BY <3>1, <3>2, <3>3 DEF Authorization!WithinBudget, Authorization!Auto, Authorization!Budgeted
  <2> QED
    BY <1>2, <1>6, <2>4
<1> QED
  BY <1>5, <1>6

(* A gate whose outcome promotes has proof of every required check, or an  *)
(* exception somebody entitled to it granted.                              *)
LEMMA PromotableIsProven ==
  ASSUME NEW given \in Acceptances, Gate!Evaluable(given), Gate!Outcome(given) \in Gate!Promotable
  PROVE  Proven(given)
<1> SUFFICES ASSUME NEW r \in Gate!Required(given)
             PROVE  \E x \in given.results :
               LET check == given.library[r.check]
                   proof == {e \in given.evidence :
                               /\ e.subject = given.subject /\ e.revision = given.revision
                               /\ e.kind \in check.kinds
                               /\ e.collected <= x.evaluated
                               /\ x.evaluated <= e.collected + check.maxAge}
               IN  /\ x.check = r.check /\ x.version = check.version
                   /\ x.subject = given.subject /\ x.revision = given.revision
                   /\ x.evaluated <= given.evaluated
                   /\ check.independent => x.evaluator # x.producer
                   /\ {x.evidence[n] : n \in DOMAIN x.evidence} \subseteq {e.id : e \in proof}
                   /\ Cardinality({x.evidence[n] : n \in DOMAIN x.evidence}) >= check.minimum
                   /\ \/ x.status = "passed"
                      \/ \E w \in given.exceptions :
                           /\ r.waivable /\ ~r.hard /\ w.check = r.check /\ w.gate = given.gate.id
                           /\ w.authority \in given.gate.authorities
                           /\ w.subject = given.subject /\ w.revision = given.revision
                           /\ w.expires >= given.evaluated
  BY DEF Proven
<1> DEFINE usable == {x \in Gate!ResultsFor(given, r) :
                       Gate!ForSubject(given, x) /\ Gate!Admissible(x, given.library, given.evidence)}
           c == CHOOSE x \in usable : TRUE
           check == given.library[r.check]
<1>1. Gate!Standing(given, r) \notin {"failed", "unresolved"}
  BY DEF Gate!Outcome, Gate!Promotable
<1>2. usable # {} /\ c \in usable
  BY <1>1 DEF Gate!Standing
<1>3. \/ c.status = "passed"
      \/ \E w \in given.exceptions : Gate!ValidException(w, given, r)
  <2> HIDE DEF usable
  <2> SUFFICES ASSUME c.status # "passed", ~\E w \in given.exceptions : Gate!ValidException(w, given, r)
               PROVE  FALSE
    OBVIOUS
  <2>1. Gate!Standing(given, r) \in {"failed", "unresolved"}
    BY <1>2 DEF Gate!Standing, usable
  <2> QED
    BY <1>1, <2>1
<1> HIDE DEF c
<1>4. /\ c \in given.results /\ c.check = r.check
      /\ Gate!ForSubject(given, c) /\ Gate!Admissible(c, given.library, given.evidence)
  BY <1>2 DEF Gate!ResultsFor
<1>5. c.version = check.version
  BY <1>4 DEF Gate!Evaluable, Gate!Foreign, Gate!ResultsFor
<1>6. /\ r \in given.gate.rules /\ r.check \in DOMAIN given.library /\ ~(r.hard /\ r.waivable)
  BY DEF Gate!Required, Gate!Evaluable, Gate!ValidGate
<1>7. /\ check.minimum \in Int /\ check.maxAge \in Int
      /\ c.evaluated \in Int /\ given.evaluated \in Int
      /\ \A e \in given.evidence : e.collected \in Int
      /\ \A w \in given.exceptions : w.expires \in Int
      /\ c.evidence \in Seq({c.evidence[n] : n \in DOMAIN c.evidence})
  BY <1>4, <1>6, AcceptanceAssumption
<1>8. Cardinality({c.evidence[n] : n \in DOMAIN c.evidence}) = Len(c.evidence)
  <2> DEFINE f == [n \in 1..Len(c.evidence) |-> c.evidence[n]]
             T == {c.evidence[n] : n \in DOMAIN c.evidence}
  <2>1. Len(c.evidence) \in Nat /\ DOMAIN c.evidence = 1..Len(c.evidence)
    BY <1>7
  <2>2. f \in Bijection(1..Len(c.evidence), T)
    BY <1>4, <2>1 DEF Gate!Admissible, Bijection, Injection, Surjection, IsInjective
  <2>3. ExistsBijection(1..Len(c.evidence), T)
    BY <2>2 DEF ExistsBijection
  <2> QED
    BY <2>1, <2>3, FS_CountingElements
<1>9. \A n \in DOMAIN c.evidence : \E e \in given.evidence :
        /\ e.id = c.evidence[n]
        /\ e.subject = given.subject /\ e.revision = given.revision /\ e.kind \in check.kinds
        /\ e.collected <= c.evaluated /\ c.evaluated <= e.collected + check.maxAge
  <2> SUFFICES ASSUME NEW n \in DOMAIN c.evidence
               PROVE  \E e \in given.evidence :
                        /\ e.id = c.evidence[n]
                        /\ e.subject = given.subject /\ e.revision = given.revision
                        /\ e.kind \in check.kinds
                        /\ e.collected <= c.evaluated /\ c.evaluated <= e.collected + check.maxAge
    OBVIOUS
  <2>1. PICK e \in given.evidence :
          /\ e.id = c.evidence[n] /\ e.kind \in check.kinds
          /\ e.subject = c.subject /\ e.revision = c.revision
          /\ c.evaluated - e.collected \in 0..check.maxAge
    BY <1>4 DEF Gate!Admissible
  <2>2. e.collected <= c.evaluated /\ c.evaluated <= e.collected + check.maxAge
    BY <1>7, <2>1
  <2> QED
    BY <1>4, <2>1, <2>2 DEF Gate!ForSubject
<1>10. \/ c.status = "passed"
       \/ \E w \in given.exceptions :
            /\ r.waivable /\ ~r.hard /\ w.check = r.check /\ w.gate = given.gate.id
            /\ w.authority \in given.gate.authorities
            /\ w.subject = given.subject /\ w.revision = given.revision
            /\ w.expires >= given.evaluated
  BY <1>3, <1>6, <1>7 DEF Gate!ValidException
<1>11. /\ c.subject = given.subject /\ c.revision = given.revision
       /\ c.evaluated <= given.evaluated
       /\ check.independent => c.evaluator # c.producer
       /\ Len(c.evidence) >= check.minimum
  BY <1>4 DEF Gate!ForSubject, Gate!Admissible
<1>12. {c.evidence[n] : n \in DOMAIN c.evidence} \subseteq
         {e.id : e \in {x \in given.evidence :
                   /\ x.subject = given.subject /\ x.revision = given.revision
                   /\ x.kind \in check.kinds
                   /\ x.collected <= c.evaluated
                   /\ c.evaluated <= x.collected + check.maxAge}}
  BY <1>9
<1> QED
  BY <1>4, <1>5, <1>8, <1>10, <1>11, <1>12

-----------------------------------------------------------------------------
(* The invariant holds at the start and is kept by every call.             *)

LEMMA TakeFirst ==
  ASSUME NEW W, NEW s \in Seq(W), s # <<>>, \A m, n \in DOMAIN s : s[m] = s[n] => m = n
  PROVE  /\ Head(s) \in W /\ Head(s) \in {s[n] : n \in DOMAIN s}
         /\ Tail(s) \in Seq(W)
         /\ {Tail(s)[n] : n \in DOMAIN Tail(s)} = {s[n] : n \in DOMAIN s} \ {Head(s)}
         /\ \A m, n \in DOMAIN Tail(s) : Tail(s)[m] = Tail(s)[n] => m = n
<1>1. Len(s) \in Nat /\ DOMAIN s = 1..Len(s) /\ Len(s) # 0
  OBVIOUS
<1>2. /\ Head(s) = s[1] /\ Tail(s) \in Seq(W) /\ DOMAIN Tail(s) = 1..(Len(s) - 1)
      /\ \A n \in 1..(Len(s) - 1) : Tail(s)[n] = s[n + 1]
  BY <1>1
<1>3. \A n \in 1..(Len(s) - 1) : n + 1 \in 1..Len(s) /\ n + 1 # 1
  BY <1>1
<1>4. \A n \in 1..Len(s) : n # 1 => n - 1 \in 1..(Len(s) - 1) /\ (n - 1) + 1 = n
  BY <1>1
<1>5. \A x \in {Tail(s)[n] : n \in DOMAIN Tail(s)} : x \in {s[n] : n \in DOMAIN s} \ {Head(s)}
  BY <1>1, <1>2, <1>3
<1>6. ASSUME NEW n \in DOMAIN s, s[n] # Head(s) PROVE s[n] \in {Tail(s)[m] : m \in DOMAIN Tail(s)}
  <2>1. n - 1 \in DOMAIN Tail(s) /\ Tail(s)[n - 1] = s[n]
    BY <1>1, <1>2, <1>4, <1>6
  <2> QED
    BY <2>1
<1>7. \A m, n \in DOMAIN Tail(s) : Tail(s)[m] = Tail(s)[n] => m = n
  <2> SUFFICES ASSUME NEW m \in DOMAIN Tail(s), NEW n \in DOMAIN Tail(s), Tail(s)[m] = Tail(s)[n]
               PROVE  m = n
    OBVIOUS
  <2>1. m + 1 = n + 1
    BY <1>1, <1>2, <1>3
  <2> QED
    BY <1>1, <1>2, <2>1
<1> QED
  BY <1>1, <1>2, <1>5, <1>6, <1>7

(* Recording keeps the history a list of events about the work.            *)
LEMMA RecordKeeps ==
  ASSUME NEW s, EventsAbout(s), NEW type, NEW about \in Work \cup {Overall}, NEW outcome
  PROVE  EventsAbout(Append(s, Event(type, about, outcome)))
<1> DEFINE e == Event(type, about, outcome)
           t == Append(s, e)
<1>1. Len(s) \in Nat /\ DOMAIN s = 1..Len(s)
  BY DEF EventsAbout
<1>2. /\ DOMAIN t = 1..(Len(s) + 1) /\ t[Len(s) + 1] = e
      /\ \A n \in 1..Len(s) : t[n] = s[n]
      /\ Len(t) = Len(s) + 1
  BY <1>1 DEF EventsAbout
<1>3. t \in Seq({s[n] : n \in DOMAIN s} \cup {e})
  <2> HIDE DEF e
  <2> QED
    BY AppendProperties, <1>1 DEF EventsAbout
<1>4. e.about = about
  BY DEF Event
<1> HIDE DEF e, t
<1>5. t \in Seq({t[n] : n \in DOMAIN t})
  <2>1. t \in [1..Len(t) -> {s[n] : n \in DOMAIN s} \cup {e}]
    BY <1>3
  <2>2. t \in [1..Len(t) -> {t[n] : n \in DOMAIN t}]
    BY <1>2, <2>1
  <2> QED
    BY <1>1, <1>2, <2>2
<1>6. \A n \in DOMAIN t : t[n].about \in Work \cup {Overall}
  BY <1>1, <1>2, <1>4 DEF EventsAbout
<1> QED
  BY <1>5, <1>6 DEF EventsAbout, t, e

LEMMA InitIInv == Init => IInv
<1> SUFFICES ASSUME Init PROVE IInv
  OBVIOUS
<1>1. DOMAIN prepared = {} /\ DOMAIN traces = {} /\ DOMAIN events = {} /\ DOMAIN todo = {}
  BY DEF Init
<1>2. events \in Seq({events[n] : n \in DOMAIN events})
  BY <1>1 DEF Init
<1>3. TypeOK
  BY <1>1, <1>2 DEF Init, TypeOK, EventsAbout
<1>4. LoopsCover /\ GrantedOnly /\ LeavesShow /\ EndsOnce
  BY <1>1 DEF Init, LoopsCover, GrantedOnly, LeavesShow, EndsOnce,
              Preparing, Running, Closing, Over
<1> QED
  BY <1>3, <1>4, NoneAssumption DEF Init, IInv, CompletedIsEarned, IntegrationIsEarned,
                                    Batch!TerminalIntegration

(* While the execution goes on, nothing is said yet of how it ended.       *)
LEMMA OpenIsQuiet ==
  ASSUME EndsOnce, phase \notin {"finish", "returned", "refused"}, integration' = integration,
         status' = "open"
  PROVE  integration = None /\ CompletedIsEarned' /\ IntegrationIsEarned'
<1>1. integration = None
  BY DEF EndsOnce
<1> QED
  BY <1>1, NoneAssumption DEF CompletedIsEarned, IntegrationIsEarned, Batch!TerminalIntegration

(* An exception leaves everything but the status as it was.                *)
LEMMA RaiseKeeps ==
  ASSUME IInv, phase \notin {"finish", "returned", "refused"}, Raise
  PROVE  IInv'
<1>1. TypeOK'
  BY DEF IInv, TypeOK, Raise
<1>2. LoopsCover' /\ GrantedOnly' /\ LeavesShow'
  BY DEF IInv, Raise, LoopsCover, GrantedOnly, LeavesShow, Granted, Finished,
         Left, Preparing, Running, Closing
<1>3. EndsOnce' /\ IntegrationIsEarned' /\ CompletedIsEarned'
  BY NoneAssumption DEF IInv, Raise, EndsOnce, IntegrationIsEarned, CompletedIsEarned, Over,
                        Batch!TerminalIntegration
<1> QED
  BY <1>1, <1>2, <1>3 DEF IInv

(* A package leaves the preparing loop, prepared or with a flag.           *)
LEMMA DropKeeps ==
  ASSUME IInv, Preparing, todo # <<>>,
         NEW trace, IsTrace(trace), NEW flag \in SUBSET Flags, Drop(Head(todo), trace, flag),
         \/ prepared' = prepared /\ flag \cap {"block", "decision"} # {}
         \/ \E x : /\ prepared' = With(prepared, Head(todo), x)
                   /\ Granted(x.facts)
                   /\ x.request.authorization = trace.authorization
                   /\ trace.authorization \in Authorization!Auto,
         EventsAbout(events'),
         UNCHANGED <<setting, plan, completions, integration, batch, status, earned>>
  PROVE  IInv'
<1> DEFINE p == Head(todo)
<1>1. /\ TypeOK /\ LoopsCover /\ GrantedOnly /\ LeavesShow /\ EndsOnce
      /\ phase \in {"authorize", "compile", "negotiate"} /\ phase' = "authorize"
      /\ completions = {} /\ completions' = {}
      /\ todo \in Seq(Work) /\ \A m, n \in DOMAIN todo : todo[m] = todo[n] => m = n
      /\ todo' = Tail(todo) /\ flags' = flags \cup flag
  BY DEF IInv, TypeOK, LoopsCover, Preparing, Drop
<1>2. /\ p \in Work /\ p \in Left /\ todo' \in Seq(Work) /\ Left' = Left \ {p}
      /\ \A m, n \in DOMAIN todo' : todo'[m] = todo'[n] => m = n
  BY <1>1, TakeFirst DEF Left
<1>3. /\ Work = DOMAIN traces \cup Left /\ DOMAIN traces \cap Left = {}
      /\ DOMAIN traces' = DOMAIN traces \cup {p} /\ p \notin DOMAIN traces
      /\ traces'[p] = trace /\ \A q \in DOMAIN traces : traces'[q] = traces[q]
  BY <1>1, <1>2 DEF LoopsCover, Preparing, Drop, With
<1>4. \/ prepared' = prepared /\ flag \cap {"block", "decision"} # {}
      \/ /\ DOMAIN prepared' = DOMAIN prepared \cup {p}
         /\ \A q \in DOMAIN prepared : q # p => prepared'[q] = prepared[q]
         /\ Granted(prepared'[p].facts)
         /\ prepared'[p].request.authorization = trace.authorization
         /\ trace.authorization \in Authorization!Auto
  BY DEF With
<1>5. TypeOK'
  BY <1>1, <1>2, <1>3, <1>4 DEF TypeOK
<1>6. LoopsCover'
  BY <1>1, <1>2, <1>3 DEF LoopsCover, Preparing, Running, Closing
<1>7. GrantedOnly'
  BY <1>1, <1>3, <1>4 DEF GrantedOnly, Granted, TypeOK
<1>8. LeavesShow'
  BY <1>1, <1>3, <1>4 DEF LeavesShow, Running, Closing
<1>9. EndsOnce' /\ CompletedIsEarned' /\ IntegrationIsEarned'
  <2>1. status = "open" /\ status' = "open"
    BY <1>1 DEF EndsOnce, Over
  <2>2. EndsOnce'
    BY <1>1, <2>1, OpenIsQuiet DEF EndsOnce, Over
  <2> QED
    BY <1>1, <2>1, <2>2, OpenIsQuiet
<1> QED
  BY <1>5, <1>6, <1>7, <1>8, <1>9 DEF IInv

LEMMA BeginningKeeps ==
  ASSUME IInv, \/ \E facts \in ActivationFacts : StayConversational(facts)
               \/ \E facts \in ActivationFacts, s \in Settings : Start(facts, s)
  PROVE  IInv'
<1>1. /\ phase = "start" /\ TypeOK /\ LoopsCover /\ EndsOnce /\ LeavesShow
      /\ traces = <<>> /\ prepared = <<>> /\ flags = {} /\ completions = {}
  BY DEF IInv, LoopsCover, StayConversational, Start
<1>2. DOMAIN traces = {} /\ DOMAIN prepared = {}
  BY <1>1
<1>3. ASSUME NEW facts, StayConversational(facts) PROVE IInv'
  <2>1. TypeOK'
    BY <1>1, <1>3 DEF TypeOK, StayConversational
  <2>2. LoopsCover' /\ GrantedOnly' /\ LeavesShow'
    BY <1>1, <1>2, <1>3 DEF LoopsCover, GrantedOnly, LeavesShow, StayConversational,
                            Left, Preparing, Running, Closing
  <2>3. EndsOnce' /\ CompletedIsEarned' /\ IntegrationIsEarned'
    BY <1>1, <1>3, NoneAssumption
       DEF EndsOnce, CompletedIsEarned, IntegrationIsEarned, Over, StayConversational,
           Batch!TerminalIntegration
  <2> QED
    BY <2>1, <2>2, <2>3 DEF IInv
<1>4. ASSUME NEW facts, NEW s, Start(facts, s), ~Raise PROVE IInv'
  <2>1. /\ phase' = "authorize" /\ todo' = Listed(Work)
        /\ events' = Append(events, Event("orchestration.started", Overall,
                                          Mode!Selected(s.route, s.stage, s.facts, s.optional)))
        /\ UNCHANGED <<current, prepared, traces, flags, plan, completions,
                       integration, batch, status, earned>>
    BY <1>4 DEF Start, Record
  <2>2. EventsAbout(events')
    BY <1>1, <2>1, RecordKeeps DEF TypeOK
  <2>3. /\ todo' \in Seq(Work) /\ Left' = Work
        /\ \A m, n \in DOMAIN todo' : todo'[m] = todo'[n] => m = n
    BY <2>1, ListedIsList, ScenarioAssumption DEF Left
  <2>4. TypeOK'
    BY <1>1, <1>2, <2>1, <2>2, <2>3 DEF TypeOK
  <2>5. LoopsCover' /\ GrantedOnly' /\ LeavesShow'
    BY <1>1, <1>2, <2>1, <2>3 DEF LoopsCover, GrantedOnly, LeavesShow, Preparing, Running, Closing
  <2>6. status = "open" /\ status' = "open"
    BY <1>1, <2>1 DEF EndsOnce, Over
  <2>7. EndsOnce' /\ CompletedIsEarned' /\ IntegrationIsEarned'
    BY <1>1, <2>1, <2>6, OpenIsQuiet DEF EndsOnce, Over
  <2> QED
    BY <2>4, <2>5, <2>7 DEF IInv
<1> QED
  BY <1>1, <1>3, <1>4, RaiseKeeps

LEMMA AuthorizeKeeps ==
  ASSUME IInv, NEW facts \in WorkFacts, Authorize(facts)
  PROVE  IInv'
<1> DEFINE p == Head(todo)
           decision == Authorization!Evaluate(setting.policies, facts)
<1>1. /\ phase = "authorize" /\ todo # <<>> /\ Preparing
      /\ TypeOK /\ LoopsCover /\ GrantedOnly /\ LeavesShow /\ EndsOnce
  BY DEF IInv, Authorize, Preparing
<1>2. p \in Work
  BY <1>1, TakeFirst DEF TypeOK, LoopsCover
<1>3. CASE Raise
  BY <1>1, <1>3, RaiseKeeps
<1>4. CASE ~Raise
  <2>1. /\ Authorization!Evaluable(setting.policies)
        /\ events' = Append(events, Event("authorization.evaluated", p, decision))
        /\ UNCHANGED <<setting, prepared, plan, completions, integration, batch, status, earned>>
    BY <1>4 DEF Authorize, Record
  <2>2. EventsAbout(events')
    BY <1>1, <1>2, <2>1, RecordKeeps DEF TypeOK
  <2>3. CASE decision \in Authorization!Auto
    <3>1. /\ current' = [facts |-> facts, authorization |-> decision]
          /\ phase' = "compile" /\ UNCHANGED <<todo, traces, flags>>
      BY <1>4, <2>3 DEF Authorize
    <3>2. TypeOK'
      BY <1>1, <2>1, <2>2, <3>1 DEF TypeOK
    <3>3. LoopsCover'
      BY <1>1, <2>1, <3>1 DEF LoopsCover, Left, Preparing, Running, Closing
    <3>4. GrantedOnly'
      BY <1>1, <2>1, <2>3, <3>1 DEF GrantedOnly, Granted
    <3>5. LeavesShow'
      BY <1>1, <2>1, <3>1 DEF LeavesShow, Left, Running, Closing, Finished
    <3>6. EndsOnce' /\ CompletedIsEarned' /\ IntegrationIsEarned'
      <4>1. status = "open" /\ status' = "open"
        BY <1>1, <2>1 DEF EndsOnce, Over
      <4> QED
        BY <1>1, <2>1, <3>1, <4>1, OpenIsQuiet DEF EndsOnce, Over
    <3> QED
      BY <3>2, <3>3, <3>4, <3>5, <3>6 DEF IInv
  <2>4. CASE decision \notin Authorization!Auto
    <3> DEFINE flag == {IF decision = "blocked" THEN "block" ELSE "decision"}
    <3>1. Drop(p, Trace(decision), flag)
      BY <1>4, <2>4 DEF Authorize
    <3>2. flag \in SUBSET Flags /\ flag \cap {"block", "decision"} # {}
      BY DEF Flags
    <3>3. IsTrace(Trace(decision))
      BY DEF IsTrace, Trace
    <3> HIDE DEF flag
    <3> QED
      BY <1>1, <2>1, <2>2, <3>1, <3>2, <3>3, DropKeeps
  <2> QED
    BY <2>3, <2>4
<1> QED
  BY <1>3, <1>4

LEMMA CompileKeeps ==
  ASSUME IInv, NEW name \in DOMAIN Context, Compile(name)
  PROVE  IInv'
<1> DEFINE p == Head(todo)
<1>1. /\ phase = "compile" /\ todo # <<>> /\ Preparing
      /\ TypeOK /\ LoopsCover /\ GrantedOnly /\ LeavesShow /\ EndsOnce
      /\ UNCHANGED <<setting, prepared, plan, completions, integration, batch, status, earned>>
  BY DEF IInv, Compile, LoopsCover, Preparing
<1>2. p \in Work
  BY <1>1, TakeFirst DEF TypeOK, LoopsCover
<1>3. CASE phase' = "authorize"
  <2>1. /\ Drop(p, Trace(current.authorization), {"block"})
        /\ events' = Append(events, Event("context.rejected", p, None))
    BY <1>3 DEF Compile, Record
  <2>2. EventsAbout(events')
    BY <1>1, <1>2, <2>1, RecordKeeps DEF TypeOK
  <2>3. IsTrace(Trace(current.authorization)) /\ {"block"} \in SUBSET Flags
    BY DEF IsTrace, Trace, Flags
  <2>4. {"block"} \cap {"block", "decision"} # {}
    OBVIOUS
  <2> QED
    BY <1>1, <2>1, <2>2, <2>3, <2>4, DropKeeps
<1>4. CASE phase' # "authorize"
  <2>1. /\ phase' = "negotiate" /\ UNCHANGED <<todo, traces, flags, events>>
        /\ current'.facts = current.facts /\ current'.authorization = current.authorization
    BY <1>4 DEF Compile, Drop
  <2>2. TypeOK'
    BY <1>1, <2>1 DEF TypeOK
  <2>3. LoopsCover'
    BY <1>1, <2>1 DEF LoopsCover, Left, Preparing, Running, Closing
  <2>4. GrantedOnly'
    BY <1>1, <2>1 DEF GrantedOnly, Granted
  <2>5. LeavesShow'
    BY <1>1, <2>1 DEF LeavesShow, Left, Running, Closing, Finished
  <2>6. EndsOnce' /\ CompletedIsEarned' /\ IntegrationIsEarned'
    <3>1. status = "open" /\ status' = "open"
      BY <1>1 DEF EndsOnce, Over
    <3> QED
      BY <1>1, <2>1, <3>1, OpenIsQuiet DEF EndsOnce, Over
  <2> QED
    BY <2>2, <2>3, <2>4, <2>5, <2>6 DEF IInv
<1> QED
  BY <1>3, <1>4

LEMMA NegotiateKeeps ==
  ASSUME IInv, NEW r \in Requests, Negotiate(r)
  PROVE  IInv'
<1> DEFINE p == Head(todo)
           request == Filled(r, p)
           runner == Adapter!Preferred(request, Profiles)
           trace == [Trace(current.authorization) EXCEPT !.manifest = "compiled"]
           equipped == [trace EXCEPT !.adapter = runner.adapter, !.schedule = "pending"]
           x == [facts |-> current.facts, context |-> current.context,
                 request |-> request, runner |-> runner]
<1>1. /\ phase = "negotiate" /\ todo # <<>> /\ Preparing
      /\ TypeOK /\ LoopsCover /\ GrantedOnly /\ LeavesShow /\ EndsOnce
      /\ UNCHANGED <<setting, plan, completions, integration, batch, status, earned>>
  BY DEF IInv, Negotiate, LoopsCover, Preparing
<1>2. p \in Work
  BY <1>1, TakeFirst DEF TypeOK, LoopsCover
<1>3. /\ IsTrace(trace) /\ IsTrace(equipped)
      /\ equipped.authorization = current.authorization
  <2> HIDE DEF runner
  <2>1. trace = [authorization |-> current.authorization, manifest |-> "compiled",
                 adapter |-> None, schedule |-> "not_eligible", run |-> None, gate |-> None]
    BY DEF Trace
  <2>2. /\ DOMAIN equipped = {"authorization", "manifest", "adapter", "schedule", "run", "gate"}
        /\ equipped.authorization = current.authorization
    BY <2>1
  <2>3. equipped = [f \in {"authorization", "manifest", "adapter", "schedule", "run", "gate"} |->
                      equipped[f]]
    BY <2>1
  <2> HIDE DEF trace, equipped
  <2> QED
    BY <2>1, <2>2, <2>3 DEF IsTrace
<1>4. CASE Adapter!NoneAccepts(request, Profiles)
  <2>1. /\ Drop(p, trace, {"block"}) /\ prepared' = prepared
        /\ events' = Append(events, Event("capability.rejected", p, None))
    BY <1>4 DEF Negotiate, Record
  <2>2. EventsAbout(events')
    BY <1>1, <1>2, <2>1, RecordKeeps DEF TypeOK
  <2>3. {"block"} \in SUBSET Flags /\ {"block"} \cap {"block", "decision"} # {}
    BY DEF Flags
  <2> HIDE DEF trace
  <2> QED
    BY <1>1, <1>3, <2>1, <2>2, <2>3, DropKeeps
<1>5. CASE ~Adapter!NoneAccepts(request, Profiles)
  <2>1. /\ Drop(p, equipped, {}) /\ prepared' = With(prepared, p, x)
        /\ events' = Append(events, Event("capability.negotiated", p, runner.adapter))
    BY <1>5 DEF Negotiate, Record
  <2>2. EventsAbout(events')
    BY <1>1, <1>2, <2>1, RecordKeeps DEF TypeOK
  <2>3. /\ Granted(x.facts)
        /\ x.request.authorization = equipped.authorization
        /\ equipped.authorization \in Authorization!Auto
    BY <1>1, <1>3 DEF GrantedOnly, Granted, Filled, OfSize
  <2>4. {} \in SUBSET Flags
    OBVIOUS
  <2> HIDE DEF x, equipped
  <2> QED
    BY <1>1, <1>3, <2>1, <2>2, <2>3, <2>4, DropKeeps
<1> QED
  BY <1>4, <1>5

LEMMA SchedulingKeeps ==
  ASSUME IInv, NothingPrepared \/ \E at \in Snapshots : Plan(at)
  PROVE  IInv'
<1>1. /\ phase = "authorize" /\ todo = <<>> /\ DOMAIN todo = {} /\ Left = {}
      /\ TypeOK /\ LoopsCover /\ GrantedOnly /\ LeavesShow /\ EndsOnce
      /\ Work = DOMAIN traces /\ completions = {} /\ completions' = {}
      /\ UNCHANGED <<setting, current, prepared, traces, flags, integration, batch, status, earned>>
  <2>1. phase = "authorize" /\ todo = <<>> /\ DOMAIN todo = {} /\ Left = {}
    BY DEF NothingPrepared, Plan, Left
  <2> QED
    BY <2>1 DEF IInv, LoopsCover, NothingPrepared, Plan, Preparing
<1>2. CASE NothingPrepared
  <2>1. /\ phase' = "integrate" /\ UNCHANGED <<todo, plan, events>> /\ DOMAIN prepared = {}
    BY <1>2 DEF NothingPrepared
  <2>2. TypeOK'
    BY <1>1, <2>1 DEF TypeOK
  <2>3. LoopsCover' /\ GrantedOnly'
    BY <1>1, <2>1 DEF LoopsCover, GrantedOnly, Granted, Preparing, Running, Closing
  <2>4. LeavesShow'
    BY <1>1, <2>1 DEF LeavesShow
  <2>5. EndsOnce' /\ CompletedIsEarned' /\ IntegrationIsEarned'
    <3>1. status = "open" /\ status' = "open"
      BY <1>1 DEF EndsOnce, Over
    <3> QED
      BY <1>1, <2>1, <3>1, OpenIsQuiet DEF EndsOnce, Over
  <2> QED
    BY <2>2, <2>3, <2>4, <2>5 DEF IInv
<1>3. ASSUME NEW at \in Snapshots, Plan(at) PROVE IInv'
  <2>1. PICK S \in SUBSET DOMAIN prepared :
          /\ plan' = S
          /\ events' = Append(events, Event("schedule.planned", Overall, S))
    BY <1>3 DEF Plan, Record
  <2>2. phase' = "dispatch" /\ todo' = Listed(DOMAIN prepared)
    BY <1>3 DEF Plan
  <2>3. DOMAIN prepared \subseteq Work
    BY <1>1 DEF TypeOK
  <2>4. /\ todo' \in Seq(DOMAIN prepared) /\ Left' = DOMAIN prepared
        /\ \A m, n \in DOMAIN todo' : todo'[m] = todo'[n] => m = n
    <3> DEFINE D == DOMAIN prepared
               L == Listed(D)
    <3>1. D \subseteq Package /\ todo' = L
      BY <2>2, <2>3, ScenarioAssumption
    <3> HIDE DEF D, L
    <3>2. /\ L \in Seq(D) /\ \A q \in D : \E n \in DOMAIN L : L[n] = q
          /\ \A m, n \in DOMAIN L : L[m] = L[n] => m = n
      BY <3>1, ListedIsList DEF L
    <3>3. {L[n] : n \in DOMAIN L} = D
      BY <3>2
    <3> QED
      BY <3>1, <3>2, <3>3 DEF Left, D
  <2>5. EventsAbout(events')
    BY <1>1, <2>1, RecordKeeps DEF TypeOK
  <2>6. TypeOK'
    <3>1. todo' \in Seq(Work)
      BY <2>3, <2>4
    <3> QED
      BY <1>1, <2>1, <2>2, <2>5, <3>1 DEF TypeOK
  <2>7. LoopsCover' /\ GrantedOnly'
    BY <1>1, <2>2, <2>4 DEF LoopsCover, GrantedOnly, Granted, Preparing, Running, Closing
  <2>8. LeavesShow'
    BY <1>1, <2>2, <2>4 DEF LeavesShow
  <2>9. EndsOnce' /\ CompletedIsEarned' /\ IntegrationIsEarned'
    <3>1. status = "open" /\ status' = "open"
      BY <1>1 DEF EndsOnce, Over
    <3> QED
      BY <1>1, <2>2, <3>1, OpenIsQuiet DEF EndsOnce, Over
  <2> QED
    BY <2>6, <2>7, <2>8, <2>9 DEF IInv
<1> QED
  BY <1>2, <1>3

(* A package of the running loop is dealt with, or leaves it: finished, or *)
(* with a flag.                                                            *)
LEMMA RunningKeeps ==
  ASSUME IInv, Running, todo # <<>>, EventsAbout(events'),
         UNCHANGED <<setting, prepared, plan, integration, batch, status>>,
         flags' \subseteq Flags, flags \subseteq flags', earned \subseteq earned',
         DOMAIN traces' = DOMAIN traces,
         \A q \in DOMAIN traces :
           /\ IsTrace(traces'[q]) /\ traces'[q].authorization = traces[q].authorization
           /\ q # Head(todo) => traces'[q] = traces[q],
         \/ /\ phase' \in {"invoke", "accept"} /\ todo' = todo /\ completions' = completions
            /\ phase' = "accept" => traces'[Head(todo)].run = current'.status
         \/ /\ NextPackage
            /\ flags' # {} \/ (traces'[Head(todo)].run = "completed" /\ Head(todo) \in earned')
            /\ \A c \in completions' :
                 \/ c \in completions
                 \/ /\ c.package = Head(todo)
                    /\ traces'[Head(todo)].run = "completed" /\ Head(todo) \in earned'
  PROVE  IInv'
<1> DEFINE p == Head(todo)
<1>1. /\ TypeOK /\ LoopsCover /\ GrantedOnly /\ LeavesShow /\ EndsOnce
      /\ phase \in {"dispatch", "invoke", "accept"} /\ phase' \in {"dispatch", "invoke", "accept"}
      /\ todo \in Seq(Work) /\ \A m, n \in DOMAIN todo : todo[m] = todo[n] => m = n
      /\ Work = DOMAIN traces /\ Left \subseteq DOMAIN prepared
  BY DEF IInv, TypeOK, LoopsCover, Running, NextPackage
<1>2. /\ p \in Work /\ p \in Left /\ Tail(todo) \in Seq(Work)
      /\ {Tail(todo)[n] : n \in DOMAIN Tail(todo)} = Left \ {p}
      /\ \A m, n \in DOMAIN Tail(todo) : Tail(todo)[m] = Tail(todo)[n] => m = n
  BY <1>1, TakeFirst DEF Left
<1>3. /\ todo' \in Seq(Work) /\ Left' \subseteq Left /\ Left \subseteq Left' \cup {p}
      /\ \A m, n \in DOMAIN todo' : todo'[m] = todo'[n] => m = n
      /\ NextPackage => p \notin Left'
  <2>1. CASE todo' = todo /\ ~NextPackage
    BY <1>1, <1>2, <2>1 DEF Left
  <2>2. CASE NextPackage
    <3>1. todo' = Tail(todo)
      BY <2>2 DEF NextPackage
    <3>2. Left' = {Tail(todo)[n] : n \in DOMAIN Tail(todo)}
      BY <3>1 DEF Left
    <3> QED
      BY <1>2, <3>1, <3>2
  <2> QED
    BY <2>1, <2>2
<1>4. \A c \in completions' : c.package \in DOMAIN prepared
  BY <1>1, <1>2 DEF TypeOK, NextPackage
<1>5. TypeOK'
  BY <1>1, <1>3, <1>4 DEF TypeOK
<1>6. LoopsCover'
  BY <1>1, <1>3 DEF LoopsCover, Preparing, Running, Closing, NextPackage
<1>7. GrantedOnly'
  BY <1>1 DEF GrantedOnly, Granted, TypeOK
<1>8. LeavesShow'
  <2>1. \A q \in DOMAIN traces : q # p /\ Finished(q) => Finished(q)'
    BY DEF Finished
  <2>2. \A q \in DOMAIN traces' \ DOMAIN prepared' : flags' \cap {"block", "decision"} # {}
    BY <1>1 DEF LeavesShow
  <2>3. \A q \in DOMAIN prepared : q \in Left' \/ flags' # {} \/ Finished(q)'
    <3> SUFFICES ASSUME NEW q \in DOMAIN prepared, q \notin Left', flags' = {}
                 PROVE  Finished(q)'
      OBVIOUS
    <3>1. CASE q = p
      BY <1>2, <3>1 DEF Finished, Left
    <3>2. CASE q # p
      <4>1. q \notin Left /\ flags = {}
        BY <1>3, <3>2
      <4> QED
        BY <1>1, <2>1, <3>2, <4>1 DEF LeavesShow, Running, TypeOK
    <3> QED
      BY <3>1, <3>2
  <2>4. phase' = "accept" => traces'[Head(todo')].run = current'.status
    BY DEF NextPackage
  <2>5. \A c \in completions' : c.package \in DOMAIN prepared' \ Left' /\ Finished(c.package)'
    <3> SUFFICES ASSUME NEW c \in completions'
                 PROVE  c.package \notin Left' /\ Finished(c.package)'
      BY <1>4
    <3>1. CASE c \in completions
      <4>1. c.package \in DOMAIN prepared \ Left /\ Finished(c.package)
        BY <1>1, <3>1 DEF LeavesShow
      <4>2. c.package # p /\ c.package \notin Left' /\ c.package \in DOMAIN traces
        BY <1>1, <1>2, <1>3, <4>1 DEF TypeOK
      <4> QED
        BY <2>1, <4>1, <4>2
    <3>2. CASE c \notin completions
      BY <1>3, <3>2 DEF Finished
    <3> QED
      BY <3>1, <3>2
  <2> QED
    BY <2>2, <2>3, <2>4, <2>5 DEF LeavesShow
<1>9. EndsOnce' /\ CompletedIsEarned' /\ IntegrationIsEarned'
  <2>1. status = "open" /\ status' = "open"
    BY <1>1 DEF EndsOnce, Over
  <2> QED
    BY <1>1, <2>1, OpenIsQuiet DEF EndsOnce, Over
<1> QED
  BY <1>5, <1>6, <1>7, <1>8, <1>9 DEF IInv

(* The loop is done with its first package.                                *)
LEMMA TakeKeeps ==
  ASSUME IInv, Running, todo # <<>>, EventsAbout(events'), NextPackage,
         setting' = setting, prepared' = prepared, plan' = plan,
         integration' = integration, batch' = batch, status' = status,
         flags' \subseteq Flags, flags \subseteq flags', earned \subseteq earned',
         DOMAIN traces' = DOMAIN traces,
         \A q \in DOMAIN traces : IsTrace(traces'[q]),
         \A q \in DOMAIN traces : traces'[q].authorization = traces[q].authorization,
         \A q \in DOMAIN traces : q # Head(todo) => traces'[q] = traces[q],
         flags' # {} \/ (traces'[Head(todo)].run = "completed" /\ Head(todo) \in earned'),
         \A c \in completions' :
           \/ c \in completions
           \/ /\ c.package = Head(todo)
              /\ traces'[Head(todo)].run = "completed" /\ Head(todo) \in earned'
  PROVE  IInv'
BY RunningKeeps

(* A mark on a trace leaves it a trace, under the same authorization.      *)
LEMMA MarkKeeps ==
  ASSUME NEW t, IsTrace(t), NEW x
  PROVE  /\ IsTrace([t EXCEPT !.schedule = x]) /\ IsTrace([t EXCEPT !.gate = x])
         /\ IsTrace([t EXCEPT !.run = x])
         /\ [t EXCEPT !.schedule = x].authorization = t.authorization
         /\ [t EXCEPT !.gate = x].authorization = t.authorization
         /\ [t EXCEPT !.run = x].authorization = t.authorization
         /\ [t EXCEPT !.gate = x].run = t.run /\ [t EXCEPT !.run = x].run = x
<1>1. DOMAIN t = {"authorization", "manifest", "adapter", "schedule", "run", "gate"}
  BY DEF IsTrace
<1>2. ASSUME NEW f \in {"schedule", "run", "gate"} PROVE IsTrace([t EXCEPT ![f] = x])
  <2> DEFINE v == [t EXCEPT ![f] = x]
  <2>1. v = [g \in {"authorization", "manifest", "adapter", "schedule", "run", "gate"} |-> v[g]]
    BY <1>1
  <2> HIDE DEF v
  <2>2. IsTrace(v)
    BY <2>1 DEF IsTrace
  <2> QED
    BY <2>2 DEF v
<1>3. /\ IsTrace([t EXCEPT !.schedule = x]) /\ IsTrace([t EXCEPT !.gate = x])
      /\ IsTrace([t EXCEPT !.run = x])
  BY <1>2
<1> QED
  BY <1>1, <1>3

(* So do the two that a run leaves when it returns.                        *)
LEMMA ReturnKeeps ==
  ASSUME NEW t, IsTrace(t), NEW x
  PROVE  LET v == [[t EXCEPT !.schedule = "selected"] EXCEPT !.run = x]
         IN  IsTrace(v) /\ v.authorization = t.authorization /\ v.run = x
<1>1. PICK u : u = [t EXCEPT !.schedule = "selected"]
  OBVIOUS
<1>2. IsTrace(u) /\ u.authorization = t.authorization
  BY <1>1, MarkKeeps
<1>3. /\ IsTrace([u EXCEPT !.run = x]) /\ [u EXCEPT !.run = x].run = x
      /\ [u EXCEPT !.run = x].authorization = u.authorization
  BY <1>2, MarkKeeps
<1> QED
  BY <1>1, <1>2, <1>3

LEMMA DeferKeeps == ASSUME IInv, Defer PROVE IInv'
<1> DEFINE p == Head(todo)
<1>1. /\ phase = "dispatch" /\ Running /\ todo # <<>> /\ TypeOK
      /\ p \in DOMAIN traces
  <2>1. phase = "dispatch" /\ Running /\ todo # <<>> /\ TypeOK /\ LoopsCover
    BY DEF Defer, IInv, Running
  <2> QED
    BY <2>1, TakeFirst DEF TypeOK, LoopsCover, Left
<1>2. traces' = [traces EXCEPT ![p] = [traces[p] EXCEPT !.schedule = "deferred"]]
  BY DEF Defer
<1>3. /\ DOMAIN traces' = DOMAIN traces
      /\ \A q \in DOMAIN traces :
           /\ IsTrace(traces'[q]) /\ traces'[q].authorization = traces[q].authorization
           /\ q # p => traces'[q] = traces[q]
  <2> DEFINE t == [traces[p] EXCEPT !.schedule = "deferred"]
  <2>1. IsTrace(t) /\ t.authorization = traces[p].authorization
    BY <1>1, MarkKeeps DEF TypeOK
  <2> HIDE DEF t
  <2>2. traces' = [traces EXCEPT ![p] = t]
    BY <1>2 DEF t
  <2> QED
    BY <1>1, <2>1, <2>2 DEF TypeOK
<1>4. flags' \subseteq Flags /\ flags \subseteq flags' /\ flags' # {}
  BY <1>1 DEF Defer, TypeOK, Flags
<1>5. /\ NextPackage /\ EventsAbout(events')
      /\ UNCHANGED <<setting, prepared, plan, integration, batch, status, earned, completions>>
  BY <1>1 DEF Defer, TypeOK
<1> QED
  BY <1>1, <1>3, <1>4, <1>5, TakeKeeps

LEMMA DispatchKeeps == ASSUME IInv, Dispatch PROVE IInv'
<1> DEFINE p == Head(todo)
<1>1. /\ phase = "dispatch" /\ Running /\ todo # <<>> /\ TypeOK
      /\ p \in Work
  <2>1. phase = "dispatch" /\ Running /\ todo # <<>> /\ TypeOK
    BY DEF Dispatch, IInv, Running
  <2> QED
    BY <2>1, TakeFirst DEF TypeOK
<1>2. /\ events' = Append(events, Event("run.dispatched", p, prepared[p].request.effects))
      /\ phase' = "invoke"
      /\ UNCHANGED <<setting, todo, prepared, traces, flags, plan, completions,
                     integration, batch, status, earned>>
  BY DEF Dispatch, Record
<1>3. EventsAbout(events')
  BY <1>1, <1>2, RecordKeeps DEF TypeOK
<1>4. \A q \in DOMAIN traces : IsTrace(traces[q])
  BY <1>1 DEF TypeOK
<1>5. flags' \subseteq Flags
  BY <1>1, <1>2 DEF TypeOK
<1> QED
  BY <1>1, <1>2, <1>3, <1>4, <1>5, RunningKeeps

LEMMA InvokeKeeps ==
  ASSUME IInv, InvokeFails \/ \E raw \in Raws : Invoke(raw)
  PROVE  IInv'
<1> DEFINE p == Head(todo)
<1>1. /\ phase = "invoke" /\ Running /\ todo # <<>> /\ TypeOK
      /\ p \in Work /\ p \in DOMAIN traces
  <2>1. phase = "invoke" /\ Running /\ TypeOK /\ LoopsCover
    BY DEF InvokeFails, Invoke, IInv, Running
  <2>2. todo # <<>>
    BY <2>1 DEF LoopsCover
  <2> QED
    BY <2>1, <2>2, TakeFirst DEF TypeOK, LoopsCover
<1>2. CASE Raise
  BY <1>1, <1>2, RaiseKeeps
<1>3. ASSUME NEW raw \in Raws, Invoke(raw), ~Raise PROVE IInv'
  <2>1. /\ events' = Append(events, Event("run.completed", p, raw.status))
        /\ current' = [status |-> raw.status, evidence |-> raw.evidence]
        /\ traces' = [traces EXCEPT ![p] =
             [[traces[p] EXCEPT !.schedule = "selected"] EXCEPT !.run = raw.status]]
        /\ phase' = "accept"
        /\ UNCHANGED <<setting, todo, prepared, flags, plan, completions,
                       integration, batch, status, earned>>
    BY <1>1, <1>3 DEF Invoke, Record
  <2>2. EventsAbout(events')
    BY <1>1, <2>1, RecordKeeps DEF TypeOK
  <2>3. /\ DOMAIN traces' = DOMAIN traces /\ traces'[p].run = raw.status
        /\ \A q \in DOMAIN traces :
             /\ IsTrace(traces'[q]) /\ traces'[q].authorization = traces[q].authorization
             /\ q # p => traces'[q] = traces[q]
    <3> DEFINE t == [[traces[p] EXCEPT !.schedule = "selected"] EXCEPT !.run = raw.status]
    <3>1. IsTrace(t) /\ t.authorization = traces[p].authorization /\ t.run = raw.status
      <4>1. IsTrace(traces[p])
        BY <1>1 DEF TypeOK
      <4> QED
        BY <4>1, ReturnKeeps
    <3> HIDE DEF t
    <3>2. traces' = [traces EXCEPT ![p] = t]
      BY <2>1 DEF t
    <3> QED
      BY <1>1, <3>1, <3>2 DEF TypeOK
  <2>4. flags' \subseteq Flags /\ current'.status = raw.status
    BY <1>1, <2>1 DEF TypeOK
  <2> QED
    BY <1>1, <2>1, <2>2, <2>3, <2>4, RunningKeeps
<1> QED
  BY <1>2, <1>3 DEF InvokeFails

LEMMA RejectKeeps == ASSUME IInv, Reject PROVE IInv'
<1>1. /\ phase = "accept" /\ Running /\ TypeOK /\ LoopsCover
      /\ flags' = flags \cup {"failure"} /\ NextPackage
      /\ UNCHANGED <<setting, prepared, traces, plan, completions, integration, batch,
                     events, status, earned>>
  BY DEF Reject, IInv, Running
<1>2. todo # <<>> /\ flags' \subseteq Flags /\ flags' # {} /\ EventsAbout(events')
      /\ \A q \in DOMAIN traces : IsTrace(traces[q])
  BY <1>1 DEF LoopsCover, TypeOK, Flags
<1> QED
  BY <1>1, <1>2, TakeKeeps

LEMMA AcceptKeeps ==
  ASSUME IInv, NEW given \in Acceptances, NEW completion, Accept(given, completion)
  PROVE  IInv'
<1> DEFINE p == Head(todo)
           outcome == Gate!Outcome(given)
<1>1. /\ phase = "accept" /\ Running /\ todo # <<>> /\ TypeOK /\ current.status = "completed"
      /\ p \in Work /\ p \in DOMAIN traces /\ traces[p].run = "completed"
  <2>1. /\ phase = "accept" /\ Running /\ TypeOK /\ LoopsCover /\ LeavesShow
        /\ current.status = "completed"
    BY DEF Accept, IInv, Running
  <2>2. todo # <<>> /\ traces[p].run = "completed"
    BY <2>1 DEF LoopsCover, LeavesShow
  <2> QED
    BY <2>1, <2>2, TakeFirst DEF TypeOK, LoopsCover
<1>2. CASE ~Gate!Evaluable(given)
  BY <1>1, <1>2, RaiseKeeps DEF Accept
<1>3. CASE Gate!Evaluable(given)
  <2>1. /\ events' = Append(events, Event("gate.evaluated", p, outcome))
        /\ traces' = [traces EXCEPT ![p] = [traces[p] EXCEPT !.gate = outcome]]
        /\ flags' = flags \cup (IF outcome \in Gate!Promotable THEN {} ELSE {"failure"})
        /\ \A c \in completions' : c \in completions \/ (c.package = p /\ outcome \in Gate!Promotable)
        /\ earned' = IF Proven(given) THEN earned \cup {p} ELSE earned
        /\ NextPackage
        /\ UNCHANGED <<setting, prepared, plan, integration, batch, status>>
    <3> DEFINE added == [project |-> Project, package |-> p, group |-> completion.group,
                         base |-> completion.base, digest |-> completion.digest,
                         evidence |-> current.evidence]
    <3>1. completions' = completions \cup
            (IF outcome \in Gate!Promotable /\ completion # None THEN {added} ELSE {})
      BY <1>3 DEF Accept
    <3>2. added.package = p
      OBVIOUS
    <3> HIDE DEF added
    <3>3. \A c \in completions' : c \in completions \/ (c.package = p /\ outcome \in Gate!Promotable)
      BY <3>1, <3>2
    <3> QED
      BY <1>3, <3>3 DEF Accept, Record
  <2>2. EventsAbout(events')
    BY <1>1, <2>1, RecordKeeps DEF TypeOK
  <2>3. /\ DOMAIN traces' = DOMAIN traces /\ traces'[p].run = "completed"
        /\ \A q \in DOMAIN traces :
             /\ IsTrace(traces'[q]) /\ traces'[q].authorization = traces[q].authorization
             /\ q # p => traces'[q] = traces[q]
    <3> DEFINE t == [traces[p] EXCEPT !.gate = outcome]
    <3>1. IsTrace(t) /\ t.authorization = traces[p].authorization /\ t.run = "completed"
      <4>1. IsTrace(traces[p])
        BY <1>1 DEF TypeOK
      <4> HIDE DEF outcome
      <4> QED
        BY <1>1, <4>1, MarkKeeps
    <3> HIDE DEF t
    <3>2. traces' = [traces EXCEPT ![p] = t]
      BY <2>1 DEF t
    <3> QED
      BY <1>1, <3>1, <3>2 DEF TypeOK
  <2>4. flags' \subseteq Flags /\ flags \subseteq flags' /\ earned \subseteq earned'
    BY <1>1, <2>1 DEF TypeOK, Flags
  <2>5. outcome \in Gate!Promotable => p \in earned'
    BY <1>3, <2>1, PromotableIsProven
  <2>6. outcome \notin Gate!Promotable => flags' # {}
    BY <2>1
  <2> HIDE DEF outcome
  <2> QED
    BY <1>1, <2>1, <2>2, <2>3, <2>4, <2>5, <2>6, TakeKeeps
<1> QED
  BY <1>2, <1>3

(* The integration of exactly the completed packages is earned by them.    *)
LEMMA ClosingKeeps ==
  ASSUME IInv, NoIntegration \/ \E i \in Integrations : Integrate(i)
  PROVE  IInv'
<1>1. /\ phase \in {"dispatch", "integrate"} /\ todo = <<>> /\ Left = {} /\ Work = DOMAIN traces
      /\ TypeOK /\ LoopsCover /\ GrantedOnly /\ LeavesShow /\ EndsOnce
      /\ status = "open"
  <2>1. (phase = "dispatch" /\ todo = <<>>) \/ phase = "integrate"
    BY DEF NoIntegration, Integrate, Dispatched
  <2>2. TypeOK /\ LoopsCover /\ GrantedOnly /\ LeavesShow /\ EndsOnce
    BY DEF IInv
  <2>3. phase \in {"dispatch", "integrate"} /\ todo = <<>> /\ Work = DOMAIN traces
    BY <2>1, <2>2 DEF LoopsCover, Running, Closing
  <2>4. DOMAIN todo = {}
    BY <2>3
  <2> QED
    BY <2>2, <2>3, <2>4 DEF Left, EndsOnce, Over
<1>2. ASSUME phase' = "finish", flags \subseteq flags', flags' \subseteq Flags, EventsAbout(events'),
             UNCHANGED <<setting, todo, current, prepared, traces, plan, completions, status, earned>>
      PROVE  TypeOK' /\ LoopsCover' /\ GrantedOnly' /\ LeavesShow' /\ CompletedIsEarned'
  <2>1. TypeOK'
    BY <1>1, <1>2 DEF TypeOK
  <2>2. LoopsCover' /\ GrantedOnly'
    BY <1>1, <1>2 DEF LoopsCover, GrantedOnly, Granted, Left, Preparing, Running, Closing
  <2>3. LeavesShow'
    BY <1>1, <1>2 DEF LeavesShow, Finished, Left, Running, Closing
  <2>4. CompletedIsEarned'
    BY <1>1, <1>2 DEF CompletedIsEarned
  <2> QED
    BY <2>1, <2>2, <2>3, <2>4
<1>3. CASE NoIntegration
  <2>1. /\ phase' = "finish" /\ flags' = flags /\ events' = events
        /\ integration' = integration /\ batch' = batch
        /\ UNCHANGED <<setting, todo, current, prepared, traces, plan, completions, status, earned>>
    BY <1>3 DEF NoIntegration
  <2>2. flags' \subseteq Flags /\ EventsAbout(events')
    BY <1>1, <2>1 DEF TypeOK
  <2>3. EndsOnce' /\ IntegrationIsEarned'
    <3>1. integration = None
      BY <1>1 DEF EndsOnce
    <3> QED
      BY <1>1, <2>1, <3>1, OpenIsQuiet DEF EndsOnce, Over
  <2> QED
    BY <1>2, <2>1, <2>2, <2>3 DEF IInv
<1>4. ASSUME NEW i \in Integrations, Integrate(i), ~Raise PROVE IInv'
  <2> DEFINE made == Batch!Batch(completions, i)
             outcome == IF Blocked(i) THEN "blocked" ELSE i.result.status
  <2>1. /\ Blocked(i) \/ (Batch!Combinable(completions, i) /\ Batch!ValidResult(i.result, made))
        /\ integration' = outcome
        /\ batch' = IF Blocked(i) THEN None ELSE [asked |-> i, made |-> made]
        /\ flags' = flags \cup (IF outcome = "passed" THEN {} ELSE {"failure"})
        /\ events' = Append(events, Event(IF Blocked(i) THEN "integration.blocked"
                                          ELSE "integration.evaluated", Overall, outcome))
        /\ phase' = "finish"
        /\ UNCHANGED <<setting, todo, current, prepared, traces, plan, completions,
                       status, earned>>
    BY <1>4 DEF Integrate, Record
  <2>2. EventsAbout(events')
    BY <1>1, <2>1, RecordKeeps DEF TypeOK
  <2>3. flags' \subseteq Flags /\ flags \subseteq flags'
    BY <1>1, <2>1 DEF TypeOK, Flags
  <2>4. EndsOnce'
    BY <1>1, <2>1 DEF EndsOnce, Over
  <2>5. IntegrationIsEarned'
    <3> SUFFICES ASSUME integration' = "passed" PROVE IntegrationIsEarned'
      BY DEF IntegrationIsEarned
    <3>1. /\ ~Blocked(i) /\ i.result.status = "passed"
          /\ Batch!Combinable(completions, i) /\ Batch!ValidResult(i.result, made)
          /\ batch' = [asked |-> i, made |-> made]
      BY <2>1
    <3>2. {m.package : m \in made.members} = {c.package : c \in completions}
      <4>1. made.members = {[package |-> c.package, digest |-> c.digest, evidence |-> c.evidence] :
                              c \in completions}
        BY DEF Batch!Batch
      <4> HIDE DEF made
      <4>2. ASSUME NEW c \in completions PROVE \E m \in made.members : m.package = c.package
        <5>1. [package |-> c.package, digest |-> c.digest, evidence |-> c.evidence] \in made.members
          BY <4>1
        <5> QED
          BY <5>1
      <4>3. \A m \in made.members : \E c \in completions : m.package = c.package
        BY <4>1
      <4> QED
        BY <4>2, <4>3
    <3>3. i.members = {c.package : c \in completions}
      BY <3>1 DEF Blocked
    <3>4. \A c \in completions : c.base = i.target /\ Finished(c.package)
      BY <1>1, <3>1 DEF LeavesShow, Batch!Combinable
    <3>5. \A c \in made.checks : i.result.checks[c] = "passed"
      <4> HIDE DEF made
      <4> QED
        BY <3>1 DEF Batch!ValidResult
    <3>6. batch'.asked = i /\ batch'.made = made
      BY <3>1
    <3>7. i.members \subseteq earned'
      BY <2>1, <3>3, <3>4 DEF Finished
    <3> HIDE DEF made
    <3>8. {m.package : m \in made.members} = i.members
      BY <3>2, <3>3
    <3>9. \A c \in completions' : c.base = i.target /\ traces'[c.package].run = "completed"
      BY <2>1, <3>4 DEF Finished
    <3> QED
      BY <3>5, <3>6, <3>7, <3>8, <3>9 DEF IntegrationIsEarned
  <2> HIDE DEF made, outcome
  <2> QED
    BY <1>2, <2>1, <2>2, <2>3, <2>4, <2>5 DEF IInv
<1> QED
  BY <1>1, <1>3, <1>4, RaiseKeeps

(* The execution is completed only if nothing raised a flag, and then each *)
(* package finished.                                                       *)
LEMMA FinishKeeps == ASSUME IInv, Finish PROVE IInv'
<1>1. /\ phase = "finish" /\ todo = <<>> /\ Left = {} /\ Work = DOMAIN traces
      /\ TypeOK /\ LoopsCover /\ GrantedOnly /\ LeavesShow /\ EndsOnce /\ IntegrationIsEarned
      /\ UNCHANGED <<setting, todo, current, prepared, traces, flags, plan, completions,
                     integration, batch, earned>>
  <2>1. /\ phase = "finish" /\ LoopsCover
        /\ TypeOK /\ LoopsCover /\ GrantedOnly /\ LeavesShow /\ EndsOnce /\ IntegrationIsEarned
    BY DEF Finish, IInv
  <2>2. todo = <<>> /\ DOMAIN todo = {}
    BY <2>1 DEF LoopsCover, Closing
  <2> QED
    BY <2>1, <2>2 DEF Left, LoopsCover, Closing, Finish
<1>2. /\ status' = Status /\ phase' \in {"returned", "refused"}
      /\ events' = Append(events, Event("orchestration.completed", Overall, Status))
  BY DEF Finish, Record
<1>3. /\ Status \in {"blocked", "decision_required", "failed", "waiting", "completed"}
      /\ Status = "completed" => flags = {}
  BY <1>1 DEF Status, TypeOK, Flags
<1>4. TypeOK'
  <2>1. EventsAbout(events')
    BY <1>1, <1>2, RecordKeeps DEF TypeOK
  <2> QED
    BY <1>1, <1>2, <2>1 DEF TypeOK
<1>5. LoopsCover' /\ GrantedOnly'
  BY <1>1, <1>2 DEF LoopsCover, GrantedOnly, Granted, Left, Preparing, Running, Closing
<1>6. LeavesShow'
  BY <1>1, <1>2 DEF LeavesShow, Finished, Left, Running, Closing
<1>7. EndsOnce'
  BY <1>1, <1>2, <1>3 DEF EndsOnce, Over
<1>8. CompletedIsEarned'
  <2> SUFFICES ASSUME Status = "completed"
               PROVE  /\ \A p \in Work : traces[p].run = "completed" /\ p \in earned
                      /\ integration \in {None, "passed"}
    BY <1>1, <1>2 DEF CompletedIsEarned
  <2>1. flags = {}
    BY <1>3
  <2>2. Work \subseteq DOMAIN prepared
    BY <1>1, <2>1 DEF LeavesShow
  <2> QED
    BY <1>1, <2>1, <2>2 DEF LeavesShow, Closing, Finished, EndsOnce
<1>9. IntegrationIsEarned'
  BY <1>1 DEF IntegrationIsEarned
<1> QED
  BY <1>4, <1>5, <1>6, <1>7, <1>8, <1>9 DEF IInv

LEMMA NextIInv == IInv /\ [Next]_vars => IInv'
<1> SUFFICES ASSUME IInv, [Next]_vars PROVE IInv'
  OBVIOUS
<1>1. CASE UNCHANGED vars
  <2>1. TypeOK' /\ GrantedOnly'
    BY <1>1 DEF vars, IInv, TypeOK, GrantedOnly, Granted
  <2>3. LoopsCover' /\ LeavesShow'
    BY <1>1 DEF vars, IInv, LoopsCover, LeavesShow, Finished, Left, Preparing, Running, Closing
  <2>2. EndsOnce' /\ CompletedIsEarned' /\ IntegrationIsEarned'
    BY <1>1 DEF vars, IInv, EndsOnce, Over, CompletedIsEarned, IntegrationIsEarned
  <2> QED
    BY <2>1, <2>2, <2>3 DEF IInv
<1>2. CASE \E facts \in ActivationFacts :
             StayConversational(facts) \/ \E s \in Settings : Start(facts, s)
  BY <1>2, BeginningKeeps
<1>3. CASE \E facts \in WorkFacts : Authorize(facts)
  BY <1>3, AuthorizeKeeps
<1>4. CASE \E name \in DOMAIN Context : Compile(name)
  BY <1>4, CompileKeeps
<1>5. CASE \E r \in Requests : Negotiate(r)
  BY <1>5, NegotiateKeeps
<1>6. CASE NothingPrepared \/ \E at \in Snapshots : Plan(at)
  BY <1>6, SchedulingKeeps
<1>7. CASE Defer
  BY <1>7, DeferKeeps
<1>8. CASE Dispatch
  BY <1>8, DispatchKeeps
<1>9. CASE InvokeFails \/ \E raw \in Raws : Invoke(raw)
  BY <1>9, InvokeKeeps
<1>10. CASE Reject
  BY <1>10, RejectKeeps
<1>11. CASE \E given \in Acceptances, c \in Completions \cup {None} : Accept(given, c)
  BY <1>11, AcceptKeeps
<1>12. CASE NoIntegration \/ \E i \in Integrations : Integrate(i)
  BY <1>12, ClosingKeeps
<1>13. CASE Finish
  BY <1>13, FinishKeeps
<1>14. CASE PlanFails
  BY <1>14, RaiseKeeps DEF PlanFails
<1> QED
  BY <1>1, <1>2, <1>3, <1>4, <1>5, <1>6, <1>7, <1>8, <1>9, <1>10, <1>11, <1>12, <1>13, <1>14 DEF Next

LEMMA IInvHolds == Spec => []IInv
BY InitIInv, NextIInv, PTL DEF Spec

-----------------------------------------------------------------------------
(* Every state of an execution is of its type: the lists the loops take    *)
(* packages from are lists of work, what is prepared is traced, what is    *)
(* planned or completed was prepared, and every event is about the work.   *)
THEOREM TypeCorrect == Spec => []TypeOK
<1>1. IInv => TypeOK
  BY DEF IInv
<1> QED
  BY <1>1, IInvHolds, PTL

(* "All selected work and required combined checks passed": an execution   *)
(* whose status is completed ran every package to completion, each proved  *)
(* by its acceptance data, whatever scenario, runners and evidence it had. *)
THEOREM CompletedEarned == Spec => []CompletedIsEarned
<1>1. IInv => CompletedIsEarned
  BY DEF IInv
<1> QED
  BY <1>1, IInvHolds, PTL

(* "The strictest matching rule wins": no package is prepared against a    *)
(* rule or, where no rule speaks of it, a default that stops it, nor over  *)
(* or without knowing a budget it proceeds within.                         *)
THEOREM PreparedAuthorized == Spec => []PreparedIsAuthorized
<1>1. IInv => PreparedIsAuthorized
  <2> SUFFICES ASSUME IInv PROVE PreparedIsAuthorized
    OBVIOUS
  <2>1. \A p \in DOMAIN prepared :
          /\ Authorization!Evaluable(setting.policies)
          /\ Authorization!Evaluate(setting.policies, prepared[p].facts) \in Authorization!Auto
    BY DEF IInv, GrantedOnly, Granted
  <2> QED
    BY <2>1, GrantIsSound DEF PreparedIsAuthorized
<1> QED
  BY <1>1, IInvHolds, PTL

(* A passed integration combined exactly the packages it was asked for,    *)
(* all proved, all run to completion and all built on its target, and each *)
(* of its checks passed.                                                   *)
THEOREM IntegrationEarned == Spec => []IntegrationIsEarned
<1>1. IInv => IntegrationIsEarned
  BY DEF IInv
<1> QED
  BY <1>1, IInvHolds, PTL

-----------------------------------------------------------------------------
(* The recorded events tell the journey: what they say of a package is     *)
(* what the control state knows of it, for as long as the execution is     *)
(* open.                                                                   *)

Late == {"run.dispatched", "run.completed", "gate.evaluated"}
Kinds == {"authorization.evaluated", "context.rejected", "capability.rejected",
          "capability.negotiated"} \cup Late
Seen(s, p, type) == RecordedFor(s, p, type) # {}
Silent(s, p, types) == \A type \in types : RecordedFor(s, p, type) = {}

Cleared(s, p) ==
  /\ Seen(s, p, "authorization.evaluated")
  /\ Said(s, p, "authorization.evaluated") \subseteq Authorization!Auto
  /\ Silent(s, p, Kinds \ {"authorization.evaluated"})
Refused(s, p) ==
  /\ Silent(s, p, Late \cup {"capability.negotiated"})
  /\ Seen(s, p, "authorization.evaluated")
  /\ \/ Seen(s, p, "context.rejected") \/ Seen(s, p, "capability.rejected")
     \/ ~(Said(s, p, "authorization.evaluated") \subseteq Authorization!Auto)
Equipped(s, p) == Seen(s, p, "capability.negotiated") /\ Silent(s, p, Late)
Sent(s, p) ==
  Seen(s, p, "run.dispatched") /\ Silent(s, p, {"run.completed", "gate.evaluated"})
Back(s, p) == Seen(s, p, "run.completed") /\ Silent(s, p, {"gate.evaluated"})

(* The package the loop is at.                                             *)
At(p, phases) == phase \in phases /\ p = Head(todo)

(* What the events say of a package of the work.                           *)
Tells(p) ==
  IF p \notin DOMAIN traces
  THEN IF At(p, {"compile", "negotiate"}) THEN Cleared(events, p) ELSE Silent(events, p, Kinds)
  ELSE IF p \notin DOMAIN prepared THEN Refused(events, p)
  ELSE IF p \notin Planned(events) THEN Equipped(events, p)
  ELSE IF p \in Left
       THEN IF At(p, {"invoke"}) THEN Sent(events, p)
            ELSE IF At(p, {"accept"}) THEN Back(events, p) ELSE Equipped(events, p)
  ELSE \/ StageOf(events, p) = "accepted"
       \/ StageOf(events, p) = "returned" /\ "failure" \in flags

(* What the flags say of the work, which the status is made from.          *)
FlagsTell ==
  /\ flags \cap {"block", "decision"} # {} => DOMAIN traces \ DOMAIN prepared # {}
  /\ "waiting" \in flags => DOMAIN prepared \ Planned(events) # {}
  /\ Running \/ Closing =>
       \A p \in DOMAIN prepared \ (Planned(events) \cup Left) : "waiting" \in flags

EventsTell ==
  ~Over =>
    /\ \A p \in Work : Tells(p)
    /\ Planned(events) \subseteq DOMAIN prepared
    /\ phase = "start" \/ Preparing => Planned(events) = {} /\ "waiting" \notin flags
    /\ Running => plan = Planned(events)
    /\ phase \in {"invoke", "accept"} => Head(todo) \in plan
    /\ FlagsTell

(* Recording adds the event to what is recorded for its package, under its *)
(* type, and to nothing else.                                              *)
LEMMA RecordAdds ==
  ASSUME NEW s, EventsAbout(s), NEW type, NEW about, NEW outcome, NEW q, NEW kind
  PROVE  /\ q # about \/ kind # type =>
              RecordedFor(Append(s, Event(type, about, outcome)), q, kind) = RecordedFor(s, q, kind)
         /\ RecordedFor(Append(s, Event(type, about, outcome)), about, type)
              = RecordedFor(s, about, type) \cup {Event(type, about, outcome)}
<1> DEFINE e == Event(type, about, outcome)
           t == Append(s, e)
<1>1. Len(s) \in Nat /\ DOMAIN s = 1..Len(s)
  BY DEF EventsAbout
<1>2. /\ DOMAIN t = 1..(Len(s) + 1) /\ t[Len(s) + 1] = e
      /\ \A n \in 1..Len(s) : t[n] = s[n]
  BY <1>1 DEF EventsAbout
<1>3. e.about = about /\ e.type = type
  BY DEF Event
<1> HIDE DEF e, t
<1>4. {t[n] : n \in DOMAIN t} = {s[n] : n \in DOMAIN s} \cup {e}
  <2>1. \A n \in 1..Len(s) : n \in 1..(Len(s) + 1)
    BY <1>1
  <2>2. Len(s) + 1 \in 1..(Len(s) + 1) /\ \A n \in 1..(Len(s) + 1) : n \in 1..Len(s) \/ n = Len(s) + 1
    BY <1>1
  <2> QED
    BY <1>1, <1>2, <2>1, <2>2
<1>5. q # about \/ kind # type => RecordedFor(t, q, kind) = RecordedFor(s, q, kind)
  BY <1>3, <1>4 DEF RecordedFor
<1>6. RecordedFor(t, about, type) = RecordedFor(s, about, type) \cup {e}
  BY <1>3, <1>4 DEF RecordedFor
<1> QED
  BY <1>5, <1>6 DEF e, t

(* An event changes what the history says of the package it is about only; *)
(* a plan, whom it selects.                                                *)
LEMMA OthersStand ==
  ASSUME NEW s, EventsAbout(s), NEW type, NEW about, NEW outcome
  PROVE  LET t == Append(s, Event(type, about, outcome)) IN
         /\ \A q \in Work \ {about} :
              /\ Silent(t, q, Kinds) = Silent(s, q, Kinds)
              /\ Cleared(t, q) = Cleared(s, q) /\ Refused(t, q) = Refused(s, q)
              /\ Equipped(t, q) = Equipped(s, q) /\ Sent(t, q) = Sent(s, q)
              /\ Back(t, q) = Back(s, q)
         /\ about # Overall \/ type # "schedule.planned" =>
              /\ Planned(t) = Planned(s)
              /\ \A q \in Work \ {about} : StageOf(t, q) = StageOf(s, q)
         /\ about = Overall /\ type = "schedule.planned" => Planned(t) = Planned(s) \cup outcome
<1> DEFINE e == Event(type, about, outcome)
           t == Append(s, e)
<1>1. ASSUME NEW q, q # about, NEW kind PROVE RecordedFor(t, q, kind) = RecordedFor(s, q, kind)
  BY <1>1, RecordAdds
<1>2. about # Overall \/ type # "schedule.planned" => Planned(t) = Planned(s)
  <2>1. about # Overall \/ type # "schedule.planned" =>
          RecordedFor(t, Overall, "schedule.planned") = RecordedFor(s, Overall, "schedule.planned")
    BY RecordAdds
  <2> QED
    BY <2>1 DEF Planned, Said
<1>3. about = Overall /\ type = "schedule.planned" => Planned(t) = Planned(s) \cup outcome
  <2> SUFFICES ASSUME about = Overall, type = "schedule.planned"
               PROVE  Planned(t) = Planned(s) \cup outcome
    OBVIOUS
  <2>1. RecordedFor(t, about, type) = RecordedFor(s, about, type) \cup {e}
    BY RecordAdds
  <2>2. e.outcome = outcome
    BY DEF Event
  <2> HIDE DEF e, t
  <2>3. Said(t, about, type) = Said(s, about, type) \cup {outcome}
    BY <2>1, <2>2 DEF Said
  <2> QED
    BY <2>3 DEF Planned
<1> HIDE DEF e, t
<1>4. ASSUME NEW q, q # about
      PROVE  /\ \A kinds : Silent(t, q, kinds) = Silent(s, q, kinds)
             /\ \A kind : Seen(t, q, kind) = Seen(s, q, kind) /\ Said(t, q, kind) = Said(s, q, kind)
             /\ Planned(t) = Planned(s) => StageOf(t, q) = StageOf(s, q)
  BY <1>1, <1>4 DEF Silent, Seen, Said, StageOf
<1>5. \A q \in Work \ {about} :
        /\ Silent(t, q, Kinds) = Silent(s, q, Kinds)
        /\ Cleared(t, q) = Cleared(s, q) /\ Refused(t, q) = Refused(s, q)
        /\ Equipped(t, q) = Equipped(s, q) /\ Sent(t, q) = Sent(s, q)
        /\ Back(t, q) = Back(s, q)
  BY <1>4 DEF Cleared, Refused, Equipped, Sent, Back
<1> QED
  BY <1>2, <1>3, <1>4, <1>5 DEF e, t

(* What an event says of its own package.                                  *)
LEMMA OneMoves ==
  ASSUME NEW s, EventsAbout(s), NEW p \in Work, NEW outcome
  PROVE  LET adding(type) == Append(s, Event(type, p, outcome)) IN
         /\ Silent(s, p, Kinds) =>
              IF outcome \in Authorization!Auto
              THEN Cleared(adding("authorization.evaluated"), p)
              ELSE Refused(adding("authorization.evaluated"), p)
         /\ Cleared(s, p) =>
              /\ Refused(adding("context.rejected"), p)
              /\ Refused(adding("capability.rejected"), p)
              /\ Equipped(adding("capability.negotiated"), p)
         /\ Equipped(s, p) => Sent(adding("run.dispatched"), p)
         /\ Sent(s, p) => Back(adding("run.completed"), p)
         /\ Back(s, p) => StageOf(adding("gate.evaluated"), p) =
              IF outcome \in Gate!Promotable THEN "accepted" ELSE "returned"
<1> DEFINE adding(type) == Append(s, Event(type, p, outcome))
<1>1. ASSUME NEW type, NEW kind, kind # type
      PROVE  RecordedFor(adding(type), p, kind) = RecordedFor(s, p, kind)
  BY <1>1, RecordAdds
<1>2. ASSUME NEW type
      PROVE  RecordedFor(adding(type), p, type) = RecordedFor(s, p, type) \cup {Event(type, p, outcome)}
  BY RecordAdds
<1>3. \A type : Event(type, p, outcome).outcome = outcome
  BY DEF Event
<1>4. ASSUME NEW type
      PROVE  /\ Seen(adding(type), p, type)
             /\ RecordedFor(s, p, type) = {} => Said(adding(type), p, type) = {outcome}
  BY <1>2, <1>3 DEF Seen, Said
<1>5. ASSUME NEW type, NEW kind, kind # type
      PROVE  /\ Seen(adding(type), p, kind) = Seen(s, p, kind)
             /\ Said(adding(type), p, kind) = Said(s, p, kind)
  BY <1>1, <1>5 DEF Seen, Said
<1>6. ASSUME NEW type, NEW quiet, NEW kinds, Silent(s, p, quiet), kinds \subseteq quiet \ {type}
      PROVE  Silent(adding(type), p, kinds)
  BY <1>1, <1>6 DEF Silent
<1> HIDE DEF adding
<1>7. ASSUME Silent(s, p, Kinds)
      PROVE  IF outcome \in Authorization!Auto
             THEN Cleared(adding("authorization.evaluated"), p)
             ELSE Refused(adding("authorization.evaluated"), p)
  <2> DEFINE type == "authorization.evaluated"
  <2>1. Silent(adding(type), p, Kinds \ {type})
    BY <1>6, <1>7
  <2>2. Late \cup {"capability.negotiated"} \subseteq Kinds \ {type}
    BY DEF Kinds, Late
  <2>3. Silent(adding(type), p, Late \cup {"capability.negotiated"})
    BY <1>6, <1>7, <2>2
  <2>4. Seen(adding(type), p, type) /\ Said(adding(type), p, type) = {outcome}
    <3>1. RecordedFor(s, p, type) = {}
      BY <1>7 DEF Silent, Kinds
    <3> QED
      BY <1>4, <3>1
  <2> QED
    BY <2>1, <2>3, <2>4 DEF Cleared, Refused
<1>8. ASSUME Cleared(s, p)
      PROVE  /\ Refused(adding("context.rejected"), p)
             /\ Refused(adding("capability.rejected"), p)
             /\ Equipped(adding("capability.negotiated"), p)
  <2> DEFINE quiet == Kinds \ {"authorization.evaluated"}
  <2>1. Silent(s, p, quiet) /\ Seen(s, p, "authorization.evaluated")
    BY <1>8 DEF Cleared
  <2>2. /\ Late \cup {"capability.negotiated"} \subseteq quiet \ {"context.rejected"}
        /\ Late \cup {"capability.negotiated"} \subseteq quiet \ {"capability.rejected"}
        /\ Late \subseteq quiet \ {"capability.negotiated"}
    BY DEF Kinds, Late
  <2> HIDE DEF quiet
  <2>3. /\ Silent(adding("context.rejected"), p, Late \cup {"capability.negotiated"})
        /\ Silent(adding("capability.rejected"), p, Late \cup {"capability.negotiated"})
        /\ Silent(adding("capability.negotiated"), p, Late)
    BY <1>6, <2>1, <2>2
  <2>4. /\ Seen(adding("context.rejected"), p, "authorization.evaluated")
        /\ Seen(adding("capability.rejected"), p, "authorization.evaluated")
    BY <1>5, <2>1
  <2> QED
    BY <1>4, <2>3, <2>4 DEF Refused, Equipped
<1>9. ASSUME Equipped(s, p) PROVE Sent(adding("run.dispatched"), p)
  <2>1. Silent(adding("run.dispatched"), p, {"run.completed", "gate.evaluated"})
    <3>1. {"run.completed", "gate.evaluated"} \subseteq Late \ {"run.dispatched"}
      BY DEF Late
    <3> QED
      BY <1>6, <1>9, <3>1 DEF Equipped
  <2> QED
    BY <1>4, <2>1 DEF Sent
<1>10. ASSUME Sent(s, p) PROVE Back(adding("run.completed"), p)
  <2>1. Silent(adding("run.completed"), p, {"gate.evaluated"})
    <3>1. {"gate.evaluated"} \subseteq {"run.completed", "gate.evaluated"} \ {"run.completed"}
      OBVIOUS
    <3> QED
      BY <1>6, <1>10, <3>1 DEF Sent
  <2> QED
    BY <1>4, <2>1 DEF Back
<1>11. Back(s, p) => StageOf(adding("gate.evaluated"), p) =
         IF outcome \in Gate!Promotable THEN "accepted" ELSE "returned"
  <2> SUFFICES ASSUME Back(s, p)
               PROVE  StageOf(adding("gate.evaluated"), p) =
                        IF outcome \in Gate!Promotable THEN "accepted" ELSE "returned"
    OBVIOUS
  <2>1. Said(adding("gate.evaluated"), p, "gate.evaluated") = {outcome}
    BY <1>4 DEF Back, Silent
  <2>2. RecordedFor(adding("gate.evaluated"), p, "run.completed") # {}
    BY <1>5 DEF Back, Seen
  <2> QED
    BY <2>1, <2>2 DEF StageOf
<1> QED
  BY <1>7, <1>8, <1>9, <1>10, <1>11 DEF adding

(* The stages the events tell.                                             *)
LEMMA StageIs ==
  ASSUME NEW s, NEW p
  PROVE  /\ Silent(s, p, Kinds) /\ p \notin Planned(s) => StageOf(s, p) = "proposed"
         /\ Cleared(s, p) /\ p \notin Planned(s) => StageOf(s, p) = "authorized"
         /\ Refused(s, p) /\ p \notin Planned(s) => StageOf(s, p) = "refused"
         /\ Equipped(s, p) => StageOf(s, p) = IF p \in Planned(s) THEN "scheduled" ELSE "equipped"
         /\ Sent(s, p) => StageOf(s, p) = "dispatched"
         /\ Back(s, p) => StageOf(s, p) = "returned"
<1>1. \A kind : RecordedFor(s, p, kind) = {} <=> Said(s, p, kind) = {}
  BY DEF Said
<1>2. Silent(s, p, Kinds) /\ p \notin Planned(s) => StageOf(s, p) = "proposed"
  BY <1>1 DEF Silent, Kinds, Late, StageOf
<1>3. Cleared(s, p) /\ p \notin Planned(s) => StageOf(s, p) = "authorized"
  BY <1>1 DEF Silent, Cleared, Seen, Kinds, Late, StageOf
<1>4. Refused(s, p) /\ p \notin Planned(s) => StageOf(s, p) = "refused"
  BY <1>1 DEF Silent, Refused, Seen, Late, StageOf
<1>5. Equipped(s, p) => StageOf(s, p) = IF p \in Planned(s) THEN "scheduled" ELSE "equipped"
  BY <1>1 DEF Silent, Equipped, Seen, Late, StageOf
<1>6. Sent(s, p) => StageOf(s, p) = "dispatched"
  BY <1>1 DEF Silent, Sent, Seen, StageOf
<1>7. Back(s, p) => StageOf(s, p) = "returned"
  BY <1>1 DEF Silent, Back, Seen, StageOf
<1> QED
  BY <1>2, <1>3, <1>4, <1>5, <1>6, <1>7

-----------------------------------------------------------------------------
(* Each call is a step of the journey, or none.                            *)

Follows == [Promise!Next]_(Promise!vars)

LEMMA StayingFollows ==
  ASSUME \A q \in Work : StageOf(events', q) = StageOf(events, q), status' = status
  PROVE  Follows
BY DEF Follows, Promise!vars

LEMMA MovingFollows ==
  ASSUME status = "open", status' = status, NEW p \in Work,
         \A q \in Work \ {p} : StageOf(events', q) = StageOf(events, q),
         \/ /\ StageOf(events, p) \in DOMAIN Promise!Successor
            /\ StageOf(events', p) = Promise!Successor[StageOf(events, p)]
         \/ /\ StageOf(events, p) \in {"proposed", "authorized"}
            /\ StageOf(events', p) = "refused"
  PROVE  Follows
<1> DEFINE old == [q \in Work |-> StageOf(events, q)]
           new == [q \in Work |-> StageOf(events', q)]
<1>1. new = [old EXCEPT ![p] = StageOf(events', p)]
  OBVIOUS
<1>2. Promise!Advance(p) \/ Promise!Refuse(p)
  BY <1>1 DEF Promise!Advance, Promise!Refuse
<1> QED
  BY <1>2 DEF Follows, Promise!Next

LEMMA ClosingFollows ==
  ASSUME status = "open",
         status' \in {"not_managed", "completed", "waiting", "failed", "blocked",
                      "decision_required", "raised"},
         \A q \in Work : StageOf(events', q) = StageOf(events, q),
         Promise!Warrants(status')
  PROVE  Follows
<1>1. Promise!Close(status')
  BY DEF Promise!Close
<1> QED
  BY <1>1 DEF Follows, Promise!Next

LEMMA RaiseTells ==
  ASSUME IInv, ~Over, Raise
  PROVE  EventsTell' /\ Follows
<1>1. status = "open" /\ status' = "raised" /\ events' = events /\ phase' = "raised"
  BY DEF IInv, EndsOnce, Raise
<1>2. Promise!Warrants("raised")
  BY DEF Promise!Warrants
<1>3. Promise!Warrants(status')
  BY <1>1, <1>2
<1> QED
  BY <1>1, <1>3, ClosingFollows DEF EventsTell, Over

LEMMA BeginningTells ==
  ASSUME IInv, EventsTell,
         \/ \E facts \in ActivationFacts : StayConversational(facts)
         \/ \E facts \in ActivationFacts, s \in Settings : Start(facts, s)
  PROVE  EventsTell' /\ Follows
<1>1. /\ phase = "start" /\ ~Over /\ status = "open" /\ EventsAbout(events)
      /\ DOMAIN traces = {} /\ DOMAIN prepared = {} /\ flags = {}
  BY DEF IInv, TypeOK, LoopsCover, EndsOnce, Over, StayConversational, Start
<1>2. /\ Planned(events) = {} /\ \A q \in Work : Silent(events, q, Kinds)
      /\ \A q \in Work : StageOf(events, q) = "proposed"
  BY <1>1, StageIs DEF EventsTell, Tells, At
<1>3. ASSUME NEW facts, StayConversational(facts) PROVE EventsTell' /\ Follows
  <2>1. phase' = "returned" /\ status' = "not_managed" /\ events' = events
    BY <1>3 DEF StayConversational
  <2>2. Promise!Warrants("not_managed")
    BY <1>2 DEF Promise!Warrants
  <2>3. Promise!Warrants(status')
    BY <2>1, <2>2
  <2> QED
    BY <1>1, <2>1, <2>3, ClosingFollows DEF EventsTell, Over
<1>4. ASSUME NEW facts, NEW s, Start(facts, s), ~Raise PROVE EventsTell' /\ Follows
  <2> DEFINE modes == Mode!Selected(s.route, s.stage, s.facts, s.optional)
  <2>1. /\ phase' = "authorize" /\ events' = Append(events, Event("orchestration.started", Overall, modes))
        /\ UNCHANGED <<traces, prepared, flags, status>>
    BY <1>4 DEF Start, Record
  <2>2. Overall \notin Work
    BY PackageAssumption, ScenarioAssumption DEF Overall
  <2> HIDE DEF modes
  <2>3. /\ Planned(events') = {}
        /\ \A q \in Work : Silent(events', q, Kinds) /\ StageOf(events', q) = StageOf(events, q)
    BY <1>1, <1>2, <2>1, <2>2, OthersStand
  <2>4. EventsTell'
    BY <1>1, <2>1, <2>3 DEF EventsTell, Tells, At, FlagsTell, Running, Closing
  <2> QED
    BY <2>1, <2>3, <2>4, StayingFollows
<1> QED
  BY <1>1, <1>3, <1>4, RaiseTells

(* A package that leaves the preparing loop is refused or equipped.        *)
LEMMA DropTells ==
  ASSUME IInv, EventsTell, Preparing, todo # <<>>,
         NEW trace, NEW flag \in SUBSET {"block", "decision"}, Drop(Head(todo), trace, flag),
         status' = status,
         NEW type, NEW outcome, events' = Append(events, Event(type, Head(todo), outcome)),
         \/ /\ prepared' = prepared /\ Refused(events', Head(todo))
         \/ /\ \E x : prepared' = With(prepared, Head(todo), x)
            /\ Equipped(events', Head(todo)) /\ flag = {},
         StageOf(events, Head(todo)) \in {"proposed", "authorized"},
         Equipped(events', Head(todo)) => StageOf(events, Head(todo)) = "authorized"
  PROVE  EventsTell' /\ Follows
<1> DEFINE p == Head(todo)
<1>1. /\ TypeOK /\ LoopsCover /\ EndsOnce /\ EventsAbout(events) /\ status = "open" /\ ~Over
      /\ todo \in Seq(Work) /\ \A m, n \in DOMAIN todo : todo[m] = todo[n] => m = n
      /\ phase' = "authorize" /\ flags' = flags \cup flag /\ Planned(events) = {}
      /\ "waiting" \notin flags /\ FlagsTell /\ DOMAIN prepared \subseteq DOMAIN traces
  BY DEF IInv, TypeOK, LoopsCover, EndsOnce, Over, Preparing, Drop, EventsTell
<1>2. p \in Work /\ p \in Left
  BY <1>1, TakeFirst DEF Left
<1>3. /\ p \notin DOMAIN traces /\ DOMAIN traces' = DOMAIN traces \cup {p}
      /\ \A q \in DOMAIN traces : traces'[q] = traces[q]
  BY <1>1, <1>2 DEF LoopsCover, Drop, With
<1>4. \/ prepared' = prepared /\ Refused(events', p)
      \/ DOMAIN prepared' = DOMAIN prepared \cup {p} /\ Equipped(events', p) /\ flag = {}
  BY DEF With
<1>5. p # Overall
  BY <1>2, PackageAssumption, ScenarioAssumption DEF Overall
<1>6. /\ Planned(events') = {}
      /\ \A q \in Work \ {p} :
           /\ Silent(events', q, Kinds) = Silent(events, q, Kinds)
           /\ Refused(events', q) = Refused(events, q)
           /\ Equipped(events', q) = Equipped(events, q)
           /\ StageOf(events', q) = StageOf(events, q)
  BY <1>1, <1>2, <1>5, OthersStand
<1>7. \A q \in Work : Tells(q)'
  <2> SUFFICES ASSUME NEW q \in Work PROVE Tells(q)'
    OBVIOUS
  <2>1. ~At(q, {"compile", "negotiate"})'
    BY <1>1 DEF At
  <2>2. CASE q = p
    BY <1>1, <1>3, <1>4, <1>6, <2>1, <2>2 DEF Tells
  <2>3. CASE q # p
    <3>1. Tells(q) /\ ~At(q, {"compile", "negotiate"})
      BY <1>1, <2>3 DEF EventsTell, At
    <3>2. q \in DOMAIN prepared' <=> q \in DOMAIN prepared
      BY <1>4, <2>3
    <3>3. q \in DOMAIN traces' <=> q \in DOMAIN traces
      BY <1>3, <2>3
    <3> QED
      BY <1>1, <1>6, <2>1, <2>3, <3>1, <3>2, <3>3 DEF Tells
  <2> QED
    BY <2>2, <2>3
<1>8. FlagsTell' /\ "waiting" \notin flags'
  BY <1>1, <1>3, <1>4, <1>6 DEF FlagsTell, Running, Closing
<1>9. EventsTell'
  BY <1>1, <1>6, <1>7, <1>8 DEF EventsTell, Running
<1>10. Follows
  <2>1. StageOf(events', p) = IF Refused(events', p) THEN "refused" ELSE "equipped"
    <3>1. Refused(events', p) => StageOf(events', p) = "refused"
      BY <1>6, StageIs
    <3>2. Equipped(events', p) => StageOf(events', p) = "equipped"
      BY <1>6, StageIs
    <3>3. ~(Refused(events', p) /\ Equipped(events', p))
      BY <3>1, <3>2
    <3> QED
      BY <1>4, <3>1, <3>2, <3>3
  <2>2. ~Refused(events', p) => StageOf(events, p) = "authorized"
    BY <1>4
  <2> QED
    BY <1>1, <1>2, <1>6, <2>1, <2>2, MovingFollows DEF Promise!Successor
<1> QED
  BY <1>9, <1>10

LEMMA AuthorizeTells ==
  ASSUME IInv, EventsTell, NEW facts \in WorkFacts, Authorize(facts)
  PROVE  EventsTell' /\ Follows
<1> DEFINE p == Head(todo)
           decision == Authorization!Evaluate(setting.policies, facts)
<1>1. /\ phase = "authorize" /\ todo # <<>> /\ Preparing /\ ~Over /\ status = "open"
      /\ TypeOK /\ LoopsCover /\ EventsAbout(events) /\ todo \in Seq(Work)
      /\ \A m, n \in DOMAIN todo : todo[m] = todo[n] => m = n
  BY DEF IInv, Authorize, Preparing, Over, EndsOnce, LoopsCover, TypeOK
<1>2. p \in Work /\ p \in Left /\ p \notin DOMAIN traces
  BY <1>1, TakeFirst DEF LoopsCover, Left
<1>3. CASE Raise
  BY <1>1, <1>3, RaiseTells
<1>4. CASE ~Raise
  <2>1. /\ events' = Append(events, Event("authorization.evaluated", p, decision))
        /\ status' = status /\ prepared' = prepared
    BY <1>4 DEF Authorize, Record
  <2>2. Silent(events, p, Kinds) /\ Planned(events) = {} /\ StageOf(events, p) = "proposed"
    BY <1>1, <1>2, StageIs DEF EventsTell, Tells, At
  <2>3. IF decision \in Authorization!Auto THEN Cleared(events', p) ELSE Refused(events', p)
    BY <1>1, <1>2, <2>1, <2>2, OneMoves
  <2>4. CASE decision \in Authorization!Auto
    <3>1. phase' = "compile" /\ UNCHANGED <<todo, traces, flags>>
      BY <1>4, <2>4 DEF Authorize
    <3> HIDE DEF decision
    <3>2. p # Overall
      BY <1>2, PackageAssumption, ScenarioAssumption DEF Overall
    <3>3. /\ Planned(events') = {}
          /\ \A q \in Work \ {p} :
               /\ Silent(events', q, Kinds) = Silent(events, q, Kinds)
               /\ Refused(events', q) = Refused(events, q)
               /\ Equipped(events', q) = Equipped(events, q)
               /\ StageOf(events', q) = StageOf(events, q)
      BY <1>1, <1>2, <2>1, <2>2, <3>2, OthersStand
    <3>4. \A q \in Work : Tells(q)'
      BY <1>1, <1>2, <2>1, <2>2, <2>3, <2>4, <3>1, <3>3 DEF EventsTell, Tells, At
    <3>5. EventsTell'
      BY <1>1, <2>1, <2>2, <3>1, <3>3, <3>4
         DEF EventsTell, FlagsTell, Preparing, Running, Closing
    <3>6. StageOf(events', p) = "authorized"
      BY <2>3, <2>4, <3>3, StageIs
    <3> QED
      BY <1>1, <1>2, <2>1, <2>2, <3>3, <3>5, <3>6, MovingFollows DEF Promise!Successor
  <2>5. CASE decision \notin Authorization!Auto
    <3> DEFINE flag == {IF decision = "blocked" THEN "block" ELSE "decision"}
    <3>1. Drop(p, Trace(decision), flag)
      BY <1>4, <2>5 DEF Authorize
    <3>2. flag \in SUBSET {"block", "decision"}
      OBVIOUS
    <3>3. ~Equipped(events', p)
      BY <2>3, <2>5 DEF Refused, Equipped, Silent, Seen, Late
    <3> HIDE DEF flag, decision
    <3> QED
      BY <1>1, <2>1, <2>2, <2>3, <2>5, <3>1, <3>2, <3>3, DropTells
  <2> QED
    BY <2>4, <2>5
<1> QED
  BY <1>3, <1>4

LEMMA CompileTells ==
  ASSUME IInv, EventsTell, NEW name \in DOMAIN Context, Compile(name)
  PROVE  EventsTell' /\ Follows
<1> DEFINE p == Head(todo)
<1>1. /\ phase = "compile" /\ todo # <<>> /\ Preparing /\ ~Over /\ status = "open"
      /\ TypeOK /\ LoopsCover /\ EventsAbout(events) /\ todo \in Seq(Work)
      /\ \A m, n \in DOMAIN todo : todo[m] = todo[n] => m = n
      /\ prepared' = prepared /\ status' = status
  BY DEF IInv, Compile, Preparing, Over, EndsOnce, LoopsCover, TypeOK
<1>2. p \in Work /\ p \in Left /\ p \notin DOMAIN traces
  BY <1>1, TakeFirst DEF LoopsCover, Left
<1>3. Cleared(events, p) /\ Planned(events) = {} /\ StageOf(events, p) = "authorized"
  BY <1>1, <1>2, StageIs DEF EventsTell, Tells, At
<1>4. CASE phase' = "authorize"
  <2>1. /\ Drop(p, Trace(current.authorization), {"block"})
        /\ events' = Append(events, Event("context.rejected", p, None))
    BY <1>4 DEF Compile, Record
  <2>2. Refused(events', p)
    BY <1>1, <1>2, <1>3, <2>1, OneMoves
  <2>3. {"block"} \in SUBSET {"block", "decision"}
    OBVIOUS
  <2> QED
    BY <1>1, <1>3, <2>1, <2>2, <2>3, DropTells
<1>5. CASE phase' # "authorize"
  <2>1. phase' = "negotiate" /\ UNCHANGED <<todo, traces, flags, events>>
    BY <1>5 DEF Compile, Drop
  <2>2. \A q \in Work : Tells(q)'
    BY <1>1, <1>2, <1>3, <2>1 DEF EventsTell, Tells, At, Left
  <2>3. EventsTell'
    BY <1>1, <2>1, <2>2 DEF EventsTell, FlagsTell, Preparing, Running, Closing
  <2> QED
    BY <1>1, <2>1, <2>3, StayingFollows
<1> QED
  BY <1>4, <1>5

LEMMA NegotiateTells ==
  ASSUME IInv, EventsTell, NEW r \in Requests, Negotiate(r)
  PROVE  EventsTell' /\ Follows
<1> DEFINE p == Head(todo)
           request == Filled(r, p)
           runner == Adapter!Preferred(request, Profiles)
<1>1. /\ phase = "negotiate" /\ todo # <<>> /\ Preparing /\ ~Over /\ status = "open"
      /\ TypeOK /\ LoopsCover /\ EventsAbout(events) /\ todo \in Seq(Work)
      /\ \A m, n \in DOMAIN todo : todo[m] = todo[n] => m = n
      /\ status' = status
  BY DEF IInv, Negotiate, Preparing, Over, EndsOnce, LoopsCover, TypeOK
<1>2. p \in Work /\ p \in Left /\ p \notin DOMAIN traces
  BY <1>1, TakeFirst DEF LoopsCover, Left
<1>3. Cleared(events, p) /\ Planned(events) = {} /\ StageOf(events, p) = "authorized"
  BY <1>1, <1>2, StageIs DEF EventsTell, Tells, At
<1>4. CASE Adapter!NoneAccepts(request, Profiles)
  <2>1. PICK trace : Drop(p, trace, {"block"}) /\ prepared' = prepared
        /\ events' = Append(events, Event("capability.rejected", p, None))
    BY <1>4 DEF Negotiate, Record
  <2>2. Refused(events', p)
    BY <1>1, <1>2, <1>3, <2>1, OneMoves
  <2>3. {"block"} \in SUBSET {"block", "decision"}
    OBVIOUS
  <2> QED
    BY <1>1, <1>3, <2>1, <2>2, <2>3, DropTells
<1>5. CASE ~Adapter!NoneAccepts(request, Profiles)
  <2>1. PICK trace, x : Drop(p, trace, {}) /\ prepared' = With(prepared, p, x)
        /\ events' = Append(events, Event("capability.negotiated", p, runner.adapter))
    BY <1>5 DEF Negotiate, Record
  <2> DEFINE adapter == runner.adapter
  <2> HIDE DEF runner
  <2>2. Equipped(events', p)
    BY <1>1, <1>2, <1>3, <2>1, OneMoves
  <2>3. {} \in SUBSET {"block", "decision"}
    OBVIOUS
  <2> QED
    BY <1>1, <1>3, <2>1, <2>2, <2>3, DropTells
<1> QED
  BY <1>4, <1>5

LEMMA SchedulingTells ==
  ASSUME IInv, EventsTell, NothingPrepared \/ \E at \in Snapshots : Plan(at)
  PROVE  EventsTell' /\ Follows
<1>1. /\ phase = "authorize" /\ todo = <<>> /\ Preparing /\ ~Over /\ status = "open" /\ Left = {}
      /\ EventsAbout(events) /\ Work = DOMAIN traces /\ DOMAIN prepared \subseteq Work
      /\ UNCHANGED <<prepared, traces, flags, status>>
  <2>1. phase = "authorize" /\ todo = <<>> /\ DOMAIN todo = {} /\ Preparing /\ ~Over
    BY DEF NothingPrepared, Plan, Preparing, Over
  <2>2. TypeOK /\ LoopsCover /\ EndsOnce /\ Left = {}
    BY <2>1 DEF IInv, Left
  <2> QED
    BY <2>1, <2>2 DEF TypeOK, LoopsCover, EndsOnce, NothingPrepared, Plan
<1>2. /\ Planned(events) = {} /\ "waiting" \notin flags /\ FlagsTell
      /\ \A q \in DOMAIN prepared : Equipped(events, q)
      /\ \A q \in Work \ DOMAIN prepared : Refused(events, q)
  BY <1>1 DEF EventsTell, Tells
<1>3. CASE NothingPrepared
  <2>1. phase' = "integrate" /\ UNCHANGED <<todo, plan, events>> /\ DOMAIN prepared = {}
    BY <1>3 DEF NothingPrepared
  <2>2. \A q \in Work : Tells(q)'
    BY <1>1, <1>2, <2>1 DEF Tells
  <2>3. EventsTell'
    BY <1>1, <1>2, <2>1, <2>2 DEF EventsTell, FlagsTell, Preparing, Running, Closing
  <2> QED
    BY <1>1, <2>1, <2>3, StayingFollows
<1>4. ASSUME NEW at \in Snapshots, Plan(at) PROVE EventsTell' /\ Follows
  <2>1. PICK S \in SUBSET DOMAIN prepared :
          /\ plan' = S
          /\ events' = Append(events, Event("schedule.planned", Overall, S))
    BY <1>4 DEF Plan, Record
  <2>2. phase' = "dispatch" /\ todo' = Listed(DOMAIN prepared)
    BY <1>4 DEF Plan
  <2>3. Left' = DOMAIN prepared
    <3> DEFINE D == DOMAIN prepared
               L == Listed(D)
    <3>1. D \subseteq Package /\ todo' = L
      BY <1>1, <2>2, ScenarioAssumption
    <3> HIDE DEF D, L
    <3>2. L \in Seq(D) /\ \A q \in D : \E n \in DOMAIN L : L[n] = q
      BY <3>1, ListedIsList DEF L
    <3>3. {L[n] : n \in DOMAIN L} = D
      BY <3>2
    <3> QED
      BY <3>1, <3>3 DEF Left, D
  <2>4. Overall \notin Work
    BY PackageAssumption, ScenarioAssumption DEF Overall
  <2>5. /\ Planned(events') = S
        /\ \A q \in Work : Equipped(events', q) = Equipped(events, q)
        /\ \A q \in Work : Refused(events', q) = Refused(events, q)
    <3> DEFINE t == Append(events, Event("schedule.planned", Overall, S))
    <3>1. /\ Planned(t) = Planned(events) \cup S
          /\ \A q \in Work \ {Overall} :
               Equipped(t, q) = Equipped(events, q) /\ Refused(t, q) = Refused(events, q)
      BY <1>1, OthersStand
    <3>2. events' = t
      BY <2>1
    <3> HIDE DEF t
    <3> QED
      BY <1>2, <2>4, <3>1, <3>2
  <2>6. \A q \in Work : Tells(q)'
    BY <1>1, <1>2, <2>2, <2>3, <2>5 DEF Tells, At
  <2>7. FlagsTell'
    BY <1>1, <1>2, <2>3 DEF FlagsTell
  <2>8. EventsTell'
    BY <1>1, <2>1, <2>2, <2>5, <2>6, <2>7 DEF EventsTell, Preparing, Running
  <2>9. /\ \A q \in Work : StageOf(events, q) = IF q \in DOMAIN prepared THEN "equipped" ELSE "refused"
        /\ \A q \in Work : StageOf(events', q) = IF q \in S THEN "scheduled" ELSE StageOf(events, q)
    BY <1>1, <1>2, <2>5, StageIs
  <2>10. Promise!Schedule(S)
    BY <1>1, <2>9 DEF Promise!Schedule, Promise!Considered
  <2>11. S \in SUBSET Work
    BY <1>1
  <2>12. Follows
    BY <1>1, <2>10, <2>11 DEF Follows, Promise!Next
  <2> QED
    BY <2>8, <2>12
<1> QED
  BY <1>3, <1>4

(* What is not at the head of the running loop stands where it stood.      *)
LEMMA RunningTells ==
  ASSUME IInv, EventsTell, Running, todo # <<>>, NEW p, p = Head(todo),
         prepared' = prepared, plan' = plan, DOMAIN traces' = DOMAIN traces,
         flags \subseteq flags', flags' \subseteq flags \cup {"failure", "waiting"},
         "waiting" \in flags' => "waiting" \in flags \/ p \notin plan,
         p \notin plan => "waiting" \in flags',
         \/ events' = events
         \/ \E type, outcome : events' = Append(events, Event(type, p, outcome)),
         \/ phase' \in {"invoke", "accept"} /\ todo' = todo /\ p \in plan
         \/ NextPackage,
         Tells(p)'
  PROVE  /\ EventsTell'
         /\ \A q \in Work \ {p} : StageOf(events', q) = StageOf(events, q)
<1>1. /\ TypeOK /\ LoopsCover /\ EventsAbout(events) /\ ~Over /\ todo \in Seq(Work)
      /\ \A m, n \in DOMAIN todo : todo[m] = todo[n] => m = n
      /\ Work = DOMAIN traces /\ Left \subseteq DOMAIN prepared
      /\ phase' \in {"dispatch", "invoke", "accept"} /\ plan = Planned(events) /\ FlagsTell
      /\ Planned(events) \subseteq DOMAIN prepared
  BY DEF IInv, TypeOK, LoopsCover, Running, Over, NextPackage, EventsTell
<1>2. /\ p \in Work /\ p \in Left
      /\ {Tail(todo)[n] : n \in DOMAIN Tail(todo)} = Left \ {p}
  BY <1>1, TakeFirst DEF Left
<1>3. /\ Left' \subseteq Left /\ Left \subseteq Left' \cup {p}
      /\ NextPackage => p \notin Left'
  <2>1. CASE todo' = todo /\ ~NextPackage
    BY <2>1 DEF Left
  <2>2. CASE NextPackage
    <3>1. todo' = Tail(todo)
      BY <2>2 DEF NextPackage
    <3>2. Left' = {Tail(todo)[n] : n \in DOMAIN Tail(todo)}
      BY <3>1 DEF Left
    <3> QED
      BY <1>2, <3>2
  <2> QED
    BY <2>1, <2>2
<1>4. p # Overall
  BY <1>2, PackageAssumption, ScenarioAssumption DEF Overall
<1>5. /\ Planned(events') = Planned(events)
      /\ \A q \in Work \ {p} :
           /\ Refused(events', q) = Refused(events, q)
           /\ Equipped(events', q) = Equipped(events, q)
           /\ StageOf(events', q) = StageOf(events, q)
  <2>1. CASE events' = events
    BY <2>1
  <2>2. ASSUME NEW type, NEW outcome, events' = Append(events, Event(type, p, outcome))
        PROVE  /\ Planned(events') = Planned(events)
               /\ \A q \in Work \ {p} :
                    /\ Refused(events', q) = Refused(events, q)
                    /\ Equipped(events', q) = Equipped(events, q)
                    /\ StageOf(events', q) = StageOf(events, q)
    BY <1>1, <1>4, <2>2, OthersStand
  <2> QED
    BY <2>1, <2>2
<1>6. ASSUME NEW q \in Work, q # p PROVE Tells(q)'
  <2>1. Tells(q)
    BY <1>1 DEF EventsTell
  <2>2. ~At(q, {"invoke"}) /\ ~At(q, {"accept"})
    BY <1>6 DEF At
  <2>3. ~At(q, {"invoke"})' /\ ~At(q, {"accept"})'
    BY <1>6 DEF At, NextPackage
  <2>4. q \in Left' <=> q \in Left
    BY <1>3, <1>6
  <2> QED
    BY <1>1, <1>5, <1>6, <2>1, <2>2, <2>3, <2>4 DEF Tells
<1>7. FlagsTell'
  <2>1. flags' \cap {"block", "decision"} # {} => DOMAIN traces' \ DOMAIN prepared' # {}
    BY <1>1 DEF FlagsTell
  <2>2. "waiting" \in flags' => DOMAIN prepared' \ Planned(events') # {}
    BY <1>1, <1>2, <1>5 DEF FlagsTell
  <2>3. \A q \in DOMAIN prepared' \ (Planned(events') \cup Left') : "waiting" \in flags'
    BY <1>1, <1>3, <1>5 DEF FlagsTell
  <2> QED
    BY <2>1, <2>2, <2>3 DEF FlagsTell
<1>8. phase' \in {"invoke", "accept"} => Head(todo') \in plan'
  BY DEF NextPackage
<1>9. \A q \in Work : Tells(q)'
  BY <1>6
<1>10. EventsTell'
  BY <1>1, <1>5, <1>7, <1>8, <1>9 DEF EventsTell, Preparing, Running
<1> QED
  BY <1>5, <1>10

(* Where the head of the running loop stands before it is dealt with.      *)
LEMMA HeadStands ==
  ASSUME IInv, EventsTell, Running, todo # <<>>, NEW p, p = Head(todo)
  PROVE  /\ p \in Work /\ p \in Left /\ p \in DOMAIN traces /\ p \in DOMAIN prepared
         /\ NextPackage => p \notin Left'
         /\ EventsAbout(events) /\ plan = Planned(events) /\ status = "open" /\ ~Over
         /\ p # Overall
         /\ p \notin plan => phase = "dispatch" /\ Equipped(events, p)
         /\ p \in plan =>
              /\ phase = "dispatch" => Equipped(events, p) /\ StageOf(events, p) = "scheduled"
              /\ phase = "invoke" => Sent(events, p) /\ StageOf(events, p) = "dispatched"
              /\ phase = "accept" => Back(events, p) /\ StageOf(events, p) = "returned"
<1>1. /\ EventsAbout(events) /\ ~Over /\ status = "open" /\ todo \in Seq(Work)
      /\ \A m, n \in DOMAIN todo : todo[m] = todo[n] => m = n
      /\ Work = DOMAIN traces /\ Left \subseteq DOMAIN prepared
      /\ plan = Planned(events) /\ (phase \in {"invoke", "accept"} => p \in plan)
  BY DEF IInv, TypeOK, LoopsCover, EndsOnce, Running, Over, EventsTell
<1>2. /\ p \in Work /\ p \in Left
      /\ {Tail(todo)[n] : n \in DOMAIN Tail(todo)} = Left \ {p}
  BY <1>1, TakeFirst DEF Left
<1>3. NextPackage => p \notin Left'
  BY <1>2 DEF NextPackage, Left
<1>4. p # Overall
  BY <1>2, PackageAssumption, ScenarioAssumption DEF Overall
<1>5. Tells(p)
  BY <1>1, <1>2 DEF EventsTell
<1>6. p \notin plan => phase = "dispatch" /\ Equipped(events, p)
  BY <1>1, <1>2, <1>5 DEF Tells, Running
<1>7. p \in plan =>
        /\ phase = "dispatch" => Equipped(events, p)
        /\ phase = "invoke" => Sent(events, p)
        /\ phase = "accept" => Back(events, p)
  BY <1>1, <1>2, <1>5 DEF Tells, At
<1> QED
  BY <1>1, <1>2, <1>3, <1>4, <1>6, <1>7, StageIs

LEMMA DeferTells == ASSUME IInv, EventsTell, Defer PROVE EventsTell' /\ Follows
<1> SUFFICES ASSUME NEW p, p = Head(todo) PROVE EventsTell' /\ Follows
  OBVIOUS
<1>1. /\ Running /\ todo # <<>> /\ p \notin plan /\ NextPackage
      /\ flags' = flags \cup {"waiting"} /\ DOMAIN traces' = DOMAIN traces
      /\ UNCHANGED <<prepared, plan, events, status>>
  BY DEF Defer, Running
<1>2. p \in DOMAIN traces /\ p \in DOMAIN prepared /\ Equipped(events, p) /\ plan = Planned(events)
  BY <1>1, HeadStands
<1>3. Tells(p)'
  BY <1>1, <1>2 DEF Tells
<1>4. EventsTell'
  BY <1>1, <1>3, RunningTells
<1> QED
  BY <1>1, <1>4, StayingFollows

LEMMA DispatchTells == ASSUME IInv, EventsTell, Dispatch PROVE EventsTell' /\ Follows
<1> SUFFICES ASSUME NEW p, p = Head(todo) PROVE EventsTell' /\ Follows
  OBVIOUS
<1> DEFINE effects == prepared[p].request.effects
<1>1. /\ phase = "dispatch" /\ Running /\ todo # <<>> /\ p \in plan /\ phase' = "invoke"
      /\ events' = Append(events, Event("run.dispatched", p, effects))
      /\ UNCHANGED <<todo, prepared, traces, flags, plan, status>>
  BY DEF Dispatch, Running, Record
<1> HIDE DEF effects
<1>2. /\ p \in Work /\ p \in Left /\ p \in DOMAIN traces /\ p \in DOMAIN prepared /\ p # Overall
      /\ EventsAbout(events) /\ status = "open" /\ plan = Planned(events)
      /\ Equipped(events, p) /\ StageOf(events, p) = "scheduled"
  BY <1>1, HeadStands
<1>3. Sent(events', p) /\ Planned(events') = Planned(events)
  BY <1>1, <1>2, OneMoves, OthersStand
<1>4. p \in Left'
  BY <1>1, <1>2 DEF Left
<1>5. Tells(p)'
  BY <1>1, <1>2, <1>3, <1>4 DEF Tells, At
<1>6. EventsTell' /\ \A q \in Work \ {p} : StageOf(events', q) = StageOf(events, q)
  BY <1>1, <1>5, RunningTells
<1>7. StageOf(events', p) = "dispatched"
  BY <1>3, StageIs
<1> QED
  BY <1>1, <1>2, <1>6, <1>7, MovingFollows DEF Promise!Successor

LEMMA InvokeTells ==
  ASSUME IInv, EventsTell, InvokeFails \/ \E raw \in Raws : Invoke(raw)
  PROVE  EventsTell' /\ Follows
<1> SUFFICES ASSUME NEW p, p = Head(todo) PROVE EventsTell' /\ Follows
  OBVIOUS
<1>1. phase = "invoke" /\ Running /\ todo # <<>> /\ ~Over
  BY DEF InvokeFails, Invoke, Running, Over, IInv, LoopsCover
<1>2. CASE Raise
  BY <1>1, <1>2, RaiseTells
<1>3. ASSUME NEW raw \in Raws, Invoke(raw), ~Raise PROVE EventsTell' /\ Follows
  <2> DEFINE answer == raw.status
  <2>1. /\ phase' = "accept" /\ DOMAIN traces' = DOMAIN traces
        /\ events' = Append(events, Event("run.completed", p, answer))
        /\ UNCHANGED <<todo, prepared, flags, plan, status>>
    BY <1>3 DEF Invoke, Record
  <2> HIDE DEF answer
  <2>2. /\ p \in Work /\ p \in Left /\ p \in DOMAIN traces /\ p \in DOMAIN prepared /\ p # Overall
        /\ EventsAbout(events) /\ status = "open" /\ plan = Planned(events) /\ p \in plan
        /\ Sent(events, p) /\ StageOf(events, p) = "dispatched"
    BY <1>1, HeadStands
  <2>3. Back(events', p) /\ Planned(events') = Planned(events)
    BY <2>1, <2>2, OneMoves, OthersStand
  <2>4. p \in Left'
    BY <2>1, <2>2 DEF Left
  <2>5. Tells(p)'
    BY <2>1, <2>2, <2>3, <2>4 DEF Tells, At
  <2>6. EventsTell' /\ \A q \in Work \ {p} : StageOf(events', q) = StageOf(events, q)
    BY <1>1, <2>1, <2>2, <2>5, RunningTells
  <2>7. StageOf(events', p) = "returned"
    BY <2>3, StageIs
  <2> QED
    BY <2>1, <2>2, <2>6, <2>7, MovingFollows DEF Promise!Successor
<1> QED
  BY <1>2, <1>3 DEF InvokeFails

LEMMA RejectTells == ASSUME IInv, EventsTell, Reject PROVE EventsTell' /\ Follows
<1> SUFFICES ASSUME NEW p, p = Head(todo) PROVE EventsTell' /\ Follows
  OBVIOUS
<1>1. /\ phase = "accept" /\ Running /\ todo # <<>> /\ NextPackage
      /\ flags' = flags \cup {"failure"}
      /\ UNCHANGED <<prepared, traces, plan, events, status>>
  BY DEF Reject, Running, IInv, LoopsCover
<1>2. /\ p \in DOMAIN traces /\ p \in DOMAIN prepared /\ plan = Planned(events) /\ p \in plan
      /\ StageOf(events, p) = "returned" /\ p \notin Left'
  BY <1>1, HeadStands
<1>3. Tells(p)'
  BY <1>1, <1>2 DEF Tells
<1>4. EventsTell'
  BY <1>1, <1>2, <1>3, RunningTells
<1> QED
  BY <1>1, <1>4, StayingFollows

LEMMA AcceptTells ==
  ASSUME IInv, EventsTell, NEW given \in Acceptances, NEW completion, Accept(given, completion)
  PROVE  EventsTell' /\ Follows
<1> SUFFICES ASSUME NEW p, p = Head(todo) PROVE EventsTell' /\ Follows
  OBVIOUS
<1> DEFINE outcome == Gate!Outcome(given)
<1>1. phase = "accept" /\ Running /\ todo # <<>> /\ ~Over
  BY DEF Accept, Running, Over, IInv, LoopsCover
<1>2. CASE ~Gate!Evaluable(given)
  BY <1>1, <1>2, RaiseTells DEF Accept
<1>3. CASE Gate!Evaluable(given)
  <2>1. /\ NextPackage /\ DOMAIN traces' = DOMAIN traces
        /\ flags' = flags \cup (IF outcome \in Gate!Promotable THEN {} ELSE {"failure"})
        /\ events' = Append(events, Event("gate.evaluated", p, outcome))
        /\ UNCHANGED <<prepared, plan, status>>
    BY <1>3 DEF Accept, Record
  <2> HIDE DEF outcome
  <2>2. /\ p \in Work /\ p \in DOMAIN traces /\ p \in DOMAIN prepared /\ p # Overall
        /\ EventsAbout(events) /\ status = "open" /\ plan = Planned(events) /\ p \in plan
        /\ Back(events, p) /\ StageOf(events, p) = "returned" /\ p \notin Left'
    BY <1>1, <2>1, HeadStands
  <2>3. /\ StageOf(events', p) = IF outcome \in Gate!Promotable THEN "accepted" ELSE "returned"
        /\ Planned(events') = Planned(events)
    BY <2>1, <2>2, OneMoves, OthersStand
  <2>4. Tells(p)'
    BY <2>1, <2>2, <2>3 DEF Tells
  <2>5. EventsTell' /\ \A q \in Work \ {p} : StageOf(events', q) = StageOf(events, q)
    BY <1>1, <2>1, <2>2, <2>4, RunningTells
  <2>6. CASE outcome \in Gate!Promotable
    BY <2>1, <2>2, <2>3, <2>5, <2>6, MovingFollows DEF Promise!Successor
  <2>7. CASE outcome \notin Gate!Promotable
    BY <2>1, <2>2, <2>3, <2>5, <2>7, StayingFollows
  <2> QED
    BY <2>5, <2>6, <2>7
<1> QED
  BY <1>2, <1>3

LEMMA ClosingTells ==
  ASSUME IInv, EventsTell, NoIntegration \/ \E i \in Integrations : Integrate(i)
  PROVE  EventsTell' /\ Follows
<1>1. /\ phase \in {"dispatch", "integrate"} /\ todo = <<>> /\ Left = {} /\ ~Over
      /\ status = "open" /\ EventsAbout(events) /\ Work = DOMAIN traces
  <2>1. (phase = "dispatch" /\ todo = <<>>) \/ phase = "integrate"
    BY DEF NoIntegration, Integrate, Dispatched
  <2>2. TypeOK /\ LoopsCover /\ EndsOnce
    BY DEF IInv
  <2>3. phase \in {"dispatch", "integrate"} /\ todo = <<>> /\ Work = DOMAIN traces
    BY <2>1, <2>2 DEF LoopsCover, Running, Closing
  <2>4. DOMAIN todo = {}
    BY <2>3
  <2> QED
    BY <2>2, <2>3, <2>4 DEF Left, EndsOnce, Over, TypeOK
<1>2. Overall \notin Work
  BY PackageAssumption, ScenarioAssumption DEF Overall
<1>3. CASE Raise
  BY <1>1, <1>3, RaiseTells
<1>4. CASE ~Raise
  <2>1. /\ phase' = "finish" /\ UNCHANGED <<todo, prepared, traces, plan, status>>
        /\ flags \subseteq flags' /\ flags' \subseteq flags \cup {"failure"}
        /\ \/ events' = events
           \/ \E outcome : \/ events' = Append(events, Event("integration.blocked", Overall, outcome))
                           \/ events' = Append(events, Event("integration.evaluated", Overall, outcome))
    BY <1>4 DEF NoIntegration, Integrate, Record
  <2>2. /\ Planned(events') = Planned(events)
        /\ \A q \in Work : /\ Refused(events', q) = Refused(events, q)
                           /\ Equipped(events', q) = Equipped(events, q)
                           /\ StageOf(events', q) = StageOf(events, q)
    <3>1. ASSUME NEW type \in {"integration.blocked", "integration.evaluated"}, NEW outcome,
                 events' = Append(events, Event(type, Overall, outcome))
          PROVE  /\ Planned(events') = Planned(events)
                 /\ \A q \in Work : /\ Refused(events', q) = Refused(events, q)
                                    /\ Equipped(events', q) = Equipped(events, q)
                                    /\ StageOf(events', q) = StageOf(events, q)
      BY <1>1, <1>2, <3>1, OthersStand
    <3> QED
      BY <2>1, <3>1
  <2>3. \A q \in Work : Tells(q)'
    <3>1. Left' = {}
      BY <1>1, <2>1 DEF Left
    <3> QED
      BY <1>1, <2>1, <2>2, <3>1 DEF EventsTell, Tells
  <2>4. FlagsTell'
    BY <1>1, <2>1, <2>2 DEF EventsTell, FlagsTell, Running, Closing, Left
  <2>5. EventsTell'
    BY <1>1, <2>1, <2>2, <2>3, <2>4 DEF EventsTell, Preparing, Running
  <2> QED
    BY <2>1, <2>2, <2>5, StayingFollows
<1> QED
  BY <1>3, <1>4

(* The status is one the stages of the packages warrant.                   *)
LEMMA FinishTells == ASSUME IInv, EventsTell, Finish PROVE EventsTell' /\ Follows
<1>1. /\ phase = "finish" /\ ~Over /\ status = "open" /\ Left = {} /\ flags \subseteq Flags
      /\ EventsAbout(events) /\ Work = DOMAIN traces /\ DOMAIN prepared \subseteq Work
      /\ flags \cap {"block", "decision"} = {} => Work \subseteq DOMAIN prepared
  <2>1. /\ phase = "finish" /\ TypeOK /\ LoopsCover /\ LeavesShow /\ EndsOnce
    BY DEF Finish, IInv
  <2>2. todo = <<>> /\ DOMAIN todo = {} /\ Work = DOMAIN traces
    BY <2>1 DEF LoopsCover, Closing
  <2> QED
    BY <2>1, <2>2 DEF Left, EndsOnce, Over, TypeOK, LeavesShow
<1>2. /\ status' = Status /\ phase' \in {"returned", "refused"}
      /\ events' = Append(events, Event("orchestration.completed", Overall, Status))
  BY DEF Finish, Record
<1>3. Overall \notin Work
  BY PackageAssumption, ScenarioAssumption DEF Overall
<1>4. \A q \in Work : StageOf(events', q) = StageOf(events, q)
  <2> DEFINE given == Status
  <2>1. events' = Append(events, Event("orchestration.completed", Overall, given))
    BY <1>2
  <2> HIDE DEF given
  <2> QED
    BY <1>1, <1>3, <2>1, OthersStand
<1>5. \A q \in Work :
        IF q \notin DOMAIN prepared THEN StageOf(events, q) = "refused"
        ELSE IF q \notin Planned(events)
        THEN StageOf(events, q) = "equipped" /\ "waiting" \in flags
        ELSE StageOf(events, q) = "accepted" \/
             (StageOf(events, q) = "returned" /\ "failure" \in flags)
  <2>1. /\ \A q \in Work : Tells(q)
        /\ Planned(events) \subseteq DOMAIN prepared /\ FlagsTell
    BY <1>1 DEF EventsTell
  <2>2. \A q \in DOMAIN prepared \ Planned(events) : "waiting" \in flags
    BY <1>1, <2>1 DEF FlagsTell, Closing
  <2> QED
    BY <1>1, <2>1, <2>2, StageIs DEF Tells
<1>6. /\ "waiting" \in flags => \E q \in Work : StageOf(events, q) = "equipped"
      /\ flags \cap {"block", "decision"} # {} => \E q \in Work : StageOf(events, q) = "refused"
  <2>1. /\ "waiting" \in flags => DOMAIN prepared \ Planned(events) # {}
        /\ flags \cap {"block", "decision"} # {} => DOMAIN traces \ DOMAIN prepared # {}
    BY <1>1 DEF EventsTell, FlagsTell
  <2> QED
    BY <1>1, <1>5, <2>1
<1>7. Status \in {"blocked", "decision_required", "failed", "waiting", "completed"}
  BY <1>1 DEF Status, Flags
<1>8. Promise!Warrants(Status)
  <2>1. CASE Status \in {"blocked", "decision_required"}
    <3>1. flags \cap {"block", "decision"} # {}
      BY <1>1, <2>1 DEF Status, Flags
    <3> HIDE DEF Status
    <3> QED
      BY <1>5, <1>6, <2>1, <3>1 DEF Promise!Warrants
  <2>2. CASE Status = "failed"
    <3>1. flags \cap {"block", "decision"} = {}
      BY <1>1, <2>2 DEF Status, Flags
    <3> QED
      BY <1>1, <1>5, <2>2, <3>1 DEF Promise!Warrants
  <2>3. CASE Status = "waiting"
    <3>1. flags = {"waiting"}
      BY <1>1, <2>3 DEF Status, Flags
    <3> QED
      BY <1>1, <1>5, <1>6, <2>3, <3>1 DEF Promise!Warrants
  <2>4. CASE Status = "completed"
    <3>1. flags = {}
      BY <1>1, <2>4 DEF Status, Flags
    <3> QED
      BY <1>1, <1>5, <2>4, <3>1 DEF Promise!Warrants
  <2> QED
    BY <1>7, <2>1, <2>2, <2>3, <2>4
<1>9. Promise!Warrants(status')
  BY <1>2, <1>8
<1>10. status' \in {"not_managed", "completed", "waiting", "failed", "blocked",
                    "decision_required", "raised"}
  BY <1>2, <1>7
<1> QED
  BY <1>1, <1>2, <1>4, <1>9, <1>10, ClosingFollows DEF EventsTell, Over

LEMMA NextTells == IInv /\ EventsTell /\ [Next]_vars => EventsTell' /\ Follows
<1> SUFFICES ASSUME IInv, EventsTell, [Next]_vars PROVE EventsTell' /\ Follows
  OBVIOUS
<1>1. CASE UNCHANGED vars
  <2>1. EventsTell'
    BY <1>1 DEF vars, EventsTell, Over, Tells, At, Left, FlagsTell, Preparing, Running, Closing
  <2> QED
    BY <1>1, <2>1, StayingFollows DEF vars
<1>2. CASE \E facts \in ActivationFacts :
             StayConversational(facts) \/ \E s \in Settings : Start(facts, s)
  BY <1>2, BeginningTells
<1>3. CASE \E facts \in WorkFacts : Authorize(facts)
  BY <1>3, AuthorizeTells
<1>4. CASE \E name \in DOMAIN Context : Compile(name)
  BY <1>4, CompileTells
<1>5. CASE \E r \in Requests : Negotiate(r)
  BY <1>5, NegotiateTells
<1>6. CASE NothingPrepared \/ \E at \in Snapshots : Plan(at)
  BY <1>6, SchedulingTells
<1>7. CASE Defer
  BY <1>7, DeferTells
<1>8. CASE Dispatch
  BY <1>8, DispatchTells
<1>9. CASE InvokeFails \/ \E raw \in Raws : Invoke(raw)
  BY <1>9, InvokeTells
<1>10. CASE Reject
  BY <1>10, RejectTells
<1>11. CASE \E given \in Acceptances, c \in Completions \cup {None} : Accept(given, c)
  BY <1>11, AcceptTells
<1>12. CASE NoIntegration \/ \E i \in Integrations : Integrate(i)
  BY <1>12, ClosingTells
<1>13. CASE Finish
  BY <1>13, FinishTells
<1>14. CASE PlanFails
  BY <1>14, RaiseTells DEF PlanFails, Over
<1> QED
  BY <1>1, <1>2, <1>3, <1>4, <1>5, <1>6, <1>7, <1>8, <1>9, <1>10, <1>11, <1>12, <1>13, <1>14 DEF Next

(* ARCH-11: execute takes every package through its controls in their      *)
(* order, takes none that was refused further, dispatches nothing before   *)
(* every package is considered, and returns a status that the recorded     *)
(* events of the packages warrant.                                         *)
THEOREM JourneyImplemented == Spec => ImplementsJourney
<1>1. ASSUME Init PROVE EventsTell /\ Promise!Init
  <2>1. DOMAIN traces = {} /\ DOMAIN prepared = {} /\ DOMAIN events = {} /\ flags = {}
        /\ phase = "start" /\ status = "open"
    BY <1>1 DEF Init
  <2>2. \A q, kind : RecordedFor(events, q, kind) = {}
    BY <2>1 DEF RecordedFor
  <2>3. Planned(events) = {} /\ \A q : Silent(events, q, Kinds)
    BY <2>2 DEF Planned, Said, Silent
  <2>4. EventsTell
    BY <2>1, <2>3 DEF EventsTell, Tells, At, FlagsTell, Running, Closing
  <2>5. \A q : StageOf(events, q) = "proposed"
    BY <2>3, StageIs
  <2> QED
    BY <2>1, <2>4, <2>5 DEF Promise!Init
<1>2. IInv /\ EventsTell /\ [Next]_vars => EventsTell' /\ [Promise!Next]_(Promise!vars)
  BY NextTells DEF Follows
<1> QED
  BY <1>1, <1>2, IInvHolds, PTL DEF Spec, ImplementsJourney, Promise!Spec

-----------------------------------------------------------------------------
(* The data of an execution: its contexts, requests, runners and trace.    *)

(* Induction up to N, for a set of numbers.                                *)
LEMMA InductionTo ==
  ASSUME NEW N \in Nat, NEW S, 0 \in S, \A n \in 1..N : n - 1 \in S => n \in S
  PROVE  \A n \in 0..N : n \in S
<1> DEFINE T == (0..N) \ S
           Less == {r \in Nat \X Nat : r[1] < r[2]}
<1>1. SUFFICES ASSUME T # {} PROVE FALSE
  OBVIOUS
<1>2. PICK x \in T : \A y \in T : <<y, x>> \notin Less
  <2>1. T \subseteq Nat
    OBVIOUS
  <2>2. IsWellFoundedOn(Less, Nat)
    BY NatLessThanWellFounded, Zenon DEF OpToRel
  <2> HIDE DEF Less, T
  <2> QED
    BY <1>1, <2>1, <2>2, WFMin
<1>3. x \in 1..N /\ x - 1 \in Nat /\ x - 1 \notin T
  <2>1. x \in Nat /\ x # 0
    OBVIOUS
  <2>2. <<x - 1, x>> \in Less
    BY <2>1
  <2> QED
    BY <1>2, <2>1, <2>2
<1> QED
  BY <1>3

(* A table filled from one place to the next exists.                       *)
TableOf(t, N, X, a, step) ==
  t \in [0..N -> X] /\ t[0] = a /\ \A n \in 1..N : t[n] = step[<<n, t[n-1]>>]

(* By induction over how far it is filled.                                 *)
LEMMA TableExists ==
  ASSUME NEW N \in Nat, NEW X, NEW a, a \in X, NEW step, step \in [(1..N) \X X -> X]
  PROVE  \E t : TableOf(t, N, X, a, step)
<1> DEFINE To(t, m) == /\ t \in [0..m -> X] /\ t[0] = a
                       /\ \A n \in 1..m : t[n] = step[<<n, t[n-1]>>]
           S == {m \in 0..N : \E t : To(t, m)}
<1>1. 0 \in S
  <2>1. To([n \in 0..0 |-> a], 0)
    OBVIOUS
  <2> HIDE DEF To
  <2> QED
    BY <2>1
<1>2. ASSUME NEW m \in 1..N, m - 1 \in S PROVE m \in S
  <2>1. PICK t : To(t, m - 1)
    BY <1>2
  <2> DEFINE u == [n \in 0..m |-> IF n = m THEN step[<<m, t[m-1]>>] ELSE t[n]]
  <2>2. /\ \A n \in 0..m : n # m => n \in 0..(m - 1)
        /\ m - 1 \in 0..(m - 1)
    OBVIOUS
  <2>3. t[m-1] \in X /\ step[<<m, t[m-1]>>] \in X
    BY <2>1, <2>2
  <2>4. u \in [0..m -> X] /\ u[0] = a
    BY <2>1, <2>2, <2>3
  <2>5. ASSUME NEW n \in 1..m PROVE u[n] = step[<<n, u[n-1]>>]
    <3>1. n - 1 \in 0..m /\ n - 1 # m /\ n \in 0..m /\ u[n-1] = t[n-1]
      OBVIOUS
    <3>2. CASE n = m
      BY <3>1, <3>2
    <3>3. CASE n # m
      <4>1. n \in 1..(m - 1) /\ u[n] = t[n]
        BY <3>1, <3>3
      <4> QED
        BY <2>1, <3>1, <4>1
    <3> QED
      BY <3>2, <3>3
  <2>6. To(u, m)
    BY <2>4, <2>5
  <2> HIDE DEF To, u
  <2> QED
    BY <2>6
<1>3. \A n \in 0..N : n \in S
  <2> HIDE DEF S
  <2> QED
    BY <1>1, <1>2, InductionTo
<1>4. \E t : To(t, N)
  <2> HIDE DEF To
  <2> QED
    BY <1>3
<1> QED
  BY <1>4 DEF TableOf

(* What Bytes adds up, item by item: such a table exists, every one ends   *)
(* in the same sum, and that sum is Bytes.                                 *)
Totals(t, s) ==
  /\ t \in [0..Len(s) -> Nat] /\ t[0] = 0
  /\ \A n \in 1..Len(s) : t[n] = t[n-1] + s[n].bytes

LEMMA TotalsExist ==
  ASSUME NEW I, \A i \in I : i.bytes \in Nat, NEW s \in Seq(I)
  PROVE  \E t : Totals(t, s)
<1>1. PICK N, a, step : /\ N = Len(s) /\ a = 0
                        /\ step = [p \in (1..N) \X Nat |-> p[2] + s[p[1]].bytes]
  OBVIOUS
<1>2. N \in Nat /\ \A n \in 1..N : s[n].bytes \in Nat
  BY <1>1
<1>3. a \in Nat /\ step \in [(1..N) \X Nat -> Nat]
  BY <1>1, <1>2
<1>4. PICK t : TableOf(t, N, Nat, a, step)
  BY <1>2, <1>3, TableExists
<1>5. \A n \in 1..N : t[n] = t[n-1] + s[n].bytes
  <2>1. \A n \in 1..N : n - 1 \in 0..N /\ t[n-1] \in Nat
    BY <1>2, <1>4 DEF TableOf
  <2> QED
    BY <1>1, <1>4, <2>1 DEF TableOf
<1>6. t \in [0..N -> Nat] /\ t[0] = 0
  BY <1>1, <1>4 DEF TableOf
<1> QED
  BY <1>1, <1>5, <1>6 DEF Totals

(* The recursive function inside Bytes has one value.                      *)
LEMMA TotalsAgree ==
  ASSUME NEW s, Len(s) \in Nat, NEW t, NEW u, Totals(t, s),
         u = [n \in 0..Len(s) |-> IF n = 0 THEN 0 ELSE u[n-1] + s[n].bytes]
  PROVE  t[Len(s)] = u[Len(s)]
<1> DEFINE N == Len(s)
           S == {n \in 0..N : t[n] = u[n]}
<1>1. 0 \in S
  BY DEF Totals
<1>2. ASSUME NEW n \in 1..N, n - 1 \in S PROVE n \in S
  BY <1>2 DEF Totals
<1>3. N \in Nat
  OBVIOUS
<1> HIDE DEF N
<1>4. \A n \in 0..N : n \in S
  <2> HIDE DEF S
  <2> QED
    BY <1>1, <1>2, <1>3, InductionTo
<1> QED
  BY <1>3, <1>4 DEF N

(* So a table of totals says what Bytes returns.                           *)
LEMMA BytesIs ==
  ASSUME NEW s, Len(s) \in Nat, NEW t, Totals(t, s)
  PROVE  Compiler!Bytes(s) = t[Len(s)]
<1> DEFINE u == CHOOSE u : u = [n \in 0..Len(s) |-> IF n = 0 THEN 0 ELSE u[n-1] + s[n].bytes]
<1>1. t = [n \in 0..Len(s) |-> IF n = 0 THEN 0 ELSE t[n-1] + s[n].bytes]
  BY DEF Totals
<1>2. u = [n \in 0..Len(s) |-> IF n = 0 THEN 0 ELSE u[n-1] + s[n].bytes]
  BY <1>1
<1>3. Compiler!Bytes(s) = u[Len(s)]
  BY DEF Compiler!Bytes
<1> HIDE DEF u
<1> QED
  BY <1>2, <1>3, TotalsAgree

(* The bytes of a list of items, and of one more.                          *)
LEMMA BytesAdd ==
  ASSUME NEW I, \A i \in I : i.bytes \in Nat, NEW s \in Seq(I)
  PROVE  /\ Compiler!Bytes(s) \in Nat
         /\ \A i \in I : Compiler!Bytes(Append(s, i)) = Compiler!Bytes(s) + i.bytes
         /\ Compiler!Bytes(<<>>) = 0
<1>0. Len(s) \in Nat
  OBVIOUS
<1>1. PICK t : Totals(t, s)
  BY TotalsExist
<1>2. Compiler!Bytes(s) = t[Len(s)]
  BY <1>0, <1>1, BytesIs
<1>3. Compiler!Bytes(s) \in Nat
  BY <1>0, <1>1, <1>2 DEF Totals
<1>4. ASSUME NEW i \in I PROVE Compiler!Bytes(Append(s, i)) = Compiler!Bytes(s) + i.bytes
  <2> DEFINE v == Append(s, i)
             m == Len(s) + 1
             u == [n \in 0..m |-> IF n = m THEN t[Len(s)] + i.bytes ELSE t[n]]
  <2>1. Len(v) = m /\ m \in Nat /\ v[m] = i /\ \A n \in 1..Len(s) : v[n] = s[n]
    BY <1>0
  <2>2. \A n \in 0..m : n # m => n \in 0..Len(s)
    BY <1>0
  <2>3. u \in [0..m -> Nat] /\ u[0] = 0 /\ u[m] = t[Len(s)] + i.bytes
    BY <1>0, <1>1, <2>2 DEF Totals
  <2> HIDE DEF v
  <2>4. ASSUME NEW n \in 1..m PROVE u[n] = u[n-1] + v[n].bytes
    <3>1. n \in 0..m /\ n - 1 \in 0..Len(s) /\ n - 1 # m /\ n - 1 \in 0..m
      BY <1>0
    <3>2. u[n-1] = t[n-1]
      BY <3>1
    <3>3. CASE n = m
      BY <1>0, <2>1, <2>3, <3>2, <3>3
    <3>4. CASE n # m
      <4>1. n \in 1..Len(s) /\ u[n] = t[n]
        BY <1>0, <3>1, <3>4
      <4> QED
        BY <1>1, <2>1, <3>2, <4>1 DEF Totals
    <3> QED
      BY <3>3, <3>4
  <2>5. Totals(u, v)
    BY <2>1, <2>3, <2>4 DEF Totals
  <2> HIDE DEF u, m
  <2>6. Compiler!Bytes(v) = u[m]
    BY <2>1, <2>5, BytesIs
  <2> QED
    BY <1>2, <2>3, <2>6 DEF v
<1>5. Compiler!Bytes(<<>>) = 0
  <2> DEFINE e == <<>>
             z == [n \in 0..0 |-> 0]
  <2>1. Len(e) = 0 /\ Totals(z, e)
    BY DEF Totals
  <2> HIDE DEF e, z
  <2>2. Compiler!Bytes(e) = z[0]
    BY <2>1, BytesIs
  <2> QED
    BY <2>1, <2>2 DEF e, z
<1> QED
  BY <1>3, <1>4, <1>5

(* The order of sort keys, in contexts and among runners.                  *)
LEMMA PrecedesIs ==
  ASSUME NEW a \in Int \X Int \X Int \X Int, NEW b \in Int \X Int \X Int \X Int
  PROVE  LET before == \/ a[1] < b[1]
                       \/ a[1] = b[1] /\ a[2] < b[2]
                       \/ a[1] = b[1] /\ a[2] = b[2] /\ a[3] < b[3]
                       \/ a[1] = b[1] /\ a[2] = b[2] /\ a[3] = b[3] /\ a[4] < b[4]
         IN  /\ Compiler!Precedes(a, b) <=> before
             /\ Adapter!Precedes(a, b) <=> before
<1> DEFINE P == \E n \in DOMAIN a : a[n] < b[n] /\ \A m \in 1..n-1 : a[m] = b[m]
<1>1. DOMAIN a = {1, 2, 3, 4}
  OBVIOUS
<1>2. P <=> \E n \in {1, 2, 3, 4} : a[n] < b[n] /\ \A m \in 1..n-1 : a[m] = b[m]
  BY <1>1
<1>3. 1..1-1 = {} /\ 1..2-1 = {1} /\ 1..3-1 = {1, 2} /\ 1..4-1 = {1, 2, 3}
  OBVIOUS
<1>4. P <=> \/ a[1] < b[1]
            \/ a[1] = b[1] /\ a[2] < b[2]
            \/ a[1] = b[1] /\ a[2] = b[2] /\ a[3] < b[3]
            \/ a[1] = b[1] /\ a[2] = b[2] /\ a[3] = b[3] /\ a[4] < b[4]
  BY <1>2, <1>3
<1> QED
  BY <1>4, Zenon DEF Compiler!Precedes, Adapter!Precedes

(* Elements with keys of four integers, the last of them their own, are    *)
(* ordered by their keys.                                                  *)
ByKeys(S, R, k1, k2, k3, k4) ==
  \A x, y \in S :
    <<x, y>> \in R <=>
      \/ x = y
      \/ k1[x] < k1[y]
      \/ k1[x] = k1[y] /\ k2[x] < k2[y]
      \/ k1[x] = k1[y] /\ k2[x] = k2[y] /\ k3[x] < k3[y]
      \/ k1[x] = k1[y] /\ k2[x] = k2[y] /\ k3[x] = k3[y] /\ k4[x] < k4[y]

(* Every rank in R is taken by one element of S.                           *)
Ranked(S, R) ==
  /\ \A n \in 1..Cardinality(S) : \E x \in S : Cardinality({y \in S : <<y, x>> \in R}) = n
  /\ \A x \in S : Cardinality({y \in S : <<y, x>> \in R}) \in 1..Cardinality(S)
  /\ \A x, z \in S :
       Cardinality({y \in S : <<y, x>> \in R}) = Cardinality({y \in S : <<y, z>> \in R}) => x = z
  /\ \A x, y \in S : <<x, x>> \in R /\ (<<x, y>> \in R \/ <<y, x>> \in R)

(* The keys of a set that tells its members apart rank them from one up.   *)
LEMMA RanksOfKeys ==
  ASSUME NEW S, IsFiniteSet(S), NEW R,
         NEW k1 \in [S -> Int], NEW k2 \in [S -> Int], NEW k3 \in [S -> Int], NEW k4 \in [S -> Int],
         \A x, y \in S : k4[x] = k4[y] => x = y,
         ByKeys(S, R, k1, k2, k3, k4)
  PROVE  Ranked(S, R)
<1>1. \A x \in S : <<x, x>> \in R
  BY DEF ByKeys
<1>2. ASSUME NEW x \in S, NEW y \in S PROVE <<x, y>> \in R \/ <<y, x>> \in R
  <2>1. /\ {k1[x], k2[x], k3[x], k4[x]} \subseteq Int
        /\ {k1[y], k2[y], k3[y], k4[y]} \subseteq Int
    OBVIOUS
  <2>2. k4[x] = k4[y] => x = y
    OBVIOUS
  <2> QED
    BY <2>1, <2>2 DEF ByKeys
<1>3. \A x, y \in S : <<x, y>> \in R /\ <<y, x>> \in R => x = y
  BY DEF ByKeys
<1>4. ASSUME NEW x \in S, NEW y \in S, NEW z \in S, <<x, y>> \in R, <<y, z>> \in R
      PROVE  <<x, z>> \in R
  <2>1. /\ {k1[x], k2[x], k3[x], k4[x]} \subseteq Int
        /\ {k1[y], k2[y], k3[y], k4[y]} \subseteq Int
        /\ {k1[z], k2[z], k3[z], k4[z]} \subseteq Int
    OBVIOUS
  <2> QED
    BY <1>4, <2>1 DEF ByKeys
<1>5. \A x, y, z \in S : <<x, y>> \in R /\ <<y, z>> \in R => <<x, z>> \in R
  BY <1>4
<1>6. \A x, y \in S : <<x, x>> \in R /\ (<<x, y>> \in R \/ <<y, x>> \in R)
  BY <1>1, <1>2
<1>7. /\ \A n \in 1..Cardinality(S) :
           \E x \in S : Cardinality({y \in S : <<y, x>> \in R}) = n
      /\ \A x \in S : Cardinality({y \in S : <<y, x>> \in R}) \in 1..Cardinality(S)
      /\ \A x, z \in S : Cardinality({y \in S : <<y, x>> \in R})
                           = Cardinality({y \in S : <<y, z>> \in R}) => x = z
  BY <1>1, <1>2, <1>3, <1>5, EveryRankTaken
<1> QED
  BY <1>6, <1>7 DEF Ranked

(* A runner is preferred from among those that accept.                     *)
LEMMA PreferredAccepts ==
  ASSUME NEW r, r.context \in Int, r.output \in Int, ~Adapter!NoneAccepts(r, Profiles)
  PROVE  Adapter!Preferred(r, Profiles) \in Profiles
<1> DEFINE S == {x \in Profiles : Adapter!Accepts(r, x)}
           k1 == [x \in S |-> Adapter!Sensitivity[x.clearance] - Adapter!Sensitivity[r.sensitivity]]
           k2 == [x \in S |-> x.context - r.context]
           k3 == [x \in S |-> x.output - r.output]
           k4 == [x \in S |-> x.adapter]
           R == {p \in S \X S : p[1] = p[2] \/
                   Adapter!Precedes(Adapter!Excess(r, p[1]), Adapter!Excess(r, p[2]))}
<1>1. IsFiniteSet(S) /\ S # {} /\ S \subseteq Profiles
  BY RunnerAssumption, FS_Subset DEF Adapter!NoneAccepts
<1>2. \A x \in S : /\ Adapter!Sensitivity[x.clearance] \in Int
                   /\ Adapter!Sensitivity[r.sensitivity] \in Int
                   /\ {x.adapter, x.context, x.output} \subseteq Int
  BY RunnerAssumption DEF Adapter!Accepts, Adapter!ValidProfile, Adapter!ValidRequest,
                          Adapter!Sensitivity
<1>3. \A x, y \in S : x.adapter = y.adapter => x = y
  BY <1>1, RunnerAssumption
<1> HIDE DEF S
<1>4. /\ k1 \in [S -> Int] /\ k2 \in [S -> Int] /\ k3 \in [S -> Int] /\ k4 \in [S -> Int]
      /\ \A x, y \in S : k4[x] = k4[y] => x = y
  BY <1>2, <1>3
<1>5. ASSUME NEW x \in S
      PROVE  LET e == Adapter!Excess(r, x)
             IN  /\ e \in Int \X Int \X Int \X Int
                 /\ e[1] = k1[x] /\ e[2] = k2[x] /\ e[3] = k3[x] /\ e[4] = k4[x]
  BY <1>2 DEF Adapter!Excess
<1>6. \A x, y \in S : <<x, y>> \in R <=>
        x = y \/ Adapter!Precedes(Adapter!Excess(r, x), Adapter!Excess(r, y))
  OBVIOUS
<1> HIDE DEF k1, k2, k3, k4, R
<1>7. ByKeys(S, R, k1, k2, k3, k4)
  <2> SUFFICES ASSUME NEW x \in S, NEW y \in S
               PROVE  <<x, y>> \in R <=>
                        \/ x = y
                        \/ k1[x] < k1[y]
                        \/ k1[x] = k1[y] /\ k2[x] < k2[y]
                        \/ k1[x] = k1[y] /\ k2[x] = k2[y] /\ k3[x] < k3[y]
                        \/ k1[x] = k1[y] /\ k2[x] = k2[y] /\ k3[x] = k3[y] /\ k4[x] < k4[y]
    BY DEF ByKeys
  <2>2. Adapter!Precedes(Adapter!Excess(r, x), Adapter!Excess(r, y)) <=>
          \/ k1[x] < k1[y]
          \/ k1[x] = k1[y] /\ k2[x] < k2[y]
          \/ k1[x] = k1[y] /\ k2[x] = k2[y] /\ k3[x] < k3[y]
          \/ k1[x] = k1[y] /\ k2[x] = k2[y] /\ k3[x] = k3[y] /\ k4[x] < k4[y]
    BY <1>5, PrecedesIs
  <2> QED
    BY <1>6, <2>2
<1>8. Cardinality(S) \in Nat /\ Cardinality(S) # 0
  BY <1>1, FS_CardinalityType, FS_EmptySet
<1>9. Ranked(S, R)
  BY <1>1, <1>4, <1>7, RanksOfKeys
<1>10. PICK x \in S : \A y \in S \ {x} : <<y, x>> \notin R
  <2>0. \A n \in 1..Cardinality(S) : \E x \in S : Cardinality({y \in S : <<y, x>> \in R}) = n
    BY <1>9 DEF Ranked
  <2>1. PICK x \in S : Cardinality({y \in S : <<y, x>> \in R}) = 1
    <3>1. 1 \in 1..Cardinality(S)
      BY <1>8
    <3> QED
      BY <2>0, <3>1, Zenon
  <2> DEFINE B == {y \in S : <<y, x>> \in R}
  <2>2. IsFiniteSet(B) /\ x \in B
    BY <1>1, <1>9, FS_Subset DEF Ranked
  <2> HIDE DEF B
  <2>3. B = {x}
    BY <2>1, <2>2, FS_Singleton DEF B
  <2> QED
    BY <2>3 DEF B
<1>11. \A y \in S \ {x} : Adapter!Precedes(Adapter!Excess(r, x), Adapter!Excess(r, y))
  BY <1>6, <1>9, <1>10 DEF Ranked
<1>12. Adapter!Preferred(r, Profiles) \in S
  BY <1>11 DEF Adapter!Preferred, S
<1> QED
  BY <1>1, <1>12

(* Cardinality is the same wherever a module takes it from.                *)
LEMMA CardinalityIs == \A S : Compiler!Cardinality(S) = Cardinality(S)
BY DEF Compiler!Cardinality, Cardinality, Compiler!IsFiniteSet, IsFiniteSet

(* InOrder lists each of the items.                                        *)
LEMMA InOrderLists ==
  ASSUME NEW items, IsFiniteSet(items),
         \A i \in items : /\ i.id \in Int /\ i.source \in DOMAIN Compiler!Authority
                          /\ \E n \in DOMAIN Recipe.priority : Recipe.priority[n] = i.kind,
         \A i, j \in items : i.id = j.id => i = j
  PROVE  /\ Compiler!InOrder(Recipe, items) \in Seq(items)
         /\ \A i \in items : \E n \in DOMAIN Compiler!InOrder(Recipe, items) :
              Compiler!InOrder(Recipe, items)[n] = i
<1> DEFINE key(i) == Compiler!SortKey(Recipe, i)
           k1 == [i \in items |-> IF i.always THEN 0 ELSE 1]
           k2 == [i \in items |-> -Compiler!Authority[i.source]]
           k3 == [i \in items |-> CHOOSE n \in DOMAIN Recipe.priority : Recipe.priority[n] = i.kind]
           k4 == [i \in items |-> i.id]
           R == {p \in items \X items : p[1] = p[2] \/ Compiler!Precedes(key(p[1]), key(p[2]))}
           rank(i) == Cardinality(Compiler!UpTo(Recipe, items, i))
           order == Compiler!InOrder(Recipe, items)
<1>7. order = [n \in 1..Cardinality(items) |-> CHOOSE i \in items : rank(i) = n]
  BY CardinalityIs DEF Compiler!InOrder
<1>1. /\ k1 \in [items -> Int] /\ k2 \in [items -> Int] /\ k3 \in [items -> Int]
      /\ k4 \in [items -> Int] /\ \A i, j \in items : k4[i] = k4[j] => i = j
  <2>1. \A i \in items : Compiler!Authority[i.source] \in Int
    BY DEF Compiler!Authority
  <2>2. \A i \in items : (CHOOSE n \in DOMAIN Recipe.priority : Recipe.priority[n] = i.kind) \in Int
    BY ContextAssumption
  <2> QED
    BY <2>1, <2>2
<1>2. ASSUME NEW i \in items
      PROVE  /\ key(i) \in Int \X Int \X Int \X Int
             /\ key(i)[1] = k1[i] /\ key(i)[2] = k2[i] /\ key(i)[3] = k3[i] /\ key(i)[4] = k4[i]
  <2>1. key(i) = <<k1[i], k2[i], k3[i], k4[i]>>
    BY DEF Compiler!SortKey
  <2> HIDE DEF key, k1, k2, k3, k4
  <2> QED
    BY <1>1, <2>1
<1>3. \A i, j \in items : <<i, j>> \in R <=> i = j \/ Compiler!Precedes(key(i), key(j))
  OBVIOUS
<1> HIDE DEF k1, k2, k3, k4, R, key
<1>4. ByKeys(items, R, k1, k2, k3, k4)
  <2> SUFFICES ASSUME NEW x \in items, NEW y \in items
               PROVE  <<x, y>> \in R <=>
                        \/ x = y
                        \/ k1[x] < k1[y]
                        \/ k1[x] = k1[y] /\ k2[x] < k2[y]
                        \/ k1[x] = k1[y] /\ k2[x] = k2[y] /\ k3[x] < k3[y]
                        \/ k1[x] = k1[y] /\ k2[x] = k2[y] /\ k3[x] = k3[y] /\ k4[x] < k4[y]
    BY DEF ByKeys
  <2>1. Compiler!Precedes(key(x), key(y)) <=>
          \/ k1[x] < k1[y]
          \/ k1[x] = k1[y] /\ k2[x] < k2[y]
          \/ k1[x] = k1[y] /\ k2[x] = k2[y] /\ k3[x] < k3[y]
          \/ k1[x] = k1[y] /\ k2[x] = k2[y] /\ k3[x] = k3[y] /\ k4[x] < k4[y]
    BY <1>2, PrecedesIs
  <2> QED
    BY <1>3, <2>1
<1>5. Ranked(items, R)
  BY <1>1, <1>4, RanksOfKeys
<1>6. \A i \in items : Cardinality({j \in items : <<j, i>> \in R}) = rank(i)
  <2>1. \A i \in items : {j \in items : <<j, i>> \in R} = Compiler!UpTo(Recipe, items, i)
    BY <1>3 DEF Compiler!UpTo, key
  <2> QED
    BY <2>1
<1> HIDE DEF rank, order
<1>8. /\ \A n \in 1..Cardinality(items) : \E i \in items : rank(i) = n
      /\ \A i \in items : rank(i) \in 1..Cardinality(items)
      /\ \A i, j \in items : rank(i) = rank(j) => i = j
  <2> DEFINE place(i) == Cardinality({j \in items : <<j, i>> \in R})
  <2>1. /\ \A n \in 1..Cardinality(items) : \E i \in items : place(i) = n
        /\ \A i \in items : place(i) \in 1..Cardinality(items)
        /\ \A i, j \in items : place(i) = place(j) => i = j
    BY <1>5 DEF Ranked
  <2>2. \A i \in items : place(i) = rank(i)
    BY <1>6
  <2> HIDE DEF place
  <2> QED
    BY <2>1, <2>2
<1>9. Cardinality(items) \in Nat
  BY FS_CardinalityType
<1>10. \A n \in 1..Cardinality(items) : order[n] \in items /\ rank(order[n]) = n
  BY <1>7, <1>8
<1>11. order \in Seq(items) /\ DOMAIN order = 1..Cardinality(items)
  <2>1. order = [n \in 1..Cardinality(items) |-> order[n]]
    BY <1>7
  <2>2. order \in [1..Cardinality(items) -> items]
    BY <1>10, <2>1
  <2> QED
    BY <1>9, <2>1, <2>2, SeqDef
<1>12. \A i \in items : \E n \in DOMAIN order : order[n] = i
  BY <1>8, <1>10, <1>11
<1> QED
  BY <1>11, <1>12 DEF order

(* What a list of some items has room for, of those in S.                  *)
FillsBudget(s, S) ==
  \A i \in S : \/ \E n \in DOMAIN s : s[n] = i
               \/ Len(s) = Recipe.maxItems
               \/ Compiler!Bytes(s) + i.bytes > Recipe.maxBytes
KeepsBudget(s, I) ==
  s \in Seq(I) /\ Len(s) <= Recipe.maxItems /\ Compiler!Bytes(s) <= Recipe.maxBytes

(* Taking one more item where there is room keeps both.                    *)
LEMMA RoomKeeps ==
  ASSUME NEW I, \A j \in I : j.bytes \in Nat, NEW s, KeepsBudget(s, I), NEW i, i \in I,
         NEW S, S \subseteq I, FillsBudget(s, S)
  PROVE  /\ KeepsBudget(Compiler!Take(Recipe, s, i), I)
         /\ FillsBudget(Compiler!Take(Recipe, s, i), S \cup {i})
<1> SUFFICES ASSUME NEW s2, s2 = Compiler!Take(Recipe, s, i)
             PROVE  KeepsBudget(s2, I) /\ FillsBudget(s2, S \cup {i})
  OBVIOUS
<1>1. /\ s \in Seq(I) /\ Len(s) \in Nat /\ Len(s) <= Recipe.maxItems
      /\ Compiler!Bytes(s) <= Recipe.maxBytes /\ Compiler!Bytes(s) \in Nat
      /\ Recipe.maxItems \in Int /\ Recipe.maxBytes \in Int
  BY BytesAdd, ContextAssumption DEF KeepsBudget
<1>2. CASE Len(s) < Recipe.maxItems /\ Compiler!Bytes(s) + i.bytes <= Recipe.maxBytes
  <2>1. s2 = Append(s, i)
    BY <1>2 DEF Compiler!Take
  <2>2. Compiler!Bytes(s2) = Compiler!Bytes(s) + i.bytes
    BY <1>1, <2>1, BytesAdd
  <2>3. /\ s2 \in Seq(I) /\ Len(s2) = Len(s) + 1
        /\ s2[Len(s) + 1] = i /\ \A n \in DOMAIN s : n \in DOMAIN s2 /\ s2[n] = s[n]
        /\ Len(s) + 1 \in DOMAIN s2
    BY <1>1, <2>1
  <2>4. KeepsBudget(s2, I)
    BY <1>1, <1>2, <2>2, <2>3 DEF KeepsBudget
  <2>5. ASSUME NEW j \in S
        PROVE  \/ \E n \in DOMAIN s2 : s2[n] = j
               \/ Len(s2) = Recipe.maxItems
               \/ Compiler!Bytes(s2) + j.bytes > Recipe.maxBytes
    <3>1. j.bytes \in Nat /\ i.bytes \in Nat
      OBVIOUS
    <3> QED
      BY <1>1, <1>2, <2>2, <2>3, <3>1 DEF FillsBudget
  <2>6. FillsBudget(s2, S \cup {i})
    BY <2>3, <2>5 DEF FillsBudget
  <2> QED
    BY <2>4, <2>6
<1>3. CASE ~(Len(s) < Recipe.maxItems /\ Compiler!Bytes(s) + i.bytes <= Recipe.maxBytes)
  <2>1. s2 = s
    BY <1>3 DEF Compiler!Take
  <2>2. i.bytes \in Nat
    OBVIOUS
  <2>3. Len(s) = Recipe.maxItems \/ Compiler!Bytes(s) + i.bytes > Recipe.maxBytes
    BY <1>1, <1>3, <2>2
  <2> QED
    BY <2>1, <2>3 DEF FillsBudget
<1> QED
  BY <1>2, <1>3

(* What rendering takes, from one item to the next, is such a table.       *)
LEMMA RenderTable ==
  ASSUME NEW items, NEW order \in Seq(items)
  PROVE  \E t : t = [n \in 0..Len(order) |->
                       IF n = 0 THEN <<>> ELSE Compiler!Take(Recipe, t[n-1], order[n])]
<1>1. PICK N, X, a, step :
        /\ N = Len(order) /\ X = Seq(items) /\ a = <<>>
        /\ step = [p \in (1..N) \X X |-> Compiler!Take(Recipe, p[2], order[p[1]])]
  OBVIOUS
<1>2. N \in Nat /\ \A n \in 1..N : order[n] \in items
  BY <1>1
<1>3. step \in [(1..N) \X X -> X]
  <2>1. \A n \in 1..N, s \in X : Compiler!Take(Recipe, s, order[n]) \in X
    BY <1>1, <1>2 DEF Compiler!Take
  <2> QED
    BY <1>1, <2>1
<1>4. a \in X
  BY <1>1
<1>5. PICK t : TableOf(t, N, X, a, step)
  BY <1>2, <1>3, <1>4, TableExists
<1>6. \A n \in 1..N : t[n] = Compiler!Take(Recipe, t[n-1], order[n])
  <2>1. \A n \in 1..N : n - 1 \in 0..N /\ t[n-1] \in X
    BY <1>2, <1>5 DEF TableOf
  <2> QED
    BY <1>1, <1>5, <2>1 DEF TableOf
<1>7. \A n \in 0..N : n # 0 => n \in 1..N
  BY <1>2
<1>8. t = [n \in 0..N |-> IF n = 0 THEN <<>> ELSE Compiler!Take(Recipe, t[n-1], order[n])]
  BY <1>1, <1>5, <1>6, <1>7 DEF TableOf
<1> QED
  BY <1>1, <1>8

(* The list that is rendered keeps the budget and leaves nothing out that  *)
(* it has room for.                                                        *)
LEMMA RenderedFills ==
  ASSUME NEW items, \A i \in items : i.bytes \in Nat,
         Compiler!InOrder(Recipe, items) \in Seq(items),
         Recipe.maxItems >= 0, Recipe.maxBytes >= 0
  PROVE  LET s == Compiler!Rendered(Recipe, items)
             order == Compiler!InOrder(Recipe, items)
         IN  KeepsBudget(s, items) /\ FillsBudget(s, {order[k] : k \in DOMAIN order})
<1> DEFINE order == Compiler!InOrder(Recipe, items)
           N == Len(order)
           u == CHOOSE u : u = [n \in 0..N |->
                    IF n = 0 THEN <<>> ELSE Compiler!Take(Recipe, u[n-1], order[n])]
           before(n) == {order[k] : k \in 1..n}
<1>1. Compiler!Rendered(Recipe, items) = u[N]
  BY DEF Compiler!Rendered
<1>2. order \in Seq(items) /\ N \in Nat /\ DOMAIN order = 1..N /\ \A n \in 1..N : order[n] \in items
  OBVIOUS
<1> HIDE DEF order, N
<1>7. \E t : t = [n \in 0..N |-> IF n = 0 THEN <<>> ELSE Compiler!Take(Recipe, t[n-1], order[n])]
  BY <1>2, RenderTable DEF N
<1>8. u = [n \in 0..N |-> IF n = 0 THEN <<>> ELSE Compiler!Take(Recipe, u[n-1], order[n])]
  BY <1>7
<1> HIDE DEF u
<1> DEFINE S == {n \in 0..N : KeepsBudget(u[n], items) /\ FillsBudget(u[n], before(n))}
<1>9. 0 \in S
  <2>1. 0 \in 0..N /\ u[0] = <<>>
    BY <1>2, <1>8
  <2>2. Compiler!Bytes(<<>>) = 0 /\ before(0) = {}
    BY BytesAdd, EmptySeq
  <2>3. KeepsBudget(<<>>, items) /\ FillsBudget(<<>>, {})
    BY <2>2 DEF KeepsBudget, FillsBudget
  <2> HIDE DEF before
  <2> QED
    BY <2>1, <2>2, <2>3
<1>10. ASSUME NEW n \in 1..N, n - 1 \in S PROVE n \in S
  <2>1. n \in 0..N /\ n # 0 /\ u[n] = Compiler!Take(Recipe, u[n-1], order[n])
    BY <1>2, <1>8
  <2>2. before(n) = before(n-1) \cup {order[n]}
    <3>1. \A k : k \in 1..n <=> k \in 1..(n-1) \/ k = n
      BY <1>2
    <3> QED
      BY <3>1
  <2>3. before(n-1) \subseteq items /\ order[n] \in items
    BY <1>2
  <2>4. KeepsBudget(u[n-1], items) /\ FillsBudget(u[n-1], before(n-1))
    BY <1>10
  <2> HIDE DEF before
  <2>5. /\ KeepsBudget(Compiler!Take(Recipe, u[n-1], order[n]), items)
        /\ FillsBudget(Compiler!Take(Recipe, u[n-1], order[n]), before(n-1) \cup {order[n]})
    BY <2>3, <2>4, RoomKeeps
  <2>6. KeepsBudget(u[n], items) /\ FillsBudget(u[n], before(n))
    BY <2>1, <2>2, <2>5
  <2> QED
    BY <2>1, <2>6
<1>11. \A n \in 0..N : n \in S
  <2> HIDE DEF S
  <2> QED
    BY <1>2, <1>9, <1>10, InductionTo
<1>12. N \in 0..N /\ before(N) = {order[k] : k \in DOMAIN order}
  BY <1>2
<1> HIDE DEF before
<1>13. KeepsBudget(u[N], items) /\ FillsBudget(u[N], {order[k] : k \in DOMAIN order})
  BY <1>11, <1>12
<1> QED
  BY <1>1, <1>13 DEF order

(* A history of the first n of what was recorded, each event sealed after  *)
(* the one before it.                                                      *)
SealedAs(h, recorded, i) ==
  /\ h[i] = [id |-> i, key |-> <<i, recorded[i].type>>, project |-> Project, cause |-> i - 1,
             content |-> recorded[i], sequence |-> i, previous |-> h[i].previous,
             hash |-> h[i].hash]
  /\ h[i].previous = IF i = 1 THEN Events!ZeroHash ELSE h[i-1].hash
  /\ h[i].hash = Events!Digest(Events!Body(h[i]))
HistoryOf(h, recorded, n) ==
  (\E V : h \in Seq(V)) /\ Len(h) = n /\ \A i \in 1..n : SealedAs(h, recorded, i)

(* Such a history passes verification.                                     *)
LEMMA HistoryVerifies ==
  ASSUME NEW recorded, NEW n \in Nat, NEW h, HistoryOf(h, recorded, n)
  PROVE  Events!Verifies(h)
<1>1. DOMAIN h = 1..n
  BY DEF HistoryOf
<1> SUFFICES ASSUME NEW i \in 1..n
             PROVE  /\ Events!Valid(h[i]) /\ h[i].sequence = i /\ h[i].project = h[1].project
                    /\ \A j \in 1..i-1 : h[j].id # h[i].id /\ h[j].key # h[i].key
                    /\ h[i].previous = IF i = 1 THEN Events!ZeroHash ELSE h[i-1].hash
                    /\ h[i].hash = Events!Digest(Events!Body(h[i]))
                    /\ h[i].cause = 0 \/ \E j \in 1..i-1 : h[j].id = h[i].cause
  BY <1>1, Zenon DEF Events!Verifies
<1>2. ASSUME NEW j \in 1..n
      PROVE  /\ h[j].id = j /\ h[j].key = <<j, recorded[j].type>> /\ h[j].project = Project
             /\ h[j].cause = j - 1 /\ h[j].sequence = j
  BY DEF HistoryOf, SealedAs
<1>3. 1 \in 1..n /\ \A j \in 1..i-1 : j \in 1..n /\ j # i
  OBVIOUS
<1>4. Events!Valid(h[i]) /\ h[i].sequence = i /\ h[i].project = h[1].project
  BY <1>2, <1>3 DEF Events!Valid
<1>5. \A j \in 1..i-1 : h[j].id # h[i].id /\ h[j].key # h[i].key
  BY <1>2, <1>3
<1>6. /\ h[i].previous = IF i = 1 THEN Events!ZeroHash ELSE h[i-1].hash
      /\ h[i].hash = Events!Digest(Events!Body(h[i]))
  BY DEF HistoryOf, SealedAs
<1>7. h[i].cause = 0 \/ \E j \in 1..i-1 : h[j].id = h[i].cause
  <2>1. h[i].cause = i - 1 /\ (i # 1 => i - 1 \in 1..i-1 /\ i - 1 \in 1..n)
    BY <1>2
  <2> QED
    BY <1>2, <2>1
<1> QED
  BY <1>4, <1>5, <1>6, <1>7

(* A draft that follows a history is appended to it.                       *)
LEMMA DraftIsAppended ==
  ASSUME NEW recorded, NEW n \in Nat, NEW h, HistoryOf(h, recorded, n)
  PROVE  HistoryOf(Events!AppendEvent(h, Draft(n + 1, recorded[n + 1])), recorded, n + 1)
<1> DEFINE draft == Draft(n + 1, recorded[n + 1])
           x == Events!Sealed(h, draft)
           g == Append(h, x)
<1>1. PICK V : h \in Seq(V) /\ Len(h) = n /\ DOMAIN h = 1..n
  BY DEF HistoryOf
<1>2. draft = [id |-> n + 1, key |-> <<n + 1, recorded[n + 1].type>>, project |-> Project,
               cause |-> n, content |-> recorded[n + 1]]
  BY DEF Draft
<1> HIDE DEF draft
<1>3. /\ x = [id |-> n + 1, key |-> <<n + 1, recorded[n + 1].type>>, project |-> Project,
              cause |-> n, content |-> recorded[n + 1], sequence |-> n + 1,
              previous |-> x.previous, hash |-> x.hash]
      /\ x.previous = IF n = 0 THEN Events!ZeroHash ELSE h[n].hash
  BY <1>1, <1>2 DEF Events!Sealed
<1>4. x.hash = Events!Digest(Events!Body(x))
  <2>1. x.hash = Events!Digest([sequence |-> n + 1, draft |-> draft, previous |-> x.previous])
    BY <1>1 DEF Events!Sealed
  <2>2. Events!DraftOf(x) = draft
    BY <1>2, <1>3 DEF Events!DraftOf
  <2> HIDE DEF x
  <2> QED
    BY <1>3, <2>1, <2>2 DEF Events!Body
<1> HIDE DEF x
<1>5. /\ Len(g) = n + 1 /\ g[n + 1] = x /\ \A i \in 1..n : g[i] = h[i]
      /\ DOMAIN g = 1..(n + 1)
  BY <1>1
<1>6. \E W : g \in Seq(W)
  <2>1. g \in Seq(V \cup {x})
    BY <1>1
  <2> QED
    BY <2>1
<1> HIDE DEF g
<1>7. HistoryOf(g, recorded, n + 1)
  <2>1. ASSUME NEW i \in 1..(n + 1) PROVE SealedAs(g, recorded, i)
    <3>1. CASE i = n + 1
      <4>1. g[i] = x /\ (n # 0 => n \in 1..n /\ g[i-1] = h[n]) /\ (i = 1 <=> n = 0) /\ i - 1 = n
        BY <1>5, <3>1
      <4>2. x.previous = IF i = 1 THEN Events!ZeroHash ELSE g[i-1].hash
        BY <1>3, <4>1
      <4> QED
        BY <1>3, <1>4, <3>1, <4>1, <4>2 DEF SealedAs
    <3>2. CASE i # n + 1
      <4>1. i \in 1..n /\ g[i] = h[i] /\ (i # 1 => i - 1 \in 1..n /\ g[i-1] = h[i-1])
        BY <1>5, <3>2
      <4>2. SealedAs(h, recorded, i)
        BY <4>1 DEF HistoryOf
      <4> QED
        BY <4>1, <4>2 DEF SealedAs
    <3> QED
      BY <3>1, <3>2
  <2> QED
    BY <1>5, <1>6, <2>1 DEF HistoryOf
<1>8. Events!Verifies(h) /\ Events!Verifies(g)
  BY <1>7, HistoryVerifies
<1>9. Events!Recorded(h, draft) = {}
  <2>1. \A i \in 1..n : h[i].key = <<i, recorded[i].type>>
    BY DEF HistoryOf, SealedAs
  <2>2. \A i \in 1..n : h[i].key # draft.key
    BY <1>2, <2>1
  <2> QED
    BY <1>1, <2>2 DEF Events!Recorded
<1>10. Events!AppendOutcome(h, draft) = "appended"
  BY <1>8, <1>9 DEF Events!AppendOutcome, g, x
<1>11. Events!AppendEvent(h, draft) = g
  BY <1>10 DEF Events!AppendEvent, g, x
<1> QED
  BY <1>7, <1>11 DEF draft

(* Appending the drafts one by one builds it.                              *)
LEMMA HistoryExists ==
  ASSUME NEW recorded, NEW N \in Nat
  PROVE  \E t : t = [n \in 0..N |-> IF n = 0 THEN <<>>
                                    ELSE Events!AppendEvent(t[n-1], Draft(n, recorded[n]))]
<1> DEFINE To(t, m) ==
             t = [n \in 0..m |-> IF n = 0 THEN <<>>
                                 ELSE Events!AppendEvent(t[n-1], Draft(n, recorded[n]))]
           S == {m \in 0..N : \E t : To(t, m)}
<1>1. 0 \in S
  <2>1. To([n \in 0..0 |-> <<>>], 0)
    OBVIOUS
  <2> HIDE DEF To
  <2> QED
    BY <2>1
<1>2. ASSUME NEW m \in 1..N, m - 1 \in S PROVE m \in S
  <2>1. PICK t : To(t, m - 1)
    BY <1>2
  <2> DEFINE last == Events!AppendEvent(t[m-1], Draft(m, recorded[m]))
             u == [n \in 0..m |-> IF n = m THEN last ELSE t[n]]
  <2>2. ASSUME NEW n \in 0..m, n # 0
        PROVE  u[n] = Events!AppendEvent(u[n-1], Draft(n, recorded[n]))
    <3>1. n - 1 \in 0..m /\ n - 1 # m /\ u[n-1] = t[n-1]
      BY <2>2
    <3>2. CASE n = m
      BY <3>1, <3>2
    <3>3. CASE n # m
      <4>1. n \in 0..(m - 1) /\ u[n] = t[n]
        BY <3>3
      <4> QED
        BY <2>1, <2>2, <3>1, <4>1
    <3> QED
      BY <3>2, <3>3
  <2>3. u[0] = <<>>
    <3>1. 0 \in 0..m /\ 0 # m /\ 0 \in 0..(m - 1)
      OBVIOUS
    <3> QED
      BY <2>1, <3>1
  <2>4. u = [n \in 0..m |-> u[n]]
    OBVIOUS
  <2> HIDE DEF u
  <2>5. To(u, m)
    BY <2>2, <2>3, <2>4
  <2> HIDE DEF To
  <2> QED
    BY <2>5
<1>3. \A n \in 0..N : n \in S
  <2> HIDE DEF S
  <2> QED
    BY <1>1, <1>2, InductionTo
<1>4. \E t : To(t, N)
  <2> HIDE DEF To
  <2> QED
    BY <1>3
<1> QED
  BY <1>4

(* Nothing execute records is refused by the history it makes of it.       *)
LEMMA ChainVerifies ==
  ASSUME NEW recorded, Len(recorded) \in Nat
  PROVE  Len(Chain(recorded)) = Len(recorded) /\ Events!Verifies(Chain(recorded))
<1>1. PICK N : N = Len(recorded)
  OBVIOUS
<1>2. N \in Nat
  BY <1>1
<1> DEFINE u == CHOOSE u : u = [n \in 0..N |-> IF n = 0 THEN <<>>
                                ELSE Events!AppendEvent(u[n-1], Draft(n, recorded[n]))]
           S == {n \in 0..N : HistoryOf(u[n], recorded, n)}
<1>3. Chain(recorded) = u[N]
  BY <1>1 DEF Chain
<1>4. u = [n \in 0..N |-> IF n = 0 THEN <<>>
                          ELSE Events!AppendEvent(u[n-1], Draft(n, recorded[n]))]
  BY <1>2, HistoryExists
<1> HIDE DEF u
<1>5. 0 \in S
  <2>1. 0 \in 0..N /\ u[0] = <<>>
    BY <1>2, <1>4
  <2>2. <<>> \in Seq({}) /\ Len(<<>>) = 0 /\ 1..0 = {}
    OBVIOUS
  <2>3. HistoryOf(<<>>, recorded, 0)
    BY <2>2 DEF HistoryOf
  <2> QED
    BY <2>1, <2>3
<1>6. ASSUME NEW n \in 1..N, n - 1 \in S PROVE n \in S
  <2>1. n - 1 \in Nat /\ (n - 1) + 1 = n /\ n \in 0..N /\ HistoryOf(u[n-1], recorded, n-1)
    BY <1>2, <1>6
  <2>2. HistoryOf(Events!AppendEvent(u[n-1], Draft(n, recorded[n])), recorded, n)
    BY <2>1, DraftIsAppended
  <2>3. u[n] = Events!AppendEvent(u[n-1], Draft(n, recorded[n]))
    BY <1>2, <1>4, <2>1
  <2> QED
    BY <2>1, <2>2, <2>3
<1>7. \A n \in 0..N : n \in S
  <2> HIDE DEF S
  <2> QED
    BY <1>2, <1>5, <1>6, InductionTo
<1>8. N \in 0..N /\ HistoryOf(u[N], recorded, N)
  BY <1>2, <1>7
<1> QED
  BY <1>1, <1>2, <1>3, <1>8, HistoryVerifies DEF HistoryOf

-----------------------------------------------------------------------------
(* The context, the dispatch, the schedule and the trace.                  *)

(* The manifest is the one compiled for the package in that context.       *)
CompiledFor(p, name, manifest) ==
  LET c == Context[name]
  IN  /\ name \in DOMAIN Context
      /\ Compiler!Compiles(Recipe, RunOf(p, c), c.items, c.grants, Now)
      /\ manifest = Compiler!Manifest(Recipe, RunOf(p, c), c.items, c.grants, Now)

(* The request is of the size of its manifest, and a registered runner is  *)
(* to carry it out.                                                        *)
FitsSize(r) ==
  /\ r.context = IF Compiler!Bytes(r.manifest) < 1 THEN 1 ELSE Compiler!Bytes(r.manifest)
  /\ DOMAIN r.needs \subseteq Adapter!Dimensions

(* What a prepared package goes out with.                                  *)
PreparedShow ==
  /\ phase = "negotiate" => CompiledFor(Head(todo), current.context, current.manifest)
  /\ \A p \in DOMAIN prepared :
       /\ CompiledFor(p, prepared[p].context, prepared[p].request.manifest)
       /\ FitsSize(prepared[p].request)
       /\ prepared[p].runner \in Profiles

(* What the runner is handed is made of what was prepared.                 *)
DispatchShows ==
  phase = "invoke" =>
    LET p == Head(todo)
    IN  /\ current.dispatch = Adapter!Dispatch(prepared[p].request, prepared[p].runner)
        /\ Adapter!Accepts(prepared[p].request, prepared[p].runner)

(* A trace says "selected" of the planned packages whose run has returned. *)
SaysSelected(p) == traces[p].schedule = "selected"
ScheduleShows ==
  /\ phase = "start" \/ Preparing => plan = None /\ \A p \in DOMAIN traces : ~SaysSelected(p)
  /\ Running => \A p \in DOMAIN traces :
       SaysSelected(p) <=> p \in plan /\ (p \in Left => phase = "accept" /\ p = Head(todo))
  /\ phase \in {"invoke", "accept"} => Head(todo) \in plan
  /\ Closing => plan = None \/ plan = {p \in DOMAIN traces : SaysSelected(p)}

(* A passed integration has a batch.                                       *)
BatchShows == integration = "passed" => \E i, m : batch = [asked |-> i, made |-> m]

DataInv ==
  /\ PreparedShow
  /\ DispatchShows
  /\ ScheduleShows
  /\ BatchShows

-----------------------------------------------------------------------------
(* What is compiled is what was allowed, and nothing is left out that      *)
(* there is room for.                                                      *)
SoundFor(p, name, manifest) ==
  LET chosen == {manifest[n] : n \in DOMAIN manifest}
      c == Context[name]
      outdone == {i \in c.items : \E j \in c.items : j.claim = i.claim /\ j # i}
  IN  /\ \A i \in chosen : Allowed(i, p, c)
      /\ \A i, j \in chosen : i.claim = j.claim => i = j
      /\ Recipe.required \subseteq {i.kind : i \in chosen}
      /\ Compiler!Bytes(manifest) <= Recipe.maxBytes /\ Len(manifest) <= Recipe.maxItems
      /\ manifest \in Seq(c.items)
      /\ \A i \in c.items \ (chosen \cup outdone) :
           Compiler!Eligible(i, Recipe, RunOf(p, c), c.grants, Now) =>
             \/ Len(manifest) = Recipe.maxItems
             \/ Compiler!Bytes(manifest) + i.bytes > Recipe.maxBytes

(* compile_context compiles nothing else.                                  *)
LEMMA CompiledIsSound ==
  ASSUME NEW p, NEW name, NEW manifest, CompiledFor(p, name, manifest)
  PROVE  SoundFor(p, name, manifest)
<1> DEFINE c == Context[name]
           run == RunOf(p, c)
           E == {i \in c.items : Compiler!Eligible(i, Recipe, run, c.grants, Now)}
           W == Compiler!Winners(E)
           chosen == {manifest[n] : n \in DOMAIN manifest}
           outdone == {i \in c.items : \E j \in c.items : j.claim = i.claim /\ j # i}
           order == Compiler!InOrder(Recipe, W)
<1>1. /\ name \in DOMAIN Context /\ Compiler!Compiles(Recipe, run, c.items, c.grants, Now)
      /\ manifest = Compiler!Manifest(Recipe, run, c.items, c.grants, Now)
  BY DEF CompiledFor
<1>2. manifest = Compiler!Rendered(Recipe, W)
  BY <1>1 DEF Compiler!Manifest
<1>3. IsFiniteSet(c.items) /\ \A i \in c.items : i.id \in Int /\ i.created \in Int /\ i.bytes \in Nat
  BY <1>1, ContextAssumption
<1>4. /\ Compiler!ValidRecipe(Recipe)
      /\ \A i \in c.items : i.source \in DOMAIN Compiler!Authority
      /\ Cardinality({i.id : i \in c.items}) = Cardinality(c.items)
      /\ Recipe.required \subseteq {i.kind : i \in Compiler!Range(manifest)}
  <2>1. \A i \in c.items : Compiler!ValidItem(i)
    BY <1>1 DEF Compiler!Compiles
  <2> QED
    BY <1>1, <2>1, CardinalityIs DEF Compiler!Compiles, Compiler!ValidItem
<1>5. /\ Recipe.maxItems >= 1 /\ Recipe.maxBytes >= 1
      /\ Recipe.maxItems >= 0 /\ Recipe.maxBytes >= 0
      /\ Recipe.allowed = {Recipe.priority[n] : n \in DOMAIN Recipe.priority}
  BY <1>4, ContextAssumption DEF Compiler!ValidRecipe, Compiler!Range
<1>6. E \subseteq c.items /\ W \subseteq E
  BY DEF Compiler!Winners
<1>7. \A i \in E : /\ Compiler!Eligible(i, Recipe, run, c.grants, Now)
                   /\ \E n \in DOMAIN Recipe.priority : Recipe.priority[n] = i.kind
  BY <1>5 DEF Compiler!Eligible
<1>8. \A i, j \in c.items : i.id = j.id => i = j
  <2> DEFINE T == {i.id : i \in c.items}
             ids == [i \in c.items |-> i.id]
  <2>1. ids \in Surjection(c.items, T)
    BY DEF Surjection
  <2> QED
    BY <1>3, <1>4, <2>1, FS_Surjection DEF Injection, IsInjective
<1>9. \A i, j \in W : i.claim = j.claim => i = j
  <2> SUFFICES ASSUME NEW i \in W, NEW j \in W, i.claim = j.claim PROVE i = j
    OBVIOUS
  <2>1. Compiler!Later(i, j) /\ Compiler!Later(j, i)
    BY DEF Compiler!Winners
  <2>2. i \in c.items /\ j \in c.items
    BY <1>6
  <2> QED
    BY <1>3, <1>8, <2>1, <2>2 DEF Compiler!Later
<1> HIDE DEF E, W, run
<1>10. /\ order \in Seq(W)
       /\ \A i \in W : \E n \in DOMAIN order : order[n] = i
  <2>1. IsFiniteSet(W)
    BY <1>3, <1>6, FS_Subset
  <2>2. \A i \in W : /\ i.id \in Int /\ i.source \in DOMAIN Compiler!Authority
                     /\ \E n \in DOMAIN Recipe.priority : Recipe.priority[n] = i.kind
    BY <1>3, <1>4, <1>6, <1>7
  <2>3. \A i, j \in W : i.id = j.id => i = j
    BY <1>6, <1>8
  <2> QED
    BY <2>1, <2>2, <2>3, InOrderLists
<1>11. /\ KeepsBudget(manifest, W)
       /\ FillsBudget(manifest, {order[k] : k \in DOMAIN order})
  <2>1. \A i \in W : i.bytes \in Nat
    BY <1>3, <1>6
  <2> QED
    BY <1>2, <1>5, <1>10, <2>1, RenderedFills
<1>12. /\ manifest \in Seq(W) /\ Len(manifest) <= Recipe.maxItems
       /\ Compiler!Bytes(manifest) <= Recipe.maxBytes /\ chosen \subseteq W
  BY <1>11 DEF KeepsBudget
<1>13. manifest \in Seq(c.items)
  BY <1>6, <1>12
<1>14. \A i \in chosen : Allowed(i, p, c)
  <2> SUFFICES ASSUME NEW i \in E PROVE Allowed(i, p, c)
    BY <1>6, <1>12
  <2>1. /\ Compiler!ScopeMatches(i, run)
        /\ i.sensitivity \in Compiler!ExplicitGrant => Compiler!HasGrant(i, run, c.grants, Now)
        /\ i.kind \in Recipe.allowed /\ i.source \in Recipe.sources
        /\ Compiler!Sensitivity[i.sensitivity] <= Compiler!Sensitivity[Recipe.sensitivity]
        /\ i.expires = Compiler!Never \/ Now <= i.expires
    BY <1>7 DEF Compiler!Eligible
  <2>2. /\ run.modes = setting.modes /\ run.id = p /\ run.project = Project
        /\ run.entities = c.entities /\ run.stage = setting.stage /\ run.role = c.role
    BY DEF run, RunOf
  <2>3. /\ i.project = Project
        /\ i.modes # {} => i.modes \cap setting.modes # {}
        /\ i.entities # {} => i.entities \cap c.entities # {}
        /\ i.stages # {} => setting.stage \in i.stages
        /\ i.roles # {} => c.role \in i.roles
    <3>1. /\ LET scope == <<i.modes, run.modes>> IN scope[1] = {} \/ scope[1] \cap scope[2] # {}
          /\ LET scope == <<i.entities, run.entities>>
             IN  scope[1] = {} \/ scope[1] \cap scope[2] # {}
          /\ LET scope == <<i.stages, {run.stage}>>
             IN  scope[1] = {} \/ scope[1] \cap scope[2] # {}
          /\ LET scope == <<i.roles, {run.role}>> IN scope[1] = {} \/ scope[1] \cap scope[2] # {}
      BY <2>1 DEF Compiler!ScopeMatches
    <3>2. i.project = run.project
      BY <2>1 DEF Compiler!ScopeMatches
    <3> QED
      BY <2>2, <3>1, <3>2
  <2>4. i.sensitivity \in {"confidential", "restricted", "secret"} =>
          \E g \in c.grants : /\ g.project = Project /\ g.role = c.role /\ p \in g.runs
                              /\ i.id \in g.items /\ g.expires >= Now
    BY <2>1, <2>2 DEF Compiler!ExplicitGrant, Compiler!HasGrant
  <2> QED
    BY <2>1, <2>3, <2>4 DEF Allowed
<1>15. \A i, j \in chosen : i.claim = j.claim => i = j
  BY <1>9, <1>12
<1>16. Recipe.required \subseteq {i.kind : i \in chosen}
  BY <1>4 DEF Compiler!Range
<1>17. ASSUME NEW i \in c.items \ (chosen \cup outdone),
              Compiler!Eligible(i, Recipe, run, c.grants, Now)
       PROVE  \/ Len(manifest) = Recipe.maxItems
              \/ Compiler!Bytes(manifest) + i.bytes > Recipe.maxBytes
  <2>1. i \in E /\ \A j \in E : j.claim = i.claim => j = i
    BY <1>6, <1>17 DEF E
  <2>2. /\ Compiler!Authority[i.source] <= Compiler!Authority[i.source]
        /\ Compiler!Later(i, i)
    <3>1. i.id \in Int /\ Compiler!Authority[i.source] \in Int
      BY <1>3, <1>4 DEF Compiler!Authority
    <3> QED
      BY <3>1 DEF Compiler!Later
  <2>3. i \in W
    BY <2>1, <2>2 DEF W, Compiler!Winners, Compiler!Leaders
  <2>4. i \in {order[k] : k \in DOMAIN order}
    BY <1>10, <2>3
  <2>5. ~\E n \in DOMAIN manifest : manifest[n] = i
    BY <1>17
  <2> QED
    BY <1>11, <2>4, <2>5 DEF FillsBudget
<1> HIDE DEF chosen, outdone, c
<1> QED
  BY <1>12, <1>13, <1>14, <1>15, <1>16, <1>17 DEF SoundFor, chosen, outdone, c, run

(* What was prepared is not touched by a step that leaves it alone.        *)
LEMMA PreparedStays ==
  ASSUME PreparedShow, setting' = setting, prepared' = prepared, phase' # "negotiate"
  PROVE  PreparedShow'
<1>1. \A p \in DOMAIN prepared :
        CompiledFor(p, prepared[p].context, prepared[p].request.manifest)'
          <=> CompiledFor(p, prepared[p].context, prepared[p].request.manifest)
  BY DEF CompiledFor, RunOf
<1> QED
  BY <1>1 DEF PreparedShow, FitsSize

(* When execute raises, what was prepared stays as it was.                 *)
LEMMA RaiseShows == ASSUME DataInv, Raise PROVE DataInv'
<1>1. /\ phase' = "raised"
      /\ UNCHANGED <<setting, prepared, traces, plan, integration, batch>>
  BY DEF Raise
<1>2. PreparedShow'
  BY <1>1, PreparedStays DEF DataInv
<1> QED
  BY <1>1, <1>2 DEF DataInv, DispatchShows, ScheduleShows, BatchShows, Preparing, Running, Closing

(* While the work is prepared nothing is planned.                          *)
LEMMA PreparingShows ==
  ASSUME DataInv, phase = "start" \/ Preparing, phase' = "start" \/ Preparing', PreparedShow',
         UNCHANGED <<plan, integration, batch>>,
         \/ traces' = traces
         \/ \E p, trace : traces' = With(traces, p, trace) /\ trace.schedule # "selected"
  PROVE  DataInv'
<1>1. \A q \in DOMAIN traces' : ~SaysSelected(q)'
  BY DEF With, SaysSelected, DataInv, ScheduleShows
<1>2. ScheduleShows'
  BY <1>1 DEF DataInv, ScheduleShows, Preparing, Running, Closing
<1> QED
  BY <1>2 DEF DataInv, DispatchShows, BatchShows, Preparing

(* At the start nothing is prepared, planned or selected.                  *)
LEMMA BeginningShows ==
  ASSUME IInv, DataInv, \/ \E facts \in ActivationFacts : StayConversational(facts)
                        \/ \E facts \in ActivationFacts, s \in Settings : Start(facts, s)
  PROVE  DataInv'
<1>1. CASE Raise
  BY <1>1, RaiseShows
<1>2. ASSUME NEW facts, StayConversational(facts) PROVE DataInv'
  <2>1. /\ phase' = "returned" /\ UNCHANGED <<setting, prepared, traces, plan, integration, batch>>
    BY <1>2 DEF StayConversational
  <2>2. PreparedShow'
    BY <2>1, PreparedStays DEF DataInv
  <2> QED
    BY <2>1, <2>2 DEF DataInv, DispatchShows, ScheduleShows, BatchShows, Preparing, Running, Closing
<1>3. ASSUME NEW facts, NEW s, Start(facts, s), ~Raise PROVE DataInv'
  <2>1. /\ phase = "start" /\ phase' = "authorize"
        /\ UNCHANGED <<prepared, traces, plan, integration, batch>>
    BY <1>3 DEF Start
  <2>2. DOMAIN prepared = {}
    BY <2>1 DEF IInv, LoopsCover
  <2>3. PreparedShow'
    BY <2>1, <2>2 DEF PreparedShow
  <2> QED
    BY <2>1, <2>3, PreparingShows DEF Preparing
<1> QED
  BY <1>1, <1>2, <1>3

(* The authorization loop prepares nothing yet.                            *)
LEMMA AuthorizeShows ==
  ASSUME IInv, DataInv, NEW facts \in WorkFacts, Authorize(facts)
  PROVE  DataInv'
<1>1. CASE Raise
  BY <1>1, RaiseShows
<1>2. CASE ~Raise
  <2>1. /\ phase = "authorize" /\ phase' \in {"authorize", "compile"}
        /\ UNCHANGED <<setting, prepared, plan, integration, batch>>
        /\ traces' = traces \/ \E p, decision : traces' = With(traces, p, Trace(decision))
    BY <1>2 DEF Authorize, Drop
  <2>2. PreparedShow'
    BY <2>1, PreparedStays DEF DataInv
  <2>3. \A decision : Trace(decision).schedule # "selected"
    BY DEF Trace
  <2> QED
    BY <2>1, <2>2, <2>3, PreparingShows DEF Preparing
<1> QED
  BY <1>1, <1>2

(* The context that is compiled is the one the package will be given.      *)
LEMMA CompileShows ==
  ASSUME IInv, DataInv, NEW name \in DOMAIN Context, Compile(name)
  PROVE  DataInv'
<1>1. /\ phase = "compile" /\ phase' \in {"authorize", "negotiate"}
      /\ UNCHANGED <<setting, prepared, plan, integration, batch>>
      /\ traces' = traces \/ traces' = With(traces, Head(todo), Trace(current.authorization))
  BY DEF Compile, Drop
<1>2. PreparedShow'
  <2>1. CASE phase' = "authorize"
    BY <1>1, <2>1, PreparedStays DEF DataInv
  <2>2. CASE phase' = "negotiate"
    <3> DEFINE p == Head(todo)
               c == Context[name]
               manifest == Compiler!Manifest(Recipe, RunOf(p, c), c.items, c.grants, Now)
    <3>1. /\ Compiler!Compiles(Recipe, RunOf(p, c), c.items, c.grants, Now) /\ todo' = todo
          /\ current' = [facts |-> current.facts, authorization |-> current.authorization,
                         context |-> name, manifest |-> manifest]
      BY <2>2 DEF Compile, Drop
    <3>2. CompiledFor(p, name, manifest)
      BY <3>1 DEF CompiledFor
    <3>3. current'.context = name /\ current'.manifest = manifest /\ Head(todo') = p
      BY <3>1
    <3> HIDE DEF manifest, p
    <3>4. CompiledFor(Head(todo'), current'.context, current'.manifest)
      BY <3>2, <3>3
    <3>5. \A q \in DOMAIN prepared :
            /\ CompiledFor(q, prepared[q].context, prepared[q].request.manifest)
            /\ FitsSize(prepared[q].request) /\ prepared[q].runner \in Profiles
      BY DEF DataInv, PreparedShow
    <3> QED
      BY <1>1, <3>4, <3>5 DEF PreparedShow, CompiledFor, RunOf, FitsSize
  <2> QED
    BY <1>1, <2>1, <2>2
<1>3. Trace(current.authorization).schedule # "selected"
  BY DEF Trace
<1> QED
  BY <1>1, <1>2, <1>3, PreparingShows DEF Preparing

(* What is prepared fits its manifest and the runner chosen for it.        *)
LEMMA NegotiateShows ==
  ASSUME IInv, DataInv, NEW r \in Requests, Negotiate(r)
  PROVE  DataInv'
<1> DEFINE p == Head(todo)
           request == Filled(r, p)
           runner == Adapter!Preferred(request, Profiles)
           x == [facts |-> current.facts, context |-> current.context,
                 request |-> request, runner |-> runner]
<1>1. /\ phase = "negotiate" /\ phase' = "authorize"
      /\ UNCHANGED <<setting, plan, integration, batch>>
      /\ \/ prepared' = prepared
         \/ ~Adapter!NoneAccepts(request, Profiles) /\ prepared' = With(prepared, p, x)
  BY DEF Negotiate, Drop
<1>2. \E trace : traces' = With(traces, p, trace) /\ trace.schedule # "selected"
  <2> DEFINE trace == [Trace(current.authorization) EXCEPT !.manifest = "compiled"]
             equipped == [trace EXCEPT !.adapter = runner.adapter, !.schedule = "pending"]
  <2>1. traces' = With(traces, p, trace) \/ traces' = With(traces, p, equipped)
    BY DEF Negotiate, Drop
  <2>2. trace.schedule # "selected" /\ equipped.schedule # "selected"
    BY DEF Trace
  <2> HIDE DEF trace, equipped
  <2> QED
    BY <2>1, <2>2
<1>3. CASE prepared' = prepared
  <2>1. PreparedShow'
    BY <1>1, <1>3, PreparedStays DEF DataInv
  <2> QED
    BY <1>1, <1>2, <2>1, PreparingShows DEF Preparing
<1>4. CASE ~Adapter!NoneAccepts(request, Profiles) /\ prepared' = With(prepared, p, x)
  <2>1. CompiledFor(p, current.context, current.manifest)
    BY <1>1 DEF DataInv, PreparedShow
  <2>2. /\ request.manifest = current.manifest /\ request.output = r.output
        /\ request.needs = r.needs
        /\ request.context = IF Compiler!Bytes(current.manifest) < 1 THEN 1
                             ELSE Compiler!Bytes(current.manifest)
    BY DEF Filled, OfSize
  <2>3. Compiler!Bytes(current.manifest) \in Nat
    <3> DEFINE I == Context[current.context].items
    <3>1. current.manifest \in Seq(I)
      BY <2>1, CompiledIsSound DEF SoundFor
    <3>2. \A i \in I : i.bytes \in Nat
      BY <2>1, ContextAssumption DEF CompiledFor
    <3> HIDE DEF I
    <3> QED
      BY <3>1, <3>2, BytesAdd
  <2>4. FitsSize(request)
    BY <2>2, RunnerAssumption DEF FitsSize
  <2>5. request.context \in Int /\ request.output \in Int
    BY <2>2, <2>3, RunnerAssumption
  <2> HIDE DEF request
  <2>6. runner \in Profiles
    BY <1>4, <2>5, PreferredAccepts
  <2> HIDE DEF runner
  <2>7. ASSUME NEW q \in DOMAIN prepared'
        PROVE  /\ CompiledFor(q, prepared'[q].context, prepared'[q].request.manifest)
               /\ FitsSize(prepared'[q].request) /\ prepared'[q].runner \in Profiles
    <3>1. CASE q = p
      <4>1. prepared'[q] = x
        BY <1>4, <3>1 DEF With
      <4> QED
        BY <2>1, <2>2, <2>4, <2>6, <3>1, <4>1
    <3>2. CASE q # p
      <4>1. q \in DOMAIN prepared /\ prepared'[q] = prepared[q]
        BY <1>4, <3>2 DEF With
      <4> QED
        BY <4>1 DEF DataInv, PreparedShow
    <3> QED
      BY <3>1, <3>2
  <2>8. PreparedShow'
    BY <1>1, <2>7 DEF PreparedShow, CompiledFor, RunOf, FitsSize
  <2> QED
    BY <1>1, <1>2, <2>8, PreparingShows DEF Preparing
<1> QED
  BY <1>1, <1>3, <1>4

(* The plan is made of what was prepared, and nothing is selected before.  *)
LEMMA SchedulingShows ==
  ASSUME IInv, DataInv, NothingPrepared \/ \E at \in Snapshots : Plan(at)
  PROVE  DataInv'
<1>1. /\ phase = "authorize" /\ TypeOK
      /\ UNCHANGED <<setting, prepared, traces, integration, batch>>
      /\ plan = None /\ \A q \in DOMAIN traces : ~SaysSelected(q)
  BY DEF IInv, DataInv, ScheduleShows, Preparing, NothingPrepared, Plan
<1>2. phase' \in {"integrate", "dispatch"}
  BY DEF NothingPrepared, Plan
<1>3. PreparedShow' /\ DispatchShows' /\ BatchShows'
  <2>1. PreparedShow'
    BY <1>1, <1>2, PreparedStays DEF DataInv
  <2> QED
    BY <1>1, <1>2, <2>1 DEF DataInv, DispatchShows, BatchShows
<1>4. CASE NothingPrepared
  <2>1. phase' = "integrate" /\ plan' = plan
    BY <1>4 DEF NothingPrepared
  <2>2. ScheduleShows'
    BY <1>1, <2>1 DEF ScheduleShows, Preparing, Running, Closing
  <2> QED
    BY <1>3, <2>2 DEF DataInv
<1>5. ASSUME NEW at \in Snapshots, Plan(at) PROVE DataInv'
  <2>1. /\ phase' = "dispatch" /\ plan' \subseteq DOMAIN prepared
        /\ todo' = Listed(DOMAIN prepared) /\ DOMAIN prepared \subseteq Package
    BY <1>1, <1>5, ScenarioAssumption DEF Plan, TypeOK
  <2>2. \A q \in DOMAIN prepared : q \in Left'
    <3> DEFINE D == DOMAIN prepared
               L == Listed(D)
    <3>1. D \subseteq Package /\ todo' = L
      BY <2>1
    <3> HIDE DEF D, L
    <3>2. \A q \in D : \E n \in DOMAIN L : L[n] = q
      BY <3>1, ListedIsList DEF L
    <3> QED
      BY <3>1, <3>2 DEF Left, D
  <2>3. \A q \in DOMAIN traces : ~SaysSelected(q)'
    BY <1>1 DEF SaysSelected
  <2>4. ScheduleShows'
    BY <1>1, <2>1, <2>2, <2>3 DEF ScheduleShows, Preparing, Running, Closing
  <2> QED
    BY <1>3, <2>4 DEF DataInv
<1> QED
  BY <1>4, <1>5

(* A package of the running loop is dealt with, or leaves it.              *)
LEMMA RunningShows ==
  ASSUME IInv, DataInv, Running, todo # <<>>,
         UNCHANGED <<setting, prepared, plan, integration, batch>>,
         DOMAIN traces' = DOMAIN traces,
         \A q \in DOMAIN traces : q # Head(todo) => traces'[q].schedule = traces[q].schedule,
         DispatchShows',
         \/ /\ phase' \in {"invoke", "accept"} /\ todo' = todo /\ Head(todo) \in plan
            /\ phase = "accept" => phase' = "accept"
            /\ traces'[Head(todo)].schedule = "selected" <=> phase' = "accept"
         \/ /\ NextPackage
            /\ traces'[Head(todo)].schedule = "selected" <=> Head(todo) \in plan
  PROVE  DataInv'
<1> DEFINE p == Head(todo)
<1>1. /\ TypeOK /\ LoopsCover
      /\ phase \in {"dispatch", "invoke", "accept"} /\ phase' \in {"dispatch", "invoke", "accept"}
      /\ todo \in Seq(Work) /\ \A m, n \in DOMAIN todo : todo[m] = todo[n] => m = n
      /\ Work = DOMAIN traces
  BY DEF IInv, TypeOK, LoopsCover, Running, NextPackage
<1>2. /\ p \in Work /\ p \in Left
      /\ {Tail(todo)[n] : n \in DOMAIN Tail(todo)} = Left \ {p}
  BY <1>1, TakeFirst DEF Left
<1>3. PreparedShow' /\ BatchShows'
  <2>1. PreparedShow'
    BY <1>1, PreparedStays DEF DataInv
  <2> QED
    BY <2>1 DEF DataInv, BatchShows
<1>4. ASSUME NEW q \in DOMAIN traces
      PROVE  SaysSelected(q)' <=>
               q \in plan' /\ (q \in Left' => phase' = "accept" /\ q = Head(todo'))
  <2>1. q # p => (SaysSelected(q) <=> q \in plan /\ q \notin Left)
    BY DEF DataInv, ScheduleShows
  <2>2. CASE NextPackage
    <3>1. Left' = Left \ {p} /\ phase' = "dispatch"
      BY <1>2, <2>2 DEF NextPackage, Left
    <3>2. CASE q = p
      BY <1>1, <2>2, <3>1, <3>2 DEF SaysSelected, Running, NextPackage
    <3>3. CASE q # p
      BY <2>1, <3>1, <3>3 DEF SaysSelected
    <3> QED
      BY <3>2, <3>3
  <2>3. CASE ~NextPackage
    <3>1. Left' = Left /\ todo' = todo
      BY <2>3 DEF Left
    <3>2. CASE q = p
      BY <1>1, <1>2, <2>3, <3>1, <3>2 DEF SaysSelected
    <3>3. CASE q # p
      BY <2>1, <2>3, <3>1, <3>3 DEF SaysSelected
    <3> QED
      BY <3>2, <3>3
  <2> QED
    BY <2>2, <2>3
<1>5. ScheduleShows'
  BY <1>1, <1>4 DEF ScheduleShows, Preparing, Running, Closing, NextPackage
<1> QED
  BY <1>3, <1>5 DEF DataInv

(* What the schedule says of the package whose turn it is.                 *)
LEMMA HeadShows ==
  ASSUME IInv, DataInv, Running, todo # <<>>
  PROVE  LET p == Head(todo) IN
         /\ p \in DOMAIN traces /\ p \in DOMAIN prepared /\ IsTrace(traces[p])
         /\ phase \in {"invoke", "accept"} => p \in plan
         /\ SaysSelected(p) <=> phase = "accept"
<1> DEFINE p == Head(todo)
<1>1. p \in Work /\ p \in Left
  BY TakeFirst DEF IInv, TypeOK, LoopsCover, Left
<1>2. p \in DOMAIN traces /\ p \in DOMAIN prepared /\ IsTrace(traces[p])
  BY <1>1 DEF IInv, TypeOK, LoopsCover
<1>3. phase \in {"invoke", "accept"} => p \in plan
  BY DEF DataInv, ScheduleShows
<1>4. SaysSelected(p) <=> phase = "accept"
  BY <1>1, <1>2, <1>3 DEF DataInv, ScheduleShows
<1> QED
  BY <1>2, <1>3, <1>4

(* A package that was not selected is deferred.                            *)
LEMMA DeferShows == ASSUME IInv, DataInv, Defer PROVE DataInv'
<1> DEFINE p == Head(todo)
           t == [traces[p] EXCEPT !.schedule = "deferred"]
<1>1. /\ Running /\ todo # <<>> /\ p \notin plan /\ NextPackage
      /\ UNCHANGED <<setting, prepared, plan, integration, batch>>
      /\ traces' = [traces EXCEPT ![p] = t]
  BY DEF Defer, Running
<1>2. p \in DOMAIN traces /\ IsTrace(traces[p])
  BY <1>1, HeadShows
<1>3. t.schedule = "deferred"
  BY <1>2 DEF IsTrace
<1> HIDE DEF t
<1>4. /\ DOMAIN traces' = DOMAIN traces /\ traces'[p].schedule = "deferred"
      /\ \A q \in DOMAIN traces : q # p => traces'[q].schedule = traces[q].schedule
  BY <1>1, <1>2, <1>3
<1>5. DispatchShows'
  BY <1>1 DEF DispatchShows, NextPackage
<1> QED
  BY <1>1, <1>4, <1>5, RunningShows

(* A selected package is dispatched to the runner chosen for it.           *)
LEMMA DispatchKeepsShowing == ASSUME IInv, DataInv, Dispatch PROVE DataInv'
<1> DEFINE p == Head(todo)
<1>1. /\ phase = "dispatch" /\ Running /\ todo # <<>> /\ p \in plan /\ phase' = "invoke"
      /\ UNCHANGED <<setting, todo, prepared, traces, plan, integration, batch>>
      /\ Adapter!Accepts(prepared[p].request, prepared[p].runner)
      /\ current' = [dispatch |-> Adapter!Dispatch(prepared[p].request, prepared[p].runner)]
  BY DEF Dispatch, Running
<1>2. DispatchShows'
  BY <1>1 DEF DispatchShows
<1>3. traces'[p].schedule # "selected"
  BY <1>1, HeadShows DEF SaysSelected
<1> QED
  BY <1>1, <1>2, <1>3, RunningShows

(* A run that returns is one of the plan.                                  *)
LEMMA InvokeShows ==
  ASSUME IInv, DataInv, InvokeFails \/ \E raw \in Raws : Invoke(raw)
  PROVE  DataInv'
<1> DEFINE p == Head(todo)
<1>1. phase = "invoke" /\ Running /\ todo # <<>>
  BY DEF InvokeFails, Invoke, Running, IInv, LoopsCover
<1>2. CASE Raise
  BY <1>2, RaiseShows
<1>3. ASSUME NEW raw \in Raws, Invoke(raw), ~Raise PROVE DataInv'
  <2> DEFINE t == [[traces[p] EXCEPT !.schedule = "selected"] EXCEPT !.run = raw.status]
  <2>1. /\ phase' = "accept" /\ traces' = [traces EXCEPT ![p] = t]
        /\ UNCHANGED <<setting, todo, prepared, plan, integration, batch>>
    BY <1>3 DEF Invoke
  <2>2. p \in DOMAIN traces /\ IsTrace(traces[p]) /\ p \in plan
    BY <1>1, HeadShows
  <2>3. t.schedule = "selected"
    BY <2>2 DEF IsTrace
  <2> HIDE DEF t
  <2>4. /\ DOMAIN traces' = DOMAIN traces /\ traces'[p].schedule = "selected"
        /\ \A q \in DOMAIN traces : q # p => traces'[q].schedule = traces[q].schedule
    BY <2>1, <2>2, <2>3
  <2>5. DispatchShows'
    BY <2>1 DEF DispatchShows
  <2> QED
    BY <1>1, <2>1, <2>2, <2>4, <2>5, RunningShows
<1> QED
  BY <1>2, <1>3 DEF InvokeFails

(* A result is accepted or rejected, and the next package is taken.        *)
LEMMA TakingShows ==
  ASSUME IInv, DataInv, Reject \/ \E given \in Acceptances, c \in Completions \cup {None} : Accept(given, c)
  PROVE  DataInv'
<1> DEFINE p == Head(todo)
<1>1. phase = "accept" /\ Running /\ todo # <<>>
  BY DEF Reject, Accept, Running, IInv, LoopsCover
<1>2. p \in DOMAIN traces /\ IsTrace(traces[p]) /\ p \in plan /\ traces[p].schedule = "selected"
  BY <1>1, HeadShows DEF SaysSelected
<1>3. CASE Raise
  BY <1>3, RaiseShows
<1>4. CASE ~Raise
  <2>1. /\ NextPackage /\ UNCHANGED <<setting, prepared, plan, integration, batch>>
        /\ traces' = traces \/ \E outcome :
             traces' = [traces EXCEPT ![p] = [traces[p] EXCEPT !.gate = outcome]]
    BY <1>4 DEF Reject, Accept
  <2>2. ASSUME NEW outcome, traces' = [traces EXCEPT ![p] = [traces[p] EXCEPT !.gate = outcome]]
        PROVE  /\ DOMAIN traces' = DOMAIN traces
               /\ \A q \in DOMAIN traces : traces'[q].schedule = traces[q].schedule
    <3> DEFINE t == [traces[p] EXCEPT !.gate = outcome]
    <3>1. t.schedule = traces[p].schedule
      BY <1>2 DEF IsTrace
    <3> HIDE DEF t
    <3> QED
      BY <1>2, <2>2, <3>1 DEF t
  <2>3. /\ DOMAIN traces' = DOMAIN traces
        /\ \A q \in DOMAIN traces : traces'[q].schedule = traces[q].schedule
    BY <2>1, <2>2
  <2>4. DispatchShows'
    BY <2>1 DEF DispatchShows, NextPackage
  <2> QED
    BY <1>1, <1>2, <2>1, <2>3, <2>4, RunningShows
<1> QED
  BY <1>3, <1>4

(* The packages are done with, and the rest is integration.                *)
LEMMA ClosingShows ==
  ASSUME IInv, DataInv, NoIntegration \/ \E i \in Integrations : Integrate(i)
  PROVE  DataInv'
<1>1. CASE Raise
  BY <1>1, RaiseShows
<1>2. CASE ~Raise
  <2>1. /\ phase \in {"dispatch", "integrate"} /\ (phase = "dispatch" => todo = <<>>)
        /\ phase' = "finish" /\ UNCHANGED <<setting, prepared, traces, plan>>
    BY <1>2 DEF NoIntegration, Integrate, Dispatched
  <2>2. PreparedShow' /\ DispatchShows'
    BY <2>1, PreparedStays DEF DataInv, DispatchShows
  <2>3. plan = None \/ plan = {q \in DOMAIN traces : SaysSelected(q)}
    <3>1. CASE phase = "dispatch"
      <4>1. Left = {}
        BY <2>1, <3>1 DEF Left
      <4>2. plan = None \/ plan \subseteq DOMAIN traces
        BY DEF IInv, TypeOK
      <4>3. \A q \in DOMAIN traces : SaysSelected(q) <=> q \in plan
        BY <3>1, <4>1 DEF DataInv, ScheduleShows, Running
      <4> QED
        BY <4>2, <4>3
    <3>2. CASE phase = "integrate"
      BY <3>2 DEF DataInv, ScheduleShows, Closing
    <3> QED
      BY <2>1, <3>1, <3>2
  <2>4. ScheduleShows'
    BY <2>1, <2>3 DEF ScheduleShows, SaysSelected, Preparing, Running, Closing
  <2>5. BatchShows'
    <3>1. CASE NoIntegration
      BY <3>1 DEF NoIntegration, DataInv, BatchShows
    <3>2. ASSUME NEW i \in Integrations, Integrate(i) PROVE BatchShows'
      <4> DEFINE made == Batch!Batch(completions, i)
      <4>1. /\ integration' = IF Blocked(i) THEN "blocked" ELSE i.result.status
            /\ batch' = IF Blocked(i) THEN None ELSE [asked |-> i, made |-> made]
        BY <1>2, <3>2 DEF Integrate
      <4> HIDE DEF made
      <4> QED
        BY <4>1 DEF BatchShows
    <3> QED
      BY <3>1, <3>2
  <2> QED
    BY <2>2, <2>4, <2>5 DEF DataInv
<1> QED
  BY <1>1, <1>2

(* The end says nothing more of the packages.                              *)
LEMMA FinishShows == ASSUME IInv, DataInv, Finish PROVE DataInv'
<1>1. /\ phase' \in {"returned", "refused"}
      /\ UNCHANGED <<setting, prepared, traces, plan, integration, batch>>
  BY DEF Finish
<1>2. PreparedShow'
  BY <1>1, PreparedStays DEF DataInv
<1> QED
  BY <1>1, <1>2 DEF DataInv, DispatchShows, ScheduleShows, BatchShows, Preparing, Running, Closing

(* Every step keeps what the data show.                                    *)
LEMMA NextShows == IInv /\ DataInv /\ [Next]_vars => DataInv'
<1> SUFFICES ASSUME IInv, DataInv, [Next]_vars PROVE DataInv'
  OBVIOUS
<1>1. CASE UNCHANGED vars
  <2>1. /\ phase' = phase /\ todo' = todo /\ current' = current
        /\ UNCHANGED <<setting, prepared, traces, plan, integration, batch>>
    BY <1>1 DEF vars
  <2>2. PreparedShow'
    BY <2>1 DEF DataInv, PreparedShow, CompiledFor, RunOf, FitsSize
  <2>3. ScheduleShows'
    BY <2>1 DEF DataInv, ScheduleShows, SaysSelected, Left, Preparing, Running, Closing
  <2> QED
    BY <2>1, <2>2, <2>3 DEF DataInv, DispatchShows, BatchShows
<1>2. CASE \E facts \in ActivationFacts :
             StayConversational(facts) \/ \E s \in Settings : Start(facts, s)
  BY <1>2, BeginningShows
<1>3. CASE \E facts \in WorkFacts : Authorize(facts)
  BY <1>3, AuthorizeShows
<1>4. CASE \E name \in DOMAIN Context : Compile(name)
  BY <1>4, CompileShows
<1>5. CASE \E r \in Requests : Negotiate(r)
  BY <1>5, NegotiateShows
<1>6. CASE NothingPrepared \/ \E at \in Snapshots : Plan(at)
  BY <1>6, SchedulingShows
<1>7. CASE Defer
  BY <1>7, DeferShows
<1>8. CASE Dispatch
  BY <1>8, DispatchKeepsShowing
<1>9. CASE InvokeFails \/ \E raw \in Raws : Invoke(raw)
  BY <1>9, InvokeShows
<1>10. CASE Reject \/ \E given \in Acceptances, c \in Completions \cup {None} : Accept(given, c)
  BY <1>10, TakingShows
<1>11. CASE NoIntegration \/ \E i \in Integrations : Integrate(i)
  BY <1>11, ClosingShows
<1>12. CASE Finish
  BY <1>12, FinishShows
<1>13. CASE PlanFails
  BY <1>13, RaiseShows DEF PlanFails
<1> QED
  BY <1>1, <1>2, <1>3, <1>4, <1>5, <1>6, <1>7, <1>8, <1>9, <1>10, <1>11, <1>12, <1>13 DEF Next

(* So they show it in every behaviour.                                     *)
LEMMA DataInvHolds == Spec => [](IInv /\ DataInv)
<1>1. Init => DataInv
  <2> SUFFICES ASSUME Init PROVE DataInv
    OBVIOUS
  <2>1. /\ phase = "start" /\ plan = None /\ integration = None
        /\ DOMAIN traces = {} /\ DOMAIN prepared = {}
    BY DEF Init
  <2>2. PreparedShow /\ DispatchShows
    BY <2>1 DEF PreparedShow, DispatchShows
  <2>3. ScheduleShows
    BY <2>1 DEF ScheduleShows, Preparing, Running, Closing
  <2>4. BatchShows
    BY <2>1, NoneAssumption DEF BatchShows, Batch!TerminalIntegration
  <2> QED
    BY <2>2, <2>3, <2>4 DEF DataInv
<1> QED
  BY <1>1, NextShows, IInvHolds, PTL DEF Spec

(* What a run is handed carries the decision its trace shows, goes to the  *)
(* runner that was preferred, whose context window holds the manifest and  *)
(* whose offers cover the needs.                                           *)
THEOREM DispatchFit == Spec => []DispatchIsFit
<1>1. IInv /\ DataInv => DispatchIsFit
  <2> SUFFICES ASSUME IInv, DataInv, phase = "invoke" PROVE DispatchIsFit
    BY DEF DispatchIsFit
  <2> DEFINE p == Head(todo)
             r == prepared[p].request
             x == prepared[p].runner
  <2>1. p \in DOMAIN prepared /\ p \in DOMAIN traces
    <3>1. Running /\ todo # <<>>
      BY DEF Running, IInv, LoopsCover
    <3> QED
      BY <3>1, HeadShows
  <2>2. /\ current.dispatch = Adapter!Dispatch(r, x) /\ Adapter!Accepts(r, x)
    BY DEF DataInv, DispatchShows
  <2>3. current.dispatch.request = r /\ current.dispatch.profile = Adapter!Digest(x)
    BY <2>2 DEF Adapter!Dispatch
  <2>4. r.authorization = traces[p].authorization /\ r.authorization \in Authorization!Auto
    BY <2>1 DEF IInv, GrantedOnly
  <2>5. /\ CompiledFor(p, prepared[p].context, r.manifest) /\ FitsSize(r) /\ x \in Profiles
    BY <2>1 DEF DataInv, PreparedShow
  <2>6. Compiler!Bytes(r.manifest) \in Nat
    <3> DEFINE I == Context[prepared[p].context].items
    <3>1. r.manifest \in Seq(I)
      BY <2>5, CompiledIsSound DEF SoundFor
    <3>2. \A i \in I : i.bytes \in Nat
      BY <2>5, ContextAssumption DEF CompiledFor
    <3> HIDE DEF I
    <3> QED
      BY <3>1, <3>2, BytesAdd
  <2> HIDE DEF p, r, x
  <2>7. x.context >= Compiler!Bytes(r.manifest)
    <3>1. x.context \in Int /\ r.context <= x.context
      BY <2>2, <2>5, RunnerAssumption DEF Adapter!Accepts
    <3> QED
      BY <2>5, <2>6, <3>1 DEF FitsSize
  <2>8. UNION {r.needs[d] : d \in DOMAIN r.needs} \subseteq UNION {x.offers[d] : d \in DOMAIN r.needs}
    BY <2>2, <2>5 DEF Adapter!Accepts, FitsSize
  <2> QED
    BY <2>3, <2>4, <2>7, <2>8 DEF DispatchIsFit, p, r, x, Authorization!Auto, Authorization!Budgeted
<1> QED
  BY <1>1, DataInvHolds, PTL

(* compile_context hands a run only what it may see, within the budget of  *)
(* the recipe, says nothing twice, and leaves out for lack of room only    *)
(* what would not have fitted in the end.                                  *)
THEOREM ManifestSound == Spec => []ManifestIsSound
<1>1. DataInv => ManifestIsSound
  <2> SUFFICES ASSUME DataInv PROVE ManifestIsSound
    OBVIOUS
  <2>1. ASSUME NEW p \in DOMAIN prepared
        PROVE  SoundFor(p, prepared[p].context, prepared[p].request.manifest)
    <3>1. CompiledFor(p, prepared[p].context, prepared[p].request.manifest)
      BY DEF DataInv, PreparedShow
    <3> QED
      BY <3>1, CompiledIsSound
  <2> QED
    BY <2>1 DEF ManifestIsSound, SoundFor
<1> QED
  BY <1>1, DataInvHolds, PTL

(* Whatever execute did, the trace it builds of it passes validate_trace:  *)
(* its events chain, its plan is the packages its traces call selected,    *)
(* and an integration it says passed has a batch.  None is not a batch.    *)
THEOREM TraceAlwaysValid ==
  ASSUME \A i, m : None # [asked |-> i, made |-> m]
  PROVE  Spec => []TraceIsValid
<1>1. ASSUME IInv, DataInv, TraceIsValid, [Next]_vars PROVE TraceIsValid'
  <2>1. CASE Finish
    <3>1. phase = "finish" /\ Len(events') \in Nat
      <4>1. events \in Seq({events[n] : n \in DOMAIN events})
        BY <1>1 DEF IInv, TypeOK, EventsAbout
      <4>2. PICK e : events' = Append(events, e)
        BY <2>1 DEF Finish, Record
      <4> QED
        BY <2>1, <4>1, <4>2 DEF Finish
    <3>2. plan # None => plan = {q \in DOMAIN traces : traces[q].schedule = "selected"}
      BY <1>1, <3>1 DEF DataInv, ScheduleShows, SaysSelected, Closing
    <3>3. integration = "passed" => batch # None
      BY <1>1 DEF DataInv, BatchShows
    <3>4. ValidTrace(events')
      BY <3>1, <3>2, <3>3, ChainVerifies DEF ValidTrace
    <3> QED
      BY <2>1, <3>4 DEF Finish, TraceIsValid
  <2>2. CASE ~Finish
    <3>1. ASSUME NEW facts, StayConversational(facts) \/ Authorize(facts) PROVE phase' # "refused"
      BY <3>1 DEF StayConversational, Authorize, Drop, Raise
    <3>2. ASSUME NEW facts, NEW s, Start(facts, s) PROVE phase' # "refused"
      BY <3>2 DEF Start, Raise
    <3>3. ASSUME NEW name, Compile(name) PROVE phase' # "refused"
      BY <3>3 DEF Compile, Drop
    <3>4. ASSUME NEW r, Negotiate(r) PROVE phase' # "refused"
      BY <3>4 DEF Negotiate, Drop
    <3>5. ASSUME NothingPrepared \/ PlanFails \/ \E at \in Snapshots : Plan(at)
          PROVE  phase' # "refused"
      BY <3>5 DEF NothingPrepared, PlanFails, Plan, Raise
    <3>6. ASSUME Defer \/ Dispatch \/ InvokeFails \/ Reject PROVE phase' # "refused"
      BY <3>6 DEF Defer, Dispatch, InvokeFails, Reject, NextPackage, Raise
    <3>7. ASSUME NEW raw, Invoke(raw) PROVE phase' # "refused"
      BY <3>7 DEF Invoke, Raise
    <3>8. ASSUME NEW given, NEW c, Accept(given, c) PROVE phase' # "refused"
      BY <3>8 DEF Accept, NextPackage, Raise
    <3>9. ASSUME NoIntegration \/ \E i \in Integrations : Integrate(i) PROVE phase' # "refused"
      BY <3>9 DEF NoIntegration, Integrate, Raise
    <3>10. UNCHANGED vars => phase' # "refused"
      BY <1>1 DEF vars, TraceIsValid
    <3> QED
      BY <1>1, <2>2, <3>1, <3>2, <3>3, <3>4, <3>5, <3>6, <3>7, <3>8, <3>9, <3>10
         DEF Next, TraceIsValid
  <2> QED
    BY <2>1, <2>2
<1>2. Init => TraceIsValid
  BY DEF Init, TraceIsValid
<1> QED
  BY <1>1, <1>2, DataInvHolds, PTL DEF Spec
=============================================================================
