----------------------------- MODULE GateRules -----------------------------
(***************************************************************************)
(* src/src/v3_aidlc/evidence_gates.py: what a gate makes of the results of *)
(* its checks, of their evidence and of the exceptions granted.            *)
(*                                                                         *)
(*   evidence   [id, kind, subject, revision, collected]                   *)
(*   check      [version, kinds, minimum, maxAge, independent]             *)
(*   rule       [check, requirement, whenAll, waivable, hard]              *)
(*   gate       [id, authorities, rules]                                   *)
(*   result     [check, version, status, subject, revision, evaluated,     *)
(*               evaluator, producer, evidence]; evidence a sequence of    *)
(*               identifiers, evaluator and producer independence groups   *)
(*   exception  [gate, check, subject, revision, authority, expires]       *)
(*   given       the arguments of evaluate_gate: [gate, library, results,   *)
(*               evidence, facts, subject, revision, evaluated,            *)
(*               exceptions]                                               *)
(***************************************************************************)
EXTENDS Integers, Sequences, FiniteSets

EvidenceKinds == {"artifact", "test_result", "build_result", "review_disposition",
                  "scan_result", "observation", "metric", "decision", "provenance_manifest"}
CheckStatuses == {"passed", "failed", "inconclusive", "error"}

ValidEvidence(e) == e.kind \in EvidenceKinds
ValidCheck(c) == c.kinds # {} /\ c.kinds \subseteq EvidenceKinds /\ c.minimum >= 1 /\ c.maxAge >= 0

ValidGate(gate, library) ==
  /\ gate.rules # {}
  /\ Cardinality({r.check : r \in gate.rules}) = Cardinality(gate.rules)
  /\ \A r \in gate.rules :
       /\ r.check \in DOMAIN library /\ ValidCheck(library[r.check])
       /\ r.requirement \in {"required", "conditional", "advisory"}
       /\ r.whenAll # {} <=> r.requirement = "conditional"
       /\ \A m \in r.whenAll : m.values # {}
       /\ ~(r.hard /\ r.waivable)

Matches(predicate, facts) ==
  /\ predicate.fact \in DOMAIN facts
  /\ facts[predicate.fact] \in predicate.values

(* The rules whose checks this evaluation requires.                        *)
Required(given) ==
  {r \in given.gate.rules :
     \/ r.requirement = "required"
     \/ r.requirement = "conditional" /\ \A m \in r.whenAll : Matches(m, given.facts)}
ResultsFor(given, rule) == {x \in given.results : x.check = rule.check}
ForSubject(given, x) ==
  /\ x.subject = given.subject /\ x.revision = given.revision
  /\ x.evaluated <= given.evaluated

(* assess_check_result: raised when the result is not one of the check.    *)
Foreign(x, library) ==
  x.version # library[x.check].version \/ x.status \notin CheckStatuses

(* Mutation: the age of evidence does not matter.                          *)
AdmissibleAtAnyAge(x, library, evidence) ==
  LET check == library[x.check] IN
  /\ Len(x.evidence) >= check.minimum
  /\ \A n \in DOMAIN x.evidence : \E e \in evidence :
       /\ e.id = x.evidence[n] /\ e.kind \in check.kinds
       /\ e.subject = x.subject /\ e.revision = x.revision
(* assess_check_result finds no reason against the result.                 *)
Admissible(x, library, evidence) ==
  LET check == library[x.check] IN
  /\ Len(x.evidence) >= check.minimum
  /\ \A m, n \in DOMAIN x.evidence : x.evidence[m] = x.evidence[n] => m = n
  /\ check.independent => x.evaluator # x.producer
  /\ \A n \in DOMAIN x.evidence : \E e \in evidence :
       /\ e.id = x.evidence[n] /\ e.kind \in check.kinds
       /\ e.subject = x.subject /\ e.revision = x.revision
       /\ x.evaluated - e.collected \in 0..check.maxAge

ValidException(w, given, rule) ==
  /\ rule.waivable
  /\ w.gate = given.gate.id /\ w.check = rule.check
  /\ w.subject = given.subject /\ w.revision = given.revision
  /\ w.authority \in given.gate.authorities
  /\ given.evaluated <= w.expires

(* What one required check comes to.                                       *)
Standing(given, rule) ==
  LET usable == {x \in ResultsFor(given, rule) :
                  ForSubject(given, x) /\ Admissible(x, given.library, given.evidence)}
      status == (CHOOSE x \in usable : TRUE).status
  IN  CASE usable = {} -> "unresolved"
        [] usable # {} /\ status = "passed" -> "passed"
        [] usable # {} /\ status # "passed" ->
             IF \E w \in given.exceptions : ValidException(w, given, rule) THEN "excepted"
             ELSE IF status = "failed" THEN "failed" ELSE "unresolved"

(* evaluate_gate returns without raising: no identifier is given twice and *)
(* every result that is assessed is one of its check.                      *)
Evaluable(given) ==
  /\ ValidGate(given.gate, given.library)
  /\ \A e \in given.evidence : ValidEvidence(e)
  /\ \A e, f \in given.evidence : e.id = f.id => e = f
  /\ \A x, y \in given.results : x.check = y.check => x = y
  /\ \A w, v \in given.exceptions : w.check = v.check => w = v
  /\ \A r \in Required(given) : \A x \in ResultsFor(given, r) :
       ForSubject(given, x) => ~Foreign(x, given.library)

Outcome(given) ==
  LET standings == {Standing(given, r) : r \in Required(given)} IN
  CASE "failed" \in standings -> "failed"
    [] "failed" \notin standings /\ "unresolved" \in standings -> "inconclusive"
    [] OTHER -> IF "excepted" \in standings THEN "passed_with_exception" ELSE "passed"

Promotable == {"passed", "passed_with_exception"}

=============================================================================
