----------------------------- MODULE BatchRules -----------------------------
(***************************************************************************)
(* build_integration_batch, validate_integration_batch and                 *)
(* validate_integration_result of src/src/v3_aidlc/scheduler.py.           *)
(*                                                                         *)
(*   completion  [package, project, group, base, digest, evidence]         *)
(*   request     [target, checks]; checks a sequence                       *)
(*   batch       [project, group, target, checks, members]                 *)
(*   result      [status, checks, evidence, revision]; checks a function   *)
(*               from check names to their results                         *)
(* Members are a set: they are listed in the order of their identifiers.   *)
(***************************************************************************)
EXTENDS Integers, Sequences, FiniteSets

NoRevision == 0    \* a result without resultingRevision
NotADigest == "unhashed"
TerminalIntegration == {"passed", "failed", "inconclusive"}

ChecksOf(request) == {request.checks[n] : n \in DOMAIN request.checks}

(* Mutation: a member built on an earlier target is let in.                *)
CombinableStale(completions, request) ==
  /\ completions # {}
  /\ \A c \in completions : c.evidence # {}
  /\ Cardinality({c.package : c \in completions}) = Cardinality(completions)
  /\ Cardinality({c.project : c \in completions}) = 1
  /\ Cardinality({c.group : c \in completions}) = 1
(* build_integration_batch returns without raising.                        *)
Combinable(completions, request) ==
  /\ request.checks # <<>>
  /\ Cardinality(ChecksOf(request)) = Len(request.checks)
  /\ completions # {}
  /\ \A c \in completions : c.evidence # {} /\ c.base = request.target
  /\ Cardinality({c.package : c \in completions}) = Cardinality(completions)
  /\ Cardinality({c.project : c \in completions}) = 1
  /\ Cardinality({c.group : c \in completions}) = 1

Batch(completions, request) ==
  [target |-> request.target, checks |-> ChecksOf(request),
   group |-> (CHOOSE c \in completions : TRUE).group,
   members |-> {[package |-> c.package, digest |-> c.digest, evidence |-> c.evidence] :
                  c \in completions}]

(* validate_integration_batch, and validate_integration_result for a       *)
(* result that execute has bound to the batch, return without raising.     *)
ValidBatch(batch) ==
  /\ batch.checks # {} /\ batch.members # {}
  /\ \A m \in batch.members : m.digest # NotADigest /\ m.evidence # {}
ValidResult(result, batch) ==
  /\ ValidBatch(batch)
  /\ result.status \in TerminalIntegration
  /\ DOMAIN result.checks = batch.checks
  /\ \A c \in DOMAIN result.checks : result.checks[c] \in {"passed", "failed", "inconclusive"}
  /\ IF result.status = "passed"
     THEN /\ \A c \in DOMAIN result.checks : result.checks[c] = "passed"
          /\ result.evidence # {}
          /\ result.revision \notin {NoRevision, batch.target}
     ELSE result.revision = NoRevision

=============================================================================
