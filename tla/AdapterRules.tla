---------------------------- MODULE AdapterRules ----------------------------
(***************************************************************************)
(* src/src/v3_aidlc/agent_adapters.py: which runner may carry out a run,   *)
(* what it is handed and what is accepted back from it.                    *)
(*                                                                         *)
(*   profile   [adapter, status, roles, offers, context, output,           *)
(*              clearance, structured, effects, idempotent]                *)
(*   request   [run, project, package, role, needs, context, output,       *)
(*              sensitivity, structured, effects, attempt, authorization,  *)
(*              manifest, criteria]                                        *)
(*   dispatch  [request, adapter, profile, lease, digest]                  *)
(*   raw       [started, finished, status, evidence, satisfied, effects]   *)
(* needs and offers are functions from the four dimensions to sets.  A     *)
(* digest is the value it is taken of, under a tag: SHA-256 is injective.  *)
(***************************************************************************)
EXTENDS Integers

Dimensions == {"capability", "modality", "tool", "host"}
Sensitivity == [public |-> 0, internal |-> 1, confidential |-> 2, restricted |-> 3, secret |-> 4]
AutoAuthorization == {"auto_proceed", "auto_proceed_and_record", "auto_proceed_within_budget"}
RunStatus == {"completed", "failed", "blocked", "cancelled"}

Digest(x) == [sha256 |-> x]

ValidProfile(p) ==
  /\ p.status \in {"available", "degraded", "unavailable"}
  /\ p.context >= 1 /\ p.output >= 1
  /\ p.clearance \in DOMAIN Sensitivity
ValidRequest(r) ==
  /\ r.context >= 1 /\ r.output >= 1 /\ r.attempt >= 1
  /\ r.sensitivity \in DOMAIN Sensitivity

(* negotiate_capabilities finds no reason against the runner.              *)
Accepts(r, p) ==
  /\ ValidRequest(r) /\ ValidProfile(p)
  /\ p.status = "available"
  /\ r.authorization \in AutoAuthorization
  /\ r.role \in p.roles
  /\ \A d \in Dimensions : r.needs[d] \subseteq p.offers[d]
  /\ r.context <= p.context /\ r.output <= p.output
  /\ Sensitivity[r.sensitivity] <= Sensitivity[p.clearance]
  /\ r.structured => p.structured
  /\ r.effects => p.effects
  /\ r.attempt > 1 => p.idempotent

(* The sort key of select_adapter: least excess clearance and capacity.    *)
Excess(r, p) == <<Sensitivity[p.clearance] - Sensitivity[r.sensitivity],
                  p.context - r.context, p.output - r.output, p.adapter>>
Precedes(a, b) == \E n \in DOMAIN a : a[n] < b[n] /\ \A m \in 1..n-1 : a[m] = b[m]

(* select_adapter: nobody accepts, or a profile or the request is invalid. *)
NoneAccepts(r, profiles) ==
  \/ ~ValidRequest(r)
  \/ \E p \in profiles : ~ValidProfile(p)
  \/ \A p \in profiles : ~Accepts(r, p)
Preferred(r, profiles) ==
  LET accepted == {p \in profiles : Accepts(r, p)}
  IN  CHOOSE p \in accepted : \A q \in accepted \ {p} : Precedes(Excess(r, p), Excess(r, q))

(* build_dispatch and validate_dispatch.                                   *)
Unsigned(d) == [request |-> d.request, requestDigest |-> d.requestDigest,
                adapter |-> d.adapter, profile |-> d.profile, lease |-> d.lease]
Dispatch(r, p) ==
  LET body == [request |-> r, requestDigest |-> Digest(r), adapter |-> p.adapter,
               profile |-> Digest(p), lease |-> <<"LEASE", r.run>>]
  IN  [request |-> body.request, requestDigest |-> body.requestDigest, adapter |-> body.adapter,
       profile |-> body.profile, lease |-> body.lease, digest |-> Digest(body)]
ValidDispatch(d) ==
  /\ ValidRequest(d.request)
  /\ d.requestDigest = Digest(d.request)
  /\ d.digest = Digest(Unsigned(d))

(* normalize_provider_result and validate_run_result: the identities of a  *)
(* result are those of its dispatch; what the runner claims is checked.    *)
Acceptable(raw, d) ==
  /\ ValidDispatch(d)
  /\ raw.started <= raw.finished
  /\ raw.status \in RunStatus
  /\ raw.effects # {} => d.request.effects
  /\ raw.effects \subseteq {"succeeded", "absent", "unknown"}
  /\ IF raw.status = "completed"
     THEN /\ d.request.criteria \subseteq raw.satisfied
          /\ d.request.criteria # {} => raw.evidence # {}
     ELSE raw.satisfied = {}

=============================================================================
