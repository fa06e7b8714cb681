---------------------------- MODULE ContextRules ----------------------------
(***************************************************************************)
(* src/src/v3_aidlc/context_compiler.py: the context a run is given.       *)
(*                                                                         *)
(*   item    [id, kind, source, sensitivity, integrity, form, project,     *)
(*            claim, payload, created, expires, entities, stages, modes,   *)
(*            roles, tags, always, bytes]; form is "content" or            *)
(*            "reference", bytes the size of the rendered item             *)
(*   recipe  [role, allowed, required, sources, sensitivity, priority,     *)
(*            maxItems, maxBytes]; priority a sequence of kinds            *)
(*   run     [id, project, role, entities, stage, modes, tags]             *)
(*   grant   [project, role, runs, items, authority, expires]              *)
(* Times and identifiers are naturals, so that their order is <=; the code *)
(* sorts createdAt as it is written, which is the order of the times where *)
(* all are written with the same offset.                                   *)
(***************************************************************************)
EXTENDS Integers, Sequences, FiniteSets, Functions

Never == 0    \* an item without expiresAt

Authority == [organization_policy |-> 100, project_policy |-> 95, user_instruction |-> 90,
              canonical_state |-> 85, governed_contract |-> 80, verified_evidence |-> 70,
              external_source |-> 40, liaison_summary |-> 20, assumption |-> 10]
Sensitivity == [public |-> 0, internal |-> 1, confidential |-> 2, restricted |-> 3, secret |-> 4]
ExplicitGrant == {"confidential", "restricted", "secret"}

ValidItem(i) ==
  /\ i.source \in DOMAIN Authority /\ i.sensitivity \in DOMAIN Sensitivity
  /\ i.source \in {"external_source", "liaison_summary"} => i.integrity # "authoritative"
  /\ i.source = "assumption" => i.kind = "assumption"
  /\ i.kind = "assumption" => i.integrity = "assumption"
  /\ i.form = "reference" <=> i.kind = "secret_reference"
  /\ i.sensitivity = "secret" <=> i.kind = "secret_reference"

ValidRecipe(r) ==
  /\ r.required \subseteq r.allowed
  /\ r.sources \subseteq DOMAIN Authority /\ r.sensitivity \in DOMAIN Sensitivity
  /\ r.maxItems >= 1 /\ r.maxBytes >= 1
  /\ Range(r.priority) = r.allowed /\ Len(r.priority) = Cardinality(r.allowed)

ValidGrant(g) ==
  /\ g.items # {} /\ g.runs # {}
  /\ g.authority \in {"organization_policy", "project_policy", "user_decision"}

(* A dimension an item does not declare does not restrict it.              *)
ScopeMatches(i, run) ==
  /\ i.project = run.project
  /\ \A scope \in {<<i.entities, run.entities>>, <<i.stages, {run.stage}>>,
                   <<i.modes, run.modes>>, <<i.roles, {run.role}>>} :
       scope[1] = {} \/ scope[1] \cap scope[2] # {}

HasGrant(i, run, grants, now) ==
  \E g \in grants : /\ g.project = run.project /\ g.role = run.role
                    /\ run.id \in g.runs /\ i.id \in g.items /\ now <= g.expires

(* The item is not in the exclusions made before claims are compared.      *)
Eligible(i, recipe, run, grants, now) ==
  /\ i.kind \in recipe.allowed /\ i.source \in recipe.sources
  /\ Sensitivity[i.sensitivity] <= Sensitivity[recipe.sensitivity]
  /\ ScopeMatches(i, run)
  /\ i.expires = Never \/ now <= i.expires
  /\ i.sensitivity \in ExplicitGrant => HasGrant(i, run, grants, now)
  /\ i.always \/ i.tags \cap run.tags # {}

(* The items of most authority on the claim an item makes.                 *)
Leaders(items, claim) ==
  {i \in items : /\ i.claim = claim
                 /\ \A j \in items : j.claim = claim => Authority[j.source] <= Authority[i.source]}
Claims(items) == {i.claim : i \in items}
(* "Equal-authority conflict requires reconciliation".                     *)
Contradicted(items) ==
  \E c \in Claims(items) : Cardinality({i.payload : i \in Leaders(items, c)}) > 1
(* The latest leader of each claim; createdAt, then identifier.            *)
Later(i, j) == i.created > j.created \/ (i.created = j.created /\ i.id >= j.id)
Winners(items) ==
  {i \in items : i \in Leaders(items, i.claim) /\ \A j \in Leaders(items, i.claim) : Later(i, j)}

SortKey(recipe, i) ==
  <<IF i.always THEN 0 ELSE 1, -Authority[i.source],
    CHOOSE n \in DOMAIN recipe.priority : recipe.priority[n] = i.kind, i.id>>
Precedes(a, b) == \E n \in DOMAIN a : a[n] < b[n] /\ \A m \in 1..n-1 : a[m] = b[m]

Bytes(selected) ==
  LET total[n \in 0..Len(selected)] == IF n = 0 THEN 0 ELSE total[n-1] + selected[n].bytes
  IN  total[Len(selected)]
(* Mutation: the last byte of the budget is never used.                    *)
TakeBelow(recipe, selected, i) ==
  IF Len(selected) < recipe.maxItems /\ Bytes(selected) + i.bytes < recipe.maxBytes
  THEN Append(selected, i) ELSE selected
(* An item that exceeds what is left of the budget is passed over, and the *)
(* items after it are still tried.                                         *)
Take(recipe, selected, i) ==
  IF Len(selected) < recipe.maxItems /\ Bytes(selected) + i.bytes <= recipe.maxBytes
  THEN Append(selected, i) ELSE selected

(* The items in the order of their keys.                                   *)
UpTo(recipe, items, i) ==
  {j \in items : j = i \/ Precedes(SortKey(recipe, j), SortKey(recipe, i))}
InOrder(recipe, items) ==
  [n \in 1..Cardinality(items) |->
     CHOOSE i \in items : Cardinality(UpTo(recipe, items, i)) = n]
Rendered(recipe, items) ==
  LET order == InOrder(recipe, items)
      selected[n \in 0..Len(order)] ==
        IF n = 0 THEN <<>> ELSE Take(recipe, selected[n-1], order[n])
  IN  selected[Len(order)]

(* compile_context returns without raising, and the items it selects.      *)
Manifest(recipe, run, candidates, grants, now) ==
  Rendered(recipe, Winners({i \in candidates : Eligible(i, recipe, run, grants, now)}))
Compiles(recipe, run, candidates, grants, now) ==
  /\ ValidRecipe(recipe) /\ run.tags # {} /\ run.role = recipe.role
  /\ \A g \in grants : ValidGrant(g)
  /\ \A i \in candidates : ValidItem(i)
  /\ Cardinality({i.id : i \in candidates}) = Cardinality(candidates)
  /\ ~Contradicted({i \in candidates : Eligible(i, recipe, run, grants, now)})
  /\ recipe.required \subseteq
       {i.kind : i \in Range(Manifest(recipe, run, candidates, grants, now))}

=============================================================================
