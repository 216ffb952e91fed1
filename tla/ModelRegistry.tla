---------------------------- MODULE ModelRegistry ----------------------------
(* One model of alphalab/model_registry: its versions with their stages, the *)
(* production index and the line of versions that have held production.  A   *)
(* registry is a value that each operation replaces, so the operations are   *)
(* operators on it: a rollback is two promotions of one call.                *)
EXTENDS Naturals, Sequences

Stages     == {"NONE", "STAGING", "PRODUCTION", "ARCHIVED"}
Deployable == {"STAGING", "PRODUCTION"}

LEGAL_TRANSITIONS ==
  [NONE       |-> {"STAGING", "PRODUCTION", "ARCHIVED"},
   STAGING    |-> {"PRODUCTION", "ARCHIVED"},
   PRODUCTION |-> {"ARCHIVED"},
   ARCHIVED   |-> {"STAGING", "PRODUCTION"}]

\* A stage is not among its own targets, so a move to it is refused as well.
LegalMove(current, target) == target \in LEGAL_TRANSITIONS[current]

\* 0 stands for None: no production version, no deployment note.
EmptyRegistry == [versions |-> <<>>, production |-> 0, line |-> <<>>]

VersionsOf(r) == 1 .. Len(r.versions)
StageOf(r, v) == r.versions[v].stage

register_model(r) ==
  [r EXCEPT !.versions = Append(@, [stage |-> "NONE", deployment |-> "nowhere"])]

previous_production_version(r) ==
  IF Len(r.line) < 2 THEN 0 ELSE r.line[Len(r.line) - 1]

validate_transition(r, v, target) ==
  /\ LegalMove(StageOf(r, v), target)
  /\ StageOf(r, v) = "ARCHIVED" /\ target = "PRODUCTION"
       => previous_production_version(r) = v

\* Only a version that leaves production clears the index.
Transition(r, v, to) ==
  [versions   |-> [r.versions EXCEPT ![v].stage = to],
   production |-> IF to = "PRODUCTION" THEN v
                  ELSE IF StageOf(r, v) = "PRODUCTION" THEN 0 ELSE r.production,
   line       |-> IF to = "PRODUCTION" THEN Append(r.line, v) ELSE r.line]

promoteBeside(r, v, stage) == Transition(r, v, stage)

\* The incumbent is archived first.
promote(r, v, stage) ==
  Transition(IF stage = "PRODUCTION" /\ r.production \notin {0, v}
             THEN Transition(r, r.production, "ARCHIVED") ELSE r, v, stage)

WithoutProduction(r) == promote(r, r.production, "ARCHIVED")

CanRollback(r) ==
  /\ r.production # 0
  /\ previous_production_version(r) # 0
  /\ validate_transition(r, r.production, "ARCHIVED")
  /\ validate_transition(WithoutProduction(r), previous_production_version(r), "PRODUCTION")

rollback(r) ==
  promote(WithoutProduction(r), previous_production_version(r), "PRODUCTION")

set_deployment_metadata(r, v, environment) ==
  [r EXCEPT !.versions[v].deployment = environment]
=============================================================================
