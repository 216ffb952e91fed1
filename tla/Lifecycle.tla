------------------------------ MODULE Lifecycle ------------------------------
(* alphalab/lifecycle: how the versions of one strategy reach environments   *)
(* and leave them, on evidence, with permissions and approvals, over the     *)
(* model registry and the deployment manager.  Each operation is one call    *)
(* that returns a new state or refuses; many principals make the calls, in   *)
(* any order.                                                                *)
EXTENDS ModelRegistry, DeploymentManager, FiniteSets

CONSTANTS
  Actors,
  Permitted,     \* pairs <<actor, permission>> the authority grants
  Gated,         \* Governance.approval_required_in
  Evidence,      \* ids: digests of a measurement
  About, Passes, \* the version a measurement is about; those that pass the policy
  MaxModels, MaxStrategies, \* bounds: versions registered
  MaxLine,       \* bound: times a model version takes production
  MaxRecords,    \* bound: deployments and rollbacks, of all environments
  MaxApprovals   \* bound: approvals recorded

ASSUME LifecycleAssumption ==
  /\ Gated \subseteq Environments /\ Passes \subseteq Evidence
  /\ \A e \in Evidence : About[e] \in Nat
  /\ {MaxModels, MaxStrategies, MaxLine, MaxRecords, MaxApprovals} \subseteq Nat

VARIABLES
  models,      \* a ModelRegistry
  deployments, \* a DeploymentManager
  strategies,  \* the versions of the strategy
  evidence,    \* ids recorded
  approvals,   \* ApprovalRecords
  releases     \* the package registered for each strategy version, or 0

vars == <<models, deployments, strategies, evidence, approvals, releases>>

None == "none"

Init ==
  /\ models = EmptyRegistry
  /\ deployments = EmptyManager
  /\ strategies = <<>> /\ releases = <<>>
  /\ evidence = {} /\ approvals = {}

Versions == DOMAIN strategies

authorize(actor, permission) == <<actor, permission>> \in Permitted

-----------------------------------------------------------------------------
(* views.py: what runs where is what the ledger says                         *)

StrategyOf(d, release) == d.packages[release].strategy

Active(d, e) == StrategyOf(d, active_release(d, e))

environments_running(d, v) == {e \in Environments : Deployed(d, e) /\ Active(d, e) = v}

-----------------------------------------------------------------------------
(* registration.py                                                           *)

register_model_version ==
  /\ Len(models.versions) < MaxModels
  /\ models' = register_model(models)
  /\ UNCHANGED <<deployments, strategies, evidence, approvals, releases>>

\* The model cited must be registered; 0 is a strategy without one.
register_strategy(model) ==
  /\ Len(strategies) < MaxStrategies
  /\ model \in VersionsOf(models) \union {0}
  /\ strategies' = Append(strategies, [model |-> model, stage |-> "NONE", evidence |-> None])
  /\ releases' = Append(releases, 0)
  /\ UNCHANGED <<models, deployments, evidence, approvals>>

-----------------------------------------------------------------------------
(* promotion.py                                                              *)

record_evidence(id) ==
  /\ id \notin evidence
  /\ evidence' = evidence \union {id}
  /\ UNCHANGED <<models, deployments, strategies, approvals, releases>>

\* What promotion and deployment ask of the model a version runs.
ModelFit(v) ==
  strategies[v].model # 0 => StageOf(models, strategies[v].model) \in Deployable

validate_strategy_versionUnread(v, id) == id \in evidence /\ id \in Passes

validate_strategy_version(v, id) == id \in evidence /\ About[id] = v /\ id \in Passes

promote_strategy_version(actor, v, id) ==
  /\ authorize(actor, "promote")
  /\ v \in Versions /\ LegalMove(strategies[v].stage, "STAGING")
  /\ ModelFit(v)
  /\ validate_strategy_version(v, id)
  /\ strategies' = [strategies EXCEPT ![v].stage = "STAGING", ![v].evidence = id]
  /\ UNCHANGED <<models, deployments, evidence, approvals, releases>>

retire_strategy_version(actor, v) ==
  /\ authorize(actor, "retire")
  /\ v \in Versions /\ LegalMove(strategies[v].stage, "ARCHIVED")
  /\ environments_running(deployments, v) = {}
  /\ strategies' = [strategies EXCEPT ![v].stage = "ARCHIVED"]
  /\ UNCHANGED <<models, deployments, evidence, approvals, releases>>

approve_deployment(actor, v, e) ==
  /\ authorize(actor, "approve")
  /\ v \in Versions
  /\ Cardinality(approvals) < MaxApprovals
  /\ [version |-> v, environment |-> e, approver |-> actor] \notin approvals
  /\ approvals' = approvals \union {[version |-> v, environment |-> e, approver |-> actor]}
  /\ UNCHANGED <<models, deployments, strategies, evidence, releases>>

-----------------------------------------------------------------------------
(* deployment.py                                                             *)

approval_forAnyone(actor, v, e) ==
  \E a \in approvals : a.version = v

approval_for(actor, v, e) ==
  \E a \in approvals : a.version = v /\ a.environment = e /\ a.approver # actor

release_manifest(v) ==
  [strategy |-> v, model |-> strategies[v].model, evidence |-> strategies[v].evidence]

\* One package stands for a version, registered when it is first deployed.
Registered(v) ==
  IF releases[v] # 0 THEN deployments
  ELSE register_release(deployments, release_manifest(v))

_release_for(v) ==
  IF releases[v] # 0 THEN releases[v] ELSE Len(deployments.packages) + 1

\* The stages once d is the ledger and v runs where out, if any, ran before:
\* v is live, and out is archived unless some environment still runs it.
_retire_if_idleAlways(d, v, out) ==
  [w \in Versions |->
     IF w = v THEN [strategies[w] EXCEPT !.stage = "PRODUCTION"]
     ELSE IF w = out /\ strategies[w].stage = "PRODUCTION"
          THEN [strategies[w] EXCEPT !.stage = "ARCHIVED"]
     ELSE strategies[w]]

_retire_if_idle(d, v, out) ==
  [w \in Versions |->
     IF w = v THEN [strategies[w] EXCEPT !.stage = "PRODUCTION"]
     ELSE IF /\ w = out /\ strategies[w].stage = "PRODUCTION"
             /\ environments_running(d, w) = {}
          THEN [strategies[w] EXCEPT !.stage = "ARCHIVED"]
     ELSE strategies[w]]

_note_model_deployment(v, e) ==
  IF strategies[v].model = 0 THEN models
  ELSE set_deployment_metadata(models, strategies[v].model, e)

RoomInLedger ==
  Cardinality({entry \in Environments \X (1 .. MaxRecords) :
                 entry[2] <= Len(History(deployments, entry[1]))}) < MaxRecords

\* 0: nothing ran in the environment before.
Incumbent(e) == IF Deployed(deployments, e) THEN Active(deployments, e) ELSE 0

deploy_strategy_version(actor, v, e) ==
  /\ RoomInLedger
  /\ authorize(actor, "deploy")
  /\ v \in Versions /\ strategies[v].stage \in Deployable
  /\ Incumbent(e) # v
  /\ ModelFit(v)
  /\ e \in Gated => approval_for(actor, v, e)
  /\ CanDeploy(Registered(v), e, _release_for(v))
  /\ deployments' = deploy(Registered(v), e, _release_for(v), actor)
  /\ releases' = [releases EXCEPT ![v] = _release_for(v)]
  /\ strategies' = _retire_if_idle(deployments', v, Incumbent(e))
  /\ models' = _note_model_deployment(v, e)
  /\ UNCHANGED <<evidence, approvals>>

\* A rollback asks for no approval.
rollback_environment(actor, e) ==
  /\ RoomInLedger
  /\ authorize(actor, "rollback")
  /\ HasPrevious(deployments, e)
  /\ LET restored == StrategyOf(deployments, previous_release(deployments, e))
     IN  /\ ModelFit(restored)
         /\ deployments' = rollback_release(deployments, e, actor)
         /\ strategies' = _retire_if_idle(deployments', restored, Incumbent(e))
         /\ models' = _note_model_deployment(restored, e)
  /\ UNCHANGED <<evidence, approvals, releases>>

-----------------------------------------------------------------------------
(* The registry's own calls, made beside the lifecycle's                     *)

promote_model(v, stage) ==
  /\ v \in VersionsOf(models) /\ validate_transition(models, v, stage)
  /\ stage = "PRODUCTION" => Len(models.line) < MaxLine
  /\ models' = promote(models, v, stage)
  /\ UNCHANGED <<deployments, strategies, evidence, approvals, releases>>

rollback_model ==
  /\ CanRollback(models)
  /\ Len(models.line) < MaxLine
  /\ models' = rollback(models)
  /\ UNCHANGED <<deployments, strategies, evidence, approvals, releases>>

-----------------------------------------------------------------------------
Next ==
  \/ register_model_version
  \/ \E m \in 0 .. MaxModels : register_strategy(m)
  \/ \E id \in Evidence : record_evidence(id)
  \/ \E actor \in Actors, v \in 1 .. MaxStrategies :
       \/ \E id \in Evidence : promote_strategy_version(actor, v, id)
       \/ retire_strategy_version(actor, v)
       \/ \E e \in Environments : \/ approve_deployment(actor, v, e)
                                  \/ deploy_strategy_version(actor, v, e)
  \/ \E actor \in Actors, e \in Environments : rollback_environment(actor, e)
  \/ \E v \in 1 .. MaxModels, stage \in Stages : promote_model(v, stage)
  \/ rollback_model

Spec == Init /\ [][Next]_vars

-----------------------------------------------------------------------------
(* Properties                                                                *)

Manifests == [strategy : Nat, model : Nat, evidence : Evidence]
Records   == [release : Nat \ {0}, is_rollback : BOOLEAN, actor : Actors]

(* The state has its shape: every reference, from a ledger entry to a        *)
(* package, from a package to a strategy version and from a version to its   *)
(* model, names something that is registered.                                *)
TypeOK ==
  /\ models.versions \in Seq([stage : Stages, deployment : Environments \union {"nowhere"}])
  /\ models.production \in VersionsOf(models) \union {0}
  /\ models.line \in Seq(VersionsOf(models))
  /\ deployments.packages \in Seq(Manifests)
  /\ deployments.environments \in [Environments -> Seq(Records)]
  /\ \A p \in DOMAIN deployments.packages : StrategyOf(deployments, p) \in Versions
  /\ \A e \in Environments : \A n \in DOMAIN History(deployments, e) :
       History(deployments, e)[n].release \in DOMAIN deployments.packages
  /\ strategies \in Seq([model : VersionsOf(models) \union {0}, stage : Stages,
                         evidence : Evidence \union {None}])
  /\ releases \in [Versions -> DOMAIN deployments.packages \union {0}]
  /\ evidence \subseteq Evidence
  /\ approvals \subseteq [version : Versions, environment : Environments, approver : Actors]

(* execution.py run_plan raises when "the ledger and the version's stage     *)
(* disagree".  Through the lifecycle they never do: a version is in          *)
(* PRODUCTION exactly when some environment runs it, whatever it displaced   *)
(* and wherever else it still runs.                                          *)
LiveIsProduction ==
  \A v \in Versions :
    strategies[v].stage = "PRODUCTION" <=> environments_running(deployments, v) # {}

(* rollback_environment: a rollback needs no approval because it "returns an *)
(* environment to a version that already ran there and therefore already     *)
(* passed whatever gate was in force".  Whatever a gated environment ran,    *)
(* by deployment or by rollback, was approved for that environment by        *)
(* someone other than a principal who deployed it there.                     *)
GatedIsApproved ==
  \A e \in Gated : \A n \in DOMAIN History(deployments, e) :
    \E k \in 1 .. n : \E a \in approvals :
      LET ran == History(deployments, e)[n]  was == History(deployments, e)[k]
      IN  /\ was.release = ran.release /\ ~was.is_rollback
          /\ a.version = StrategyOf(deployments, ran.release)
          /\ a.environment = e /\ a.approver # was.actor

(* What an environment runs rests on recorded evidence about that very       *)
(* version that passed, both as the version now says and as the package      *)
(* said when it was built, also after retirements, re-stagings and           *)
(* rollbacks.                                                                *)
RunningIsEvidenced ==
  \A e \in Environments : Deployed(deployments, e) =>
    LET v == Active(deployments, e)
    IN  \A id \in {strategies[v].evidence,
                   deployments.packages[active_release(deployments, e)].evidence} :
          id \in evidence /\ About[id] = v /\ id \in Passes

(* promotion.py of the registry: "a model has at most one production version *)
(* at a time".  The stages, the production index and the newest entry of the *)
(* production line agree, after promotions, archivals and rollbacks.         *)
OneProductionModel ==
  /\ {v \in VersionsOf(models) : StageOf(models, v) = "PRODUCTION"} = {models.production} \ {0}
  /\ models.production # 0 => models.line[Len(models.line)] = models.production

(* The four stores are well formed and the model registry agrees with itself.*)
RegistryInv == TypeOK /\ OneProductionModel

(* model_registry/rollback.py, rollback: refused if the model "has never had *)
(* a different production version to return to".                             *)
RollbackNeedsAnother ==
  CanRollback(models) => \E n \in DOMAIN models.line : models.line[n] # models.production
=============================================================================
