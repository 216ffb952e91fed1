---------------------------- MODULE LifecycleProofs ----------------------------
(***************************************************************************)
(* What runs, what is staged and what was measured stay in agreement for   *)
(* every set of principals, grants, gates, environments and measurements.  *)
(*                                                                         *)
(* None of the four properties is inductive alone.  That a version is in   *)
(* PRODUCTION exactly while it runs needs the ledger's references to       *)
(* resolve; that a rollback runs only what was approved and measured needs *)
(* every entry a ledger ever held, and every package ever built, to have   *)
(* been approved and measured, not only what runs now.                     *)
(***************************************************************************)
EXTENDS Lifecycle, SequenceTheorems, TLAPS

ModelVersions == [stage : Stages, deployment : Environments \union {"nowhere"}]

\* One production version, and it ends the line.
RegistryOK(r) ==
  /\ r = [versions |-> r.versions, production |-> r.production, line |-> r.line]
  /\ r.versions \in Seq(ModelVersions) /\ r.line \in Seq(Nat)
  /\ r.production \in VersionsOf(r) \union {0}
  /\ \A n \in DOMAIN r.line : r.line[n] \in VersionsOf(r)
  /\ \A v \in VersionsOf(r) : StageOf(r, v) = "PRODUCTION" <=> v = r.production
  /\ r.production # 0 => r.line # <<>> /\ r.line[Len(r.line)] = r.production

\* Every entry of the ledger names a package.
ManagerOK(d) ==
  /\ d = [packages |-> d.packages, environments |-> d.environments]
  /\ d.packages \in Seq(Manifests)
  /\ d.environments \in [Environments -> Seq(Records)]
  /\ \A e \in Environments : \A n \in DOMAIN History(d, e) :
       History(d, e)[n].release \in DOMAIN d.packages

VersionRecords == [model : Nat, stage : Stages, evidence : Evidence \union {None}]

\* A package is of a version that is registered, and a version's package is of it.
References ==
  /\ \A p \in DOMAIN deployments.packages : StrategyOf(deployments, p) \in Versions
  /\ \A v \in Versions : strategies[v].model \in VersionsOf(models) \union {0}
  /\ Len(releases) = Len(strategies)
  /\ \A v \in Versions : releases[v] # 0 =>
       /\ releases[v] \in DOMAIN deployments.packages
       /\ StrategyOf(deployments, releases[v]) = v

Shape ==
  /\ RegistryOK(models)
  /\ ManagerOK(deployments)
  /\ strategies \in Seq(VersionRecords)
  /\ releases \in Seq(Nat)
  /\ evidence \subseteq Evidence
  /\ approvals \subseteq [version : Versions, environment : Environments, approver : Actors]
  /\ References

\* A recorded measurement of this version that passed.
Supports(id, v) == id \in evidence /\ About[id] = v /\ id \in Passes

\* What may be deployed, and what was ever packaged, is supported.
Supported ==
  /\ \A v \in Versions : strategies[v].stage \in Deployable => Supports(strategies[v].evidence, v)
  /\ \A p \in DOMAIN deployments.packages :
       /\ Supports(deployments.packages[p].evidence, StrategyOf(deployments, p))
       /\ Supports(strategies[StrategyOf(deployments, p)].evidence, StrategyOf(deployments, p))

IInv == Shape /\ LiveIsProduction /\ GatedIsApproved /\ Supported

-----------------------------------------------------------------------------
(* The model registry *)

\* Changing a stage keeps the registry in order, if production is empty, or the
\* version's own, when it takes production.
LEMMA TransitionOK ==
  ASSUME NEW r, RegistryOK(r), NEW v \in VersionsOf(r), NEW to \in Stages,
         to = "PRODUCTION" => r.production \in {0, v}
  PROVE  /\ RegistryOK(Transition(r, v, to))
         /\ VersionsOf(Transition(r, v, to)) = VersionsOf(r)
<1> DEFINE t == Transition(r, v, to)
           new == [r.versions[v] EXCEPT !.stage = to]
<1>1. /\ r.versions \in Seq(ModelVersions) /\ r.line \in Seq(Nat)
      /\ v \in 1 .. Len(r.versions)
      /\ \A w \in VersionsOf(r) : w \in Nat /\ w # 0
  BY DEF RegistryOK, VersionsOf
<1>2. /\ t.versions = [r.versions EXCEPT ![v] = new]
      /\ t.production = IF to = "PRODUCTION" THEN v
                        ELSE IF StageOf(r, v) = "PRODUCTION" THEN 0 ELSE r.production
      /\ t.line = IF to = "PRODUCTION" THEN Append(r.line, v) ELSE r.line
      /\ t = [versions |-> t.versions, production |-> t.production, line |-> t.line]
  BY DEF Transition
<1>3. new \in ModelVersions /\ new.stage = to
  <2>1. r.versions[v] \in ModelVersions
    BY <1>1
  <2> QED
    BY <2>1 DEF ModelVersions
<1> HIDE DEF t, new
<1>4. /\ t.versions \in Seq(ModelVersions) /\ Len(t.versions) = Len(r.versions)
      /\ \A w \in VersionsOf(r) : t.versions[w] = IF w = v THEN new ELSE r.versions[w]
  BY <1>1, <1>2, <1>3 DEF VersionsOf
<1>5. /\ VersionsOf(t) = VersionsOf(r)
      /\ \A w \in VersionsOf(r) : StageOf(t, w) = IF w = v THEN to ELSE StageOf(r, w)
  BY <1>3, <1>4 DEF VersionsOf, StageOf
<1>6. t.line \in Seq(Nat) /\ \A n \in DOMAIN t.line : t.line[n] \in VersionsOf(t)
  BY <1>1, <1>2, <1>5 DEF RegistryOK
<1>7. \A w \in VersionsOf(t) : StageOf(t, w) = "PRODUCTION" <=> w = t.production
  <2>1. \A w \in VersionsOf(r) : StageOf(r, w) = "PRODUCTION" <=> w = r.production
    BY DEF RegistryOK
  <2>2. CASE to = "PRODUCTION"
    BY <1>1, <1>2, <1>5, <2>1, <2>2
  <2>3. CASE to # "PRODUCTION"
    BY <1>1, <1>2, <1>5, <2>1, <2>3
  <2> QED
    BY <2>2, <2>3
<1>8. t.production # 0 => t.line # <<>> /\ t.line[Len(t.line)] = t.production
  <2>1. CASE to = "PRODUCTION"
    <3>1. t.line = Append(r.line, v) /\ t.production = v /\ v \in Nat /\ r.line \in Seq(Nat)
      BY <1>1, <1>2, <2>1
    <3> QED
      BY <3>1, AppendProperties
  <2>2. CASE to # "PRODUCTION"
    BY <1>2, <2>2 DEF RegistryOK
  <2> QED
    BY <2>1, <2>2
<1>9. t.production \in VersionsOf(t) \union {0}
  BY <1>2, <1>5 DEF RegistryOK
<1> QED
  BY <1>2, <1>4, <1>5, <1>6, <1>7, <1>8, <1>9 DEF RegistryOK, t

\* So does a promotion, which archives the incumbent first.
LEMMA PromoteOK ==
  ASSUME NEW r, RegistryOK(r), NEW v \in VersionsOf(r), NEW stage \in Stages
  PROVE  /\ RegistryOK(promote(r, v, stage))
         /\ VersionsOf(promote(r, v, stage)) = VersionsOf(r)
<1>1. CASE stage = "PRODUCTION" /\ r.production \notin {0, v}
  <2> DEFINE cleared == Transition(r, r.production, "ARCHIVED")
  <2>1. r.production \in VersionsOf(r) /\ StageOf(r, r.production) = "PRODUCTION"
    BY <1>1 DEF RegistryOK
  <2>2. RegistryOK(cleared) /\ VersionsOf(cleared) = VersionsOf(r)
    BY <2>1, TransitionOK DEF Stages
  <2>3. cleared.production = 0
    BY <2>1 DEF Transition
  <2> QED
    BY <1>1, <2>2, <2>3, TransitionOK DEF promote
<1>2. CASE ~(stage = "PRODUCTION" /\ r.production \notin {0, v})
  BY <1>2, TransitionOK DEF promote
<1> QED
  BY <1>1, <1>2

\* And a rollback, which is two promotions.
LEMMA RollbackOK ==
  ASSUME NEW r, RegistryOK(r), CanRollback(r)
  PROVE  RegistryOK(rollback(r)) /\ VersionsOf(rollback(r)) = VersionsOf(r)
<1>1. r.production \in VersionsOf(r)
  BY DEF CanRollback, RegistryOK
<1>2. RegistryOK(WithoutProduction(r)) /\ VersionsOf(WithoutProduction(r)) = VersionsOf(r)
  BY <1>1, PromoteOK DEF WithoutProduction, Stages
<1>3. previous_production_version(r) \in VersionsOf(r)
  BY DEF CanRollback, previous_production_version, RegistryOK
<1> QED
  BY <1>2, <1>3, PromoteOK DEF rollback, Stages

LEMMA VersionsReplaced ==
  ASSUME NEW r, NEW versions,
         r = [versions |-> r.versions, production |-> r.production, line |-> r.line]
  PROVE  [r EXCEPT !.versions = versions] =
           [versions |-> versions, production |-> r.production, line |-> r.line]
<1>1. PICK a, b, c : r = [versions |-> a, production |-> b, line |-> c]
  OBVIOUS
<1> QED
  BY <1>1

LEMMA RegisterModelOK ==
  ASSUME NEW r, RegistryOK(r)
  PROVE  /\ RegistryOK(register_model(r))
         /\ VersionsOf(r) \subseteq VersionsOf(register_model(r))
<1> DEFINE new == [stage |-> "NONE", deployment |-> "nowhere"]
           t   == register_model(r)
<1>1. r.versions \in Seq(ModelVersions)
  BY DEF RegistryOK
<1>2. new \in ModelVersions /\ new.stage = "NONE"
  BY DEF ModelVersions, Stages
<1>3. /\ t.versions = Append(r.versions, new)
      /\ t.production = r.production /\ t.line = r.line
      /\ t = [versions |-> t.versions, production |-> t.production, line |-> t.line]
  BY VersionsReplaced DEF RegistryOK, register_model
<1> HIDE DEF t, new
<1>4. /\ t.versions \in Seq(ModelVersions)
      /\ VersionsOf(t) = VersionsOf(r) \union {Len(r.versions) + 1}
      /\ StageOf(t, Len(r.versions) + 1) = "NONE"
      /\ \A v \in VersionsOf(r) : StageOf(t, v) = StageOf(r, v)
  BY <1>1, <1>2, <1>3 DEF VersionsOf, StageOf
<1>5. Len(r.versions) + 1 \notin VersionsOf(r) /\ Len(r.versions) + 1 # 0
  BY <1>1 DEF VersionsOf
<1> QED
  BY <1>3, <1>4, <1>5 DEF RegistryOK, t

\* A deployment note changes no stage.
LEMMA MetadataOK ==
  ASSUME NEW r, RegistryOK(r), NEW v \in VersionsOf(r), NEW e \in Environments
  PROVE  /\ RegistryOK(set_deployment_metadata(r, v, e))
         /\ VersionsOf(set_deployment_metadata(r, v, e)) = VersionsOf(r)
<1> DEFINE t == set_deployment_metadata(r, v, e)
           new == [r.versions[v] EXCEPT !.deployment = e]
<1>1. r.versions \in Seq(ModelVersions) /\ v \in 1 .. Len(r.versions)
  BY DEF RegistryOK, VersionsOf
<1>2. new \in ModelVersions /\ new.stage = r.versions[v].stage
  <2>1. r.versions[v] \in ModelVersions
    BY <1>1
  <2> QED
    BY <2>1 DEF ModelVersions
<1>3. /\ t.versions = [r.versions EXCEPT ![v] = new]
      /\ t.production = r.production /\ t.line = r.line
      /\ t = [versions |-> t.versions, production |-> t.production, line |-> t.line]
  BY VersionsReplaced DEF RegistryOK, set_deployment_metadata
<1> HIDE DEF t, new
<1>4. /\ t.versions \in Seq(ModelVersions) /\ VersionsOf(t) = VersionsOf(r)
      /\ \A w \in VersionsOf(r) : StageOf(t, w) = StageOf(r, w)
  BY <1>1, <1>2, <1>3 DEF VersionsOf, StageOf
<1> QED
  BY <1>3, <1>4 DEF RegistryOK, t

-----------------------------------------------------------------------------
(* The deployment manager *)

\* What recording a deployment leaves of the ledger.
LEMMA Recorded ==
  ASSUME NEW d, ManagerOK(d), NEW e \in Environments,
         NEW record \in Records, record.release \in DOMAIN d.packages,
         NEW t, t = [d EXCEPT !.environments[e] = Append(@, record)]
  PROVE  /\ ManagerOK(t) /\ t.packages = d.packages
         /\ \A x \in Environments \ {e} : History(t, x) = History(d, x)
         /\ Len(History(d, e)) \in Nat /\ DOMAIN History(d, e) = 1 .. Len(History(d, e))
         /\ Len(History(t, e)) = Len(History(d, e)) + 1
         /\ DOMAIN History(t, e) = 1 .. Len(History(d, e)) + 1
         /\ \A n \in DOMAIN History(d, e) : History(t, e)[n] = History(d, e)[n]
         /\ History(t, e)[Len(History(d, e)) + 1] = record
         /\ Deployed(t, e) /\ active_release(t, e) = record.release
<1> DEFINE was == History(d, e)
<1>1. PICK packages, environments :
         d = [packages |-> packages, environments |-> environments]
  BY DEF ManagerOK
<1>2. d.packages = packages /\ d.environments = environments
  BY <1>1
<1>3. t = [packages |-> packages, environments |-> [environments EXCEPT ![e] = Append(@, record)]]
  BY <1>1
<1>4. packages \in Seq(Manifests) /\ environments \in [Environments -> Seq(Records)]
  BY <1>2 DEF ManagerOK
<1>6. was \in Seq(Records) /\ was = environments[e]
  BY <1>2, <1>4 DEF History
<1>7. /\ t.packages = packages /\ History(t, e) = Append(was, record)
      /\ t.environments = [environments EXCEPT ![e] = Append(was, record)]
      /\ \A x \in Environments \ {e} : History(t, x) = History(d, x)
  BY <1>2, <1>3, <1>4, <1>6 DEF History
<1> HIDE DEF was
<1>8. /\ Append(was, record) \in Seq(Records) /\ Len(was) \in Nat
      /\ DOMAIN was = 1 .. Len(was)
      /\ Len(Append(was, record)) = Len(was) + 1
      /\ DOMAIN Append(was, record) = 1 .. Len(was) + 1
      /\ \A n \in DOMAIN was : Append(was, record)[n] = was[n]
      /\ Append(was, record)[Len(was) + 1] = record
      /\ Append(was, record) # <<>>
  BY <1>6, AppendProperties, LenProperties
<1>9. t.environments \in [Environments -> Seq(Records)]
  BY <1>4, <1>7, <1>8
<1>10. \A x \in Environments : \A n \in DOMAIN History(t, x) :
         History(t, x)[n].release \in DOMAIN t.packages
  <2> SUFFICES ASSUME NEW x \in Environments, NEW n \in DOMAIN History(t, x)
               PROVE  History(t, x)[n].release \in DOMAIN t.packages
    OBVIOUS
  <2>1. CASE x # e
    BY <1>2, <1>7, <2>1 DEF ManagerOK
  <2>2. CASE x = e /\ n \in DOMAIN was
    BY <1>2, <1>7, <1>8, <2>2 DEF ManagerOK, was
  <2>3. CASE x = e /\ n \notin DOMAIN was
    <3>0. n \in 1 .. Len(was) + 1 /\ n \notin 1 .. Len(was) /\ Len(was) \in Nat
      BY <1>7, <1>8, <2>3
    <3>1. n = Len(was) + 1
      BY <3>0
    <3> QED
      BY <1>2, <1>7, <1>8, <2>3, <3>1
  <2> QED
    BY <2>1, <2>2, <2>3
<1>11. ManagerOK(t)
  BY <1>3, <1>4, <1>7, <1>9, <1>10 DEF ManagerOK
<1>12. Deployed(t, e) /\ active_release(t, e) = record.release
  BY <1>7, <1>8 DEF Deployed, active_release
<1> QED
  BY <1>2, <1>7, <1>8, <1>11, <1>12 DEF was

\* What registering a package leaves of the manager.
LEMMA Packaged ==
  ASSUME NEW d, ManagerOK(d), NEW manifest \in Manifests,
         NEW t, t = register_release(d, manifest)
  PROVE  /\ ManagerOK(t) /\ t.environments = d.environments
         /\ Len(d.packages) \in Nat /\ DOMAIN d.packages = 1 .. Len(d.packages)
         /\ DOMAIN t.packages = 1 .. Len(d.packages) + 1
         /\ \A p \in DOMAIN d.packages : t.packages[p] = d.packages[p]
         /\ t.packages[Len(d.packages) + 1] = manifest
<1>1. PICK packages, environments :
         d = [packages |-> packages, environments |-> environments]
  BY DEF ManagerOK
<1>2. d.packages = packages /\ d.environments = environments
  BY <1>1
<1>3. t = [packages |-> Append(packages, manifest), environments |-> environments]
  BY <1>1 DEF register_release
<1>4. packages \in Seq(Manifests)
  BY <1>2 DEF ManagerOK
<1>5. /\ t.packages = Append(packages, manifest) /\ t.environments = environments
      /\ t = [packages |-> t.packages, environments |-> t.environments]
  BY <1>3
<1>6. /\ Append(packages, manifest) \in Seq(Manifests) /\ Len(packages) \in Nat
      /\ DOMAIN packages = 1 .. Len(packages)
      /\ DOMAIN Append(packages, manifest) = 1 .. Len(packages) + 1
      /\ \A n \in DOMAIN packages : Append(packages, manifest)[n] = packages[n]
      /\ Append(packages, manifest)[Len(packages) + 1] = manifest
  BY <1>4, AppendProperties, LenProperties
<1>7. \A e \in Environments : \A n \in DOMAIN History(t, e) :
         History(t, e)[n].release \in DOMAIN t.packages
  BY <1>2, <1>5, <1>6 DEF ManagerOK, History
<1>8. t.environments \in [Environments -> Seq(Records)]
  BY <1>2, <1>5 DEF ManagerOK
<1>9. ManagerOK(t)
  BY <1>5, <1>6, <1>7, <1>8 DEF ManagerOK
<1> QED
  BY <1>2, <1>5, <1>6, <1>9

-----------------------------------------------------------------------------
(* The stages follow the ledger *)

\* A manager that holds what the ledger holds, and packages that are supported.
Prepared(d) ==
  /\ ManagerOK(d)
  /\ d.environments = deployments.environments
  /\ \A p \in DOMAIN deployments.packages :
       p \in DOMAIN d.packages /\ d.packages[p] = deployments.packages[p]
  /\ \A p \in DOMAIN d.packages :
       /\ StrategyOf(d, p) \in Versions
       /\ Supports(d.packages[p].evidence, StrategyOf(d, p))
       /\ Supports(strategies[StrategyOf(d, p)].evidence, StrategyOf(d, p))

\* Stages may change; what a version is and rests on does not.
LEMMA StagesOnly ==
  ASSUME strategies \in Seq(VersionRecords), NEW d, NEW v \in Versions, NEW out,
         NEW t, t = _retire_if_idle(d, v, out)
  PROVE  /\ t \in Seq(VersionRecords) /\ Len(t) = Len(strategies)
         /\ DOMAIN t = Versions
         /\ \A w \in Versions : /\ t[w].model = strategies[w].model
                               /\ t[w].evidence = strategies[w].evidence
         /\ t[v].stage = "PRODUCTION"
         /\ \A w \in Versions \ {v} :
              t[w].stage = IF /\ w = out /\ strategies[w].stage = "PRODUCTION"
                              /\ environments_running(d, w) = {}
                           THEN "ARCHIVED" ELSE strategies[w].stage
<1>1. Versions = 1 .. Len(strategies) /\ Len(strategies) \in Nat
  BY LenProperties DEF Versions
<1>2. \A w \in Versions : strategies[w] \in VersionRecords
  BY <1>1
<1>3. \A w \in Versions, stage \in Stages :
        /\ [strategies[w] EXCEPT !.stage = stage] \in VersionRecords
        /\ [strategies[w] EXCEPT !.stage = stage].model = strategies[w].model
        /\ [strategies[w] EXCEPT !.stage = stage].evidence = strategies[w].evidence
        /\ [strategies[w] EXCEPT !.stage = stage].stage = stage
  BY <1>2 DEF VersionRecords
<1>4. DOMAIN t = Versions
  BY DEF _retire_if_idle
<1>5. ASSUME NEW w \in Versions
      PROVE  /\ t[w] \in VersionRecords
             /\ t[w].model = strategies[w].model /\ t[w].evidence = strategies[w].evidence
             /\ t[w].stage = IF w = v THEN "PRODUCTION"
                             ELSE IF /\ w = out /\ strategies[w].stage = "PRODUCTION"
                                     /\ environments_running(d, w) = {}
                             THEN "ARCHIVED" ELSE strategies[w].stage
  <2>1. t[w] = IF w = v THEN [strategies[w] EXCEPT !.stage = "PRODUCTION"]
               ELSE IF /\ w = out /\ strategies[w].stage = "PRODUCTION"
                       /\ environments_running(d, w) = {}
               THEN [strategies[w] EXCEPT !.stage = "ARCHIVED"]
               ELSE strategies[w]
    BY DEF _retire_if_idle
  <2>2. "PRODUCTION" \in Stages /\ "ARCHIVED" \in Stages
    BY DEF Stages
  <2> QED
    BY <1>2, <1>3, <2>1, <2>2
<1>6. t \in [1 .. Len(strategies) -> VersionRecords]
  <2>1. t = [w \in Versions |-> t[w]]
    BY DEF _retire_if_idle
  <2> QED
    BY <1>1, <1>5, <2>1
<1>7. t \in Seq(VersionRecords) /\ Len(t) = Len(strategies)
  BY <1>1, <1>6
<1> QED
  BY <1>4, <1>5, <1>7

\* Recording what now runs in an environment, and moving the stages with it,
\* keeps them in agreement and everything supported.
LEMMA RunsNow ==
  ASSUME Shape, LiveIsProduction, Supported,
         NEW d, Prepared(d), NEW e \in Environments,
         NEW record \in Records, record.release \in DOMAIN d.packages,
         deployments' = [d EXCEPT !.environments[e] = Append(@, record)],
         NEW v, v = StrategyOf(d, record.release),
         strategies' = _retire_if_idle(deployments', v, Incumbent(e)),
         evidence' = evidence
  PROVE  /\ ManagerOK(deployments)' /\ strategies' \in Seq(VersionRecords)
         /\ Len(strategies') = Len(strategies) /\ Versions' = Versions
         /\ \A w \in Versions : strategies'[w].model = strategies[w].model
         /\ deployments'.packages = d.packages
         /\ LiveIsProduction' /\ Supported'
<1> DEFINE out == Incumbent(e)
           now == deployments'
           runs(w) == environments_running(deployments, w)
<1>1. v \in Versions /\ ManagerOK(d) /\ strategies \in Seq(VersionRecords)
  BY DEF Prepared, Shape
<1>2. /\ ManagerOK(now) /\ now.packages = d.packages
      /\ \A x \in Environments \ {e} : History(now, x) = History(d, x)
      /\ Deployed(now, e) /\ active_release(now, e) = record.release
  BY <1>1, Recorded
<1>3. /\ strategies' \in Seq(VersionRecords) /\ Len(strategies') = Len(strategies)
      /\ DOMAIN strategies' = Versions
      /\ \A w \in Versions : /\ strategies'[w].model = strategies[w].model
                            /\ strategies'[w].evidence = strategies[w].evidence
      /\ strategies'[v].stage = "PRODUCTION"
      /\ \A w \in Versions \ {v} :
           strategies'[w].stage = IF /\ w = out /\ strategies[w].stage = "PRODUCTION"
                                     /\ environments_running(now, w) = {}
                                  THEN "ARCHIVED" ELSE strategies[w].stage
  <2> HIDE DEF out, now
  <2>1. strategies' = _retire_if_idle(now, v, out)
    BY DEF now, out
  <2>2. strategies' \in Seq(VersionRecords) /\ Len(strategies') = Len(strategies)
    BY <1>1, <2>1, StagesOnly
  <2>3. DOMAIN strategies' = Versions
    BY <1>1, <2>1, StagesOnly
  <2>4. \A w \in Versions : /\ strategies'[w].model = strategies[w].model
                            /\ strategies'[w].evidence = strategies[w].evidence
    BY <1>1, <2>1, StagesOnly
  <2>5. strategies'[v].stage = "PRODUCTION"
    BY <1>1, <2>1, StagesOnly
  <2>6. \A w \in Versions \ {v} :
           strategies'[w].stage = IF /\ w = out /\ strategies[w].stage = "PRODUCTION"
                                     /\ environments_running(now, w) = {}
                                  THEN "ARCHIVED" ELSE strategies[w].stage
    BY <1>1, <2>1, StagesOnly
  <2> QED BY <2>2, <2>3, <2>4, <2>5, <2>6
<1>4. Versions' = Versions
  BY <1>3 DEF Versions
<1>5. Deployed(now, e) /\ Active(now, e) = v
  BY <1>2 DEF Active, StrategyOf
<1>6. ASSUME NEW x \in Environments \ {e}
      PROVE  /\ Deployed(now, x) <=> Deployed(deployments, x)
             /\ Deployed(deployments, x) => Active(now, x) = Active(deployments, x)
  <2>1. History(now, x) = History(deployments, x)
    BY <1>2 DEF History, Prepared
  <2>2. Deployed(deployments, x) => active_release(deployments, x) \in DOMAIN deployments.packages
    <3>1. History(deployments, x) \in Seq(Records)
      BY DEF Shape, ManagerOK, History
    <3>2. Deployed(deployments, x) =>
            Len(History(deployments, x)) \in DOMAIN History(deployments, x)
      BY <3>1, LenProperties, EmptySeq DEF Deployed
    <3> QED
      BY <3>2 DEF Shape, ManagerOK, active_release
  <2> QED
    BY <1>2, <2>1, <2>2 DEF Prepared, Active, StrategyOf, active_release, Deployed
<1>7. /\ e \in environments_running(now, v)
      /\ \A w \in Versions \ {v, out} : environments_running(now, w) = runs(w)
  <2>1. \A w \in Versions : \A x \in Environments \ {e} :
          x \in environments_running(now, w) <=> x \in runs(w)
    BY <1>6 DEF environments_running
  <2>2. \A w \in Versions : e \in environments_running(now, w) <=> w = v
    BY <1>5 DEF environments_running
  <2>3. \A w \in Versions : w # out => e \notin runs(w)
    BY DEF environments_running, Incumbent
  <2>4. \A w : runs(w) \subseteq Environments /\ environments_running(now, w) \subseteq Environments
    BY DEF environments_running
  <2> HIDE DEF now, out, runs
  <2>5. ASSUME NEW w \in Versions \ {v, out}
        PROVE  environments_running(now, w) = runs(w)
    <3>1. \A x \in Environments : x \in environments_running(now, w) <=> x \in runs(w)
      BY <2>1, <2>2, <2>3, <2>5
    <3> QED
      BY <2>4, <3>1
  <2> QED
    BY <1>1, <2>2, <2>5
<1>8. out \in Versions => runs(out) # {} \/ out = 0
  BY DEF Incumbent, environments_running
<1>9. \A w \in Versions : strategies'[w].stage = "PRODUCTION" <=> environments_running(now, w) # {}
  <2> SUFFICES ASSUME NEW w \in Versions
               PROVE  strategies'[w].stage = "PRODUCTION" <=> environments_running(now, w) # {}
    OBVIOUS
  <2>0. w # 0
    BY <1>1, LenProperties DEF Versions
  <2>1. CASE w = v
    BY <1>3, <1>7, <2>1
  <2>2. CASE w # v /\ w = out
    <3>1. strategies[w].stage = "PRODUCTION"
      BY <1>8, <2>0, <2>2 DEF LiveIsProduction
    <3> QED
      BY <1>3, <2>2, <3>1
  <2>3. CASE w # v /\ w # out
    BY <1>3, <1>7, <2>3 DEF LiveIsProduction
  <2> QED
    BY <2>1, <2>2, <2>3
<1>10. LiveIsProduction'
  BY <1>4, <1>9 DEF LiveIsProduction
<1>11. \A w \in Versions : strategies'[w].stage \in Deployable =>
         Supports(strategies'[w].evidence, w)
  <2>1. Supports(strategies[v].evidence, v)
    BY DEF Prepared
  <2>2. "ARCHIVED" \notin Deployable
    BY DEF Deployable
  <2> HIDE DEF now, out
  <2>3. ASSUME NEW w \in Versions, strategies'[w].stage \in Deployable
        PROVE  Supports(strategies'[w].evidence, w)
    <3>1. CASE w = v
      BY <1>3, <2>1, <3>1
    <3>2. CASE w # v
      <4>1. strategies'[w].stage = strategies[w].stage
        BY <1>3, <2>2, <2>3, <3>2
      <4> QED
        BY <1>3, <2>3, <4>1 DEF Supported
    <3> QED
      BY <3>1, <3>2
  <2> QED
    BY <2>3
<1>12. Supported'
  <2>1. \A p \in DOMAIN now.packages :
          /\ StrategyOf(now, p) = StrategyOf(d, p) /\ StrategyOf(d, p) \in Versions
          /\ Supports(now.packages[p].evidence, StrategyOf(d, p))
          /\ Supports(strategies'[StrategyOf(d, p)].evidence, StrategyOf(d, p))
    BY <1>2, <1>3 DEF Prepared, StrategyOf
  <2>2. \A id, w : Supports(id, w)' <=> Supports(id, w)
    BY DEF Supports
  <2> QED
    BY <1>4, <1>11, <2>1, <2>2 DEF Supported, Supports
<1> QED
  BY <1>2, <1>3, <1>4, <1>10, <1>12

-----------------------------------------------------------------------------
(* One step of each operation *)

LEMMA InitInv == Init => IInv
<1> SUFFICES ASSUME Init PROVE IInv
  OBVIOUS
<1> USE DEF Init
<1>1. RegistryOK(models)
  BY DEF RegistryOK, EmptyRegistry, VersionsOf
<1>2. ManagerOK(deployments)
  BY DEF ManagerOK, EmptyManager, History
<1>3. Versions = {}
  BY DEF Versions
<1>4. Shape
  BY <1>1, <1>2, <1>3 DEF Shape, References, EmptyManager
<1>5. LiveIsProduction /\ Supported
  BY <1>3 DEF LiveIsProduction, Supported, EmptyManager
<1>6. GatedIsApproved
  BY LifecycleAssumption DEF GatedIsApproved, EmptyManager, History
<1> QED
  BY <1>4, <1>5, <1>6 DEF IInv

\* What only moves stages of models in order disturbs nothing else.
LEMMA ModelsStep ==
  ASSUME IInv, RegistryOK(models'), VersionsOf(models) \subseteq VersionsOf(models'),
         UNCHANGED <<deployments, strategies, evidence, approvals, releases>>
  PROVE  IInv'
<1>1. Shape'
  BY DEF IInv, Shape, References, Versions
<1>2. LiveIsProduction' /\ Supported' /\ GatedIsApproved'
  BY DEF IInv, LiveIsProduction, Supported, Supports, GatedIsApproved, Versions
<1> QED
  BY <1>1, <1>2 DEF IInv

LEMMA RegisterModelStep ==
  ASSUME IInv, register_model_version
  PROVE  IInv'
BY RegisterModelOK, ModelsStep DEF IInv, Shape, register_model_version

LEMMA PromoteModelStep ==
  ASSUME IInv, NEW v, NEW stage \in Stages, promote_model(v, stage)
  PROVE  IInv'
BY PromoteOK, ModelsStep DEF IInv, Shape, promote_model

LEMMA RollbackModelStep ==
  ASSUME IInv, rollback_model
  PROVE  IInv'
BY RollbackOK, ModelsStep DEF IInv, Shape, rollback_model

\* Versions may be added, staged and archived and approvals recorded while the
\* ledger stays as it is, as long as the stages agree with it and a version that
\* was supported remains so.
LEMMA VersionsStep ==
  ASSUME IInv, UNCHANGED <<models, deployments, evidence>>,
         strategies' \in Seq(VersionRecords), releases' \in Seq(Nat),
         Len(releases') = Len(strategies'), Versions \subseteq Versions',
         approvals' \subseteq [version : Versions', environment : Environments, approver : Actors],
         approvals \subseteq approvals',
         \A v \in Versions : releases'[v] = releases[v],
         \A v \in Versions' \ Versions : releases'[v] = 0,
         \A v \in Versions' : strategies'[v].model \in VersionsOf(models) \union {0},
         \A v \in Versions' : strategies'[v].stage \in Deployable =>
            Supports(strategies'[v].evidence, v),
         \A v \in Versions : Supports(strategies[v].evidence, v) =>
            Supports(strategies'[v].evidence, v),
         LiveIsProduction'
  PROVE  IInv'
<1>1. Shape'
  BY DEF IInv, Shape, References
<1>2. Supported'
  BY DEF IInv, Shape, References, Supported, Supports
<1>3. GatedIsApproved'
  BY DEF IInv, GatedIsApproved
<1> QED
  BY <1>1, <1>2, <1>3 DEF IInv

LEMMA RegisterStrategyStep ==
  ASSUME IInv, NEW m, register_strategy(m)
  PROVE  IInv'
<1> DEFINE new == [model |-> m, stage |-> "NONE", evidence |-> None]
           n == Len(strategies)
<1>1. /\ strategies \in Seq(VersionRecords) /\ releases \in Seq(Nat) /\ n \in Nat
      /\ Len(releases) = n /\ Versions = 1 .. n
  BY LenProperties DEF IInv, Shape, References, Versions
<1>2. new \in VersionRecords /\ new.model = m /\ new.stage = "NONE"
  BY DEF register_strategy, VersionRecords, Stages, VersionsOf, IInv, Shape, RegistryOK
<1>3. strategies' = Append(strategies, new) /\ releases' = Append(releases, 0)
  BY DEF register_strategy
<1> HIDE DEF new
<1>4. /\ strategies' \in Seq(VersionRecords) /\ Versions' = 1 .. n + 1
      /\ \A v \in Versions : strategies'[v] = strategies[v]
      /\ strategies'[n + 1] = new /\ Len(strategies') = n + 1
  BY <1>1, <1>2, <1>3, AppendProperties, LenProperties DEF Versions
<1>5. /\ releases' \in Seq(Nat) /\ Len(releases') = n + 1
      /\ \A v \in Versions : releases'[v] = releases[v]
      /\ releases'[n + 1] = 0
  BY <1>1, <1>3, AppendProperties
<1>6. Versions' = Versions \union {n + 1} /\ n + 1 \notin Versions
  BY <1>1, <1>4
<1>7. UNCHANGED <<models, deployments, evidence, approvals>> /\ m \in VersionsOf(models) \union {0}
  BY DEF register_strategy
<1>8. environments_running(deployments, n + 1) = {}
  <2> SUFFICES ASSUME NEW e \in Environments, Deployed(deployments, e)
               PROVE  Active(deployments, e) # n + 1
    BY DEF environments_running
  <2>1. History(deployments, e) \in Seq(Records) /\ History(deployments, e) # <<>>
    BY DEF IInv, Shape, ManagerOK, History, Deployed
  <2>2. Len(History(deployments, e)) \in DOMAIN History(deployments, e)
    BY <2>1, LenProperties, EmptySeq
  <2>3. active_release(deployments, e) \in DOMAIN deployments.packages
    BY <2>2 DEF IInv, Shape, ManagerOK, active_release
  <2> QED
    BY <1>6, <2>3 DEF IInv, Shape, References, Active
<1>9. LiveIsProduction'
  <2> SUFFICES ASSUME NEW v \in Versions'
               PROVE  strategies'[v].stage = "PRODUCTION"
                        <=> environments_running(deployments, v) # {}
    BY <1>7 DEF LiveIsProduction
  <2>1. CASE v = n + 1
    BY <1>2, <1>4, <1>8, <2>1
  <2>2. CASE v \in Versions
    BY <1>4, <2>2 DEF IInv, LiveIsProduction
  <2> QED
    BY <1>6, <2>1, <2>2
<1>10. \A v \in Versions' : /\ strategies'[v].model \in VersionsOf(models) \union {0}
                            /\ strategies'[v].stage \in Deployable =>
                                 Supports(strategies'[v].evidence, v)
  <2>1. new.stage \notin Deployable
    BY <1>2 DEF Deployable
  <2> QED
    BY <1>2, <1>4, <1>6, <1>7, <2>1 DEF IInv, Shape, References, Supported
<1>11. approvals' \subseteq [version : Versions', environment : Environments, approver : Actors]
  BY <1>6, <1>7 DEF IInv, Shape
<1> QED
  BY <1>4, <1>5, <1>6, <1>7, <1>9, <1>10, <1>11, VersionsStep

LEMMA RecordEvidenceStep ==
  ASSUME IInv, NEW id \in Evidence, record_evidence(id)
  PROVE  IInv'
<1> USE DEF record_evidence
<1>1. Shape'
  BY DEF IInv, Shape, References, Versions
<1>2. \A x, v : Supports(x, v) => Supports(x, v)'
  BY DEF Supports
<1>3. Supported'
  BY <1>2 DEF IInv, Supported, Supports, Versions
<1>4. LiveIsProduction' /\ GatedIsApproved'
  BY DEF IInv, LiveIsProduction, GatedIsApproved, Versions
<1> QED
  BY <1>1, <1>3, <1>4 DEF IInv

\* One version's stage, and perhaps its evidence, replaced.
LEMMA VersionEdited ==
  ASSUME Shape, NEW v \in Versions, NEW new \in VersionRecords,
         strategies' = [strategies EXCEPT ![v] = new]
  PROVE  /\ strategies' \in Seq(VersionRecords) /\ Len(strategies') = Len(strategies)
         /\ Versions' = Versions
         /\ \A w \in Versions : strategies'[w] = IF w = v THEN new ELSE strategies[w]
<1>1. strategies \in Seq(VersionRecords) /\ Versions = 1 .. Len(strategies)
  BY LenProperties DEF Shape, Versions
<1>2. strategies' \in Seq(VersionRecords) /\ Len(strategies') = Len(strategies)
  BY <1>1, ExceptSeq
<1> QED
  BY <1>1, <1>2, LenProperties DEF Versions

LEMMA PromoteVersionStep ==
  ASSUME IInv, NEW actor, NEW v, NEW id \in Evidence, promote_strategy_version(actor, v, id)
  PROVE  IInv'
<1> DEFINE new == [strategies[v] EXCEPT !.stage = "STAGING", !.evidence = id]
<1>1. v \in Versions /\ strategies[v] \in VersionRecords
  BY LenProperties DEF promote_strategy_version, IInv, Shape, Versions
<1>2. /\ new \in VersionRecords /\ new.stage = "STAGING" /\ new.evidence = id
      /\ new.model = strategies[v].model
  BY <1>1 DEF VersionRecords, Stages
<1>3. strategies' = [strategies EXCEPT ![v] = new]
  BY DEF promote_strategy_version
<1> HIDE DEF new
<1>4. /\ strategies' \in Seq(VersionRecords) /\ Len(strategies') = Len(strategies)
      /\ Versions' = Versions
      /\ \A w \in Versions : strategies'[w] = IF w = v THEN new ELSE strategies[w]
  BY <1>1, <1>2, <1>3, VersionEdited DEF IInv
<1>5. UNCHANGED <<models, deployments, evidence, approvals, releases>>
  BY DEF promote_strategy_version
<1>6. Supports(id, v) /\ strategies[v].stage # "PRODUCTION"
  BY DEF promote_strategy_version, validate_strategy_version, Supports, LegalMove,
         LEGAL_TRANSITIONS
<1>7. LiveIsProduction'
  BY <1>2, <1>4, <1>5, <1>6 DEF IInv, LiveIsProduction
<1>8. \A w \in Versions :
        /\ strategies'[w].model \in VersionsOf(models) \union {0}
        /\ strategies'[w].stage \in Deployable => Supports(strategies'[w].evidence, w)
        /\ Supports(strategies[w].evidence, w) => Supports(strategies'[w].evidence, w)
  BY <1>2, <1>4, <1>6 DEF IInv, Shape, References, Supported
<1> QED
  BY <1>4, <1>5, <1>7, <1>8, VersionsStep DEF IInv, Shape, References

LEMMA RetireStep ==
  ASSUME IInv, NEW actor, NEW v, retire_strategy_version(actor, v)
  PROVE  IInv'
<1> DEFINE new == [strategies[v] EXCEPT !.stage = "ARCHIVED"]
<1>1. v \in Versions /\ strategies[v] \in VersionRecords
  BY LenProperties DEF retire_strategy_version, IInv, Shape, Versions
<1>2. /\ new \in VersionRecords /\ new.stage = "ARCHIVED"
      /\ new.evidence = strategies[v].evidence /\ new.model = strategies[v].model
  BY <1>1 DEF VersionRecords, Stages
<1>3. strategies' = [strategies EXCEPT ![v] = new]
  BY DEF retire_strategy_version
<1> HIDE DEF new
<1>4. /\ strategies' \in Seq(VersionRecords) /\ Len(strategies') = Len(strategies)
      /\ Versions' = Versions
      /\ \A w \in Versions : strategies'[w] = IF w = v THEN new ELSE strategies[w]
  BY <1>1, <1>2, <1>3, VersionEdited DEF IInv
<1>5. /\ UNCHANGED <<models, deployments, evidence, approvals, releases>>
      /\ environments_running(deployments, v) = {}
  BY DEF retire_strategy_version
<1>6. LiveIsProduction'
  BY <1>2, <1>4, <1>5 DEF IInv, LiveIsProduction
<1>7. "ARCHIVED" \notin Deployable
  BY DEF Deployable
<1>8. \A w \in Versions :
        /\ strategies'[w].model \in VersionsOf(models) \union {0}
        /\ strategies'[w].stage \in Deployable => Supports(strategies'[w].evidence, w)
        /\ Supports(strategies[w].evidence, w) => Supports(strategies'[w].evidence, w)
  BY <1>2, <1>4, <1>7 DEF IInv, Shape, References, Supported
<1> QED
  BY <1>4, <1>5, <1>6, <1>8, VersionsStep DEF IInv, Shape, References

LEMMA ApproveStep ==
  ASSUME IInv, NEW actor \in Actors, NEW v, NEW e \in Environments,
         approve_deployment(actor, v, e)
  PROVE  IInv'
<1>1. /\ UNCHANGED <<models, deployments, strategies, evidence, releases>>
      /\ v \in Versions
      /\ approvals' = approvals \union {[version |-> v, environment |-> e, approver |-> actor]}
  BY DEF approve_deployment
<1>2. Versions' = Versions
  BY <1>1 DEF Versions
<1>3. /\ approvals' \subseteq [version : Versions', environment : Environments, approver : Actors]
      /\ approvals \subseteq approvals'
  BY <1>1, <1>2 DEF IInv, Shape
<1>4. LiveIsProduction'
  BY <1>1, <1>2 DEF IInv, LiveIsProduction
<1> QED
  BY <1>1, <1>2, <1>3, <1>4, VersionsStep DEF IInv, Shape, References, Supported

-----------------------------------------------------------------------------
(* What goes live, by deployment or by rollback *)

\* The new entry was approved, and the entries before it are as they were.
LEMMA EntryApproved ==
  ASSUME IInv, NEW d, Prepared(d), NEW e \in Environments,
         NEW record \in Records, record.release \in DOMAIN d.packages,
         deployments' = [d EXCEPT !.environments[e] = Append(@, record)],
         approvals' = approvals,
         e \in Gated =>
           \/ ~record.is_rollback /\ approval_for(record.actor, StrategyOf(d, record.release), e)
           \/ \E n \in DOMAIN History(deployments, e) :
                History(deployments, e)[n].release = record.release
  PROVE  GatedIsApproved'
<1> DEFINE now == deployments'
           last == Len(History(deployments, e)) + 1
           Approved(m, g, n) ==
             \E k \in 1 .. n : \E a \in approvals :
               /\ History(m, g)[k].release = History(m, g)[n].release
               /\ ~History(m, g)[k].is_rollback
               /\ a.version = StrategyOf(m, History(m, g)[n].release)
               /\ a.environment = g /\ a.approver # History(m, g)[k].actor
<1>1. \A x \in Environments : History(d, x) = History(deployments, x)
  BY DEF Prepared, History
<1>2. /\ now.packages = d.packages
      /\ \A x \in Environments \ {e} : History(now, x) = History(deployments, x)
      /\ last \in Nat \ {0} /\ DOMAIN History(deployments, e) = 1 .. last - 1
      /\ DOMAIN History(now, e) = 1 .. last
      /\ \A n \in DOMAIN History(deployments, e) :
           History(now, e)[n] = History(deployments, e)[n]
      /\ History(now, e)[last] = record
  BY <1>1, Recorded DEF Prepared
<1>3. \A p \in DOMAIN deployments.packages : StrategyOf(now, p) = StrategyOf(deployments, p)
  BY <1>2 DEF Prepared, StrategyOf
<1> HIDE DEF now, last
<1>4. \A g \in Gated : \A n \in DOMAIN History(deployments, g) : Approved(deployments, g, n)
  BY DEF IInv, GatedIsApproved
<1>5. \A g \in Gated : g \in Environments /\
        \A n \in DOMAIN History(deployments, g) :
           /\ n \in Nat \ {0} /\ \A k \in 1 .. n : k \in DOMAIN History(deployments, g)
           /\ History(deployments, g)[n].release \in DOMAIN deployments.packages
  <2> SUFFICES ASSUME NEW g \in Gated
               PROVE  g \in Environments /\
                 \A n \in DOMAIN History(deployments, g) :
                   /\ n \in Nat \ {0} /\ \A k \in 1 .. n : k \in DOMAIN History(deployments, g)
                   /\ History(deployments, g)[n].release \in DOMAIN deployments.packages
    OBVIOUS
  <2>1. g \in Environments
    BY LifecycleAssumption
  <2>2. History(deployments, g) \in Seq(Records)
    BY <2>1 DEF IInv, Shape, ManagerOK, History
  <2>3. /\ DOMAIN History(deployments, g) = 1 .. Len(History(deployments, g))
        /\ Len(History(deployments, g)) \in Nat
    BY <2>2, LenProperties
  <2>4. \A n \in DOMAIN History(deployments, g) :
          History(deployments, g)[n].release \in DOMAIN deployments.packages
    BY <2>1 DEF IInv, Shape, ManagerOK
  <2>5. \A n \in DOMAIN History(deployments, g) :
          n \in Nat \ {0} /\ \A k \in 1 .. n : k \in DOMAIN History(deployments, g)
    BY <2>3
  <2> QED
    BY <2>1, <2>4, <2>5
<1>6. ASSUME NEW g \in Gated, NEW n \in DOMAIN History(deployments, g)
      PROVE  Approved(now, g, n)
  <2>1. \A k \in 1 .. n : History(now, g)[k] = History(deployments, g)[k]
    BY <1>2, <1>5, <1>6
  <2>2. n \in 1 .. n
    BY <1>5, <1>6
  <2>3. Approved(deployments, g, n)
    BY <1>4, <1>6
  <2>4. StrategyOf(now, History(now, g)[n].release)
          = StrategyOf(deployments, History(deployments, g)[n].release)
    BY <1>3, <1>5, <1>6, <2>1, <2>2
  <2> QED
    BY <2>1, <2>2, <2>3, <2>4
<1>7. ASSUME e \in Gated
      PROVE  Approved(now, e, last)
  <2>1. last \in 1 .. last
    BY <1>2
  <2>2. CASE ~record.is_rollback /\ approval_for(record.actor, StrategyOf(d, record.release), e)
    <3>1. StrategyOf(now, record.release) = StrategyOf(d, record.release)
      BY <1>2 DEF StrategyOf
    <3> QED
      BY <1>2, <2>1, <2>2, <3>1 DEF approval_for
  <2>3. CASE \E n \in DOMAIN History(deployments, e) :
               History(deployments, e)[n].release = record.release
    <3>1. PICK n \in DOMAIN History(deployments, e) :
                 History(deployments, e)[n].release = record.release
      BY <2>3
    <3>2. Approved(now, e, n)
      BY <1>6, <1>7
    <3>3. n \in 1 .. last /\ \A k \in 1 .. n : k \in 1 .. last
      BY <1>2
    <3>4. History(now, e)[n].release = History(now, e)[last].release
      BY <1>2, <3>1
    <3> QED
      BY <3>2, <3>3, <3>4
  <2> QED
    BY <1>7, <2>2, <2>3
<1>8. ASSUME NEW g \in Gated, NEW n \in DOMAIN History(now, g)
      PROVE  Approved(now, g, n)
  <2>1. CASE n \in DOMAIN History(deployments, g)
    BY <1>6, <2>1
  <2>2. CASE n \notin DOMAIN History(deployments, g)
    <3>1. g = e
      BY <1>2, <1>5, <1>8, <2>2
    <3>2. n = last
      BY <1>2, <1>8, <2>2, <3>1
    <3> QED
      BY <1>7, <1>8, <3>1, <3>2
  <2> QED
    BY <2>1, <2>2
<1>9. /\ approvals' = approvals
      /\ \A g \in Gated : History(deployments, g)' = History(now, g)
      /\ \A p : StrategyOf(deployments, p)' = StrategyOf(now, p)
  BY DEF now, History, StrategyOf
<1>10. ASSUME NEW g \in Gated, NEW n \in DOMAIN History(deployments', g)
       PROVE  \E k \in 1 .. n : \E a \in approvals' :
                /\ History(deployments', g)[k].release = History(deployments', g)[n].release
                /\ ~History(deployments', g)[k].is_rollback
                /\ a.version = StrategyOf(deployments', History(deployments', g)[n].release)
                /\ a.environment = g /\ a.approver # History(deployments', g)[k].actor
  <2>1. PICK k \in 1 .. n : \E a \in approvals :
           /\ History(now, g)[k].release = History(now, g)[n].release
           /\ ~History(now, g)[k].is_rollback
           /\ a.version = StrategyOf(now, History(now, g)[n].release)
           /\ a.environment = g /\ a.approver # History(now, g)[k].actor
    BY <1>8, <1>9, <1>10
  <2> QED
    BY <1>9, <2>1 DEF now
<1> QED
  BY <1>10 DEF GatedIsApproved, History, StrategyOf

\* The package a deployment names: registered before, or now, of this version.
LEMMA RegisteredFacts ==
  ASSUME Shape, Supported, NEW v \in Versions, strategies[v].stage \in Deployable
  PROVE  /\ Prepared(Registered(v)) /\ _release_for(v) \in DOMAIN Registered(v).packages
         /\ _release_for(v) \in Nat \ {0}
         /\ StrategyOf(Registered(v), _release_for(v)) = v
<1> DEFINE manifest == release_manifest(v)
           last == Len(deployments.packages) + 1
<1>1. /\ ManagerOK(deployments) /\ deployments.packages \in Seq(Manifests)
      /\ v \in Nat /\ strategies[v] \in VersionRecords
      /\ strategies[v].evidence \in Evidence /\ Supports(strategies[v].evidence, v)
  <2>1. ManagerOK(deployments) /\ deployments.packages \in Seq(Manifests)
    BY DEF Shape, ManagerOK
  <2>2. strategies \in Seq(VersionRecords)
    BY DEF Shape
  <2>3. v \in Nat /\ strategies[v] \in VersionRecords
    BY <2>2, LenProperties DEF Versions
  <2>4. Supports(strategies[v].evidence, v)
    BY DEF Supported
  <2> QED
    BY <2>1, <2>3, <2>4 DEF Supports, Shape
<1>2. Len(deployments.packages) \in Nat
      /\ DOMAIN deployments.packages = 1 .. Len(deployments.packages)
  BY <1>1, LenProperties
<1>3. CASE releases[v] # 0
  <2>1. Registered(v) = deployments /\ _release_for(v) = releases[v]
    BY <1>3 DEF Registered, _release_for
  <2>2. releases[v] \in DOMAIN deployments.packages /\ StrategyOf(deployments, releases[v]) = v
    BY <1>3 DEF Shape, References
  <2>3. Prepared(deployments)
    BY <1>1 DEF Prepared, Shape, References, Supported
  <2> QED
    BY <1>2, <2>1, <2>2, <2>3
<1>4. CASE releases[v] = 0
  <2>1. Registered(v) = register_release(deployments, manifest) /\ _release_for(v) = last
    BY <1>4 DEF Registered, _release_for
  <2>2. manifest \in Manifests /\ manifest.strategy = v
        /\ manifest.evidence = strategies[v].evidence
    BY <1>1 DEF release_manifest, Manifests, VersionRecords
  <2> DEFINE t == Registered(v)
  <2> HIDE DEF manifest
  <2>3. /\ ManagerOK(t) /\ t.environments = deployments.environments
        /\ DOMAIN t.packages = 1 .. last
        /\ \A p \in DOMAIN deployments.packages : t.packages[p] = deployments.packages[p]
        /\ t.packages[last] = manifest
    <3> DEFINE u == register_release(deployments, manifest)
    <3>1. ManagerOK(deployments)
      BY <1>1
    <3>2. /\ ManagerOK(u) /\ u.environments = deployments.environments
          /\ DOMAIN u.packages = 1 .. (Len(deployments.packages) + 1)
          /\ \A p \in DOMAIN deployments.packages : u.packages[p] = deployments.packages[p]
          /\ u.packages[Len(deployments.packages) + 1] = manifest
      BY <2>2, <3>1, Packaged
    <3>3. t = u
      BY <2>1
    <3> HIDE DEF t, u
    <3> QED
      BY <3>2, <3>3
  <2>4. /\ StrategyOf(t, last) = v
        /\ \A p \in DOMAIN deployments.packages : StrategyOf(t, p) = StrategyOf(deployments, p)
    BY <2>2, <2>3 DEF StrategyOf
  <2> HIDE DEF t
  <2>5. \A p \in DOMAIN t.packages : p = last \/ p \in DOMAIN deployments.packages
    BY <1>2, <2>3
  <2>6. \A p \in DOMAIN deployments.packages : p \in DOMAIN t.packages
    BY <1>2, <2>3
  <2>7. \A p \in DOMAIN t.packages :
           /\ StrategyOf(t, p) \in Versions
           /\ Supports(t.packages[p].evidence, StrategyOf(t, p))
           /\ Supports(strategies[StrategyOf(t, p)].evidence, StrategyOf(t, p))
    BY <1>1, <2>2, <2>3, <2>4, <2>5 DEF Shape, References, Supported
  <2>8. Prepared(t)
    BY <2>3, <2>6, <2>7 DEF Prepared
  <2>9. last \in 1 .. last /\ last \in Nat \ {0}
    BY <1>2
  <2> QED
    BY <2>1, <2>3, <2>4, <2>8, <2>9 DEF t
<1> QED
  BY <1>3, <1>4

\* Recording where the model of a version runs keeps the model registry.
LEMMA NotedOK ==
  ASSUME Shape, NEW v \in Versions, NEW e \in Environments,
         models' = _note_model_deployment(v, e)
  PROVE  RegistryOK(models)' /\ VersionsOf(models)' = VersionsOf(models)
<1>1. RegistryOK(models) /\ strategies[v].model \in VersionsOf(models) \union {0}
  BY DEF Shape, References
<1>2. CASE strategies[v].model = 0
  BY <1>1, <1>2 DEF _note_model_deployment, RegistryOK, VersionsOf, StageOf
<1>3. CASE strategies[v].model # 0
  <2>1. strategies[v].model \in VersionsOf(models)
        /\ models' = set_deployment_metadata(models, strategies[v].model, e)
    BY <1>1, <1>3 DEF _note_model_deployment
  <2>2. RegistryOK(models') /\ VersionsOf(models') = VersionsOf(models)
    BY <1>1, <2>1, MetadataOK
  <2> QED
    BY <2>2 DEF RegistryOK, VersionsOf, StageOf
<1> QED
  BY <1>2, <1>3

\* What a deployment and a rollback share: a new entry, the stages, the note.
LEMMA LedgerStep ==
  ASSUME IInv, NEW d, Prepared(d), NEW e \in Environments,
         NEW record \in Records, record.release \in DOMAIN d.packages,
         deployments' = [d EXCEPT !.environments[e] = Append(@, record)],
         NEW v, v = StrategyOf(d, record.release),
         strategies' = _retire_if_idle(deployments', v, Incumbent(e)),
         models' = _note_model_deployment(v, e),
         releases' \in {releases, [releases EXCEPT ![v] = record.release]},
         UNCHANGED <<evidence, approvals>>,
         e \in Gated =>
           \/ ~record.is_rollback /\ approval_for(record.actor, v, e)
           \/ \E n \in DOMAIN History(deployments, e) :
                History(deployments, e)[n].release = record.release
  PROVE  IInv'
<1>1. v \in Versions /\ record.release \in Nat
  BY DEF Prepared, Records
<1>2. /\ ManagerOK(deployments)' /\ strategies' \in Seq(VersionRecords)
      /\ Len(strategies') = Len(strategies) /\ Versions' = Versions
      /\ \A w \in Versions : strategies'[w].model = strategies[w].model
      /\ deployments'.packages = d.packages
      /\ LiveIsProduction' /\ Supported'
  BY RunsNow DEF IInv
<1>3. RegistryOK(models)' /\ VersionsOf(models)' = VersionsOf(models)
  BY <1>1, NotedOK DEF IInv
<1>4. releases \in Seq(Nat) /\ Len(releases) = Len(strategies) /\ Versions = DOMAIN releases
  BY LenProperties DEF IInv, Shape, References, Versions
<1>5. /\ releases' \in Seq(Nat) /\ Len(releases') = Len(releases)
      /\ \A w \in Versions : releases'[w] \in {releases[w], record.release}
      /\ \A w \in Versions : releases'[w] # releases[w] => w = v
  <2>1. CASE releases' = releases
    BY <1>4, <2>1
  <2>2. CASE releases' = [releases EXCEPT ![v] = record.release]
    BY <1>1, <1>4, <2>2, ExceptSeq
  <2> QED
    BY <2>1, <2>2
<1>6. \A p \in DOMAIN d.packages :
         StrategyOf(deployments', p) = StrategyOf(d, p) /\ StrategyOf(d, p) \in Versions
  BY <1>2 DEF StrategyOf, Prepared
<1>7. \A p \in DOMAIN deployments.packages :
         p \in DOMAIN d.packages /\ StrategyOf(d, p) = StrategyOf(deployments, p)
  BY DEF StrategyOf, Prepared
<1>8. \A w \in Versions : releases'[w] # 0 =>
        releases'[w] \in DOMAIN d.packages /\ StrategyOf(d, releases'[w]) = w
  <2> SUFFICES ASSUME NEW w \in Versions, releases'[w] # 0
               PROVE  releases'[w] \in DOMAIN d.packages /\ StrategyOf(d, releases'[w]) = w
    OBVIOUS
  <2>1. CASE releases'[w] = releases[w]
    BY <1>7, <2>1 DEF IInv, Shape, References
  <2>2. CASE releases'[w] # releases[w]
    BY <1>5, <2>2
  <2> QED
    BY <2>1, <2>2
<1>9. References'
  <2>1. \A p \in DOMAIN deployments'.packages : StrategyOf(deployments', p) \in Versions
    BY <1>2, <1>6
  <2>2. \A w \in Versions : strategies'[w].model \in VersionsOf(models') \union {0}
    BY <1>2, <1>3 DEF IInv, Shape, References, VersionsOf
  <2>3. \A w \in Versions : releases'[w] # 0 =>
          /\ releases'[w] \in DOMAIN deployments'.packages
          /\ StrategyOf(deployments', releases'[w]) = w
    BY <1>2, <1>6, <1>8
  <2> QED
    BY <1>2, <1>4, <1>5, <2>1, <2>2, <2>3 DEF References
<1>10. Shape'
  BY <1>2, <1>3, <1>5, <1>9 DEF IInv, Shape
<1>11. GatedIsApproved'
  BY EntryApproved
<1> QED
  BY <1>2, <1>10, <1>11 DEF IInv

LEMMA DeployStep ==
  ASSUME IInv, NEW actor \in Actors, NEW v, NEW e \in Environments,
         deploy_strategy_version(actor, v, e)
  PROVE  IInv'
<1> DEFINE d == Registered(v)
           record == [release |-> _release_for(v), is_rollback |-> FALSE, actor |-> actor]
<1>1. /\ v \in Versions /\ strategies[v].stage \in Deployable
      /\ e \in Gated => approval_for(actor, v, e)
      /\ deployments' = [d EXCEPT !.environments[e] = Append(@, record)]
      /\ releases' = [releases EXCEPT ![v] = record.release]
      /\ strategies' = _retire_if_idle(deployments', v, Incumbent(e))
      /\ models' = _note_model_deployment(v, e)
      /\ UNCHANGED <<evidence, approvals>>
  BY DEF deploy_strategy_version, deploy, record_deployment
<1>2. /\ Prepared(d) /\ record.release \in DOMAIN d.packages
      /\ record.release \in Nat \ {0} /\ StrategyOf(d, record.release) = v
  BY <1>1, RegisteredFacts DEF IInv
<1>3. /\ record \in Records /\ ~record.is_rollback /\ record.actor = actor
  BY <1>2 DEF Records
<1> HIDE DEF d, record
<1> QED
  BY <1>1, <1>2, <1>3, LedgerStep

LEMMA RollbackEnvironmentStep ==
  ASSUME IInv, NEW actor \in Actors, NEW e \in Environments, rollback_environment(actor, e)
  PROVE  IInv'
<1> DEFINE d == deployments
           n == Len(History(d, e)) - 1
           record == [release |-> previous_release(d, e), is_rollback |-> TRUE, actor |-> actor]
           v == StrategyOf(d, record.release)
<1>1. /\ HasPrevious(d, e)
      /\ deployments' = [d EXCEPT !.environments[e] = Append(@, record)]
      /\ strategies' = _retire_if_idle(deployments', v, Incumbent(e))
      /\ models' = _note_model_deployment(v, e)
      /\ UNCHANGED <<evidence, approvals, releases>>
  BY DEF rollback_environment, rollback_release, record_deployment
<1>2. ManagerOK(d) /\ Prepared(d)
  BY DEF IInv, Shape, References, Supported, Prepared
<1>3. History(d, e) \in Seq(Records) /\ n \in DOMAIN History(d, e)
  BY <1>1, <1>2, LenProperties DEF ManagerOK, History, HasPrevious
<1>4. /\ History(d, e)[n] \in Records
      /\ record.release = History(d, e)[n].release
      /\ record.release \in DOMAIN d.packages
  BY <1>2, <1>3 DEF ManagerOK, previous_release
<1>5. record \in Records
  BY <1>4 DEF Records
<1> HIDE DEF record
<1>6. e \in Gated => \E k \in DOMAIN History(deployments, e) :
                       History(deployments, e)[k].release = record.release
  BY <1>3, <1>4
<1> QED
  BY <1>1, <1>2, <1>4, <1>5, <1>6, LedgerStep

-----------------------------------------------------------------------------
(* The invariant *)

LEMMA NextInv == IInv /\ [Next]_vars => IInv'
<1> SUFFICES ASSUME IInv, [Next]_vars PROVE IInv'
  OBVIOUS
<1>1. CASE register_model_version
  BY <1>1, RegisterModelStep
<1>2. CASE \E m \in 0 .. MaxModels : register_strategy(m)
  BY <1>2, RegisterStrategyStep
<1>3. CASE \E id \in Evidence : record_evidence(id)
  BY <1>3, RecordEvidenceStep
<1>4. ASSUME NEW actor \in Actors, NEW v \in 1 .. MaxStrategies, NEW id \in Evidence,
             promote_strategy_version(actor, v, id)
      PROVE  IInv'
  BY <1>4, PromoteVersionStep
<1>5. ASSUME NEW actor \in Actors, NEW v \in 1 .. MaxStrategies,
             retire_strategy_version(actor, v)
      PROVE  IInv'
  BY <1>5, RetireStep
<1>6. ASSUME NEW actor \in Actors, NEW v \in 1 .. MaxStrategies, NEW e \in Environments,
             approve_deployment(actor, v, e)
      PROVE  IInv'
  BY <1>6, ApproveStep
<1>7. ASSUME NEW actor \in Actors, NEW v \in 1 .. MaxStrategies, NEW e \in Environments,
             deploy_strategy_version(actor, v, e)
      PROVE  IInv'
  BY <1>7, DeployStep
<1>8. CASE \E actor \in Actors, e \in Environments : rollback_environment(actor, e)
  BY <1>8, RollbackEnvironmentStep
<1>9. CASE \E v \in 1 .. MaxModels, stage \in Stages : promote_model(v, stage)
  BY <1>9, PromoteModelStep
<1>10. CASE rollback_model
  BY <1>10, RollbackModelStep
<1>11. CASE UNCHANGED vars
  BY <1>11 DEF vars, IInv, Shape, References, LiveIsProduction, GatedIsApproved,
               Supported, Supports, Versions
<1> QED
  BY <1>1, <1>2, <1>3, <1>4, <1>5, <1>6, <1>7, <1>8, <1>9, <1>10, <1>11 DEF Next

LEMMA Invariant == Spec => []IInv
<1>1. Init => IInv
  BY InitInv
<1>2. IInv /\ [Next]_vars => IInv'
  BY NextInv
<1> QED
  BY <1>1, <1>2, PTL DEF Spec

-----------------------------------------------------------------------------
(* What follows from it *)

\* A sequence is over any set that holds its elements.
LEMMA Elements ==
  ASSUME NEW S, NEW T, NEW q \in Seq(S), \A n \in DOMAIN q : q[n] \in T
  PROVE  q \in Seq(T)
<1>1. Len(q) \in Nat /\ DOMAIN q = 1 .. Len(q) /\ q \in [1 .. Len(q) -> S]
  BY LenProperties
<1>2. q \in [1 .. Len(q) -> T]
  BY <1>1
<1> QED
  BY <1>1, <1>2, SeqDef

LEMMA InvGivesRegistry == IInv => RegistryInv
<1> SUFFICES ASSUME IInv PROVE TypeOK /\ OneProductionModel
  BY DEF RegistryInv
<1> USE DEF IInv, Shape
<1>1. /\ models.versions \in Seq(ModelVersions) /\ models.line \in Seq(Nat)
      /\ models.production \in VersionsOf(models) \union {0}
      /\ \A n \in DOMAIN models.line : models.line[n] \in VersionsOf(models)
      /\ \A v \in VersionsOf(models) :
           StageOf(models, v) = "PRODUCTION" <=> v = models.production
      /\ models.production # 0 => models.line[Len(models.line)] = models.production
  BY DEF RegistryOK
<1>2. models.line \in Seq(VersionsOf(models))
  BY <1>1, Elements
<1>3. strategies \in Seq([model : VersionsOf(models) \union {0}, stage : Stages,
                          evidence : Evidence \union {None}])
  <2>1. strategies \in Seq(VersionRecords)
    OBVIOUS
  <2>2. \A v \in Versions :
          strategies[v] \in [model : VersionsOf(models) \union {0}, stage : Stages,
                             evidence : Evidence \union {None}]
    <3> SUFFICES ASSUME NEW v \in Versions
                 PROVE  strategies[v] \in [model : VersionsOf(models) \union {0}, stage : Stages,
                                           evidence : Evidence \union {None}]
      OBVIOUS
    <3>1. strategies[v] \in VersionRecords
      BY <2>1 DEF Versions
    <3>2. strategies[v].model \in VersionsOf(models) \union {0}
      BY DEF References
    <3> QED
      BY <3>1, <3>2 DEF VersionRecords
  <2> QED
    BY <2>1, <2>2, Elements DEF Versions
<1>4. releases \in [Versions -> DOMAIN deployments.packages \union {0}]
  BY LenProperties DEF References, Versions
<1>5. /\ deployments.packages \in Seq(Manifests)
      /\ deployments.environments \in [Environments -> Seq(Records)]
      /\ \A e \in Environments : \A n \in DOMAIN History(deployments, e) :
           History(deployments, e)[n].release \in DOMAIN deployments.packages
      /\ \A p \in DOMAIN deployments.packages : StrategyOf(deployments, p) \in Versions
  BY DEF ManagerOK, References
<1>6. TypeOK
  BY <1>1, <1>2, <1>3, <1>4, <1>5 DEF TypeOK, ModelVersions
<1>7. 0 \notin VersionsOf(models)
  BY <1>1, LenProperties DEF VersionsOf
<1>8. OneProductionModel
  BY <1>1, <1>7 DEF OneProductionModel
<1> QED
  BY <1>6, <1>8

LEMMA InvGivesEvidenced == IInv => RunningIsEvidenced
<1> SUFFICES ASSUME IInv, NEW e \in Environments, Deployed(deployments, e)
             PROVE  LET v == Active(deployments, e)
                    IN  \A id \in {strategies[v].evidence,
                                   deployments.packages[active_release(deployments, e)].evidence} :
                          id \in evidence /\ About[id] = v /\ id \in Passes
  BY DEF RunningIsEvidenced
<1>1. History(deployments, e) \in Seq(Records) /\ History(deployments, e) # <<>>
  BY DEF IInv, Shape, ManagerOK, History, Deployed
<1>2. Len(History(deployments, e)) \in DOMAIN History(deployments, e)
  BY <1>1, LenProperties, EmptySeq
<1>3. active_release(deployments, e) \in DOMAIN deployments.packages
  BY <1>2 DEF IInv, Shape, ManagerOK, active_release
<1> QED
  BY <1>3 DEF IInv, Supported, Supports, Active

\* The four stores keep their shape, every reference among them names something
\* registered, and the registry has one production model at most, which its
\* production line names last, after any promotions, archivals and rollbacks.
THEOREM RegistryTheorem == Spec => []RegistryInv
BY Invariant, InvGivesRegistry, PTL

\* The ledger and the stages never disagree: a version is in PRODUCTION exactly
\* when some environment runs it, across deployments, rollbacks and retirements.
THEOREM LiveIsProductionTheorem == Spec => []LiveIsProduction
<1>1. IInv => LiveIsProduction
  BY DEF IInv
<1> QED
  BY <1>1, Invariant, PTL

\* A rollback needs no approval of its own: whatever a gated environment runs was
\* approved there, by someone other than a principal who deployed it there.
THEOREM GatedIsApprovedTheorem == Spec => []GatedIsApproved
<1>1. IInv => GatedIsApproved
  BY DEF IInv
<1> QED
  BY <1>1, Invariant, PTL

\* What an environment runs rests on recorded evidence about that very version
\* that passed, as the version says now and as its package said when built.
THEOREM RunningIsEvidencedTheorem == Spec => []RunningIsEvidenced
BY Invariant, InvGivesEvidenced, PTL
=============================================================================
