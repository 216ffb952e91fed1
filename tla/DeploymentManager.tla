-------------------------- MODULE DeploymentManager --------------------------
(* alphalab/deployment_manager: the packages of one release line and, for    *)
(* each environment, the append-only record of what was deployed to it.  A   *)
(* manager is a value that each operation replaces.  A package is what its   *)
(* manifest names; its checksum is computed from the manifest when it is     *)
(* built and nothing edits a package, so it always verifies.                 *)
EXTENDS Naturals, Sequences

CONSTANT Environments

EmptyManager == [packages |-> <<>>, environments |-> [e \in Environments |-> <<>>]]

History(m, e)  == m.environments[e]
Deployed(m, e) == History(m, e) # <<>>

\* The newest entry, and the one before it, as version numbers of packages.
active_release(m, e)    == History(m, e)[Len(History(m, e))].release
HasPrevious(m, e)       == Len(History(m, e)) >= 2
previous_release(m, e)  == History(m, e)[Len(History(m, e)) - 1].release

register_release(m, manifest) == [m EXCEPT !.packages = Append(@, manifest)]

record_deployment(m, e, release, is_rollback, actor) ==
  [m EXCEPT !.environments[e] =
     Append(@, [release |-> release, is_rollback |-> is_rollback, actor |-> actor])]

CanDeploy(m, e, release) == Deployed(m, e) => active_release(m, e) # release

deploy(m, e, release, actor) == record_deployment(m, e, release, FALSE, actor)

rollback_release(m, e, actor) ==
  record_deployment(m, e, previous_release(m, e), TRUE, actor)
=============================================================================
