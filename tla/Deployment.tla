------------------------------ MODULE Deployment ------------------------------
(***************************************************************************)
(* The stack of compose.yml: migration jobs and one API process over the    *)
(* same database.  The API process is created once a migration job has      *)
(* succeeded; it runs no migration itself, and its startup check, SELECT 1, *)
(* does not look at the schema.                                             *)
(***************************************************************************)
EXTENDS GracefulShutdown, Migrations

deploymentVars == <<vars, migrationsVars>>

DeploymentInit == Init /\ MigrationsInit

\* depends_on: migration, with the condition service_completed_successfully.
MigrationCompleted == \E j \in Jobs : jobs[j].phase = "succeeded"

\* A step of the API process, which is created after the migration.
ApiSteps ==
  /\ Next
  /\ (coordinator.phase = "loading" /\ coordinator'.phase # "loading") => MigrationCompleted
  /\ UNCHANGED migrationsVars

\* A step of a migration job, which may also run while the API serves.
MigrationSteps == MigrationsNext /\ UNCHANGED vars

DeploymentNext == ApiSteps \/ MigrationSteps

\* The fairness of the API process alone: no migration job is assumed to end.
DeploymentSpec == DeploymentInit /\ [][DeploymentNext]_deploymentVars /\ Fairness

-------------------------------------------------------------------------------
(* Properties                                                               *)

\* An API process that takes requests finds the whole schema, although it never
\* checks: the migration that it waited for has left nothing to apply, and no later
\* or concurrent job takes anything away.
ServingMeansMigrated ==
  resources.http \in {"accepting", "stopping"} => schema = Files
===============================================================================
