---------------------------- MODULE MCMaintenance ----------------------------
(***************************************************************************)
(* The three kinds of maintenance that leave the database in service: an   *)
(* upgrade of the schema, backups, and the rollout of 0019.  The lock of   *)
(* the lifecycle keeps an upgrade and a backup apart, and a rollout has a  *)
(* window of its own, so each behaviour is of one kind.                    *)
(***************************************************************************)
EXTENDS SchemaMigration, TLC

CONSTANTS
  Hosts, Nowhere, MaxRuns, Daily, Weekly, DaysPerWeek, MaxDay, MaxFailures,
  Pairs, Commands, None, Life, Margin, MaxTime, MaxAttempts

VARIABLES
  day, lock, flock, run, staged, local, astray, remote, failures,
  now, head, fields, cursor, expiry, refreshed, attempts, file, lease, command, faults,
  kind \* what is maintained

\* The retention of backups counts runs.
ASSUME BackupAssumption == MaxRuns \in Nat

backup == <<day, lock, flock, run, staged, local, astray, remote, failures>>
rollout == <<now, head, fields, cursor, expiry, refreshed, attempts, file, lease, command, faults>>

Backup == INSTANCE BackupPublication
Rollout == INSTANCE CalendarRollout WITH MaxMishaps <- 1, mishaps <- faults

MCInit ==
  /\ kind \in {"schema", "backup", "rollout"}
  /\ Init /\ (kind # "schema" => Unset = {} /\ sealed)
  /\ Backup!Init
  /\ Rollout!Init
  /\ kind # "rollout" => Rollout!Affected = {} /\ \A p \in Pairs : cursor[p] = "none"

MCNext ==
  \/ kind = "schema" /\ Next /\ UNCHANGED <<backup, rollout, kind>>
  \/ kind = "backup" /\ Backup!Next /\ UNCHANGED <<schemaVars, rollout, kind>>
  \/ kind = "rollout" /\ Rollout!Next /\ UNCHANGED <<schemaVars, backup, kind>>

MCSpec == MCInit /\ [][MCNext]_<<schemaVars, backup, rollout, kind>>

MCSymmetry == Permutations(Hosts) \cup Permutations(Pairs) \cup Permutations(Commands)

\* A public manifest marks a whole group.
MarkerIsWhole == Backup!MarkerIsWhole

\* The newest group that a run has published stays, here and remotely.
NewestStays == Backup!NewestStays

\* Whatever 0019 found sealed is marked until it has been read again.
LegacyIsMarked == Rollout!LegacyIsMarked

\* The next plan of a recovery refuses no mark.
NextPlanWorks == Rollout!NextPlanWorks
=============================================================================
