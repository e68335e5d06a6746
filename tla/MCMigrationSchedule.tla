------------------------- MODULE MCMigrationSchedule -------------------------
(* Values for TLC: two ConfigMaps, a finalSchedule that is unset, past at a   *)
(* restart, or ahead, and a pod that is started at most twice.                *)
EXTENDS MigrationSchedule

CONSTANTS r1, r2

MCRequests == {r1, r2}
OneRequest == {r1}
MCTimestamps == {0, 2}
FinalTimestamps == {2}
ScheduleTimestamps == {0, 1, 2}

=============================================================================
