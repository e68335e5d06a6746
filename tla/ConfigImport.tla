----------------------------- MODULE ConfigImport -----------------------------
(* migration/config: SyncConfig replaces the configuration of the target     *)
(* system by that of the source system: the global config but for the keys   *)
(* to keep, the config of each dogu (normal, sensitive, local) but for the   *)
(* excluded keys, and the backup schedules.  The first error ends it, but    *)
(* for a schedule that cannot be deleted.                                    *)
(*                                                                           *)
(* A configuration is a function from its keys to their values, and NoConfig *)
(* where there is none.  A call that writes and fails was applied or not.    *)

CONSTANTS
    ConfigDogus,    \* the dogus in the configuration of the source system
    Nginx,          \* the dogu that importDoguConfigs passes over
    Keys, KeyValues,    \* the keys of configs, and their values
    KeptKeys,       \* global: globalConfigKeysToKeep and those the user adds
    ExcludedKeys,   \* the keys the user excludes, for each dogu
    Schedules,      \* names of backup schedules
    SourceConfigs,  \* what the exporter may answer: [global, dogus, local, schedules]
    TargetConfigs,  \* what there may be before: [global, dogus, local, schedules, api]
    NoConfig

Stores == {"normal", "sensitive"}
Targets == ConfigDogus \X Stores
Empty == [k \in {} |-> k]
Configs == UNION {[keys -> KeyValues] : keys \in SUBSET Keys}

ASSUME ConfigAssumption ==
    /\ ConfigDogus # {} /\ Schedules # {} /\ SourceConfigs # {}
    /\ NoConfig \notin Configs
    /\ ExcludedKeys \in [ConfigDogus -> SUBSET Keys]
    /\ SourceConfigs \subseteq
          [global : Configs, dogus : [Targets -> Configs], local : SUBSET ConfigDogus,
           schedules : SUBSET Schedules]
    /\ TargetConfigs \subseteq
          [global : Configs \cup {NoConfig}, dogus : [Targets -> Configs \cup {NoConfig}],
           local : [ConfigDogus -> {"noDir", "old"}], schedules : [Schedules -> {"absent", "old"}],
           api : BOOLEAN]

VARIABLES
    cfg,            \* where SyncConfig is
    taken,          \* the configuration of the source system
    read,           \* the config that is to be replaced, as it was read
    dogusLeft,      \* the dogus importDoguConfigs has not come to
    at,             \* the dogu and the store it is at
    schedulesLeft,  \* the backup schedules that are left
    schedule,       \* the schedule it is at
    warned,         \* the schedules that could not be deleted
    cfgError,       \* SyncConfig returns an error
    globalConfig, doguConfig, localConfig, schedules,   \* what is in the cluster
    scheduleApi     \* the BackupSchedule API is available

cursorVars == <<taken, read, dogusLeft, at, schedulesLeft, schedule, warned>>
storedVars == <<globalConfig, doguConfig, localConfig, schedules>>
cfgVars == <<cfg, cursorVars, cfgError, storedVars, scheduleApi>>

CfgTypeOK ==
    /\ cfg \in {"off", "fetch", "global", "globalWrite", "dogu", "read", "write", "local",
                "localWrite", "schedules", "delete", "wait", "create", "done"}
    /\ taken \in SourceConfigs
    /\ dogusLeft \subseteq ConfigDogus /\ at \in Targets
    /\ schedulesLeft \subseteq Schedules /\ schedule \in Schedules /\ warned \subseteq Schedules
    /\ cfgError \in BOOLEAN /\ scheduleApi \in BOOLEAN
    /\ read \in Configs \cup {NoConfig}
    /\ cfg \in {"globalWrite", "write"} => read # NoConfig
    /\ globalConfig \in Configs \cup {NoConfig}
    /\ doguConfig \in [Targets -> Configs \cup {NoConfig}]
    /\ localConfig \in [ConfigDogus -> {"noDir", "old", "cut", "new"}]
    /\ schedules \in [Schedules -> {"absent", "old", "terminating", "new"}]
    /\ cfg = "create" => schedules[schedule] = "absent"

CfgInit ==
    /\ cfg = "off" /\ cfgError = FALSE
    /\ taken \in SourceConfigs /\ taken = (CHOOSE c \in SourceConfigs : TRUE)
    /\ read = NoConfig /\ dogusLeft = {} /\ schedulesLeft = {} /\ warned = {}
    /\ at = (CHOOSE t \in Targets : TRUE) /\ schedule = (CHOOSE s \in Schedules : TRUE)
    /\ \E c \in TargetConfigs :
          /\ globalConfig = c.global /\ doguConfig = c.dogus
          /\ localConfig = c.local /\ schedules = c.schedules /\ scheduleApi = c.api

CfgFails ==
    /\ cfg' = "done" /\ cfgError' = TRUE
    /\ UNCHANGED <<cursorVars, scheduleApi>>

-----------------------------------------------------------------------------
(* What is written.  Both start from an empty config, so that nothing of the *)
(* old one is left but what is kept.                                         *)

\* Mutation: the exporter's value of a key to keep is taken as well.
MergedGlobalForgetsKept(old, new) ==
    [k \in (DOMAIN old \cap KeptKeys) \cup DOMAIN new |->
        IF k \in DOMAIN new THEN new[k] ELSE old[k]]

\* importGlobalConfig, addConfigToKeepToRegistry.
MergedGlobal(old, new) ==
    [k \in (DOMAIN old \cap KeptKeys) \cup (DOMAIN new \ KeptKeys) |->
        IF k \in KeptKeys THEN old[k] ELSE new[k]]

\* Mutation: an excluded key that the target system does not have is taken from
\* the source system.
MergedDoguTakesNew(old, new, excluded) ==
    [k \in DOMAIN new |-> IF k \in excluded /\ k \in DOMAIN old THEN old[k] ELSE new[k]]

\* importDoguConfigWithRepo, setOriginalValueForKey: of the excluded keys, only
\* one that the exporter sends, too, keeps its value.
MergedDogu(old, new, excluded) ==
    [k \in {x \in DOMAIN new : x \in excluded => x \in DOMAIN old} |->
        IF k \in excluded THEN old[k] ELSE new[k]]

-----------------------------------------------------------------------------
(* SyncConfig, importGlobalConfig. *)

CfgBegins ==
    /\ cfg' = "fetch" /\ cfgError' = FALSE
    /\ warned' = {}
    /\ UNCHANGED <<taken, read, dogusLeft, at, schedulesLeft, schedule, storedVars, scheduleApi>>

GetConfig ==
    /\ cfg = "fetch"
    /\ \/ /\ cfg' = "global" /\ taken' \in SourceConfigs
          /\ UNCHANGED <<read, dogusLeft, at, schedulesLeft, schedule, warned, cfgError, scheduleApi>>
       \/ CfgFails
    /\ UNCHANGED storedVars

\* Get, and Create where it finds none.
GlobalIsRead ==
    /\ cfg = "global"
    /\ \/ /\ globalConfig' = IF globalConfig = NoConfig THEN Empty ELSE globalConfig
          /\ read' = globalConfig'
          /\ cfg' = "globalWrite"
          /\ UNCHANGED <<taken, dogusLeft, at, schedulesLeft, schedule, warned, cfgError, scheduleApi>>
       \/ /\ globalConfig' \in {globalConfig, IF globalConfig = NoConfig THEN Empty ELSE globalConfig}
          /\ CfgFails
    /\ UNCHANGED <<doguConfig, localConfig, schedules>>

GlobalIsWritten ==
    /\ cfg = "globalWrite"
    /\ \/ /\ globalConfig' = MergedGlobal(read, taken.global)
          /\ cfg' = "dogu" /\ dogusLeft' = ConfigDogus
          /\ UNCHANGED <<taken, read, at, schedulesLeft, schedule, warned, cfgError, scheduleApi>>
       \/ globalConfig' \in {globalConfig, MergedGlobal(read, taken.global)} /\ CfgFails
    /\ UNCHANGED <<doguConfig, localConfig, schedules>>

-----------------------------------------------------------------------------
(* importDoguConfigs, importDoguConfig. *)

NextDogu ==
    /\ cfg = "dogu"
    /\ \E d \in dogusLeft :
          /\ dogusLeft' = dogusLeft \ {d}
          /\ \/ d = Nginx /\ UNCHANGED <<cfg, at>>
             \/ d # Nginx /\ cfg' = "read" /\ at' = <<d, "normal">>
    /\ UNCHANGED <<taken, read, schedulesLeft, schedule, warned, cfgError, storedVars, scheduleApi>>

DoguConfigIsRead ==
    LET found == IF doguConfig[at] = NoConfig THEN Empty ELSE doguConfig[at]
        created == [doguConfig EXCEPT ![at] = found]
    IN  /\ cfg = "read"
        /\ \/ /\ doguConfig' = created /\ read' = found
              /\ cfg' = "write"
              /\ UNCHANGED <<taken, dogusLeft, at, schedulesLeft, schedule, warned, cfgError, scheduleApi>>
           \/ doguConfig' \in {doguConfig, created} /\ CfgFails
        /\ UNCHANGED <<globalConfig, localConfig, schedules>>

\* Mutation: the config is wiped in the cluster before it is written.
DoguConfigIsWipedFirst ==
    LET written == [doguConfig EXCEPT ![at] = MergedDogu(read, taken.dogus[at], ExcludedKeys[at[1]])]
        wiped == [doguConfig EXCEPT ![at] = Empty]
    IN  /\ cfg = "write"
        /\ \/ /\ doguConfig' = written
              /\ IF at[2] = "normal" THEN cfg' = "read" /\ at' = <<at[1], "sensitive">>
                                     ELSE cfg' = "local" /\ UNCHANGED at
              /\ UNCHANGED <<taken, read, dogusLeft, schedulesLeft, schedule, warned, cfgError, scheduleApi>>
           \/ doguConfig' \in {doguConfig, wiped, written} /\ CfgFails
        /\ UNCHANGED <<globalConfig, localConfig, schedules>>

DoguConfigIsWritten ==
    LET written == [doguConfig EXCEPT ![at] = MergedDogu(read, taken.dogus[at], ExcludedKeys[at[1]])]
    IN  /\ cfg = "write"
        /\ \/ /\ doguConfig' = written
              /\ IF at[2] = "normal" THEN cfg' = "read" /\ at' = <<at[1], "sensitive">>
                                     ELSE cfg' = "local" /\ UNCHANGED at
              /\ UNCHANGED <<taken, read, dogusLeft, schedulesLeft, schedule, warned, cfgError, scheduleApi>>
           \/ doguConfig' \in {doguConfig, written} /\ CfgFails
        /\ UNCHANGED <<globalConfig, localConfig, schedules>>

\* importLocalConfig.  Nothing is done when the source system has no local
\* config, or the volume of the dogu no directory for it.  To open the file is
\* to truncate it.
LocalConfigIsOpened ==
    /\ cfg = "local"
    /\ \/ /\ at[1] \notin taken.local \/ localConfig[at[1]] = "noDir"
          /\ cfg' = "dogu" /\ UNCHANGED <<localConfig, cursorVars, cfgError, scheduleApi>>
       \/ /\ at[1] \in taken.local /\ localConfig[at[1]] # "noDir"
          /\ \/ /\ localConfig' = [localConfig EXCEPT ![at[1]] = "cut"]
                /\ cfg' = "localWrite" /\ UNCHANGED <<cursorVars, cfgError, scheduleApi>>
             \/ UNCHANGED localConfig /\ CfgFails
    /\ UNCHANGED <<globalConfig, doguConfig, schedules>>

LocalConfigIsWritten ==
    /\ cfg = "localWrite"
    /\ \/ /\ localConfig' = [localConfig EXCEPT ![at[1]] = "new"]
          /\ cfg' = "dogu" /\ UNCHANGED <<cursorVars, cfgError, scheduleApi>>
       \/ UNCHANGED localConfig /\ CfgFails
    /\ UNCHANGED <<globalConfig, doguConfig, schedules>>

DogusAreDone ==
    /\ cfg = "dogu" /\ dogusLeft = {}
    /\ cfg' = "schedules" /\ schedulesLeft' = taken.schedules
    /\ UNCHANGED <<taken, read, dogusLeft, at, schedule, warned, cfgError, storedVars, scheduleApi>>

-----------------------------------------------------------------------------
(* importBackupSchedules, delete.  The resource is deleted, waited for until *)
(* its finalizers are done, and created again.                               *)

ScheduleFrame == UNCHANGED <<taken, read, dogusLeft, at, cfgError, globalConfig, doguConfig,
                             localConfig, scheduleApi>>

NextSchedule ==
    /\ cfg = "schedules"
    /\ \E s \in schedulesLeft :
          /\ schedulesLeft' = schedulesLeft \ {s} /\ schedule' = s
          /\ cfg' = "delete"
    /\ UNCHANGED <<warned, schedules>> /\ ScheduleFrame

\* Without the API, a Watch finds nothing, and the import of schedules is over.
ScheduleApiIsMissing ==
    /\ cfg = "delete" /\ ~scheduleApi
    /\ cfg' = "done"
    /\ UNCHANGED <<schedulesLeft, schedule, warned, schedules>> /\ ScheduleFrame

DeleteSchedule ==
    /\ cfg = "delete" /\ scheduleApi
    /\ \/ /\ schedules[schedule] = "absent"
          /\ cfg' = "create" /\ UNCHANGED schedules
       \/ /\ schedules[schedule] # "absent"
          /\ schedules' = [schedules EXCEPT ![schedule] = "terminating"]
          /\ cfg' = "wait"
    /\ UNCHANGED <<schedulesLeft, schedule, warned>> /\ ScheduleFrame

\* Watch or Delete fails, or the deletion takes too long: a warning, and the
\* next schedule.
ScheduleIsNotDeleted ==
    /\ cfg \in {"delete", "wait"} /\ scheduleApi
    /\ schedules' \in {schedules, [schedules EXCEPT ![schedule] =
                                      IF @ = "absent" THEN "absent" ELSE "terminating"]}
    /\ warned' = warned \cup {schedule}
    /\ cfg' = "schedules"
    /\ UNCHANGED <<schedulesLeft, schedule>> /\ ScheduleFrame

\* Mutation: the schedule is created before the old one is gone.
DeletionIsNotAwaited ==
    /\ cfg = "wait"
    /\ cfg' = "create"
    /\ UNCHANGED <<schedulesLeft, schedule, warned, schedules>> /\ ScheduleFrame

DeletionIsSeen ==
    /\ cfg = "wait" /\ schedules[schedule] = "absent"
    /\ cfg' = "create"
    /\ UNCHANGED <<schedulesLeft, schedule, warned, schedules>> /\ ScheduleFrame

CreateSchedule ==
    /\ cfg = "create"
    /\ \/ /\ schedules' = [schedules EXCEPT ![schedule] = "new"]
          /\ cfg' = "schedules"
          /\ UNCHANGED <<schedulesLeft, schedule, warned>> /\ ScheduleFrame
       \/ /\ \E s \in {"absent", "new"} : schedules' = [schedules EXCEPT ![schedule] = s]
          /\ CfgFails /\ UNCHANGED <<globalConfig, doguConfig, localConfig>>

SchedulesAreDone ==
    /\ cfg = "schedules" /\ schedulesLeft = {}
    /\ cfg' = "done"
    /\ UNCHANGED <<schedulesLeft, schedule, warned, schedules>> /\ ScheduleFrame

CfgStops == cfg' = "off" /\ UNCHANGED <<cursorVars, cfgError, storedVars, scheduleApi>>

CfgNext ==
    \/ GetConfig \/ GlobalIsRead \/ GlobalIsWritten
    \/ NextDogu \/ DoguConfigIsRead \/ DoguConfigIsWritten
    \/ LocalConfigIsOpened \/ LocalConfigIsWritten \/ DogusAreDone
    \/ NextSchedule \/ ScheduleApiIsMissing \/ DeleteSchedule \/ ScheduleIsNotDeleted
    \/ DeletionIsSeen \/ CreateSchedule \/ SchedulesAreDone

\* The finalizers of a deleted schedule are done, in its own time.
ScheduleGoes ==
    /\ \E s \in Schedules :
          /\ schedules[s] = "terminating"
          /\ schedules' = [schedules EXCEPT ![s] = "absent"]
    /\ UNCHANGED <<cfg, cursorVars, cfgError, globalConfig, doguConfig, localConfig, scheduleApi>>

=============================================================================
