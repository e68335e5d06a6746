---------------------------- MODULE ImportJobProofs ----------------------------
(* Theorems about ImportJob for any dogus, volumes, configurations and        *)
(* schedules: its types, that the keys to keep are kept and no config is half *)
(* written, and that a job which ends well has imported everything.           *)
EXTENDS ImportJob, TLAPS

-----------------------------------------------------------------------------
(* What is written into a config. *)

\* What importGlobalConfig writes is a config: it keeps what it has to of the
\* old one, and the rest is that of the source system.
LEMMA GlobalIsMerged ==
    ASSUME NEW old \in Configs, NEW new \in Configs
    PROVE  LET merged == MergedGlobal(old, new)
           IN  /\ merged \in Configs
               /\ IsOfSource(merged, new, KeptKeys)
               /\ DOMAIN merged \cap KeptKeys = DOMAIN old \cap KeptKeys
               /\ \A k \in DOMAIN old \cap KeptKeys : merged[k] = old[k]
<1> DEFINE merged == MergedGlobal(old, new)
           keys == (DOMAIN old \cap KeptKeys) \cup (DOMAIN new \ KeptKeys)
<1>1. PICK K \in SUBSET Keys : old \in [K -> KeyValues] BY DEF Configs
<1>2. PICK N \in SUBSET Keys : new \in [N -> KeyValues] BY DEF Configs
<1>3. keys \in SUBSET Keys BY <1>1, <1>2
<1>4. \A k \in keys : (IF k \in KeptKeys THEN old[k] ELSE new[k]) \in KeyValues BY <1>1, <1>2
<1>5. merged \in [keys -> KeyValues] BY <1>4 DEF MergedGlobal
<1>6. merged \in Configs BY <1>3, <1>5 DEF Configs
<1>7. \A k \in keys : merged[k] = IF k \in KeptKeys THEN old[k] ELSE new[k] BY DEF MergedGlobal
<1>8. DOMAIN merged = keys BY <1>5
<1> QED BY <1>6, <1>7, <1>8 DEF IsOfSource

KeepsExcluded(old, c, new, excluded) ==
    /\ \A k \in DOMAIN c \cap excluded : k \in DOMAIN old /\ c[k] = old[k]
    /\ \A k \in DOMAIN old \cap DOMAIN new \cap excluded : k \in DOMAIN c

\* What importDoguConfigWithRepo writes is a config, of the source system but for
\* the excluded keys: of those it has the old value or none, and each that both
\* systems have.
LEMMA DoguIsMerged ==
    ASSUME NEW old \in Configs, NEW new \in Configs, NEW excluded \in SUBSET Keys
    PROVE  /\ MergedDogu(old, new, excluded) \in Configs
           /\ IsOfSource(MergedDogu(old, new, excluded), new, excluded)
           /\ KeepsExcluded(old, MergedDogu(old, new, excluded), new, excluded)
<1> DEFINE merged == MergedDogu(old, new, excluded)
           keys == {k \in DOMAIN new : k \in excluded => k \in DOMAIN old}
<1>1. PICK K \in SUBSET Keys : old \in [K -> KeyValues] BY DEF Configs
<1>2. PICK N \in SUBSET Keys : new \in [N -> KeyValues] BY DEF Configs
<1>3. keys \in SUBSET Keys BY <1>2
<1>4. \A k \in keys : (IF k \in excluded THEN old[k] ELSE new[k]) \in KeyValues BY <1>1, <1>2
<1>5. merged \in [keys -> KeyValues] BY <1>4 DEF MergedDogu
<1>6. merged \in Configs BY <1>3, <1>5 DEF Configs
<1>7. \A k \in keys : merged[k] = IF k \in excluded THEN old[k] ELSE new[k] BY DEF MergedDogu
<1>8. DOMAIN merged = keys BY <1>5
<1>9. IsOfSource(merged, new, excluded) BY <1>7, <1>8 DEF IsOfSource
<1>10. KeepsExcluded(old, merged, new, excluded) BY <1>7, <1>8 DEF KeepsExcluded
<1> QED BY <1>6, <1>9, <1>10

\* A config without keys is a config.
LEMMA EmptyIsConfig == Empty \in Configs /\ Empty # NoConfig
<1>1. Empty \in [{} -> KeyValues] BY DEF Empty
<1>2. Empty \in Configs BY <1>1 DEF Configs
<1> QED BY <1>2, ConfigAssumption

-----------------------------------------------------------------------------
(* Types. *)

\* The dogu that SyncData is at is not excluded, and has no directories left when
\* it is done with it.
SyncPlaceInv ==
    /\ sync \in {"fetch", "next", "list", "done"} => dirs = {}
    /\ sync \in {"list", "dirs"} => dogu \notin SyncExcluded \cup todo

\* Every step of SyncData, and everybody else's, keeps its types: nothing is
\* copied into a directory that the volume does not have, nor into an excluded
\* dogu.
LEMMA SyncTypeStep ==
    ASSUME SyncTypeOK, SyncPlaceInv,
           \/ SyncNext \/ SyncBegins \/ SyncStops
           \/ OtherSetsExportDogu \/ PreflightSetsExportDogu \/ UNCHANGED syncVars
    PROVE  SyncTypeOK'
<1> USE DataSyncAssumption DEF SyncTypeOK, SyncPlaceInv, Places
<1>1. CASE GetSystemInfo BY <1>1 DEF GetSystemInfo
<1>2. CASE SkipExcluded BY <1>2 DEF SkipExcluded
<1>3. CASE SetExportDogu BY <1>3 DEF SetExportDogu
<1>4. CASE GetSubDirs BY <1>4 DEF GetSubDirs
<1>5. CASE SyncDoguDir
  <2>1. PICK dir \in dirs, c \in Dogus \cup {"no", "part"} :
            /\ copied' = [copied EXCEPT ![<<dogu, dir>>] = c]
            /\ dirs' = dirs \ {dir} /\ syncFailed' \in {syncFailed, syncFailed \cup {dogu}}
    BY <1>5 DEF SyncDoguDir
  <2>2. <<dogu, dir>> \in Places /\ dogu \notin SyncExcluded BY <1>5 DEF SyncDoguDir
  <2>3. copied' \in [Places -> Dogus \cup {"no", "part"}] BY <2>1, <2>2
  <2>4. \A p \in Places : copied'[p] # "no" => p[2] \in Volumes[p[1]] /\ p[1] \notin SyncExcluded
    BY <2>1, <2>2
  <2> QED BY <1>5, <2>1, <2>3, <2>4 DEF SyncDoguDir
<1>6. CASE DoguIsDone BY <1>6 DEF DoguIsDone
<1>7. CASE SyncEnds BY <1>7 DEF SyncEnds
<1>8. CASE SyncBegins BY <1>8 DEF SyncBegins
<1>9. CASE SyncStops BY <1>9 DEF SyncStops
<1>10. CASE OtherSetsExportDogu BY <1>10 DEF OtherSetsExportDogu
<1>11. CASE PreflightSetsExportDogu BY <1>11 DEF PreflightSetsExportDogu
<1>12. CASE UNCHANGED syncVars BY <1>12 DEF syncVars
<1> QED BY <1>1, <1>2, <1>3, <1>4, <1>5, <1>6, <1>7, <1>8, <1>9, <1>10, <1>11, <1>12 DEF SyncNext

\* Every step of SyncConfig, and of the backup operator, keeps its types.
LEMMA CfgTypeStep ==
    ASSUME CfgTypeOK, CfgNext \/ CfgBegins \/ CfgStops \/ ScheduleGoes \/ UNCHANGED cfgVars
    PROVE  CfgTypeOK'
<1> USE ConfigAssumption, EmptyIsConfig DEF CfgTypeOK, Targets, Stores
<1>1. CASE GetConfig BY <1>1 DEF GetConfig, CfgFails, cursorVars, storedVars
<1>2. CASE GlobalIsRead
  <2>1. (IF globalConfig = NoConfig THEN Empty ELSE globalConfig) \in Configs OBVIOUS
  <2>2. globalConfig' \in Configs \cup {NoConfig} BY <1>2, <2>1 DEF GlobalIsRead
  <2>3. read' \in Configs \cup {NoConfig} /\ (cfg' = "globalWrite" => read' # NoConfig)
    BY <1>2, <2>1 DEF GlobalIsRead, CfgFails, cursorVars
  <2>4. cfg' \in {"globalWrite", "done"} /\ cfgError' \in BOOLEAN
    BY <1>2 DEF GlobalIsRead, CfgFails
  <2>5. UNCHANGED <<taken, dogusLeft, at, schedulesLeft, schedule, warned, scheduleApi, doguConfig,
                    localConfig, schedules>>
    BY <1>2 DEF GlobalIsRead, CfgFails, cursorVars
  <2> QED BY <2>2, <2>3, <2>4, <2>5
<1>3. CASE GlobalIsWritten
  <2>1. MergedGlobal(read, taken.global) \in Configs BY <1>3, GlobalIsMerged DEF GlobalIsWritten
  <2> QED BY <1>3, <2>1 DEF GlobalIsWritten, CfgFails, cursorVars
<1>4. CASE NextDogu BY <1>4 DEF NextDogu, storedVars
<1>5. CASE DoguConfigIsRead
  <2>1. (IF doguConfig[at] = NoConfig THEN Empty ELSE doguConfig[at]) \in Configs OBVIOUS
  <2>2. doguConfig' \in [Targets -> Configs \cup {NoConfig}] BY <1>5, <2>1 DEF DoguConfigIsRead
  <2>3. read' \in Configs \cup {NoConfig} /\ (cfg' = "write" => read' # NoConfig)
    BY <1>5, <2>1 DEF DoguConfigIsRead, CfgFails, cursorVars
  <2>4. cfg' \in {"write", "done"} /\ at' = at /\ cfgError' \in BOOLEAN
    BY <1>5 DEF DoguConfigIsRead, CfgFails, cursorVars
  <2>5. UNCHANGED <<taken, dogusLeft, schedulesLeft, schedule, warned, scheduleApi, globalConfig,
                    localConfig, schedules>>
    BY <1>5 DEF DoguConfigIsRead, CfgFails, cursorVars
  <2> QED BY <2>2, <2>3, <2>4, <2>5
<1>6. CASE DoguConfigIsWritten
  <2>1. taken.dogus[at] \in Configs /\ ExcludedKeys[at[1]] \in SUBSET Keys OBVIOUS
  <2>2. MergedDogu(read, taken.dogus[at], ExcludedKeys[at[1]]) \in Configs
    BY <1>6, <2>1, DoguIsMerged DEF DoguConfigIsWritten
  <2>3. doguConfig' \in [Targets -> Configs \cup {NoConfig}] BY <1>6, <2>2 DEF DoguConfigIsWritten
  <2>4. at' = at \/ at' = <<at[1], "sensitive">> BY <1>6 DEF DoguConfigIsWritten, CfgFails, cursorVars
  <2>5. at' \in Targets BY <2>4
  <2>6. cfg' \in {"read", "local", "done"} /\ cfgError' \in BOOLEAN /\ read' = read
    BY <1>6 DEF DoguConfigIsWritten, CfgFails, cursorVars
  <2>7. UNCHANGED <<taken, dogusLeft, schedulesLeft, schedule, warned, scheduleApi, globalConfig,
                    localConfig, schedules>>
    BY <1>6 DEF DoguConfigIsWritten, CfgFails, cursorVars
  <2> QED BY <2>3, <2>5, <2>6, <2>7
<1>7. CASE LocalConfigIsOpened BY <1>7 DEF LocalConfigIsOpened, CfgFails, cursorVars
<1>8. CASE LocalConfigIsWritten BY <1>8 DEF LocalConfigIsWritten, CfgFails, cursorVars
<1>9. CASE DogusAreDone BY <1>9 DEF DogusAreDone, storedVars
<1>10. CASE NextSchedule BY <1>10 DEF NextSchedule, ScheduleFrame
<1>11. CASE ScheduleApiIsMissing BY <1>11 DEF ScheduleApiIsMissing, ScheduleFrame
<1>12. CASE DeleteSchedule BY <1>12 DEF DeleteSchedule, ScheduleFrame
<1>13. CASE ScheduleIsNotDeleted BY <1>13 DEF ScheduleIsNotDeleted, ScheduleFrame
<1>14. CASE DeletionIsSeen BY <1>14 DEF DeletionIsSeen, ScheduleFrame
<1>15. CASE CreateSchedule
  <2>1. \E s \in {"absent", "new"} : schedules' = [schedules EXCEPT ![schedule] = s]
    BY <1>15 DEF CreateSchedule
  <2>2. schedules' \in [Schedules -> {"absent", "old", "terminating", "new"}] BY <2>1
  <2>3. cfg' \in {"schedules", "done"} /\ cfgError' \in BOOLEAN
    BY <1>15 DEF CreateSchedule, ScheduleFrame, CfgFails
  <2>4. UNCHANGED <<cursorVars, scheduleApi, globalConfig, doguConfig, localConfig>>
    BY <1>15 DEF CreateSchedule, ScheduleFrame, CfgFails, cursorVars
  <2> QED BY <2>2, <2>3, <2>4 DEF cursorVars
<1>16. CASE SchedulesAreDone BY <1>16 DEF SchedulesAreDone, ScheduleFrame
<1>17. CASE CfgBegins BY <1>17 DEF CfgBegins, storedVars
<1>18. CASE CfgStops BY <1>18 DEF CfgStops, cursorVars, storedVars
<1>19. CASE ScheduleGoes BY <1>19 DEF ScheduleGoes, cursorVars
<1>20. CASE UNCHANGED cfgVars BY <1>20 DEF cfgVars, cursorVars, storedVars
<1> QED
  BY <1>1, <1>2, <1>3, <1>4, <1>5, <1>6, <1>7, <1>8, <1>9, <1>10, <1>11, <1>12, <1>13, <1>14, <1>15,
     <1>16, <1>17, <1>18, <1>19, <1>20
  DEF CfgNext

-----------------------------------------------------------------------------
(* The data. *)

HoldsOwn(d, places) == \A dir \in places : copied[<<d, dir>>] = d

\* While nobody else uses the exporter: what it exports is the dogu SyncData is
\* at, and each dogu that SyncData has left has its data or is told of.
SyncCopyInv ==
    ~overlapped =>
        /\ sync \in {"list", "dirs"} => exported = dogu
        /\ sync = "dirs" => dogu \in syncFailed \/ HoldsOwn(dogu, Volumes[dogu] \ dirs)
        /\ sync \in {"next", "list", "dirs", "done"} /\ "systemInfo" \notin syncFailed =>
              \A d \in Dogus \ (SyncExcluded \cup todo) :
                  \/ d = dogu /\ sync \in {"list", "dirs"}
                  \/ d \in syncFailed \/ HoldsOwn(d, Volumes[d])
        /\ sync = "done" /\ "systemInfo" \notin syncFailed => todo = {}

\* Each step of SyncData leaves a dogu only with its data or with an error.
LEMMA SyncCopyStep ==
    ASSUME SyncTypeOK, SyncPlaceInv, SyncCopyInv, SyncNext, overlapped' = overlapped
    PROVE  SyncPlaceInv' /\ SyncCopyInv'
<1> USE DataSyncAssumption DEF SyncTypeOK, SyncPlaceInv, SyncCopyInv, HoldsOwn
<1>1. CASE GetSystemInfo BY <1>1 DEF GetSystemInfo
<1>2. CASE SkipExcluded BY <1>2 DEF SkipExcluded
<1>3. CASE SetExportDogu BY <1>3 DEF SetExportDogu
<1>4. CASE GetSubDirs BY <1>4 DEF GetSubDirs
<1>6. CASE DoguIsDone BY <1>6 DEF DoguIsDone
<1>7. CASE SyncEnds BY <1>7 DEF SyncEnds
<1>5. CASE SyncDoguDir
  <2>1. /\ sync = "dirs" /\ sync' = sync /\ todo' = todo /\ dogu' = dogu /\ exported' = exported
        /\ dirs' \subseteq dirs
    BY <1>5 DEF SyncDoguDir
  <2>2. SyncPlaceInv' BY <2>1
  <2>3. ASSUME ~overlapped PROVE dogu \in syncFailed' \/ HoldsOwn(dogu, Volumes[dogu] \ dirs)'
    <3>1. CASE dogu \in syncFailed' BY <3>1
    <3>2. CASE dogu \notin syncFailed'
      <4>1. PICK dir \in dirs : /\ dirs' = dirs \ {dir} /\ syncFailed' = syncFailed
                                /\ copied' = [copied EXCEPT ![<<dogu, dir>>] = exported]
        BY <1>5, <3>2 DEF SyncDoguDir
      <4>2. <<dogu, dir>> \in Places BY <4>1 DEF Places
      <4>3. exported = dogu BY <2>1, <2>3
      <4>4. copied'[<<dogu, dir>>] = dogu BY <4>1, <4>2, <4>3
      <4>5. \A e \in Volumes[dogu] \ dirs : copied[<<dogu, e>>] = dogu BY <2>1, <2>3, <3>2, <4>1
      <4>6. \A e \in Volumes[dogu] \ dirs : <<dogu, e>> \in Places /\ <<dogu, e>> # <<dogu, dir>>
        BY <4>1 DEF Places
      <4>7. \A e \in Volumes[dogu] \ dirs' : e = dir \/ e \in Volumes[dogu] \ dirs BY <4>1
      <4> QED BY <4>1, <4>4, <4>5, <4>6, <4>7, <2>1 DEF Places
    <3> QED BY <3>1, <3>2
  <2>4. syncFailed \subseteq syncFailed'
    BY <1>5 DEF SyncDoguDir
  <2>5. ASSUME NEW d \in Dogus, d # dogu PROVE HoldsOwn(d, Volumes[d]) => HoldsOwn(d, Volumes[d])'
    <3>1. \A e \in Dirs : copied'[<<d, e>>] = copied[<<d, e>>]
      BY <1>5, <2>5 DEF SyncDoguDir, Places
    <3>2. Volumes[d] \subseteq Dirs OBVIOUS
    <3> QED BY <3>1, <3>2
  <2>6. ASSUME ~overlapped, "systemInfo" \notin syncFailed',
               NEW d \in Dogus \ (SyncExcluded \cup todo)
        PROVE  d = dogu \/ d \in syncFailed' \/ HoldsOwn(d, Volumes[d])'
    <3>1. d = dogu \/ d \in syncFailed \/ HoldsOwn(d, Volumes[d]) BY <2>1, <2>4, <2>6
    <3> QED BY <3>1, <2>4, <2>5
  <2> QED BY <2>1, <2>2, <2>3, <2>6
<1> QED BY <1>1, <1>2, <1>3, <1>4, <1>5, <1>6, <1>7 DEF SyncNext

\* When SyncData returns without an error all data is there.
LEMMA NilMeansCopied ==
    ASSUME SyncTypeOK, SyncCopyInv, sync = "done", syncFailed = {}, ~overlapped
    PROVE  AllCopied
BY DEF SyncCopyInv, HoldsOwn, AllCopied

-----------------------------------------------------------------------------
(* The configuration. *)

InLoop == cfg \in {"dogu", "read", "write", "local", "localWrite"}
InSchedules ==
    \/ cfg \in {"schedules", "delete", "wait", "create"}
    \/ cfg = "done" /\ ~cfgError
AtDogu == cfg \in {"read", "write", "local", "localWrite"}

\* importDoguConfigs has written the config t, or passed over it.
Written(t) ==
    t[1] \notin dogusLeft
        /\ ~(cfg \in {"read", "write"} /\ t[1] = at[1] /\ (t = at \/ at[2] = "normal"))

IsNew(t) == doguConfig[t] # NoConfig /\ IsOfSource(doguConfig[t], taken.dogus[t], ExcludedKeys[t[1]])

CfgLoopInv ==
    /\ cfg \notin {"off", "done"} => ~cfgError
    /\ InSchedules => dogusLeft = {}
    /\ AtDogu => at[1] \notin dogusLeft /\ at[1] # Nginx

\* What SyncConfig has imported so far.
GlobalInv ==
    InLoop \/ InSchedules =>
        globalConfig # NoConfig /\ IsOfSource(globalConfig, taken.global, KeptKeys)
DogusInv ==
    InLoop \/ InSchedules => \A t \in Targets : t[1] # Nginx /\ Written(t) => IsNew(t)
LocalInv ==
    InLoop \/ InSchedules =>
        \A d \in taken.local \ {Nginx} :
            d \in dogusLeft \/ (AtDogu /\ d = at[1]) \/ localConfig[d] \in {"new", "noDir"}
SchedulesInv ==
    InSchedules /\ scheduleApi =>
        /\ \A s \in taken.schedules \ (warned \cup schedulesLeft) :
              \/ s = schedule /\ cfg \in {"delete", "wait", "create"}
              \/ schedules[s] = "new"
        /\ cfg = "done" => schedulesLeft = {}

ImportedInv == CfgLoopInv /\ GlobalInv /\ DogusInv /\ LocalInv /\ SchedulesInv

\* When SyncConfig returns without an error all is imported.
LEMMA NilMeansImported ==
    ASSUME CfgTypeOK, ImportedInv, cfg = "done", ~cfgError
    PROVE  ConfigImported
<1>1. InSchedules /\ dogusLeft = {} /\ ~AtDogu BY DEF InSchedules, AtDogu, ImportedInv, CfgLoopInv
<1>2. globalConfig # NoConfig /\ IsOfSource(globalConfig, taken.global, KeptKeys)
  BY <1>1 DEF ImportedInv, GlobalInv
<1>3. \A t \in Targets : t[1] # Nginx => IsNew(t) BY <1>1 DEF ImportedInv, DogusInv, Written
<1>4. \A d \in taken.local \ {Nginx} : localConfig[d] \in {"new", "noDir"}
  BY <1>1 DEF ImportedInv, LocalInv
<1>5. scheduleApi => \A s \in taken.schedules \ warned : schedules[s] = "new"
  BY <1>1 DEF ImportedInv, SchedulesInv
<1> QED BY <1>2, <1>3, <1>4, <1>5 DEF ConfigImported, IsNew

\* The parts of the configuration are done one after the other, and a step that
\* fails does not hide.
LEMMA CfgLoopStep ==
    ASSUME CfgTypeOK, CfgLoopInv, CfgNext \/ CfgBegins \/ CfgStops \/ ScheduleGoes
    PROVE  CfgLoopInv'
<1> USE DEF CfgTypeOK, CfgLoopInv, InSchedules, AtDogu
<1>1. CASE GetConfig BY <1>1 DEF GetConfig, CfgFails, cursorVars, storedVars
<1>2. CASE GlobalIsRead BY <1>2 DEF GlobalIsRead, CfgFails, cursorVars
<1>3. CASE GlobalIsWritten BY <1>3 DEF GlobalIsWritten, CfgFails, cursorVars
<1>4. CASE NextDogu BY <1>4 DEF NextDogu, storedVars
<1>5. CASE DoguConfigIsRead BY <1>5 DEF DoguConfigIsRead, CfgFails, cursorVars
<1>6. CASE DoguConfigIsWritten BY <1>6 DEF DoguConfigIsWritten, CfgFails, cursorVars
<1>7. CASE LocalConfigIsOpened BY <1>7 DEF LocalConfigIsOpened, CfgFails, cursorVars
<1>8. CASE LocalConfigIsWritten BY <1>8 DEF LocalConfigIsWritten, CfgFails, cursorVars
<1>9. CASE DogusAreDone BY <1>9 DEF DogusAreDone, storedVars
<1>10. CASE NextSchedule BY <1>10 DEF NextSchedule, ScheduleFrame
<1>11. CASE ScheduleApiIsMissing BY <1>11 DEF ScheduleApiIsMissing, ScheduleFrame
<1>12. CASE DeleteSchedule BY <1>12 DEF DeleteSchedule, ScheduleFrame
<1>13. CASE ScheduleIsNotDeleted BY <1>13 DEF ScheduleIsNotDeleted, ScheduleFrame
<1>14. CASE DeletionIsSeen BY <1>14 DEF DeletionIsSeen, ScheduleFrame
<1>15. CASE CreateSchedule BY <1>15 DEF CreateSchedule, ScheduleFrame, CfgFails, cursorVars
<1>16. CASE SchedulesAreDone BY <1>16 DEF SchedulesAreDone, ScheduleFrame
<1>17. CASE CfgBegins BY <1>17 DEF CfgBegins, storedVars
<1>18. CASE CfgStops BY <1>18 DEF CfgStops, cursorVars, storedVars
<1>19. CASE ScheduleGoes BY <1>19 DEF ScheduleGoes, cursorVars
<1> QED
  BY <1>1, <1>2, <1>3, <1>4, <1>5, <1>6, <1>7, <1>8, <1>9, <1>10, <1>11, <1>12, <1>13, <1>14, <1>15,
     <1>16, <1>17, <1>18, <1>19
  DEF CfgNext

\* The global config is that of the source system from its import on.
LEMMA GlobalStep ==
    ASSUME CfgTypeOK, CfgLoopInv, GlobalInv, CfgNext \/ CfgBegins \/ CfgStops \/ ScheduleGoes
    PROVE  GlobalInv'
<1> USE DEF CfgTypeOK, CfgLoopInv, GlobalInv, InLoop, InSchedules
<1>1. CASE GetConfig BY <1>1 DEF GetConfig, CfgFails, cursorVars, storedVars
<1>2. CASE GlobalIsRead BY <1>2 DEF GlobalIsRead, CfgFails, cursorVars
<1>3. CASE GlobalIsWritten
  <2>1. taken.global \in Configs /\ read \in Configs BY <1>3, ConfigAssumption DEF GlobalIsWritten
  <2>2. MergedGlobal(read, taken.global) \in Configs
        /\ IsOfSource(MergedGlobal(read, taken.global), taken.global, KeptKeys)
    BY <2>1, GlobalIsMerged
  <2> QED BY <1>3, <2>2, ConfigAssumption DEF GlobalIsWritten, CfgFails, cursorVars
<1>4. CASE NextDogu BY <1>4 DEF NextDogu, storedVars
<1>5. CASE DoguConfigIsRead BY <1>5 DEF DoguConfigIsRead, CfgFails, cursorVars
<1>6. CASE DoguConfigIsWritten BY <1>6 DEF DoguConfigIsWritten, CfgFails, cursorVars
<1>7. CASE LocalConfigIsOpened BY <1>7 DEF LocalConfigIsOpened, CfgFails, cursorVars
<1>8. CASE LocalConfigIsWritten BY <1>8 DEF LocalConfigIsWritten, CfgFails, cursorVars
<1>9. CASE DogusAreDone BY <1>9 DEF DogusAreDone, storedVars
<1>10. CASE NextSchedule BY <1>10 DEF NextSchedule, ScheduleFrame
<1>11. CASE ScheduleApiIsMissing BY <1>11 DEF ScheduleApiIsMissing, ScheduleFrame
<1>12. CASE DeleteSchedule BY <1>12 DEF DeleteSchedule, ScheduleFrame
<1>13. CASE ScheduleIsNotDeleted BY <1>13 DEF ScheduleIsNotDeleted, ScheduleFrame
<1>14. CASE DeletionIsSeen BY <1>14 DEF DeletionIsSeen, ScheduleFrame
<1>15. CASE CreateSchedule BY <1>15 DEF CreateSchedule, ScheduleFrame, CfgFails, cursorVars
<1>16. CASE SchedulesAreDone BY <1>16 DEF SchedulesAreDone, ScheduleFrame
<1>17. CASE CfgBegins BY <1>17 DEF CfgBegins, storedVars
<1>18. CASE CfgStops BY <1>18 DEF CfgStops, cursorVars, storedVars
<1>19. CASE ScheduleGoes BY <1>19 DEF ScheduleGoes, cursorVars
<1> QED
  BY <1>1, <1>2, <1>3, <1>4, <1>5, <1>6, <1>7, <1>8, <1>9, <1>10, <1>11, <1>12, <1>13, <1>14, <1>15,
     <1>16, <1>17, <1>18, <1>19
  DEF CfgNext

\* The config of each dogu is that of the source system from its import on.
LEMMA DogusStep ==
    ASSUME CfgTypeOK, CfgLoopInv, DogusInv, CfgNext \/ CfgBegins \/ CfgStops \/ ScheduleGoes
    PROVE  DogusInv'
<1> USE DEF CfgTypeOK, CfgLoopInv, DogusInv, IsNew, InLoop, InSchedules, AtDogu, Written
<1>1. CASE GetConfig BY <1>1 DEF GetConfig, CfgFails, cursorVars, storedVars
<1>2. CASE GlobalIsRead BY <1>2 DEF GlobalIsRead, CfgFails, cursorVars
<1>3. CASE GlobalIsWritten BY <1>3 DEF GlobalIsWritten, Targets, CfgFails, cursorVars
<1>4. CASE NextDogu BY <1>4 DEF NextDogu, storedVars
<1>5. CASE DoguConfigIsRead BY <1>5 DEF DoguConfigIsRead, CfgFails, cursorVars
<1>6. CASE DoguConfigIsWritten
  <2>1. CASE cfgError' BY <1>6, <2>1 DEF DoguConfigIsWritten, CfgFails
  <2>2. CASE ~cfgError'
    <3> DEFINE merged == MergedDogu(read, taken.dogus[at], ExcludedKeys[at[1]])
    <3>1. /\ cfg = "write" /\ doguConfig' = [doguConfig EXCEPT ![at] = merged]
          /\ UNCHANGED <<taken, dogusLeft>>
          /\ \/ at[2] = "normal" /\ cfg' = "read" /\ at' = <<at[1], "sensitive">>
             \/ at[2] # "normal" /\ cfg' = "local" /\ at' = at
      BY <1>6, <2>2 DEF DoguConfigIsWritten, CfgFails
    <3>2. read \in Configs /\ taken.dogus[at] \in Configs /\ ExcludedKeys[at[1]] \in SUBSET Keys
      BY <3>1, ConfigAssumption DEF Targets
    <3>3. merged \in Configs /\ IsOfSource(merged, taken.dogus[at], ExcludedKeys[at[1]])
      BY <3>2, DoguIsMerged
    <3>4. doguConfig'[at] = merged /\ merged # NoConfig BY <3>1, <3>3, ConfigAssumption
    <3>5. \A t \in Targets : t # at => doguConfig'[t] = doguConfig[t] BY <3>1
    <3>6. ASSUME NEW t \in Targets, t[1] # Nginx, Written(t)', t # at PROVE Written(t)
      <4>1. t[1] = at[1] /\ at[2] = "normal" => t = <<at[1], "sensitive">>
        BY <3>6 DEF Targets, Stores
      <4> QED BY <3>1, <3>6, <4>1
    <3>7. \A t \in Targets : t[1] # Nginx /\ Written(t)' => IsNew(t)'
      BY <3>1, <3>3, <3>4, <3>5, <3>6
    <3> QED BY <3>7 DEF DogusInv
  <2> QED BY <2>1, <2>2
<1>7. CASE LocalConfigIsOpened BY <1>7 DEF LocalConfigIsOpened, CfgFails, cursorVars
<1>8. CASE LocalConfigIsWritten BY <1>8 DEF LocalConfigIsWritten, CfgFails, cursorVars
<1>9. CASE DogusAreDone BY <1>9 DEF DogusAreDone, storedVars
<1>10. CASE NextSchedule BY <1>10 DEF NextSchedule, ScheduleFrame
<1>11. CASE ScheduleApiIsMissing BY <1>11 DEF ScheduleApiIsMissing, ScheduleFrame
<1>12. CASE DeleteSchedule BY <1>12 DEF DeleteSchedule, ScheduleFrame
<1>13. CASE ScheduleIsNotDeleted BY <1>13 DEF ScheduleIsNotDeleted, ScheduleFrame
<1>14. CASE DeletionIsSeen BY <1>14 DEF DeletionIsSeen, ScheduleFrame
<1>15. CASE CreateSchedule BY <1>15 DEF CreateSchedule, ScheduleFrame, CfgFails, cursorVars
<1>16. CASE SchedulesAreDone BY <1>16 DEF SchedulesAreDone, ScheduleFrame
<1>17. CASE CfgBegins BY <1>17 DEF CfgBegins, storedVars
<1>18. CASE CfgStops BY <1>18 DEF CfgStops, cursorVars, storedVars
<1>19. CASE ScheduleGoes BY <1>19 DEF ScheduleGoes, cursorVars
<1> QED
  BY <1>1, <1>2, <1>3, <1>4, <1>5, <1>6, <1>7, <1>8, <1>9, <1>10, <1>11, <1>12, <1>13, <1>14, <1>15,
     <1>16, <1>17, <1>18, <1>19
  DEF CfgNext

\* So is its local config, where it has one.
LEMMA LocalStep ==
    ASSUME CfgTypeOK, CfgLoopInv, LocalInv, CfgNext \/ CfgBegins \/ CfgStops \/ ScheduleGoes
    PROVE  LocalInv'
<1> USE DEF CfgTypeOK, CfgLoopInv, LocalInv, InLoop, InSchedules, AtDogu
<1>20. taken.local \subseteq ConfigDogus BY ConfigAssumption
<1>1. CASE GetConfig BY <1>1 DEF GetConfig, CfgFails, cursorVars, storedVars
<1>2. CASE GlobalIsRead BY <1>2 DEF GlobalIsRead, CfgFails, cursorVars
<1>3. CASE GlobalIsWritten BY <1>3, <1>20 DEF GlobalIsWritten, CfgFails, cursorVars
<1>4. CASE NextDogu BY <1>4 DEF NextDogu, storedVars
<1>5. CASE DoguConfigIsRead BY <1>5 DEF DoguConfigIsRead, CfgFails, cursorVars
<1>6. CASE DoguConfigIsWritten BY <1>6 DEF DoguConfigIsWritten, CfgFails, cursorVars
<1>7. CASE LocalConfigIsOpened BY <1>7, <1>20 DEF LocalConfigIsOpened, CfgFails, cursorVars
<1>8. CASE LocalConfigIsWritten BY <1>8, <1>20 DEF LocalConfigIsWritten, CfgFails, cursorVars
<1>9. CASE DogusAreDone BY <1>9 DEF DogusAreDone, storedVars
<1>10. CASE NextSchedule BY <1>10 DEF NextSchedule, ScheduleFrame
<1>11. CASE ScheduleApiIsMissing BY <1>11 DEF ScheduleApiIsMissing, ScheduleFrame
<1>12. CASE DeleteSchedule BY <1>12 DEF DeleteSchedule, ScheduleFrame
<1>13. CASE ScheduleIsNotDeleted BY <1>13 DEF ScheduleIsNotDeleted, ScheduleFrame
<1>14. CASE DeletionIsSeen BY <1>14 DEF DeletionIsSeen, ScheduleFrame
<1>15. CASE CreateSchedule BY <1>15 DEF CreateSchedule, ScheduleFrame, CfgFails, cursorVars
<1>16. CASE SchedulesAreDone BY <1>16 DEF SchedulesAreDone, ScheduleFrame
<1>17. CASE CfgBegins BY <1>17 DEF CfgBegins, storedVars
<1>18. CASE CfgStops BY <1>18 DEF CfgStops, cursorVars, storedVars
<1>19. CASE ScheduleGoes BY <1>19 DEF ScheduleGoes, cursorVars
<1> QED
  BY <1>1, <1>2, <1>3, <1>4, <1>5, <1>6, <1>7, <1>8, <1>9, <1>10, <1>11, <1>12, <1>13, <1>14, <1>15,
     <1>16, <1>17, <1>18, <1>19
  DEF CfgNext

\* A schedule that was not warned of is the new one from its creation on: what the
\* backup operator deletes late is never the new one.
LEMMA SchedulesStep ==
    ASSUME CfgTypeOK, CfgLoopInv, SchedulesInv, CfgNext \/ CfgBegins \/ CfgStops \/ ScheduleGoes
    PROVE  SchedulesInv'
<1> USE DEF CfgTypeOK, CfgLoopInv, SchedulesInv, InSchedules
<1>20. taken.schedules \subseteq Schedules BY ConfigAssumption
<1>1. CASE GetConfig BY <1>1 DEF GetConfig, CfgFails, cursorVars, storedVars
<1>2. CASE GlobalIsRead BY <1>2 DEF GlobalIsRead, CfgFails, cursorVars
<1>3. CASE GlobalIsWritten BY <1>3 DEF GlobalIsWritten, CfgFails, cursorVars
<1>4. CASE NextDogu BY <1>4 DEF NextDogu, storedVars
<1>5. CASE DoguConfigIsRead BY <1>5 DEF DoguConfigIsRead, CfgFails, cursorVars
<1>6. CASE DoguConfigIsWritten BY <1>6 DEF DoguConfigIsWritten, CfgFails, cursorVars
<1>7. CASE LocalConfigIsOpened BY <1>7 DEF LocalConfigIsOpened, CfgFails, cursorVars
<1>8. CASE LocalConfigIsWritten BY <1>8 DEF LocalConfigIsWritten, CfgFails, cursorVars
<1>9. CASE DogusAreDone BY <1>9 DEF DogusAreDone, storedVars
<1>10. CASE NextSchedule BY <1>10 DEF NextSchedule, ScheduleFrame
<1>11. CASE ScheduleApiIsMissing BY <1>11 DEF ScheduleApiIsMissing, ScheduleFrame
<1>12. CASE DeleteSchedule BY <1>12, <1>20 DEF DeleteSchedule, ScheduleFrame
<1>13. CASE ScheduleIsNotDeleted BY <1>13, <1>20 DEF ScheduleIsNotDeleted, ScheduleFrame
<1>14. CASE DeletionIsSeen BY <1>14 DEF DeletionIsSeen, ScheduleFrame
<1>15. CASE CreateSchedule BY <1>15, <1>20 DEF CreateSchedule, ScheduleFrame, CfgFails, cursorVars
<1>16. CASE SchedulesAreDone BY <1>16 DEF SchedulesAreDone, ScheduleFrame
<1>17. CASE CfgBegins BY <1>17 DEF CfgBegins, storedVars
<1>18. CASE CfgStops BY <1>18 DEF CfgStops, cursorVars, storedVars
<1>19. CASE ScheduleGoes BY <1>19 DEF ScheduleGoes, cursorVars
<1> QED
  BY <1>1, <1>2, <1>3, <1>4, <1>5, <1>6, <1>7, <1>8, <1>9, <1>10, <1>11, <1>12, <1>13, <1>14, <1>15,
     <1>16, <1>17, <1>18, <1>19
  DEF CfgNext

-----------------------------------------------------------------------------
(* What is kept, and what a reader of a config finds. *)

FoundIn(old) == IF old = NoConfig THEN Empty ELSE old

BeforeOK ==
    /\ before.global \in Configs \cup {NoConfig}
    /\ before.dogus \in [Targets -> Configs \cup {NoConfig}]

\* A config that SyncConfig has not come to is what it was before the job, and
\* the one it is at is what it has read.
WholeInv ==
    /\ step = "sync" \/ cfg \in {"fetch", "global", "globalWrite"} => doguConfig = before.dogus
    /\ cfg = "globalWrite" => read = globalConfig
    /\ cfg = "write" => read = FoundIn(before.dogus[at])
    /\ InLoop =>
          \A t \in Targets :
              ~Written(t) /\ ~(cfg = "write" /\ t = at) => doguConfig[t] = before.dogus[t]

CfgMoves ==
    \/ CfgNext /\ step = "config" /\ step' = "config"
    \/ CfgBegins /\ step = "sync" /\ step' = "config"
    \/ CfgStops /\ step' = "ended"
    \/ ScheduleGoes /\ step' = step

\* Every step keeps what has not been written yet, and what was read of it.
LEMMA WholeStep ==
    ASSUME CfgTypeOK, CfgLoopInv, BeforeOK, WholeInv, CfgMoves, before' = before
    PROVE  WholeInv'
<1> USE DEF CfgTypeOK, CfgLoopInv, BeforeOK, WholeInv, CfgMoves, FoundIn, InLoop, InSchedules, AtDogu,
        Written, Targets, Stores
<1>1. CASE GetConfig BY <1>1 DEF GetConfig, CfgFails, cursorVars, storedVars
<1>2. CASE GlobalIsRead BY <1>2 DEF GlobalIsRead, CfgFails, cursorVars
<1>3. CASE GlobalIsWritten BY <1>3 DEF GlobalIsWritten, CfgFails, cursorVars
<1>4. CASE NextDogu BY <1>4 DEF NextDogu, storedVars
<1>5. CASE DoguConfigIsRead /\ step' = "config"
  <2>1. cfg = "read" /\ at \in Targets /\ step' # "sync" /\ doguConfig[at] = before.dogus[at]
    BY <1>5 DEF DoguConfigIsRead
  <2>2. CASE cfg' = "done" BY <2>1, <2>2
  <2>3. CASE cfg' # "done"
    <3>1. cfg' = "write" /\ read' = FoundIn(before.dogus[at]) /\ UNCHANGED <<at, dogusLeft>>
      BY <1>5, <2>1, <2>3 DEF DoguConfigIsRead, CfgFails
    <3>2. \A t \in Targets : t # at => doguConfig'[t] = doguConfig[t]
      BY <1>5 DEF DoguConfigIsRead
    <3> QED BY <2>1, <3>1, <3>2
  <2> QED BY <2>2, <2>3
<1>6. CASE DoguConfigIsWritten /\ step' = "config"
  <2>1. cfg = "write" /\ at \in Targets /\ step' # "sync" BY <1>6 DEF DoguConfigIsWritten
  <2>2. CASE cfg' = "done" BY <2>1, <2>2
  <2>3. CASE cfg' # "done"
    <3>1. /\ UNCHANGED dogusLeft
          /\ \/ at[2] = "normal" /\ cfg' = "read" /\ at' = <<at[1], "sensitive">>
             \/ at[2] # "normal" /\ cfg' = "local" /\ at' = at
      BY <1>6, <2>3 DEF DoguConfigIsWritten, CfgFails
    <3>2. \A t \in Targets : t # at => doguConfig'[t] = doguConfig[t]
      BY <1>6 DEF DoguConfigIsWritten
    <3>3. ASSUME NEW t \in Targets, ~Written(t)' PROVE ~Written(t) /\ t # at
      <4>1. at[1] \notin dogusLeft BY <2>1
      <4>2. t[1] \in dogusLeft \/ (at[2] = "normal" /\ t = <<at[1], "sensitive">>)
        BY <3>1, <3>3
      <4> QED BY <2>1, <4>1, <4>2
    <3> QED BY <2>1, <3>1, <3>2, <3>3
  <2> QED BY <2>2, <2>3
<1>7. CASE LocalConfigIsOpened BY <1>7 DEF LocalConfigIsOpened, CfgFails, cursorVars
<1>8. CASE LocalConfigIsWritten BY <1>8 DEF LocalConfigIsWritten, CfgFails, cursorVars
<1>9. CASE DogusAreDone BY <1>9 DEF DogusAreDone, storedVars
<1>10. CASE NextSchedule BY <1>10 DEF NextSchedule, ScheduleFrame
<1>11. CASE ScheduleApiIsMissing BY <1>11 DEF ScheduleApiIsMissing, ScheduleFrame
<1>12. CASE DeleteSchedule BY <1>12 DEF DeleteSchedule, ScheduleFrame
<1>13. CASE ScheduleIsNotDeleted BY <1>13 DEF ScheduleIsNotDeleted, ScheduleFrame
<1>14. CASE DeletionIsSeen BY <1>14 DEF DeletionIsSeen, ScheduleFrame
<1>15. CASE CreateSchedule BY <1>15 DEF CreateSchedule, ScheduleFrame, CfgFails, cursorVars
<1>16. CASE SchedulesAreDone BY <1>16 DEF SchedulesAreDone, ScheduleFrame
<1>17. CASE CfgBegins /\ step = "sync" /\ step' = "config" BY <1>17 DEF CfgBegins, storedVars
<1>18. CASE CfgStops /\ step' = "ended" BY <1>18 DEF CfgStops, cursorVars, storedVars
<1>19. CASE ScheduleGoes BY <1>19 DEF ScheduleGoes, cursorVars
<1> QED
  BY <1>1, <1>2, <1>3, <1>4, <1>5, <1>6, <1>7, <1>8, <1>9, <1>10, <1>11, <1>12, <1>13, <1>14, <1>15,
     <1>16, <1>17, <1>18, <1>19
  DEF CfgNext

\* The keys to keep, but for the given ones, are as before the job.
KeepsAllBut(keys) ==
    LET was == FoundIn(before.global)
        is == FoundIn(globalConfig)
    IN  /\ DOMAIN was \cap KeptKeys = DOMAIN is \cap KeptKeys
        /\ \A k \in (DOMAIN was \cap KeptKeys) \ keys : is[k] = was[k]

\* No step of the import changes a key to keep: what it writes was made of what is
\* still there.
LEMMA GlobalKeeps ==
    ASSUME CfgTypeOK, WholeInv, CfgMoves
    PROVE  LET old == FoundIn(globalConfig)
               new == FoundIn(globalConfig')
           IN  /\ DOMAIN old \cap KeptKeys = DOMAIN new \cap KeptKeys
               /\ \A k \in DOMAIN old \cap KeptKeys : new[k] = old[k]
<1>1. CASE globalConfig' = globalConfig BY <1>1
<1>2. CASE globalConfig = NoConfig /\ globalConfig' = Empty BY <1>2, EmptyIsConfig DEF FoundIn
<1>3. CASE cfg = "globalWrite" /\ globalConfig' = MergedGlobal(read, taken.global)
  <2>1. read \in Configs /\ taken.global \in Configs /\ read = globalConfig /\ read # NoConfig
    BY <1>3, ConfigAssumption DEF CfgTypeOK, WholeInv
  <2>2. /\ globalConfig' # NoConfig
        /\ DOMAIN globalConfig' \cap KeptKeys = DOMAIN globalConfig \cap KeptKeys
        /\ \A k \in DOMAIN globalConfig \cap KeptKeys : globalConfig'[k] = globalConfig[k]
    BY <1>3, <2>1, GlobalIsMerged, ConfigAssumption
  <2> QED BY <2>1, <2>2 DEF FoundIn
<1> QED
  BY <1>1, <1>2, <1>3
  DEF CfgMoves, CfgNext, CfgBegins, CfgStops, ScheduleGoes, GetConfig, GlobalIsRead, GlobalIsWritten,
      NextDogu, DoguConfigIsRead, DoguConfigIsWritten, LocalConfigIsOpened, LocalConfigIsWritten,
      DogusAreDone, NextSchedule, ScheduleApiIsMissing, DeleteSchedule, ScheduleIsNotDeleted,
      DeletionIsSeen, CreateSchedule, SchedulesAreDone, ScheduleFrame, storedVars

\* So it leaves the FQDN alone.
LEMMA FqdnStays ==
    ASSUME CfgTypeOK, WholeInv, CfgMoves
    PROVE  Fqdn' = Fqdn
<1>1. FqdnOf(globalConfig) = FqdnOf(FoundIn(globalConfig))
      /\ FqdnOf(globalConfig') = FqdnOf(FoundIn(globalConfig'))
  BY EmptyIsConfig DEF FqdnOf, FoundIn, Empty
<1>2. FoundIn(globalConfig) # NoConfig /\ FoundIn(globalConfig') # NoConfig
  BY EmptyIsConfig DEF FoundIn
<1>3. FqdnOf(FoundIn(globalConfig')) = FqdnOf(FoundIn(globalConfig))
  BY <1>2, GlobalKeeps, FqdnAssumption DEF FqdnOf
<1> QED BY <1>1, <1>3 DEF Fqdn

\* ChangeFQDN is under way: of the configuration it moves only the FQDN, if there
\* is one.
FqdnMoves ==
    /\ step = "fqdn" /\ step' = "fqdn"
    /\ UNCHANGED <<cfg, cursorVars, cfgError, doguConfig, localConfig, schedules, scheduleApi>>
    /\ \/ globalConfig' = globalConfig
       \/ /\ Fqdn # NoConfig
          /\ \E v \in KeyValues : globalConfig' = [globalConfig EXCEPT ![FqdnKey] = v]

\* It leaves a config, and its other keys.
LEMMA OnlyFqdnMoves ==
    ASSUME CfgTypeOK, FqdnMoves
    PROVE  /\ CfgTypeOK'
           /\ globalConfig' = NoConfig <=> globalConfig = NoConfig
           /\ DOMAIN globalConfig' = DOMAIN globalConfig
           /\ \A k \in DOMAIN globalConfig : k # FqdnKey => globalConfig'[k] = globalConfig[k]
<1>1. CASE globalConfig' = globalConfig BY <1>1 DEF FqdnMoves, CfgTypeOK, cursorVars
<1>2. CASE globalConfig' # globalConfig
  <2>1. PICK v \in KeyValues : globalConfig' = [globalConfig EXCEPT ![FqdnKey] = v]
    BY <1>2 DEF FqdnMoves
  <2>2. globalConfig \in Configs /\ FqdnKey \in DOMAIN globalConfig
    BY <1>2 DEF FqdnMoves, CfgTypeOK, Fqdn, FqdnOf
  <2>3. PICK K \in SUBSET Keys : globalConfig \in [K -> KeyValues] BY <2>2 DEF Configs
  <2>4. globalConfig' \in [K -> KeyValues] BY <2>1, <2>2, <2>3
  <2>5. globalConfig' \in Configs BY <2>3, <2>4 DEF Configs
  <2>6. CfgTypeOK' BY <2>5 DEF FqdnMoves, CfgTypeOK, cursorVars
  <2> QED BY <2>1, <2>2, <2>3, <2>4, <2>5, <2>6, ConfigAssumption
<1> QED BY <1>1, <1>2

\* Every step leaves each config of a dogu as it was, or as a whole new one.
LEMMA ConfigsStep ==
    ASSUME CfgTypeOK, BeforeOK, WholeInv, ConfigsAreWhole, CfgMoves, before' = before
    PROVE  ConfigsAreWhole'
<1>1. CASE doguConfig' = doguConfig /\ taken' = taken BY <1>1 DEF ConfigsAreWhole
<1>2. CASE doguConfig' = doguConfig /\ cfg = "fetch" BY <1>2 DEF ConfigsAreWhole, WholeInv
<1>3. CASE DoguConfigIsRead
  <2>1. doguConfig[at] = before.dogus[at] /\ taken' = taken
    BY <1>3 DEF DoguConfigIsRead, CfgFails, cursorVars, CfgTypeOK, WholeInv, InLoop, Written
  <2> QED BY <1>3, <2>1 DEF DoguConfigIsRead, CfgTypeOK, ConfigsAreWhole
<1>4. CASE DoguConfigIsWritten
  <2>1. read = FoundIn(before.dogus[at]) /\ taken' = taken
    BY <1>4 DEF DoguConfigIsWritten, CfgFails, cursorVars, WholeInv
  <2> QED BY <1>4, <2>1 DEF DoguConfigIsWritten, CfgTypeOK, ConfigsAreWhole, FoundIn
<1> QED
  BY <1>1, <1>2, <1>3, <1>4
  DEF CfgMoves, CfgNext, CfgBegins, CfgStops, ScheduleGoes, GetConfig, GlobalIsRead, GlobalIsWritten,
      NextDogu, LocalConfigIsOpened, LocalConfigIsWritten, DogusAreDone, NextSchedule,
      ScheduleApiIsMissing, DeleteSchedule, ScheduleIsNotDeleted, DeletionIsSeen, CreateSchedule,
      SchedulesAreDone, ScheduleFrame, CfgFails, cursorVars, storedVars

-----------------------------------------------------------------------------
(* The job. *)

\* Where the job is, what it has behind it: the FQDN comes after an import that
\* went well.
StepInv ==
    /\ step = "sync" => sync # "off" /\ cfg = "off"
    /\ step \in {"config", "fqdn"} => sync = "done" /\ cfg # "off"
    /\ step = "fqdn" => cfg = "done" /\ ~cfgError /\ syncFailed = {} /\ trigger
    /\ step = "ended" <=> jobResult # "none"

\* ChangeFQDN knows the FQDN from before the job: it goes back to it, or is done.
ChangeInv ==
    step = "fqdn" =>
        /\ phase # "idle" /\ saved[1] = FqdnOf(before.global)
        /\ phase = "ok" => Fqdn = cert
        /\ phase = "error" => Fqdn = saved[1]

ImportInv ==
    /\ ImportTypeOK /\ SyncPlaceInv /\ SyncCopyInv /\ ImportedInv
    /\ BeforeOK /\ WholeInv /\ KeptKeysKept /\ ConfigsAreWhole
    /\ StepInv /\ ChangeInv /\ OkMeansImported

\* A config has an FQDN, or none.
LEMMA FqdnType == ASSUME CfgTypeOK PROVE Fqdn \in KeyValues \cup {NoConfig}
<1>1. CASE globalConfig \in Configs
  <2>1. PICK K \in SUBSET Keys : globalConfig \in [K -> KeyValues] BY <1>1 DEF Configs
  <2> QED BY <2>1 DEF Fqdn, FqdnOf
<1>2. CASE globalConfig = NoConfig BY <1>2 DEF Fqdn, FqdnOf
<1> QED BY <1>1, <1>2 DEF CfgTypeOK

\* ImportInv holds before the first job.
LEMMA ImportInvInit == ASSUME Init PROVE ImportInv
<1> USE DEF Init, SyncInit, CfgInit
<1>1. SyncTypeOK BY DataSyncAssumption DEF SyncTypeOK, Places
<1>2. CfgTypeOK
  <2>1. at \in Targets
    <3>1. PICK d \in ConfigDogus : TRUE BY ConfigAssumption
    <3>2. <<d, "normal">> \in Targets BY <3>1 DEF Targets, Stores
    <3> QED BY <3>2
  <2>2. PICK c \in TargetConfigs :
            /\ globalConfig = c.global /\ doguConfig = c.dogus
            /\ localConfig = c.local /\ schedules = c.schedules /\ scheduleApi = c.api
    OBVIOUS
  <2>3. c \in [global : Configs \cup {NoConfig}, dogus : [Targets -> Configs \cup {NoConfig}],
              local : [ConfigDogus -> {"noDir", "old"}], schedules : [Schedules -> {"absent", "old"}],
              api : BOOLEAN]
    BY ConfigAssumption
  <2>4. /\ globalConfig \in Configs \cup {NoConfig} /\ scheduleApi \in BOOLEAN
        /\ doguConfig \in [Targets -> Configs \cup {NoConfig}]
    BY <2>2, <2>3
  <2>5. localConfig \in [ConfigDogus -> {"noDir", "old", "cut", "new"}] BY <2>2, <2>3
  <2>6. schedules \in [Schedules -> {"absent", "old", "terminating", "new"}] BY <2>2, <2>3
  <2>7. taken \in SourceConfigs /\ schedule \in Schedules BY ConfigAssumption
  <2>8. cfg = "off" /\ read = NoConfig /\ dogusLeft = {} /\ schedulesLeft = {} /\ warned = {}
        /\ cfgError = FALSE
    OBVIOUS
  <2> QED BY <2>1, <2>4, <2>5, <2>6, <2>7, <2>8 DEF CfgTypeOK
<1>3. ImportTypeOK
  <2>1. cert \in KeyValues /\ saved \in (KeyValues \cup {NoConfig}) \X KeyValues /\ phase = "idle"
    BY <1>2, FqdnType DEF Change!AtomicInit
  <2>2. step = "none" /\ sync = "off" /\ cfg = "off" /\ jobResult = "none" OBVIOUS
  <2>3. jobs \in 0 .. MaxJobs BY JobsAssumption
  <2>4. trigger \in BOOLEAN /\ overlapped \in BOOLEAN OBVIOUS
  <2> QED BY <1>1, <1>2, <2>1, <2>2, <2>3, <2>4 DEF ImportTypeOK
<1>4. SyncPlaceInv /\ SyncCopyInv BY DEF SyncPlaceInv, SyncCopyInv
<1>5. ImportedInv
  BY DEF ImportedInv, CfgLoopInv, GlobalInv, DogusInv, LocalInv, SchedulesInv, InLoop, InSchedules, AtDogu
<1>6. BeforeOK /\ WholeInv BY <1>2 DEF BeforeOK, WholeInv, CfgTypeOK, InLoop
<1>7. KeptKeysKept /\ ConfigsAreWhole BY DEF KeptKeysKept, ConfigsAreWhole
<1>8. StepInv /\ ChangeInv /\ OkMeansImported BY DEF StepInv, ChangeInv, OkMeansImported
<1> QED BY <1>3, <1>4, <1>5, <1>6, <1>7, <1>8 DEF ImportInv

\* In a step of the job SyncData moves or does not.
LEMMA SyncFrame ==
    ASSUME [Next]_vars
    PROVE  \/ SyncNext /\ step = "sync" /\ step' = step /\ overlapped' = overlapped
           \/ SyncBegins /\ step' = "sync"
           \/ SyncStops /\ step' = "ended" /\ overlapped' = overlapped
           \/ (OtherSetsExportDogu \/ PreflightSetsExportDogu) /\ overlapped'
           \/ UNCHANGED <<syncVars, overlapped>>
BY DEF Next, vars, execVars, JobStarts, MainFails, SyncsData, ConfigSyncStarts, SyncsConfig, ConfigSyncEnds,
       Ends, ChangesFqdn, FqdnChangeEnds, JobIsKilled, OtherJobExports, CoordinatorRestarts,
       ScheduleIsFinalized

\* Neither before the next job begins does SyncConfig, nor what it has to compare
\* with.
LEMMA CfgFrame ==
    ASSUME ImportTypeOK, [Next]_vars
    PROVE  \/ CfgMoves /\ before' = before
           \/ FqdnMoves /\ before' = before /\ trigger' = trigger
           \/ UNCHANGED cfgVars /\ before' = before /\ (step' = "sync" => step = "sync")
           \/ /\ UNCHANGED cfgVars /\ step' = "sync" /\ cfg = "off"
              /\ before' = [global |-> globalConfig, dogus |-> doguConfig]
<1> USE DEF CfgMoves
<1>1. CASE JobStarts BY <1>1 DEF JobStarts, ImportTypeOK
<1>2. CASE MainFails BY <1>2 DEF MainFails, Ends
<1>3. CASE SyncsData BY <1>3 DEF SyncsData, execVars
<1>4. CASE ConfigSyncStarts BY <1>4 DEF ConfigSyncStarts
<1>5. CASE SyncsConfig BY <1>5 DEF SyncsConfig, execVars
<1>6. CASE ConfigSyncEnds BY <1>6 DEF ConfigSyncEnds, Ends
<1>7. CASE ChangesFqdn BY <1>7 DEF ChangesFqdn, FqdnMoves, execVars
<1>8. CASE FqdnChangeEnds BY <1>8 DEF FqdnChangeEnds, Ends
<1>9. CASE JobIsKilled BY <1>9 DEF JobIsKilled, Ends
<1>10. CASE OtherJobExports BY <1>10 DEF OtherJobExports
<1>11. CASE CoordinatorRestarts BY <1>11 DEF CoordinatorRestarts
<1>12. CASE ScheduleIsFinalized BY <1>12 DEF ScheduleIsFinalized, execVars
<1>13. CASE UNCHANGED vars BY <1>13 DEF vars, execVars
<1> QED BY <1>1, <1>2, <1>3, <1>4, <1>5, <1>6, <1>7, <1>8, <1>9, <1>10, <1>11, <1>12, <1>13 DEF Next

\* SyncData moves only between its begin and its end, and so does SyncConfig.
LEMMA NextPlaces ==
    /\ SyncNext => sync \in {"fetch", "next", "list", "dirs"}
                       /\ sync' \in {"next", "list", "dirs", "done"}
    /\ CfgNext => cfg \notin {"off", "done"} /\ cfg' # "off"
BY DEF SyncNext, GetSystemInfo, SkipExcluded, SetExportDogu, GetSubDirs, SyncDoguDir, DoguIsDone, SyncEnds,
       CfgNext, GetConfig, GlobalIsRead, GlobalIsWritten, NextDogu, DoguConfigIsRead, DoguConfigIsWritten,
       LocalConfigIsOpened, LocalConfigIsWritten, DogusAreDone, NextSchedule, ScheduleApiIsMissing,
       DeleteSchedule, ScheduleIsNotDeleted, DeletionIsSeen, CreateSchedule, SchedulesAreDone,
       CfgFails, ScheduleFrame

\* Every step keeps the order of data, configuration and FQDN.
LEMMA StepInvStep ==
    ASSUME ImportTypeOK, StepInv, [Next]_vars
    PROVE  StepInv'
<1> USE NextPlaces DEF ImportTypeOK, StepInv, changeVars
<1>1. CASE JobStarts BY <1>1 DEF JobStarts, SyncBegins, cfgVars
<1>2. CASE MainFails BY <1>2 DEF MainFails, Ends, SyncStops, CfgStops
<1>3. CASE SyncsData BY <1>3 DEF SyncsData, execVars, cfgVars
<1>4. CASE ConfigSyncStarts BY <1>4 DEF ConfigSyncStarts, CfgBegins, syncVars
<1>5. CASE SyncsConfig BY <1>5 DEF SyncsConfig, execVars, syncVars
<1>6. CASE ConfigSyncEnds BY <1>6 DEF ConfigSyncEnds, Ends, SyncStops, CfgStops, syncVars, cfgVars
<1>7. CASE ChangesFqdn BY <1>7 DEF ChangesFqdn, execVars, syncVars, cursorVars
<1>8. CASE FqdnChangeEnds BY <1>8 DEF FqdnChangeEnds, Ends, SyncStops, CfgStops
<1>9. CASE JobIsKilled BY <1>9 DEF JobIsKilled, Ends, SyncStops, CfgStops
<1>10. CASE OtherJobExports BY <1>10 DEF OtherJobExports, OtherSetsExportDogu, cfgVars
<1>11. CASE CoordinatorRestarts BY <1>11 DEF CoordinatorRestarts, PreflightSetsExportDogu, cfgVars
<1>12. CASE ScheduleIsFinalized BY <1>12 DEF ScheduleIsFinalized, ScheduleGoes, execVars, syncVars
<1>13. CASE UNCHANGED vars BY <1>13 DEF vars, execVars, syncVars, cfgVars
<1> QED BY <1>1, <1>2, <1>3, <1>4, <1>5, <1>6, <1>7, <1>8, <1>9, <1>10, <1>11, <1>12, <1>13 DEF Next

\* Every step keeps the types.
LEMMA ImportTypeStep ==
    ASSUME ImportTypeOK, SyncPlaceInv, StepInv, [Next]_vars
    PROVE  ImportTypeOK'
<1>a. SyncTypeOK' BY SyncFrame, SyncTypeStep DEF ImportTypeOK
<1>b. CfgTypeOK' BY CfgFrame, CfgTypeStep, OnlyFqdnMoves DEF ImportTypeOK, CfgMoves
<1> USE <1>a, <1>b, NextPlaces, JobsAssumption DEF ImportTypeOK, StepInv, changeVars
<1>1. CASE JobStarts
  <2>1. jobs' \in 0 .. MaxJobs BY <1>1 DEF JobStarts
  <2>2. trigger' \in BOOLEAN /\ overlapped' \in BOOLEAN BY <1>1 DEF JobStarts
  <2>3. /\ step \in {"none", "ended"} /\ step' = "sync" /\ sync' = "fetch"
        /\ jobResult' = "none" /\ UNCHANGED changeVars
    BY <1>1 DEF JobStarts, SyncBegins
  <2> QED BY <2>1, <2>2, <2>3
<1>2. CASE MainFails BY <1>2 DEF MainFails, Ends, SyncStops, CfgStops
<1>3. CASE SyncsData BY <1>3 DEF SyncsData, execVars, cfgVars
<1>4. CASE ConfigSyncStarts BY <1>4 DEF ConfigSyncStarts, CfgBegins, syncVars
<1>5. CASE SyncsConfig BY <1>5 DEF SyncsConfig, execVars, syncVars
<1>6. CASE ConfigSyncEnds
  <2>1. CASE UNCHANGED changeVars BY <1>6, <2>1 DEF ConfigSyncEnds, Ends, SyncStops, CfgStops, Change!Begin
  <2>2. CASE Change!Begin /\ step' = "fqdn"
    <3>1. saved' = <<Fqdn, cert>> /\ cert' = cert /\ phase' = "changing"
      BY <2>2 DEF Change!Begin
    <3>2. saved' \in (KeyValues \cup {NoConfig}) \X KeyValues BY <3>1, FqdnType
    <3> QED BY <1>6, <2>2, <3>1, <3>2 DEF ConfigSyncEnds, Ends, syncVars, cfgVars
  <2> QED BY <1>6, <2>1, <2>2 DEF ConfigSyncEnds
<1>7. CASE ChangesFqdn
  <2>1. /\ cert' \in KeyValues /\ saved' = saved
        /\ phase' \in {"idle", "changing", "ok", "error", "broken"}
    BY <1>7 DEF ChangesFqdn, Change!Work, Change!Succeed, Change!RollBack, Change!Break
  <2> QED BY <1>7, <2>1 DEF ChangesFqdn, execVars, syncVars, cursorVars
<1>8. CASE FqdnChangeEnds BY <1>8 DEF FqdnChangeEnds, Ends, SyncStops, CfgStops
<1>9. CASE JobIsKilled BY <1>9 DEF JobIsKilled, Ends, Change!CutOff, SyncStops, CfgStops
<1>10. CASE OtherJobExports BY <1>10 DEF OtherJobExports, OtherSetsExportDogu, cfgVars
<1>11. CASE CoordinatorRestarts BY <1>11 DEF CoordinatorRestarts, PreflightSetsExportDogu, cfgVars
<1>12. CASE ScheduleIsFinalized BY <1>12 DEF ScheduleIsFinalized, ScheduleGoes, execVars, syncVars
<1>13. CASE UNCHANGED vars BY <1>13 DEF vars, execVars, syncVars, cfgVars
<1> QED BY <1>1, <1>2, <1>3, <1>4, <1>5, <1>6, <1>7, <1>8, <1>9, <1>10, <1>11, <1>12, <1>13 DEF Next

\* What has been imported stays so until the next job: the backup operator does not
\* undo it.
LEMMA ImportStays ==
    ASSUME UNCHANGED <<copied, taken, warned, globalConfig, doguConfig, localConfig, scheduleApi>>,
           \A s \in taken.schedules : schedules[s] = "new" => schedules'[s] = "new"
    PROVE  (AllCopied => AllCopied') /\ (ConfigImported => ConfigImported')
BY DEF AllCopied, ConfigImported, IsOfSource

\* Neither does the change of the FQDN, a key that is not imported.
LEMMA ImportOutlastsFqdn ==
    ASSUME CfgTypeOK, FqdnMoves
    PROVE  ConfigImported => ConfigImported'
<1>1. IsOfSource(globalConfig, taken.global, KeptKeys) =>
          IsOfSource(globalConfig', taken.global, KeptKeys)
  BY OnlyFqdnMoves, FqdnAssumption DEF IsOfSource
<1>2. globalConfig # NoConfig => globalConfig' # NoConfig BY OnlyFqdnMoves
<1>3. UNCHANGED <<taken, warned, doguConfig, localConfig, schedules, scheduleApi>>
  BY DEF FqdnMoves, cursorVars
<1> QED BY <1>1, <1>2, <1>3 DEF ConfigImported, IsOfSource

\* Every step keeps the keys to keep, but for the FQDN once it is its turn; a change
\* that is taken back leaves it, too.
LEMMA KeptStep ==
    ASSUME ImportTypeOK, WholeInv, StepInv, ChangeInv, KeptKeysKept, [Next]_vars
    PROVE  KeptKeysKept'
<1>1. /\ KeptKeysKept /\ FqdnMayDiffer => KeepsAllBut({FqdnKey})
      /\ KeptKeysKept /\ ~FqdnMayDiffer => KeepsAllBut({})
      /\ KeepsAllBut({}) => KeepsAllBut({FqdnKey})
  BY DEF KeptKeysKept, KeepsAllBut, FoundIn
<1>2. /\ KeepsAllBut({})' => KeptKeysKept'
      /\ KeepsAllBut({FqdnKey})' /\ FqdnMayDiffer' => KeptKeysKept'
  BY DEF KeptKeysKept, KeepsAllBut, FoundIn
<1>3. CASE UNCHANGED cfgVars /\ before' = [global |-> globalConfig, dogus |-> doguConfig]
  <2>1. before'.global = globalConfig' BY <1>3 DEF cfgVars, storedVars
  <2> QED BY <1>2, <2>1 DEF KeepsAllBut
<1>4. CASE FqdnMoves /\ before' = before /\ trigger' = trigger
  <2>1. FqdnMayDiffer' BY <1>4 DEF FqdnMoves, FqdnMayDiffer, StepInv
  <2>2. KeepsAllBut({FqdnKey}) BY <1>1
  <2>3. KeepsAllBut({FqdnKey})' BY <1>4, <2>2, OnlyFqdnMoves DEF KeepsAllBut, FoundIn, ImportTypeOK
  <2> QED BY <1>2, <2>1, <2>3
<1>5. CASE ~JobStarts /\ (CfgMoves \/ UNCHANGED cfgVars) /\ before' = before
  <2>1. ASSUME NEW keys, KeepsAllBut(keys) PROVE KeepsAllBut(keys)'
    <3>1. CASE CfgMoves BY <1>5, <2>1, <3>1, GlobalKeeps DEF KeepsAllBut, ImportTypeOK
    <3>2. CASE UNCHANGED cfgVars BY <1>5, <2>1, <3>2 DEF KeepsAllBut, cfgVars, storedVars
    <3> QED BY <1>5, <3>1, <3>2
  <2>2. CASE ~FqdnMayDiffer BY <1>1, <1>2, <2>1, <2>2
  <2>3. CASE FqdnMayDiffer' BY <1>1, <1>2, <2>1, <2>3
  <2>4. CASE FqdnMayDiffer /\ ~FqdnMayDiffer'
    <3>1. CASE FqdnChangeEnds
      <4>1. Fqdn = FqdnOf(before.global)
        <5>1. /\ step = "fqdn" /\ phase # "changing" /\ phase' = phase
              /\ step' = "ended" /\ trigger' = trigger
              /\ jobResult' = IF phase = "ok" THEN "ok" ELSE "failed"
          BY <3>1 DEF FqdnChangeEnds, Ends, changeVars
        <5>2. phase \notin {"ok", "broken"} BY <2>4, <5>1 DEF FqdnMayDiffer
        <5>3. phase = "error" BY <5>1, <5>2 DEF ChangeInv, ImportTypeOK
        <5> QED BY <5>1, <5>3 DEF ChangeInv
      <4>2. KeepsAllBut({FqdnKey}) BY <1>1
      <4>3. FqdnKey \in DOMAIN FoundIn(before.global) =>
                FoundIn(globalConfig)[FqdnKey] = FoundIn(before.global)[FqdnKey]
        BY <4>1, <4>2, FqdnAssumption DEF KeepsAllBut, FoundIn, Empty, Fqdn, FqdnOf
      <4>4. KeepsAllBut({}) BY <4>2, <4>3 DEF KeepsAllBut
      <4> QED BY <1>2, <2>1, <4>4
    <3>2. ~FqdnChangeEnds => (FqdnMayDiffer => FqdnMayDiffer')
      BY <1>5
      DEF Next, vars, execVars, changeVars, MainFails, SyncsData, ConfigSyncStarts, SyncsConfig,
          ConfigSyncEnds, ChangesFqdn, JobIsKilled, OtherJobExports, CoordinatorRestarts,
          ScheduleIsFinalized, Ends, FqdnMayDiffer
    <3> QED BY <2>4, <3>1, <3>2
  <2> QED BY <2>2, <2>3, <2>4
<1> QED BY <1>3, <1>4, <1>5, CfgFrame DEF JobStarts

\* ChangeFQDN begins with the FQDN from before the job, which the import has kept.
LEMMA ChangeInvStep ==
    ASSUME ImportTypeOK, ChangeInv, KeptKeysKept, [Next]_vars, step' = "fqdn"
    PROVE  ChangeInv'
<1>1. CASE ConfigSyncEnds
  <2>1. /\ step = "config" /\ before' = before
        /\ phase' = "changing" /\ saved' = <<Fqdn, cert>>
    BY <1>1 DEF ConfigSyncEnds, Ends, Change!Begin
  <2>2. KeepsAllBut({}) BY <2>1 DEF KeptKeysKept, FqdnMayDiffer, KeepsAllBut, FoundIn
  <2>3. Fqdn = FqdnOf(before.global)
    BY <2>2, FqdnAssumption, EmptyIsConfig DEF KeepsAllBut, FoundIn, Empty, Fqdn, FqdnOf
  <2> QED BY <2>1, <2>3 DEF ChangeInv
<1>2. CASE ChangesFqdn
  <2>1. step = "fqdn" /\ saved' = saved /\ before' = before
    BY <1>2 DEF ChangesFqdn, Change!Work, Change!Break, Change!Succeed, Change!RollBack, execVars
  <2>2. \/ phase' \in {"changing", "broken"}
        \/ phase' = "ok" /\ Fqdn' = cert'
        \/ phase' = "error" /\ Fqdn' = saved'[1]
    BY <1>2 DEF ChangesFqdn, Change!Work, Change!Break, Change!Succeed, Change!RollBack
  <2> QED BY <2>1, <2>2 DEF ChangeInv
<1>3. CASE ScheduleIsFinalized
  BY <1>3 DEF ScheduleIsFinalized, ScheduleGoes, changeVars, execVars, ChangeInv, Fqdn
<1>4. CASE UNCHANGED vars
  BY <1>4 DEF vars, cfgVars, storedVars, changeVars, execVars, ChangeInv, Fqdn
<1> QED
  BY <1>1, <1>2, <1>3, <1>4
  DEF Next, JobStarts, MainFails, SyncsData, ConfigSyncStarts, SyncsConfig, FqdnChangeEnds, JobIsKilled,
      OtherJobExports, CoordinatorRestarts, Ends, execVars

\* Every step keeps that a job which ended well has imported everything.
LEMMA OkStep ==
    ASSUME ImportInv, [Next]_vars
    PROVE  OkMeansImported'
<1> USE DEF ImportInv, ImportTypeOK, StepInv, OkMeansImported, changeVars
<1>14. syncVars' = syncVars /\ cfgVars' = cfgVars =>
          (AllCopied => AllCopied') /\ (ConfigImported => ConfigImported')
  BY ImportStays DEF syncVars, cfgVars, cursorVars, storedVars
<1>15. SyncStops /\ CfgStops => (AllCopied => AllCopied') /\ (ConfigImported => ConfigImported')
  BY ImportStays DEF SyncStops, CfgStops, cursorVars, storedVars
<1>16. sync = "done" /\ syncFailed = {} /\ ~overlapped => AllCopied BY NilMeansCopied
<1>17. cfg = "done" /\ ~cfgError => ConfigImported BY NilMeansImported
<1>1. CASE JobStarts BY <1>1 DEF JobStarts
<1>2. CASE MainFails BY <1>2 DEF MainFails, Ends
<1>3. CASE SyncsData BY <1>3 DEF SyncsData, execVars
<1>4. CASE ConfigSyncStarts BY <1>4 DEF ConfigSyncStarts
<1>5. CASE SyncsConfig BY <1>5 DEF SyncsConfig, execVars
<1>6. CASE ConfigSyncEnds BY <1>6, <1>15, <1>16, <1>17 DEF ConfigSyncEnds, Ends
<1>7. CASE ChangesFqdn BY <1>7 DEF ChangesFqdn, execVars
<1>8. CASE FqdnChangeEnds
  <2>1. step = "fqdn" /\ Ends(IF phase = "ok" THEN "ok" ELSE "failed") /\ cert' = cert
    BY <1>8 DEF FqdnChangeEnds
  <2>2. globalConfig' = globalConfig BY <2>1 DEF Ends, CfgStops, storedVars
  <2>3. jobResult' = "ok" => Fqdn' = cert' BY <2>1, <2>2 DEF Ends, ChangeInv, Fqdn
  <2> QED BY <2>1, <2>3, <1>15, <1>16, <1>17 DEF Ends
<1>9. CASE JobIsKilled BY <1>9 DEF JobIsKilled, Ends
<1>10. CASE OtherJobExports BY <1>10 DEF OtherJobExports
<1>11. CASE CoordinatorRestarts BY <1>11 DEF CoordinatorRestarts
<1>12. CASE ScheduleIsFinalized
  <2>1. /\ UNCHANGED <<syncVars, changeVars, execVars, taken, warned, globalConfig, doguConfig, localConfig,
                       scheduleApi>>
        /\ \A s \in taken.schedules : schedules[s] = "new" => schedules'[s] = "new"
    BY <1>12, ConfigAssumption DEF ScheduleIsFinalized, ScheduleGoes, cursorVars, CfgTypeOK
  <2>2. (AllCopied => AllCopied') /\ (ConfigImported => ConfigImported')
    BY <2>1, ImportStays DEF syncVars
  <2>3. Fqdn' = Fqdn BY <2>1 DEF Fqdn
  <2> QED BY <2>1, <2>2, <2>3 DEF execVars
<1>13. CASE UNCHANGED vars
  <2>1. Fqdn' = Fqdn BY <1>13 DEF vars, cfgVars, storedVars, Fqdn
  <2> QED BY <1>13, <1>14, <2>1 DEF vars, execVars
<1> QED BY <1>1, <1>2, <1>3, <1>4, <1>5, <1>6, <1>7, <1>8, <1>9, <1>10, <1>11, <1>12, <1>13 DEF Next

-----------------------------------------------------------------------------
(* The theorems. *)

\* ImportInv is an invariant of jobs and their surroundings.
LEMMA ImportInvHolds == Spec => []ImportInv
<1>1. ASSUME ImportInv, [Next]_vars PROVE ImportInv'
  <2> USE <1>1 DEF ImportInv
  <2>1. ImportTypeOK' /\ StepInv' BY ImportTypeStep, StepInvStep
  <2>2. SyncPlaceInv' /\ SyncCopyInv'
    <3>1. CASE SyncNext /\ overlapped' = overlapped BY <3>1, SyncCopyStep DEF ImportTypeOK
    <3>2. CASE SyncBegins BY <3>2 DEF SyncBegins, SyncPlaceInv, SyncCopyInv
    <3>3. CASE SyncStops BY <3>3 DEF SyncStops, SyncPlaceInv, SyncCopyInv
    <3>4. CASE (OtherSetsExportDogu \/ PreflightSetsExportDogu) /\ overlapped'
      BY <3>4 DEF OtherSetsExportDogu, PreflightSetsExportDogu, SyncPlaceInv, SyncCopyInv
    <3>5. CASE UNCHANGED <<syncVars, overlapped>>
      BY <3>5 DEF syncVars, SyncPlaceInv, SyncCopyInv, HoldsOwn
    <3> QED BY <3>1, <3>2, <3>3, <3>4, <3>5, SyncFrame
  <2>3. ImportedInv'
    <3>1. CASE CfgMoves
      BY <3>1, CfgLoopStep, GlobalStep, DogusStep, LocalStep, SchedulesStep
      DEF CfgMoves, ImportedInv, ImportTypeOK
    <3>2. CASE UNCHANGED cfgVars
      BY <3>2 DEF cfgVars, cursorVars, storedVars, ImportedInv, CfgLoopInv, GlobalInv, DogusInv, LocalInv,
                  SchedulesInv, InLoop, InSchedules, AtDogu, Written, IsNew
    <3>3. CASE FqdnMoves
      <4>1. GlobalInv' BY <3>3, OnlyFqdnMoves, FqdnAssumption
        DEF ImportedInv, GlobalInv, IsOfSource, FqdnMoves, cursorVars, InLoop, InSchedules, ImportTypeOK
      <4>2. CfgLoopInv' /\ DogusInv' /\ LocalInv' /\ SchedulesInv'
        BY <3>3
        DEF FqdnMoves, cursorVars, ImportedInv, CfgLoopInv, DogusInv, LocalInv, SchedulesInv, InLoop,
            InSchedules, AtDogu, Written, IsNew
      <4> QED BY <4>1, <4>2 DEF ImportedInv
    <3> QED BY <3>1, <3>2, <3>3, CfgFrame
  <2>4. BeforeOK' /\ WholeInv' /\ ConfigsAreWhole'
    <3>1. CASE CfgMoves /\ before' = before
      BY <3>1, WholeStep, ConfigsStep DEF BeforeOK, ImportedInv, ImportTypeOK
    <3>2. CASE UNCHANGED cfgVars /\ before' = before /\ (step' = "sync" => step = "sync")
      BY <3>2 DEF cfgVars, cursorVars, storedVars, BeforeOK, WholeInv, ConfigsAreWhole,
                  InLoop, Written
    <3>3. CASE /\ UNCHANGED cfgVars /\ step' = "sync" /\ cfg = "off"
               /\ before' = [global |-> globalConfig, dogus |-> doguConfig]
      BY <3>3 DEF cfgVars, cursorVars, storedVars, BeforeOK, WholeInv, ConfigsAreWhole,
                  InLoop, ImportTypeOK, CfgTypeOK
    <3>4. CASE FqdnMoves /\ before' = before
      BY <3>4 DEF FqdnMoves, cursorVars, BeforeOK, WholeInv, ConfigsAreWhole, InLoop, Written, StepInv
    <3> QED BY <3>1, <3>2, <3>3, <3>4, CfgFrame
  <2>5. KeptKeysKept' /\ OkMeansImported' BY KeptStep, OkStep
  <2>6. ChangeInv' BY ChangeInvStep DEF ChangeInv
  <2> QED BY <2>1, <2>2, <2>3, <2>4, <2>5, <2>6
<1> QED BY <1>1, ImportInvInit, PTL DEF Spec

\* The variables keep their types over any number of jobs: nothing is created
\* while an old one of its name is there, nothing copied where it must not be.
THEOREM ImportTypeCorrect == Spec => []ImportTypeOK
<1>1. ImportInv => ImportTypeOK BY DEF ImportInv
<1> QED BY <1>1, ImportInvHolds, PTL

\* A job that ends well has imported data, configuration, schedules and FQDN.
THEOREM OkIsTrue == Spec => []OkMeansImported
<1>1. ImportInv => OkMeansImported BY DEF ImportInv
<1> QED BY <1>1, ImportInvHolds, PTL

\* The keys to keep of the global config keep their values in every job, while the
\* change of its FQDN writes one of them: that one until the change comes, and again
\* when it was rolled back.
THEOREM KeysAreKept == Spec => []KeptKeysKept
<1>1. ImportInv => KeptKeysKept BY DEF ImportInv
<1> QED BY <1>1, ImportInvHolds, PTL

\* Whoever reads the config of a dogu finds the old one or the new one.
THEOREM NoHalfConfig == Spec => []ConfigsAreWhole
<1>1. ImportInv => ConfigsAreWhole BY DEF ImportInv
<1> QED BY <1>1, ImportInvHolds, PTL

\* A key that the user excludes keeps its value or is lost; the value of the
\* source system never takes its place.
THEOREM ExcludedKeysAreSafe == Spec => []ExcludedKeysStay
<1>1. ASSUME ImportInv, NEW t \in Targets
      PROVE  LET was == FoundIn(before.dogus[t])
                 is == FoundIn(doguConfig[t])
             IN  KeepsExcluded(was, is, taken.dogus[t], ExcludedKeys[t[1]])
  <2> DEFINE was == FoundIn(before.dogus[t])
             new == taken.dogus[t]
             excluded == ExcludedKeys[t[1]]
             merged == MergedDogu(was, new, excluded)
  <2>1. doguConfig[t] \in {before.dogus[t], was, merged}
    BY <1>1 DEF ImportInv, ConfigsAreWhole, FoundIn
  <2>2. was \in Configs BY <1>1, EmptyIsConfig DEF ImportInv, BeforeOK, FoundIn
  <2>3. new \in Configs /\ excluded \in SUBSET Keys
    BY <1>1, ConfigAssumption DEF ImportInv, ImportTypeOK, CfgTypeOK, Targets
  <2>4. merged \in Configs /\ KeepsExcluded(was, merged, new, excluded) BY <2>2, <2>3, DoguIsMerged
  <2>5. KeepsExcluded(was, was, new, excluded) BY DEF KeepsExcluded
  <2>6. FoundIn(doguConfig[t]) \in {was, merged}
    BY <2>1, <2>2, <2>4, ConfigAssumption DEF FoundIn
  <2> QED BY <2>4, <2>5, <2>6
<1>2. ImportInv => ExcludedKeysStay BY <1>1 DEF ExcludedKeysStay, KeepsExcluded, FoundIn
<1> QED BY <1>2, ImportInvHolds, PTL

\* The import leaves the FQDN and the certificate: they are changed by ChangeFQDN.
LEMMA OnlyChangeFqdn ==
    ASSUME ImportInv, [Next]_vars, <<Fqdn, cert>>' # <<Fqdn, cert>>
    PROVE  ChangesFqdn
<1>1. CASE Fqdn' # Fqdn
  <2>1. FqdnMoves
    <3>1. UNCHANGED cfgVars => Fqdn' = Fqdn BY DEF cfgVars, storedVars, Fqdn
    <3> QED BY <1>1, <3>1, CfgFrame, FqdnStays DEF ImportInv, ImportTypeOK
  <2> QED
    BY <1>1, <2>1
    DEF FqdnMoves, Next, vars, cfgVars, storedVars, Fqdn, JobStarts, MainFails, SyncsData,
        ConfigSyncStarts, SyncsConfig, ConfigSyncEnds, FqdnChangeEnds, JobIsKilled, Ends,
        OtherJobExports, CoordinatorRestarts, ScheduleIsFinalized, ScheduleGoes
<1>2. CASE cert' # cert
  BY <1>2
  DEF Next, vars, changeVars, JobStarts, MainFails, SyncsData, ConfigSyncStarts, SyncsConfig,
      ConfigSyncEnds, FqdnChangeEnds, JobIsKilled, OtherJobExports, CoordinatorRestarts,
      ScheduleIsFinalized, Change!Begin, Change!CutOff
<1> QED BY <1>1, <1>2

\* The FQDN in the global config or the certificate change only in a job that was
\* asked to change them and has imported everything: the import itself never does.
THEOREM FqdnComesLast == Spec => FqdnFollowsImport
<1>1. ASSUME ImportInv, [Next]_vars
      PROVE  [<<Fqdn, cert>>' # <<Fqdn, cert>> =>
                 trigger /\ (~overlapped => AllCopied /\ ConfigImported)]_vars
  <2>1. <<Fqdn, cert>>' # <<Fqdn, cert>> => step = "fqdn"
    BY <1>1, OnlyChangeFqdn DEF ChangesFqdn
  <2>2. step = "fqdn" => trigger /\ (~overlapped => AllCopied /\ ConfigImported)
    BY <1>1, NilMeansCopied, NilMeansImported DEF ImportInv, ImportTypeOK, StepInv
  <2> QED BY <2>1, <2>2
<1> QED BY <1>1, ImportInvHolds, PTL DEF Spec, FqdnFollowsImport

\* While nobody else uses the exporter no volume receives the data of another
\* dogu, whatever calls fail: the exporter is never left with the dogu before
\* when rsync copies the next (rsync.go:96-151).
OwnDataOnly == ~overlapped => \A p \in Places : copied[p] \in {"no", "part", p[1]}

\* No volume receives another dogu's data, in a job that nobody else disturbs.
THEOREM NoDataIsMixedUp == Spec => []OwnDataOnly
<1>1. ASSUME ImportInv, OwnDataOnly, [Next]_vars PROVE OwnDataOnly'
  <2> USE <1>1 DEF OwnDataOnly
  <2>1. CASE SyncNext /\ step = "sync" /\ step' = step /\ overlapped' = overlapped
    <3>1. CASE SyncDoguDir /\ ~overlapped
      <4>1. sync = "dirs" /\ exported = dogu BY <1>1, <3>1 DEF SyncDoguDir, ImportInv, SyncCopyInv
      <4>2. PICK dir \in dirs :
                \E c \in {exported, copied[<<dogu, dir>>], "part"} :
                    copied' = [copied EXCEPT ![<<dogu, dir>>] = c]
        BY <3>1 DEF SyncDoguDir
      <4>3. copied \in [Places -> Dogus \cup {"no", "part"}] /\ <<dogu, dir>> \in Places
        BY <1>1, DataSyncAssumption DEF ImportInv, ImportTypeOK, SyncTypeOK, Places
      <4>4. {exported, copied[<<dogu, dir>>], "part"} \subseteq {"no", "part", dogu}
        BY <3>1, <4>1, <4>3
      <4> QED BY <2>1, <3>1, <4>2, <4>3, <4>4
    <3>2. CASE copied' = copied BY <2>1, <3>2
    <3> QED
      BY <2>1, <3>1, <3>2
      DEF SyncNext, GetSystemInfo, SkipExcluded, SetExportDogu, GetSubDirs, DoguIsDone, SyncEnds
  <2>2. CASE SyncBegins BY <2>2 DEF SyncBegins
  <2>3. CASE overlapped' = overlapped /\ copied' = copied BY <2>3
  <2>4. CASE overlapped' BY <2>4
  <2> QED BY <1>1, <2>1, <2>2, <2>3, <2>4, SyncFrame DEF SyncStops, syncVars
<1>2. Init => OwnDataOnly BY DEF Init, SyncInit, OwnDataOnly
<1> QED BY <1>1, <1>2, ImportInvHolds, PTL DEF Spec

\* The job uses the change of the FQDN only as AtomicChange allows: it begins one
\* when none is under way, a kill cuts it off, and no step of the import, which
\* writes the global config, too, moves the FQDN.  So what the job knows of
\* ChangeFQDN, which FqdnChange implements, is all that it relies on.
THEOREM ChangeIsUsedAsPromised == Spec => Change!AtomicSpec
<1>1. Init => Change!AtomicInit BY DEF Init
<1>2. ASSUME ImportInv, [Next]_vars PROVE [Change!AtomicNext]_(Change!atomicVars)
  <2>1. ChangesFqdn => Change!AtomicNext BY DEF ChangesFqdn, Change!AtomicNext
  <2>2. \/ ChangesFqdn \/ UNCHANGED changeVars \/ Change!Begin \/ Change!CutOff
    BY <1>2
    DEF Next, vars, JobStarts, MainFails, SyncsData, ConfigSyncStarts, SyncsConfig, ConfigSyncEnds,
        FqdnChangeEnds, JobIsKilled, OtherJobExports, CoordinatorRestarts, ScheduleIsFinalized
  <2>3. ~ChangesFqdn => Fqdn' = Fqdn BY <1>2, OnlyChangeFqdn
  <2>4. UNCHANGED changeVars /\ Fqdn' = Fqdn => UNCHANGED Change!atomicVars
    BY DEF changeVars, Change!atomicVars
  <2> QED BY <2>1, <2>2, <2>3, <2>4 DEF Change!AtomicNext
<1> QED BY <1>1, <1>2, ImportInvHolds, PTL DEF Spec, Change!AtomicSpec

=============================================================================
