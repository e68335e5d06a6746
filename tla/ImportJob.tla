------------------------------- MODULE ImportJob -------------------------------
(* cmd/import-job: the job that a migration creates.  Start copies the data  *)
(* (DataSync), then the configuration (ConfigImport) also when the data      *)
(* could not be copied, and last, if both went well and the migration is the *)
(* final one with a change of the FQDN, calls ChangeFQDN (AtomicChange),     *)
(* which writes the names into the global config that the import has kept.   *)
(*                                                                           *)
(* The pod is not restarted (backoffLimit 0, restartPolicy Never), but it    *)
(* can be killed anywhere, and the next migration starts with what is there. *)
EXTENDS DataSync, ConfigImport, Naturals

CONSTANTS
    FqdnKey,        \* global: fqdn, alternativeFQDNs and certificate/type, as one key
    MaxJobs         \* bound: jobs started

ASSUME JobsAssumption == MaxJobs \in Nat

\* All three are in globalConfigKeysToKeep.
ASSUME FqdnAssumption == FqdnKey \in KeptKeys /\ NoConfig \notin KeyValues

VARIABLES
    cert,           \* the certificate of the ecosystem; its value names its FQDN
    phase,          \* of ChangeFQDN: "idle", "changing", or the result of the last one
    saved,          \* the FQDN and the certificate when it began
    step,           \* ImportExecuter.Start: "none", "sync", "config", "fqdn", "ended"
    jobResult,      \* of the last job: "none" yet, "ok", "failed", "killed"
    trigger,        \* the environment variable that asks for the change of the FQDN
    jobs,           \* jobs started so far
    overlapped,     \* history: somebody else used the exporter during this job
    before          \* history: the configs when this job was started

changeVars == <<cert, phase, saved>>
execVars == <<step, jobResult, trigger, jobs, overlapped, before>>
vars == <<syncVars, cfgVars, changeVars, execVars>>

\* The FQDN in a global config, if it has one.
FqdnOf(c) == IF c # NoConfig /\ FqdnKey \in DOMAIN c THEN c[FqdnKey] ELSE NoConfig
Fqdn == FqdnOf(globalConfig)

\* What ChangeFQDN promises, of the FQDN in the global config.
Change == INSTANCE AtomicChange WITH config <- Fqdn, Values <- KeyValues \cup {NoConfig}

ImportTypeOK ==
    /\ SyncTypeOK /\ CfgTypeOK
    /\ cert \in KeyValues /\ saved \in (KeyValues \cup {NoConfig}) \X KeyValues
    /\ phase \in {"idle", "changing", "ok", "error", "broken"}
    /\ step \in {"none", "sync", "config", "fqdn", "ended"}
    /\ jobResult \in {"none", "ok", "failed", "killed"}
    /\ trigger \in BOOLEAN /\ overlapped \in BOOLEAN /\ jobs \in 0 .. MaxJobs
    /\ step \in {"none", "ended"} <=> sync = "off" /\ cfg = "off"
    /\ phase = "changing" => step = "fqdn"

Init ==
    /\ SyncInit /\ CfgInit
    /\ cert \in KeyValues /\ Change!AtomicInit
    /\ step = "none" /\ jobResult = "none" /\ trigger = FALSE /\ jobs = 0
    /\ overlapped = FALSE
    /\ before = [global |-> globalConfig, dogus |-> doguConfig]

-----------------------------------------------------------------------------
(* The job. *)

\* JobStarts stands for run of main.go, too: it fails before it calls Start when
\* its configuration, or that of the cluster, cannot be read.
JobStarts ==
    /\ step \in {"none", "ended"} /\ jobs < MaxJobs
    /\ jobs' = jobs + 1 /\ jobResult' = "none" /\ overlapped' = FALSE
    /\ trigger' \in BOOLEAN
    /\ before' = [global |-> globalConfig, dogus |-> doguConfig]
    /\ step' = "sync" /\ SyncBegins
    /\ UNCHANGED <<cfgVars, changeVars>>

Ends(result) ==
    /\ step' = "ended" /\ jobResult' = result
    /\ SyncStops /\ CfgStops
    /\ UNCHANGED <<trigger, jobs, overlapped, before>>

MainFails == step = "sync" /\ sync = "fetch" /\ Ends("failed") /\ UNCHANGED changeVars

SyncsData ==
    /\ step = "sync" /\ SyncNext
    /\ UNCHANGED <<cfgVars, changeVars, execVars>>

\* Whether SyncData succeeded or not.
ConfigSyncStarts ==
    /\ step = "sync" /\ sync = "done"
    /\ step' = "config" /\ CfgBegins
    /\ UNCHANGED <<syncVars, changeVars, jobResult, trigger, jobs, overlapped, before>>

SyncsConfig ==
    /\ step = "config" /\ CfgNext
    /\ UNCHANGED <<syncVars, changeVars, execVars>>

\* Mutation: the error of SyncData is overwritten by that of SyncConfig.
ConfigSyncHidesSync ==
    /\ step = "config" /\ cfg = "done"
    /\ \/ cfgError /\ Ends("failed") /\ UNCHANGED changeVars
       \/ ~cfgError /\ ~trigger /\ Ends("ok") /\ UNCHANGED changeVars
       \/ /\ ~cfgError /\ trigger /\ step' = "fqdn"
          /\ UNCHANGED <<syncVars, cfgVars, jobResult, trigger, jobs, overlapped, before>>
          /\ Change!Begin

ConfigSyncEnds ==
    /\ step = "config" /\ cfg = "done"
    /\ \/ /\ syncFailed # {} \/ cfgError
          /\ Ends("failed") /\ UNCHANGED changeVars
       \/ /\ syncFailed = {} /\ ~cfgError /\ ~trigger
          /\ Ends("ok") /\ UNCHANGED changeVars
       \/ /\ syncFailed = {} /\ ~cfgError /\ trigger
          /\ step' = "fqdn"
          /\ UNCHANGED <<syncVars, cfgVars, jobResult, trigger, jobs, overlapped, before>>
          /\ Change!Begin

\* Update sets the names in the global config and leaves its other keys.  Where
\* there are none to back up, ChangeFQDN fails before it writes anything.
ChangesFqdn ==
    /\ step = "fqdn"
    /\ UNCHANGED <<syncVars, execVars>>
    /\ UNCHANGED <<cfg, cursorVars, cfgError, doguConfig, localConfig, schedules, scheduleApi>>
    /\ \/ /\ Fqdn # NoConfig
          /\ \E v \in KeyValues : globalConfig' = [globalConfig EXCEPT ![FqdnKey] = v]
          /\ cert' \in KeyValues
          /\ Change!Work \/ Change!Break
       \/ /\ UNCHANGED globalConfig
          /\ Change!Succeed \/ Change!RollBack

FqdnChangeEnds ==
    /\ step = "fqdn" /\ phase # "changing"
    /\ Ends(IF phase = "ok" THEN "ok" ELSE "failed")
    /\ UNCHANGED changeVars

JobIsKilled ==
    /\ step \in {"sync", "config", "fqdn"}
    /\ Ends("killed")
    /\ IF phase = "changing" THEN Change!CutOff ELSE UNCHANGED changeVars

-----------------------------------------------------------------------------
(* The surroundings. *)

\* A job that an earlier migration has left running sets the export dogu.
OtherJobExports ==
    /\ step = "sync" /\ OtherSetsExportDogu
    /\ overlapped' = TRUE
    /\ UNCHANGED <<cfgVars, changeVars, step, jobResult, trigger, jobs, before>>

\* The coordinator was restarted while its job runs on.
CoordinatorRestarts ==
    /\ step = "sync" /\ PreflightSetsExportDogu
    /\ overlapped' = TRUE
    /\ UNCHANGED <<cfgVars, changeVars, step, jobResult, trigger, jobs, before>>

ScheduleIsFinalized ==
    /\ ScheduleGoes
    /\ UNCHANGED <<syncVars, changeVars, execVars>>

Next ==
    \/ JobStarts \/ MainFails \/ SyncsData \/ ConfigSyncStarts \/ SyncsConfig \/ ConfigSyncEnds
    \/ ChangesFqdn \/ FqdnChangeEnds \/ JobIsKilled
    \/ OtherJobExports \/ CoordinatorRestarts \/ ScheduleIsFinalized

Spec == Init /\ [][Next]_vars

-----------------------------------------------------------------------------
(* Properties. *)

\* c has the values of the source system for all keys, and no other keys, but
\* for the given ones.
IsOfSource(c, new, but) ==
    /\ DOMAIN c \ but = DOMAIN new \ but
    /\ \A k \in DOMAIN c \ but : c[k] = new[k]

ConfigImported ==
    /\ globalConfig # NoConfig /\ IsOfSource(globalConfig, taken.global, KeptKeys)
    /\ \A t \in Targets : t[1] # Nginx =>
          doguConfig[t] # NoConfig /\ IsOfSource(doguConfig[t], taken.dogus[t], ExcludedKeys[t[1]])
    /\ \A d \in taken.local \ {Nginx} : localConfig[d] \in {"new", "noDir"}
    /\ scheduleApi => \A s \in taken.schedules \ warned : schedules[s] = "new"

\* A job that ends well has imported all of it: the data of every dogu, the
\* configuration, with nothing left of the old one, the schedules but for those
\* warned of, and the FQDN with its certificate.  No failure on the way is lost,
\* while no other job uses the exporter (executer.go:55-86).
OkMeansImported ==
    jobResult = "ok" /\ ~overlapped =>
        AllCopied /\ ConfigImported /\ (trigger => Fqdn = cert)

\* The FQDN in the global config and the certificate change only in a job that
\* was asked to change them, after all data and configuration was imported: the
\* import of the global config itself never does (executer.go:71-81).
FqdnFollowsImport ==
    [][<<Fqdn, cert>>' # <<Fqdn, cert>> =>
        trigger /\ (~overlapped => AllCopied /\ ConfigImported)]_vars

\* The FQDN may be another one than before the job: it is being changed, or was,
\* and the job did not fail, or could not restore it.
FqdnMayDiffer ==
    /\ trigger
    /\ \/ step = "fqdn"
       \/ step = "ended" /\ (jobResult \in {"ok", "killed"} \/ phase = "broken")

\* At every moment of every job the global config has those of its keys to keep
\* that it had before, with their values, and no others.  The FQDN, which
\* ChangeFQDN of the same job writes, keeps its value until then, and also when
\* the job fails, be it that the change was rolled back (global.go:31-103;
\* executer.go:71-86; fqdn.go:166-206).
KeptKeysKept ==
    LET was == IF before.global = NoConfig THEN Empty ELSE before.global
        is == IF globalConfig = NoConfig THEN Empty ELSE globalConfig
    IN  /\ DOMAIN was \cap KeptKeys = DOMAIN is \cap KeptKeys
        /\ \A k \in DOMAIN was \cap KeptKeys : is[k] = was[k] \/ (k = FqdnKey /\ FqdnMayDiffer)

\* The dogu operator, which may read a config at any time, finds the old one or
\* the new one and nothing in between, over failures and kills; where there was
\* none it may find an empty one (dogu.go:87-134; CHANGELOG 2.3.3, #134).
ConfigsAreWhole ==
    \A t \in Targets :
        LET old == before.dogus[t]
            found == IF old = NoConfig THEN Empty ELSE old
        IN  doguConfig[t] \in {old, found, MergedDogu(found, taken.dogus[t], ExcludedKeys[t[1]])}

\* A key that the user excludes never takes the value of the source system: in
\* every config, at every moment, it has the value it had before the job, or is
\* not there.  One that both systems have is never lost (dogu.go:101-155).
ExcludedKeysStay ==
    \A t \in Targets :
        LET was == IF before.dogus[t] = NoConfig THEN Empty ELSE before.dogus[t]
            is == IF doguConfig[t] = NoConfig THEN Empty ELSE doguConfig[t]
        IN  /\ \A k \in DOMAIN is \cap ExcludedKeys[t[1]] : k \in DOMAIN was /\ is[k] = was[k]
            /\ \A k \in DOMAIN was \cap DOMAIN taken.dogus[t] \cap ExcludedKeys[t[1]] : k \in DOMAIN is

\* Violated: "Excluded keys are restored to their original values, or skipped if
\* they didn't exist before the import." (dogu.go:84-86).
ExcludedKeysKept ==
    \A t \in Targets : before.dogus[t] # NoConfig =>
        \A k \in DOMAIN before.dogus[t] \cap ExcludedKeys[t[1]] :
            k \in DOMAIN doguConfig[t] /\ doguConfig[t][k] = before.dogus[t][k]

=============================================================================
