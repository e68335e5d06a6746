------------------------------- MODULE Migrator -------------------------------
(* migration/runner.go: RunMigration, from its first check to the end of the *)
(* deferred cleanup, with the dogus, the blueprints, the import job and the  *)
(* maintenance mode of the source system it acts upon.  One migration runs   *)
(* at a time here; MigrationSchedule.tla says when that is so.               *)
EXTENDS DoguControl, BlueprintControl, JobRunner

CONSTANT MaxMigrations      \* bound: migrations started

ASSUME MigratorAssumption ==
    /\ MaxJobs \in Nat
    /\ MaxMigrations \in Nat
    /\ MaxMigrations <= MaxJobs

VARIABLES
    step,           \* where RunMigration is; "idle" between migrations
    kind,           \* "delta", or "final" by the key in the context
    runErr,         \* the step whose error ended the run, or "none"
    panic,          \* what recover() returned: "panic" or "none"
    retErr,         \* the steps whose errors are joined in the returned error
    failed,         \* history: the steps that failed in this migration
    maintenance,    \* the maintenance mode of the source system
    mail,           \* the result the last mail of this migration told
    migrations,     \* migrations started so far
    finalResult,    \* history: how the last final migration ended
    faults          \* history: cleanup steps that ever failed, and "crash"

controlVars == <<step, kind, runErr, panic, retErr, failed, mail>>
historyOfRuns == <<migrations, finalResult, faults>>
vars == <<ctx, doguVars, blueprintVars, runnerVars, controlVars, maintenance, historyOfRuns>>

Checks == {"exportMode", "exporterInfo", "importerInfo", "validateInfo", "resize"}
RunSteps == Checks \cup {"stopBlueprint", "stopAll", "enable", "job"}
CleanupSteps == {"disable", "startAll", "startBlueprint", "mail"}
Steps == RunSteps \cup CleanupSteps \cup {"logger"}

ControlTypeOK ==
    /\ step \in {"idle", "returned"} \cup RunSteps \cup CleanupSteps
    /\ kind \in {"delta", "final"}
    /\ runErr \in RunSteps \cup {"none"}
    /\ panic \in {"none", "panic"}
    /\ retErr \subseteq Steps
    /\ failed \subseteq Steps
    /\ mail \in {"none", "success", "failure"}
    /\ kind = "delta" => step \notin {"enable", "disable"}

MigratorTypeOK ==
    /\ CtxTypeOK /\ DoguTypeOK /\ BlueprintTypeOK /\ RunnerTypeOK /\ ControlTypeOK
    /\ maintenance \in {"off", "on"}
    /\ migrations \in 0 .. MaxMigrations
    /\ finalResult \in {"none", "ok", "failed"}
    /\ faults \subseteq CleanupSteps \cup {"crash"}

Init ==
    /\ ctx = "active"
    /\ DoguInit /\ BlueprintInit /\ RunnerInit
    /\ step = "idle"
    /\ kind = "delta"
    /\ runErr = "none"
    /\ panic = "none"
    /\ retErr = {}
    /\ failed = {}
    /\ maintenance = "off"
    /\ mail = "none"
    /\ migrations = 0
    /\ finalResult = "none"
    /\ faults = {}

-----------------------------------------------------------------------------
(* Beginning, going on, failing. *)

ComponentsUnchanged == UNCHANGED <<doguVars, blueprintVars, runnerVars, maintenance>>

\* A final migration follows only one that failed: in a shutdown it begins early,
\* fails, and the next process begins it again (run.go:119-133).
KindsToBegin == IF finalResult = "ok" THEN {"delta"} ELSE {"delta", "final"}

MigrationBegins ==
    /\ step = "idle" /\ migrations < MaxMigrations
    /\ step' = "exportMode"
    /\ kind' \in KindsToBegin
    /\ runErr' = "none" /\ panic' = "none" /\ retErr' = {} /\ failed' = {} /\ mail' = "none"
    /\ migrations' = migrations + 1
    /\ UNCHANGED <<ctx, finalResult, faults>> /\ ComponentsUnchanged

\* The log file cannot be opened: RunMigration returns before its defer.
LoggerFails ==
    /\ step = "idle" /\ migrations < MaxMigrations
    /\ step' = "returned"
    /\ kind' \in KindsToBegin
    /\ finalResult' = IF kind' = "final" THEN "failed" ELSE finalResult
    /\ runErr' = "none" /\ panic' = "none" /\ mail' = "none"
    /\ retErr' = {"logger"} /\ failed' = {"logger"}
    /\ migrations' = migrations + 1
    /\ UNCHANGED <<ctx, faults>> /\ ComponentsUnchanged

StepOrder ==
    {<<"exportMode", "exporterInfo">>, <<"exporterInfo", "importerInfo">>,
     <<"importerInfo", "validateInfo">>, <<"validateInfo", "stopBlueprint">>,
     <<"stopBlueprint", "resize">>, <<"resize", "stopAll">>,
     <<"stopAll", IF kind = "final" THEN "enable" ELSE "job">>,
     <<"enable", "job">>, <<"job", "startAll">>}

\* Mutation: the cleanup of every failed migration touches the maintenance mode.
CleanupDisablesAlways == "disable"

\* Mutation: the cleanup leaves the maintenance mode alone.
CleanupDisablesNever == "startAll"

CleanupAfterFailure == IF kind = "final" THEN "disable" ELSE "startAll"

GoesOn(s) ==
    /\ \E after \in RunSteps \cup {"startAll"} : <<s, after>> \in StepOrder /\ step' = after
    /\ UNCHANGED <<runErr, failed, kind, panic, retErr, mail>>

Fails(s) ==
    /\ step' = CleanupAfterFailure
    /\ runErr' = s /\ retErr' = {s} /\ failed' = failed \cup {s}
    /\ UNCHANGED <<kind, panic, mail>>

Ends(s, result) == \/ result = "ok" /\ GoesOn(s)
                   \/ result = "error" /\ Fails(s)

\* The checks, and the resizing of volumes, which stays outside this module.
CheckEnds ==
    /\ step \in Checks
    /\ Fails(step) \/ (~CtxDone /\ GoesOn(step))
    /\ UNCHANGED <<ctx, historyOfRuns>> /\ ComponentsUnchanged

-----------------------------------------------------------------------------
(* The steps that act upon the two systems. *)

DoguFrame == UNCHANGED <<ctx, blueprintVars, runnerVars, maintenance, historyOfRuns>>
BlueprintFrame == UNCHANGED <<ctx, doguVars, runnerVars, maintenance, historyOfRuns>>
RunnerFrame == UNCHANGED <<ctx, doguVars, blueprintVars, maintenance, historyOfRuns>>
MaintenanceFrame == UNCHANGED <<ctx, doguVars, blueprintVars, runnerVars, historyOfRuns>>

StopBlueprintStarts ==
    /\ step = "stopBlueprint" /\ StopBlueprintBegins
    /\ UNCHANGED controlVars /\ BlueprintFrame

StopBlueprintEnds ==
    /\ step = "stopBlueprint" /\ bcall \in {"ok", "error"}
    /\ Ends(step, bcall)
    /\ bcall' = "idle"
    /\ UNCHANGED <<bpStopped, stoppedBlueprints, btodo, historyOfBlueprints>> /\ BlueprintFrame

StopAllStarts ==
    /\ step = "stopAll" /\ StopAllBegins
    /\ UNCHANGED controlVars /\ DoguFrame

StopAllEnds ==
    /\ step = "stopAll" /\ dcall \in {"ok", "error"}
    /\ Ends(step, dcall)
    /\ dcall' = "idle"
    /\ UNCHANGED <<stopped, pods, dtodo>> /\ DoguFrame

\* The source may switch the mode although the call fails.
EnableMaintenance ==
    /\ step = "enable"
    /\ \/ ~CtxDone /\ maintenance' = "on" /\ GoesOn(step)
       \/ ~CtxDone /\ maintenance' = "on" /\ Fails(step)
       \/ UNCHANGED maintenance /\ Fails(step)
    /\ MaintenanceFrame

JobStarts ==
    /\ step = "job" /\ RunBegins
    /\ UNCHANGED controlVars /\ RunnerFrame

JobStepEnds ==
    /\ step = "job" /\ jcall \in {"ok", "error"}
    /\ Ends(step, jcall)
    /\ RunIsOver /\ RunnerFrame

\* A panic unwinds the call under way; the cleanup recovers it.
Panics ==
    /\ step \in RunSteps
    /\ panic' = "panic" /\ step' = CleanupAfterFailure
    /\ dcall' = "idle" /\ dtodo' = {} /\ bcall' = "idle" /\ btodo' = {} /\ jcall' = "idle"
    /\ UNCHANGED <<ctx, stopped, pods, bpStopped, stoppedBlueprints, historyOfBlueprints,
                   job, current, maintenance, kind, runErr, retErr, failed, mail, historyOfRuns>>

-----------------------------------------------------------------------------
(* The cleanup. *)

RunErrors == {runErr} \ {"none"}

\* Mutation: an error of the cleanup is only logged.
CleanupSwallows(s) ==
    /\ failed' = failed \cup {s} /\ faults' = faults \cup {s}
    /\ UNCHANGED retErr

\* errors.Join takes runError, not the error joined so far.
CleanupFails(s) ==
    /\ retErr' = RunErrors \cup {s}
    /\ failed' = failed \cup {s} /\ faults' = faults \cup {s}

CleanupSucceeds == UNCHANGED <<retErr, failed, faults>>

CleanupFrame == UNCHANGED <<ctx, kind, runErr, panic, migrations, runnerVars>>

DisableMaintenance ==
    /\ step = "disable"
    /\ \/ ~CtxDone /\ maintenance' = "off" /\ CleanupSucceeds
       \/ ~CtxDone /\ maintenance' = "off" /\ CleanupFails("disable")
       \/ UNCHANGED maintenance /\ CleanupFails("disable")
    /\ step' = "startAll"
    /\ UNCHANGED <<doguVars, blueprintVars, mail, finalResult>> /\ CleanupFrame

StartAllStarts ==
    /\ step = "startAll" /\ StartAllBegins
    /\ UNCHANGED controlVars /\ DoguFrame

StartAllEnds ==
    /\ step = "startAll"
    /\ \/ dcall = "ok" /\ CleanupSucceeds
       \/ dcall = "error" /\ CleanupFails("startAll")
    /\ step' = "startBlueprint"
    /\ dcall' = "idle"
    /\ UNCHANGED <<stopped, pods, dtodo, blueprintVars, maintenance, mail, finalResult>>
    /\ CleanupFrame

StartBlueprintStarts ==
    /\ step = "startBlueprint" /\ StartBlueprintBegins
    /\ UNCHANGED controlVars /\ BlueprintFrame

StartBlueprintEnds ==
    /\ step = "startBlueprint"
    /\ \/ bcall = "ok" /\ CleanupSucceeds
       \/ bcall = "error" /\ CleanupFails("startBlueprint")
    /\ step' = "mail"
    /\ bcall' = "idle"
    /\ UNCHANGED <<doguVars, bpStopped, stoppedBlueprints, btodo, historyOfBlueprints,
                   maintenance, mail, finalResult>>
    /\ CleanupFrame

\* The mail tells runError only.  Without a mail server none is sent; the server
\* may have taken a mail that Send returns an error for.
SendMail ==
    /\ step = "mail"
    /\ \/ /\ ~CtxDone
          /\ mail' = IF runErr = "none" THEN "success" ELSE "failure"
          /\ CleanupSucceeds \/ CleanupFails("mail")
       \/ UNCHANGED mail /\ CleanupSucceeds
       \/ UNCHANGED mail /\ CleanupFails("mail")
    /\ finalResult' = IF kind = "delta" THEN finalResult
                      ELSE IF runErr = "none" /\ panic = "none" THEN "ok" ELSE "failed"
    /\ step' = "returned"
    /\ UNCHANGED <<doguVars, blueprintVars, maintenance>> /\ CleanupFrame

Returns ==
    /\ step = "returned" /\ panic = "none"
    /\ step' = "idle"
    /\ UNCHANGED <<ctx, kind, runErr, panic, retErr, failed, mail, historyOfRuns>>
    /\ ComponentsUnchanged

-----------------------------------------------------------------------------
(* The process. *)

Signal ==
    /\ ctx' = "done" /\ ~CtxDone
    /\ UNCHANGED <<controlVars, historyOfRuns>> /\ ComponentsUnchanged

\* The process ends, after a signal, by a kill or by a panic thrown again,
\* and is started anew: only what it keeps in memory is lost.
CrashAndRestart ==
    /\ step # "idle" \/ stoppedBlueprints # {} \/ CtxDone
    /\ step' = "idle" /\ ctx' = "active" /\ panic' = "none"
    /\ faults' = faults \cup {"crash"}
    /\ finalResult' = IF kind = "final" /\ step \notin {"idle", "returned"}
                      THEN "failed" ELSE finalResult
    /\ stoppedBlueprints' = {} /\ forgotten' = forgotten \cup stoppedBlueprints
    /\ dcall' = "idle" /\ dtodo' = {} /\ bcall' = "idle" /\ btodo' = {} /\ jcall' = "idle"
    /\ UNCHANGED <<stopped, pods, bpStopped, stoppedBy, job, current, maintenance,
                   kind, runErr, retErr, failed, mail, migrations>>

DoguActs == DoguProgress /\ UNCHANGED controlVars /\ DoguFrame
BlueprintActs == BlueprintProgress /\ UNCHANGED controlVars /\ BlueprintFrame
RunnerActs == /\ JobCreated \/ RunReturnsNil \/ RunReturnsError
              /\ UNCHANGED controlVars /\ RunnerFrame
JobActs == JobEnds /\ UNCHANGED controlVars /\ RunnerFrame
DoguOperator == OperatorActs /\ UNCHANGED controlVars /\ DoguFrame
User == UserStopsBlueprint /\ UNCHANGED controlVars /\ BlueprintFrame

RunStep == \/ CheckEnds \/ StopBlueprintStarts \/ StopBlueprintEnds \/ StopAllStarts
           \/ StopAllEnds \/ EnableMaintenance \/ JobStarts \/ JobStepEnds

CleanupStep == \/ DisableMaintenance \/ StartAllStarts \/ StartAllEnds
               \/ StartBlueprintStarts \/ StartBlueprintEnds \/ SendMail \/ Returns

Next == \/ MigrationBegins \/ LoggerFails \/ RunStep \/ Panics \/ CleanupStep
        \/ DoguActs \/ BlueprintActs \/ RunnerActs \/ JobActs \/ DoguOperator \/ User
        \/ Signal \/ CrashAndRestart

Spec == Init /\ [][Next]_vars

(* A migration under way goes on: calls return, jobs end.  No fairness is    *)
(* asked of the dogu operator, the users or Kubernetes.                      *)
Fairness ==
    /\ WF_vars(RunStep)
    /\ WF_vars(CleanupStep)
    /\ WF_vars(DoguActs)
    /\ WF_vars(BlueprintActs)
    /\ WF_vars(JobActs)
    /\ WF_vars(RunnerActs)

FairSpec == Spec /\ Fairness

-----------------------------------------------------------------------------
(* Properties. *)

\* While the job of the migration under way copies data, no dogu of the target
\* has a pod, no blueprint of the target is active, and in a final migration
\* the source is in maintenance mode (runner.go:140-162).
SyncIsolated ==
    step = "job" /\ jcall = "busy" /\ current # 0 =>
        /\ pods = {} /\ stopped = Dogus
        /\ bpStopped = Blueprints
        /\ kind = "final" => maintenance = "on"

\* A blueprint that the importer has stopped and not started again is one it
\* remembers, or one whose stop it never learned of or forgot in a restart
\* (blueprintClient.go:44-75).
BlueprintsAccounted ==
    \A b \in bpStopped : stoppedBy[b] = "control" => b \in stoppedBlueprints \cup forgotten

\* RunMigration returns nil only if every step and every cleanup step did,
\* and the error that ended the run is never lost (runner.go:170-207).
ReturnTellsFailure ==
    step = "returned" => (retErr = {} <=> failed = {}) /\ RunErrors \subseteq retErr

\* Between migrations the source is in maintenance mode only if the final
\* migration went well, or its cleanup could not switch the mode off, or the
\* process was ended in the middle (runner.go:155-160, 179-184).
MaintenanceAccounted ==
    step = "idle" /\ maintenance = "on" => finalResult = "ok" \/ faults \cap {"disable", "crash"} # {}

\* A mail tells of success only if the job of this migration succeeded, but
\* for a panic, and for a context that was done before the job ended.
MailTellsOfJob ==
    step \in {"mail", "returned"} /\ mail = "success" =>
        \/ panic = "panic"
        \/ current # 0 /\ job[current] = "succeeded"
        \/ CtxDone

\* When RunMigration returns, each part of its cleanup has done all of its work,
\* after a panic and in a shutdown too, or its failure is in the log: no dogu is
\* left stopped, no blueprint that the importer knows to have stopped, and the
\* source not frozen by a final migration that failed (runner.go:170-201).
CleanupIsComplete ==
    step = "returned" /\ "logger" \notin failed =>
        /\ "startAll" \notin failed => stopped = {}
        /\ "startBlueprint" \notin failed =>
              \A b \in bpStopped : stoppedBy[b] = "control" => b \in forgotten
        /\ kind = "final" /\ (runErr # "none" \/ panic = "panic") /\ "disable" \notin failed =>
              maintenance = "off"

\* Every migration comes to an end (no fairness is asked of the pods: the
\* waiting of StopAll has a timeout, doguClient.go:100-120).
MigrationsEnd == step # "idle" ~> step = "idle" \/ panic = "panic"

\* Once a migration has begun to stop dogus, all dogus are wanted running
\* again, or starting them has failed, or the process was ended.
DogusComeBack ==
    step = "stopAll" ~> stopped = {} \/ faults \cap {"startAll", "crash"} # {}

-----------------------------------------------------------------------------
(* What comments of the code say and the code does not do. *)

\* "A dogu process that is still running (e.g. a terminating pod) keeps the
\* old files open while they are replaced." (doguClient.go:55), so no dogu
\* runs while a job replaces the files.  A process that panics, is told to end
\* or dies is not meant: also without that, a Run whose watch breaks returns an
\* error, leaves its job active, and the cleanup starts the dogus.
NoDoguRunsDuringSync ==
    panic = "none" /\ ~CtxDone /\ "crash" \notin faults =>
        ((\E j \in Jobs : job[j] = "active") => pods = {})

\* "success: Indicates whether the migration was successful." (mailer.go:102)
MailSuccessMeansSuccess == mail = "success" => panic = "none"

=============================================================================
