----------------------------- MODULE MigratorProofs -----------------------------
(* Proofs about Migrator, for any dogus, any blueprints and any bounds.      *)
EXTENDS Migrator, TLAPS

USE DEF ComponentsUnchanged, DoguFrame, BlueprintFrame, RunnerFrame, MaintenanceFrame, CleanupFrame,
        doguVars, historyOfBlueprints, blueprintVars, runnerVars, controlVars, historyOfRuns, vars,
        CtxDone, Checks, RunSteps, CleanupSteps, CleanupAfterFailure

-----------------------------------------------------------------------------

(* Types of the variables of RunMigration itself. *)

\* A step of the run that succeeds keeps the types.
LEMMA GoesOnKeepsTypes == ASSUME ControlTypeOK, NEW s \in RunSteps, GoesOn(s) PROVE ControlTypeOK'
  BY DEF ControlTypeOK, GoesOn, StepOrder

\* So does one that fails, and is the error of the run.
LEMMA FailsKeepsTypes == ASSUME ControlTypeOK, NEW s \in RunSteps, Fails(s) PROVE ControlTypeOK'
<1>1. {s} \subseteq Steps
  BY DEF Steps
<1>2. retErr' \subseteq Steps /\ failed' \subseteq Steps
  BY <1>1 DEF Fails, ControlTypeOK
<1> QED
  BY <1>2 DEF Fails, ControlTypeOK

\* A cleanup step that fails is among the steps that failed.
LEMMA CleanupFailsTypes ==
    ASSUME ControlTypeOK, NEW s \in CleanupSteps, CleanupFails(s),
           faults \subseteq CleanupSteps \cup {"crash"}
    PROVE  /\ retErr' \subseteq Steps /\ failed' \subseteq Steps
           /\ faults' \subseteq CleanupSteps \cup {"crash"}
<1>1. {s} \subseteq Steps /\ RunErrors \subseteq Steps
  BY DEF Steps, RunErrors, ControlTypeOK
<1>2. retErr' \subseteq Steps /\ failed' \subseteq Steps
  BY <1>1 DEF CleanupFails, ControlTypeOK
<1>3. faults' \subseteq CleanupSteps \cup {"crash"}
  BY DEF CleanupFails
<1> QED
  BY <1>2, <1>3

\* The variables keep their types in every state.
THEOREM MigratorTypeCorrect == Spec => []MigratorTypeOK
<1>1. Init => MigratorTypeOK
  BY MigratorAssumption DEF Init, DoguInit, BlueprintInit, RunnerInit, ControlTypeOK, Jobs, MigratorTypeOK, CtxTypeOK, DoguTypeOK, BlueprintTypeOK, RunnerTypeOK
<1>2. MigratorTypeOK /\ [Next]_vars => MigratorTypeOK'
  <2> SUFFICES ASSUME MigratorTypeOK, [Next]_vars PROVE MigratorTypeOK'
    OBVIOUS
  <2> USE MigratorAssumption DEF MigratorTypeOK, CtxTypeOK, DoguTypeOK, BlueprintTypeOK, RunnerTypeOK
  <2>1. CASE MigrationBegins
    BY <2>1 DEF MigrationBegins, KindsToBegin, ControlTypeOK
  <2>2. CASE LoggerFails
    BY <2>2 DEF LoggerFails, KindsToBegin, ControlTypeOK, Steps
  <2>3. CASE CheckEnds
    <3>1. ControlTypeOK'
      BY <2>3, GoesOnKeepsTypes, FailsKeepsTypes DEF CheckEnds, Ends, ControlTypeOK
    <3> QED
      BY <2>3, <3>1 DEF CheckEnds
  <2>4. CASE StopBlueprintStarts
    BY <2>4 DEF StopBlueprintStarts, StopBlueprintBegins, BlueprintCallFails,
           ControlTypeOK
  <2>5. CASE StopBlueprintEnds
    <3>1. ControlTypeOK'
      BY <2>5, GoesOnKeepsTypes, FailsKeepsTypes DEF StopBlueprintEnds, Ends, ControlTypeOK
    <3> QED
      BY <2>5, <3>1 DEF StopBlueprintEnds
  <2>6. CASE StopAllStarts
    BY <2>6 DEF StopAllStarts, StopAllBegins, DoguCallFails, ControlTypeOK
  <2>7. CASE StopAllEnds
    <3>1. ControlTypeOK'
      BY <2>7, GoesOnKeepsTypes, FailsKeepsTypes DEF StopAllEnds, Ends, ControlTypeOK
    <3> QED
      BY <2>7, <3>1 DEF StopAllEnds
  <2>8. CASE EnableMaintenance
    <3>1. ControlTypeOK'
      BY <2>8, GoesOnKeepsTypes, FailsKeepsTypes DEF EnableMaintenance, Ends, ControlTypeOK
    <3> QED
      BY <2>8, <3>1 DEF EnableMaintenance
  <2>9. CASE JobStarts
    BY <2>9 DEF JobStarts, RunBegins, ControlTypeOK
  <2>10. CASE JobStepEnds
    <3>1. ControlTypeOK'
      BY <2>10, GoesOnKeepsTypes, FailsKeepsTypes DEF JobStepEnds, Ends, ControlTypeOK
    <3> QED
      BY <2>10, <3>1 DEF JobStepEnds, RunIsOver
  <2>11. CASE Panics
    BY <2>11 DEF Panics, ControlTypeOK
  <2>12. CASE DisableMaintenance
    <3>1. /\ retErr' \subseteq Steps /\ failed' \subseteq Steps
          /\ faults' \subseteq CleanupSteps \cup {"crash"}
      BY <2>12, CleanupFailsTypes DEF DisableMaintenance, CleanupSucceeds, ControlTypeOK
    <3> QED
      BY <2>12, <3>1 DEF DisableMaintenance, ControlTypeOK
  <2>13. CASE StartAllStarts
    BY <2>13 DEF StartAllStarts, StartAllBegins, DoguCallFails, ControlTypeOK
  <2>14. CASE StartAllEnds
    <3>1. /\ retErr' \subseteq Steps /\ failed' \subseteq Steps
          /\ faults' \subseteq CleanupSteps \cup {"crash"}
      BY <2>14, CleanupFailsTypes DEF StartAllEnds, CleanupSucceeds, ControlTypeOK
    <3> QED
      BY <2>14, <3>1 DEF StartAllEnds, ControlTypeOK
  <2>15. CASE StartBlueprintStarts
    BY <2>15 DEF StartBlueprintStarts, StartBlueprintBegins, ControlTypeOK
  <2>16. CASE StartBlueprintEnds
    <3>1. /\ retErr' \subseteq Steps /\ failed' \subseteq Steps
          /\ faults' \subseteq CleanupSteps \cup {"crash"}
      BY <2>16, CleanupFailsTypes DEF StartBlueprintEnds, CleanupSucceeds, ControlTypeOK
    <3> QED
      BY <2>16, <3>1 DEF StartBlueprintEnds, ControlTypeOK
  <2>17. CASE SendMail
    <3>1. /\ retErr' \subseteq Steps /\ failed' \subseteq Steps
          /\ faults' \subseteq CleanupSteps \cup {"crash"}
      BY <2>17, CleanupFailsTypes DEF SendMail, CleanupSucceeds, ControlTypeOK
    <3> QED
      BY <2>17, <3>1 DEF SendMail, ControlTypeOK
  <2>18. CASE Returns
    BY <2>18 DEF Returns, ControlTypeOK
  <2>19. CASE DoguActs
    <3>1. CASE StopDogu
      BY <2>19, <3>1 DEF DoguActs, StopDogu, DoguCallFails, ControlTypeOK
    <3>2. CASE StopAllWaits
      BY <2>19, <3>2 DEF DoguActs, StopAllWaits, ControlTypeOK
    <3>3. CASE WaitForPods
      BY <2>19, <3>3 DEF DoguActs, WaitForPods, DoguCallFails, ControlTypeOK
    <3>4. CASE StopAllReturns
      BY <2>19, <3>4 DEF DoguActs, StopAllReturns, ControlTypeOK
    <3>5. CASE StartDogu
      BY <2>19, <3>5 DEF DoguActs, StartDogu, DoguCallFails, ControlTypeOK
    <3>6. CASE StartAllReturns
      BY <2>19, <3>6 DEF DoguActs, StartAllReturns, ControlTypeOK
    <3> QED
      BY <2>19, <3>1, <3>2, <3>3, <3>4, <3>5, <3>6 DEF DoguActs, DoguProgress
  <2>20. CASE BlueprintActs
    <3>1. CASE StopOneBlueprint
      BY <2>20, <3>1 DEF BlueprintActs, StopOneBlueprint, BlueprintCallFails, PatchStop,
             ControlTypeOK
    <3>2. CASE StopBlueprintReturns
      BY <2>20, <3>2 DEF BlueprintActs, StopBlueprintReturns, ControlTypeOK
    <3>3. CASE StartOneBlueprint
      BY <2>20, <3>3 DEF BlueprintActs, StartOneBlueprint, BlueprintCallFails, PatchStart,
             ControlTypeOK
    <3>4. CASE StartBlueprintReturns
      BY <2>20, <3>4 DEF BlueprintActs, StartBlueprintReturns, ControlTypeOK
    <3> QED
      BY <2>20, <3>1, <3>2, <3>3, <3>4 DEF BlueprintActs, BlueprintProgress
  <2>21. CASE RunnerActs
    BY <2>21 DEF RunnerActs, JobCreated, RunReturnsNil, RunReturnsError, Jobs, ControlTypeOK
  <2>22. CASE JobActs
    BY <2>22 DEF JobActs, JobEnds, Jobs, ControlTypeOK
  <2>23. CASE DoguOperator
    BY <2>23 DEF DoguOperator, OperatorActs, ControlTypeOK
  <2>24. CASE User
    BY <2>24 DEF User, UserStopsBlueprint, ControlTypeOK
  <2>25. CASE Signal
    BY <2>25 DEF Signal, ControlTypeOK
  <2>26. CASE CrashAndRestart
    BY <2>26 DEF CrashAndRestart, ControlTypeOK
  <2>27. CASE UNCHANGED vars
    BY <2>27 DEF ControlTypeOK
  <2> QED
    BY <2>1, <2>2, <2>3, <2>4, <2>5, <2>6, <2>7, <2>8, <2>9, <2>10, <2>11,
       <2>12, <2>13, <2>14, <2>15, <2>16, <2>17, <2>18, <2>19, <2>20, <2>21,
       <2>22, <2>23, <2>24, <2>25, <2>26, <2>27 DEF Next, RunStep, CleanupStep
<1> QED
  BY <1>1, <1>2, PTL DEF Spec

-----------------------------------------------------------------------------
(* The isolation of the job.  StopAll and StopBlueprint reach every dogu and *)
(* every blueprint before they return nil; between their return and the      *)
(* cleanup nobody starts one again.  A call is under way in its step only.   *)

BlueprintsStop ==
    /\ step \notin {"stopBlueprint", "startBlueprint"} => bcall = "idle"
    /\ step = "stopBlueprint" => bcall # "start"
    /\ step = "stopBlueprint" /\ bcall \in {"stop", "ok"} => Blueprints \subseteq bpStopped \cup btodo
    /\ bcall = "ok" => btodo = {}
    /\ step \in {"resize", "stopAll", "enable", "job"} => bpStopped = Blueprints

DogusStop ==
    /\ step \notin {"stopAll", "startAll"} => dcall = "idle"
    /\ step = "stopAll" => dcall # "start"
    /\ step = "stopAll" /\ dcall = "stop" => Dogus \subseteq stopped \cup dtodo
    /\ step = "stopAll" /\ dcall \in {"wait", "ok"} => stopped = Dogus /\ pods \subseteq dtodo
    /\ dcall = "ok" => dtodo = {}
    /\ step \in {"enable", "job"} => stopped = Dogus /\ pods = {}

SourceIsFrozen ==
    /\ step # "job" => jcall = "idle"
    /\ step = "job" /\ kind = "final" => maintenance = "on"

-----------------------------------------------------------------------------

\* No blueprint is active from the return of StopBlueprint to the cleanup.
LEMMA BlueprintsStopHolds == Spec => []BlueprintsStop
<1>1. Init => BlueprintsStop
  BY MigratorAssumption DEF Init, DoguInit, BlueprintInit, RunnerInit, BlueprintsStop, MigratorTypeOK, ControlTypeOK, BlueprintTypeOK
<1>2. MigratorTypeOK /\ BlueprintsStop /\ [Next]_vars => BlueprintsStop'
  <2> SUFFICES ASSUME MigratorTypeOK, BlueprintsStop, [Next]_vars PROVE BlueprintsStop'
    OBVIOUS
  <2> USE DEF BlueprintsStop, MigratorTypeOK, ControlTypeOK, BlueprintTypeOK
  <2>1. CASE MigrationBegins
    BY <2>1 DEF MigrationBegins
  <2>2. CASE LoggerFails
    BY <2>2 DEF LoggerFails
  <2>3. CASE CheckEnds
    BY <2>3 DEF CheckEnds, GoesOn, Fails, StepOrder
  <2>4. CASE StopBlueprintStarts
    BY <2>4 DEF StopBlueprintStarts, StopBlueprintBegins, BlueprintCallFails
  <2>5. CASE StopBlueprintEnds
    BY <2>5 DEF StopBlueprintEnds, Ends, GoesOn, Fails, StepOrder
  <2>6. CASE StopAllStarts
    BY <2>6 DEF StopAllStarts, StopAllBegins, DoguCallFails
  <2>7. CASE StopAllEnds
    BY <2>7 DEF StopAllEnds, Ends, GoesOn, Fails, StepOrder
  <2>8. CASE EnableMaintenance
    BY <2>8 DEF EnableMaintenance, GoesOn, Fails, StepOrder
  <2>9. CASE JobStarts
    BY <2>9 DEF JobStarts, RunBegins
  <2>10. CASE JobStepEnds
    BY <2>10 DEF JobStepEnds, RunIsOver, Ends, GoesOn, Fails, StepOrder
  <2>11. CASE Panics
    BY <2>11 DEF Panics
  <2>12. CASE DisableMaintenance
    BY <2>12 DEF DisableMaintenance, CleanupSucceeds, CleanupFails
  <2>13. CASE StartAllStarts
    BY <2>13 DEF StartAllStarts, StartAllBegins, DoguCallFails
  <2>14. CASE StartAllEnds
    BY <2>14 DEF StartAllEnds, CleanupSucceeds, CleanupFails
  <2>15. CASE StartBlueprintStarts
    BY <2>15 DEF StartBlueprintStarts, StartBlueprintBegins
  <2>16. CASE StartBlueprintEnds
    BY <2>16 DEF StartBlueprintEnds, CleanupSucceeds, CleanupFails
  <2>17. CASE SendMail
    BY <2>17 DEF SendMail, CleanupSucceeds, CleanupFails
  <2>18. CASE Returns
    BY <2>18 DEF Returns
  <2>19. CASE DoguActs
    BY <2>19 DEF DoguActs
  <2>20. CASE BlueprintActs
    <3>1. CASE StopOneBlueprint
      BY <2>20, <3>1 DEF BlueprintActs, StopOneBlueprint, BlueprintCallFails,
         PatchStop
    <3>2. CASE StopBlueprintReturns
      BY <2>20, <3>2 DEF BlueprintActs, StopBlueprintReturns
    <3>3. CASE StartOneBlueprint
      BY <2>20, <3>3 DEF BlueprintActs, StartOneBlueprint, BlueprintCallFails,
         PatchStart
    <3>4. CASE StartBlueprintReturns
      BY <2>20, <3>4 DEF BlueprintActs, StartBlueprintReturns
    <3> QED
      BY <2>20, <3>1, <3>2, <3>3, <3>4 DEF BlueprintActs, BlueprintProgress
  <2>21. CASE RunnerActs
    BY <2>21 DEF RunnerActs, JobCreated, RunReturnsNil, RunReturnsError
  <2>22. CASE JobActs
    BY <2>22 DEF JobActs, JobEnds
  <2>23. CASE DoguOperator
    BY <2>23 DEF DoguOperator, OperatorActs
  <2>24. CASE User
    BY <2>24 DEF User, UserStopsBlueprint
  <2>25. CASE Signal
    BY <2>25 DEF Signal
  <2>26. CASE CrashAndRestart
    BY <2>26 DEF CrashAndRestart
  <2>27. CASE UNCHANGED vars
    BY <2>27
  <2> QED
    BY <2>1, <2>2, <2>3, <2>4, <2>5, <2>6, <2>7, <2>8, <2>9, <2>10, <2>11,
       <2>12, <2>13, <2>14, <2>15, <2>16, <2>17, <2>18, <2>19, <2>20, <2>21,
       <2>22, <2>23, <2>24, <2>25, <2>26, <2>27 DEF Next, RunStep, CleanupStep
<1> QED
  BY <1>1, <1>2, MigratorTypeCorrect, PTL DEF Spec

-----------------------------------------------------------------------------
\* No dogu has a pod from the return of StopAll to the cleanup.
LEMMA DogusStopHolds == Spec => []DogusStop
<1>1. Init => DogusStop
  BY MigratorAssumption DEF Init, DoguInit, BlueprintInit, RunnerInit, DogusStop, MigratorTypeOK, ControlTypeOK, DoguTypeOK
<1>2. MigratorTypeOK /\ DogusStop /\ [Next]_vars => DogusStop'
  <2> SUFFICES ASSUME MigratorTypeOK, DogusStop, [Next]_vars PROVE DogusStop'
    OBVIOUS
  <2> USE DEF DogusStop, MigratorTypeOK, ControlTypeOK, DoguTypeOK
  <2>1. CASE MigrationBegins
    BY <2>1 DEF MigrationBegins
  <2>2. CASE LoggerFails
    BY <2>2 DEF LoggerFails
  <2>3. CASE CheckEnds
    BY <2>3 DEF CheckEnds, GoesOn, Fails, StepOrder
  <2>4. CASE StopBlueprintStarts
    BY <2>4 DEF StopBlueprintStarts, StopBlueprintBegins, BlueprintCallFails
  <2>5. CASE StopBlueprintEnds
    BY <2>5 DEF StopBlueprintEnds, Ends, GoesOn, Fails, StepOrder
  <2>6. CASE StopAllStarts
    BY <2>6 DEF StopAllStarts, StopAllBegins, DoguCallFails
  <2>7. CASE StopAllEnds
    BY <2>7 DEF StopAllEnds, Ends, GoesOn, Fails, StepOrder
  <2>8. CASE EnableMaintenance
    BY <2>8 DEF EnableMaintenance, GoesOn, Fails, StepOrder
  <2>9. CASE JobStarts
    BY <2>9 DEF JobStarts, RunBegins
  <2>10. CASE JobStepEnds
    BY <2>10 DEF JobStepEnds, RunIsOver, Ends, GoesOn, Fails, StepOrder
  <2>11. CASE Panics
    BY <2>11 DEF Panics
  <2>12. CASE DisableMaintenance
    BY <2>12 DEF DisableMaintenance, CleanupSucceeds, CleanupFails
  <2>13. CASE StartAllStarts
    BY <2>13 DEF StartAllStarts, StartAllBegins, DoguCallFails
  <2>14. CASE StartAllEnds
    BY <2>14 DEF StartAllEnds, CleanupSucceeds, CleanupFails
  <2>15. CASE StartBlueprintStarts
    BY <2>15 DEF StartBlueprintStarts, StartBlueprintBegins
  <2>16. CASE StartBlueprintEnds
    BY <2>16 DEF StartBlueprintEnds, CleanupSucceeds, CleanupFails
  <2>17. CASE SendMail
    BY <2>17 DEF SendMail, CleanupSucceeds, CleanupFails
  <2>18. CASE Returns
    BY <2>18 DEF Returns
  <2>19. CASE DoguActs
    <3>1. CASE StopDogu
      BY <2>19, <3>1 DEF DoguActs, StopDogu, DoguCallFails
    <3>2. CASE StopAllWaits
      BY <2>19, <3>2 DEF DoguActs, StopAllWaits
    <3>3. CASE WaitForPods
      BY <2>19, <3>3 DEF DoguActs, WaitForPods, DoguCallFails
    <3>4. CASE StopAllReturns
      BY <2>19, <3>4 DEF DoguActs, StopAllReturns
    <3>5. CASE StartDogu
      BY <2>19, <3>5 DEF DoguActs, StartDogu, DoguCallFails
    <3>6. CASE StartAllReturns
      BY <2>19, <3>6 DEF DoguActs, StartAllReturns
    <3> QED
      BY <2>19, <3>1, <3>2, <3>3, <3>4, <3>5, <3>6 DEF DoguActs, DoguProgress
  <2>20. CASE BlueprintActs
    BY <2>20 DEF BlueprintActs
  <2>21. CASE RunnerActs
    BY <2>21 DEF RunnerActs, JobCreated, RunReturnsNil, RunReturnsError
  <2>22. CASE JobActs
    BY <2>22 DEF JobActs, JobEnds
  <2>23. CASE DoguOperator
    BY <2>23 DEF DoguOperator, OperatorActs
  <2>24. CASE User
    BY <2>24 DEF User, UserStopsBlueprint
  <2>25. CASE Signal
    BY <2>25 DEF Signal
  <2>26. CASE CrashAndRestart
    BY <2>26 DEF CrashAndRestart
  <2>27. CASE UNCHANGED vars
    BY <2>27
  <2> QED
    BY <2>1, <2>2, <2>3, <2>4, <2>5, <2>6, <2>7, <2>8, <2>9, <2>10, <2>11,
       <2>12, <2>13, <2>14, <2>15, <2>16, <2>17, <2>18, <2>19, <2>20, <2>21,
       <2>22, <2>23, <2>24, <2>25, <2>26, <2>27 DEF Next, RunStep, CleanupStep
<1> QED
  BY <1>1, <1>2, MigratorTypeCorrect, PTL DEF Spec

-----------------------------------------------------------------------------
\* The source is in maintenance mode during the job of a final migration.
LEMMA SourceIsFrozenHolds == Spec => []SourceIsFrozen
<1>1. Init => SourceIsFrozen
  BY MigratorAssumption DEF Init, DoguInit, BlueprintInit, RunnerInit, SourceIsFrozen, MigratorTypeOK, ControlTypeOK
<1>2. MigratorTypeOK /\ SourceIsFrozen /\ [Next]_vars => SourceIsFrozen'
  <2> SUFFICES ASSUME MigratorTypeOK, SourceIsFrozen, [Next]_vars PROVE SourceIsFrozen'
    OBVIOUS
  <2> USE DEF SourceIsFrozen, MigratorTypeOK, ControlTypeOK
  <2>1. CASE MigrationBegins
    BY <2>1 DEF MigrationBegins
  <2>2. CASE LoggerFails
    BY <2>2 DEF LoggerFails
  <2>3. CASE CheckEnds
    BY <2>3 DEF CheckEnds, GoesOn, Fails, StepOrder
  <2>4. CASE StopBlueprintStarts
    BY <2>4 DEF StopBlueprintStarts, StopBlueprintBegins, BlueprintCallFails
  <2>5. CASE StopBlueprintEnds
    BY <2>5 DEF StopBlueprintEnds, Ends, GoesOn, Fails, StepOrder
  <2>6. CASE StopAllStarts
    BY <2>6 DEF StopAllStarts, StopAllBegins, DoguCallFails
  <2>7. CASE StopAllEnds
    BY <2>7 DEF StopAllEnds, Ends, GoesOn, Fails, StepOrder
  <2>8. CASE EnableMaintenance
    BY <2>8 DEF EnableMaintenance, GoesOn, Fails, StepOrder
  <2>9. CASE JobStarts
    BY <2>9 DEF JobStarts, RunBegins
  <2>10. CASE JobStepEnds
    BY <2>10 DEF JobStepEnds, RunIsOver, Ends, GoesOn, Fails, StepOrder
  <2>11. CASE Panics
    BY <2>11 DEF Panics
  <2>12. CASE DisableMaintenance
    BY <2>12 DEF DisableMaintenance, CleanupSucceeds, CleanupFails
  <2>13. CASE StartAllStarts
    BY <2>13 DEF StartAllStarts, StartAllBegins, DoguCallFails
  <2>14. CASE StartAllEnds
    BY <2>14 DEF StartAllEnds, CleanupSucceeds, CleanupFails
  <2>15. CASE StartBlueprintStarts
    BY <2>15 DEF StartBlueprintStarts, StartBlueprintBegins
  <2>16. CASE StartBlueprintEnds
    BY <2>16 DEF StartBlueprintEnds, CleanupSucceeds, CleanupFails
  <2>17. CASE SendMail
    BY <2>17 DEF SendMail, CleanupSucceeds, CleanupFails
  <2>18. CASE Returns
    BY <2>18 DEF Returns
  <2>19. CASE DoguActs
    BY <2>19 DEF DoguActs
  <2>20. CASE BlueprintActs
    BY <2>20 DEF BlueprintActs
  <2>21. CASE RunnerActs
    BY <2>21 DEF RunnerActs, JobCreated, RunReturnsNil, RunReturnsError
  <2>22. CASE JobActs
    BY <2>22 DEF JobActs, JobEnds
  <2>23. CASE DoguOperator
    BY <2>23 DEF DoguOperator, OperatorActs
  <2>24. CASE User
    BY <2>24 DEF User, UserStopsBlueprint
  <2>25. CASE Signal
    BY <2>25 DEF Signal
  <2>26. CASE CrashAndRestart
    BY <2>26 DEF CrashAndRestart
  <2>27. CASE UNCHANGED vars
    BY <2>27
  <2> QED
    BY <2>1, <2>2, <2>3, <2>4, <2>5, <2>6, <2>7, <2>8, <2>9, <2>10, <2>11,
       <2>12, <2>13, <2>14, <2>15, <2>16, <2>17, <2>18, <2>19, <2>20, <2>21,
       <2>22, <2>23, <2>24, <2>25, <2>26, <2>27 DEF Next, RunStep, CleanupStep
<1> QED
  BY <1>1, <1>2, MigratorTypeCorrect, PTL DEF Spec

-----------------------------------------------------------------------------
\* While the job of the migration under way copies data nothing else is active
\* (SyncIsolated in Migrator.tla).
THEOREM JobIsIsolated == Spec => []SyncIsolated
<1>1. BlueprintsStop /\ DogusStop /\ SourceIsFrozen => SyncIsolated
  BY DEF BlueprintsStop, DogusStop, SourceIsFrozen, SyncIsolated
<1> QED
  BY <1>1, BlueprintsStopHolds, DogusStopHolds, SourceIsFrozenHolds, PTL

-----------------------------------------------------------------------------
(* The blueprints that were stopped.  While StartBlueprint goes through its  *)
(* list, those behind it are started.                                        *)

AccountInv ==
    /\ BlueprintsAccounted
    /\ bcall = "start" => \A b \in stoppedBlueprints \ btodo :
                              b \in bpStopped => stoppedBy[b] # "control"

\* StartBlueprint clears only a list whose blueprints it has started.
LEMMA AccountInvHolds == Spec => []AccountInv
<1>1. Init => AccountInv
  BY MigratorAssumption DEF Init, DoguInit, BlueprintInit, RunnerInit, AccountInv, BlueprintsAccounted, MigratorTypeOK, BlueprintTypeOK
<1>2. MigratorTypeOK /\ AccountInv /\ [Next]_vars => AccountInv'
  <2> SUFFICES ASSUME MigratorTypeOK, AccountInv, [Next]_vars PROVE AccountInv'
    OBVIOUS
  <2> USE DEF AccountInv, BlueprintsAccounted, MigratorTypeOK, BlueprintTypeOK
  <2>1. CASE MigrationBegins
    BY <2>1 DEF MigrationBegins
  <2>2. CASE LoggerFails
    BY <2>2 DEF LoggerFails
  <2>3. CASE CheckEnds
    BY <2>3 DEF CheckEnds, GoesOn, Fails, StepOrder
  <2>4. CASE StopBlueprintStarts
    BY <2>4 DEF StopBlueprintStarts, StopBlueprintBegins, BlueprintCallFails
  <2>5. CASE StopBlueprintEnds
    BY <2>5 DEF StopBlueprintEnds, Ends, GoesOn, Fails, StepOrder
  <2>6. CASE StopAllStarts
    BY <2>6 DEF StopAllStarts, StopAllBegins, DoguCallFails
  <2>7. CASE StopAllEnds
    BY <2>7 DEF StopAllEnds, Ends, GoesOn, Fails, StepOrder
  <2>8. CASE EnableMaintenance
    BY <2>8 DEF EnableMaintenance, GoesOn, Fails, StepOrder
  <2>9. CASE JobStarts
    BY <2>9 DEF JobStarts, RunBegins
  <2>10. CASE JobStepEnds
    BY <2>10 DEF JobStepEnds, RunIsOver, Ends, GoesOn, Fails, StepOrder
  <2>11. CASE Panics
    BY <2>11 DEF Panics
  <2>12. CASE DisableMaintenance
    BY <2>12 DEF DisableMaintenance, CleanupSucceeds, CleanupFails
  <2>13. CASE StartAllStarts
    BY <2>13 DEF StartAllStarts, StartAllBegins, DoguCallFails
  <2>14. CASE StartAllEnds
    BY <2>14 DEF StartAllEnds, CleanupSucceeds, CleanupFails
  <2>15. CASE StartBlueprintStarts
    BY <2>15 DEF StartBlueprintStarts, StartBlueprintBegins
  <2>16. CASE StartBlueprintEnds
    BY <2>16 DEF StartBlueprintEnds, CleanupSucceeds, CleanupFails
  <2>17. CASE SendMail
    BY <2>17 DEF SendMail, CleanupSucceeds, CleanupFails
  <2>18. CASE Returns
    BY <2>18 DEF Returns
  <2>19. CASE DoguActs
    BY <2>19 DEF DoguActs
  <2>20. CASE BlueprintActs
    <3>1. CASE StopOneBlueprint
      BY <2>20, <3>1 DEF BlueprintActs, StopOneBlueprint, BlueprintCallFails,
         PatchStop
    <3>2. CASE StopBlueprintReturns
      BY <2>20, <3>2 DEF BlueprintActs, StopBlueprintReturns
    <3>3. CASE StartOneBlueprint
      BY <2>20, <3>3 DEF BlueprintActs, StartOneBlueprint, BlueprintCallFails,
         PatchStart
    <3>4. CASE StartBlueprintReturns
      BY <2>20, <3>4 DEF BlueprintActs, StartBlueprintReturns
    <3> QED
      BY <2>20, <3>1, <3>2, <3>3, <3>4 DEF BlueprintActs, BlueprintProgress
  <2>21. CASE RunnerActs
    BY <2>21 DEF RunnerActs, JobCreated, RunReturnsNil, RunReturnsError
  <2>22. CASE JobActs
    BY <2>22 DEF JobActs, JobEnds
  <2>23. CASE DoguOperator
    BY <2>23 DEF DoguOperator, OperatorActs
  <2>24. CASE User
    BY <2>24 DEF User, UserStopsBlueprint
  <2>25. CASE Signal
    BY <2>25 DEF Signal
  <2>26. CASE CrashAndRestart
    BY <2>26 DEF CrashAndRestart
  <2>27. CASE UNCHANGED vars
    BY <2>27
  <2> QED
    BY <2>1, <2>2, <2>3, <2>4, <2>5, <2>6, <2>7, <2>8, <2>9, <2>10, <2>11,
       <2>12, <2>13, <2>14, <2>15, <2>16, <2>17, <2>18, <2>19, <2>20, <2>21,
       <2>22, <2>23, <2>24, <2>25, <2>26, <2>27 DEF Next, RunStep, CleanupStep
<1> QED
  BY <1>1, <1>2, MigratorTypeCorrect, PTL DEF Spec

-----------------------------------------------------------------------------
\* No blueprint that the importer stopped is lost sight of (BlueprintsAccounted).
THEOREM NoBlueprintIsLost == Spec => []BlueprintsAccounted
<1>1. AccountInv => BlueprintsAccounted
  BY DEF AccountInv
<1> QED
  BY <1>1, AccountInvHolds, PTL

-----------------------------------------------------------------------------
(* What RunMigration returns and mails. *)

ErrorsInv ==
    /\ step \in RunSteps => runErr = "none" /\ retErr = {} /\ failed = {}
    /\ step \in CleanupSteps \cup {"returned"} => (retErr = {} <=> failed = {}) /\ RunErrors \subseteq retErr

\* No step fails before the first error, and no error is dropped after it.
LEMMA ErrorsInvHolds == Spec => []ErrorsInv
<1>1. Init => ErrorsInv
  BY MigratorAssumption DEF Init, DoguInit, BlueprintInit, RunnerInit, ErrorsInv, RunErrors, MigratorTypeOK, ControlTypeOK
<1>2. MigratorTypeOK /\ ErrorsInv /\ [Next]_vars => ErrorsInv'
  <2> SUFFICES ASSUME MigratorTypeOK, ErrorsInv, [Next]_vars PROVE ErrorsInv'
    OBVIOUS
  <2> USE DEF ErrorsInv, RunErrors, MigratorTypeOK, ControlTypeOK
  <2>1. CASE MigrationBegins
    BY <2>1 DEF MigrationBegins
  <2>2. CASE LoggerFails
    BY <2>2 DEF LoggerFails
  <2>3. CASE CheckEnds
    BY <2>3 DEF CheckEnds, GoesOn, Fails, StepOrder
  <2>4. CASE StopBlueprintStarts
    BY <2>4 DEF StopBlueprintStarts, StopBlueprintBegins, BlueprintCallFails
  <2>5. CASE StopBlueprintEnds
    BY <2>5 DEF StopBlueprintEnds, Ends, GoesOn, Fails, StepOrder
  <2>6. CASE StopAllStarts
    BY <2>6 DEF StopAllStarts, StopAllBegins, DoguCallFails
  <2>7. CASE StopAllEnds
    BY <2>7 DEF StopAllEnds, Ends, GoesOn, Fails, StepOrder
  <2>8. CASE EnableMaintenance
    BY <2>8 DEF EnableMaintenance, GoesOn, Fails, StepOrder
  <2>9. CASE JobStarts
    BY <2>9 DEF JobStarts, RunBegins
  <2>10. CASE JobStepEnds
    BY <2>10 DEF JobStepEnds, RunIsOver, Ends, GoesOn, Fails, StepOrder
  <2>11. CASE Panics
    BY <2>11 DEF Panics
  <2>12. CASE DisableMaintenance
    BY <2>12 DEF DisableMaintenance, CleanupSucceeds, CleanupFails
  <2>13. CASE StartAllStarts
    BY <2>13 DEF StartAllStarts, StartAllBegins, DoguCallFails
  <2>14. CASE StartAllEnds
    BY <2>14 DEF StartAllEnds, CleanupSucceeds, CleanupFails
  <2>15. CASE StartBlueprintStarts
    BY <2>15 DEF StartBlueprintStarts, StartBlueprintBegins
  <2>16. CASE StartBlueprintEnds
    BY <2>16 DEF StartBlueprintEnds, CleanupSucceeds, CleanupFails
  <2>17. CASE SendMail
    BY <2>17 DEF SendMail, CleanupSucceeds, CleanupFails
  <2>18. CASE Returns
    BY <2>18 DEF Returns
  <2>19. CASE DoguActs
    <3>1. CASE StopDogu
      BY <2>19, <3>1 DEF DoguActs, StopDogu, DoguCallFails
    <3>2. CASE StopAllWaits
      BY <2>19, <3>2 DEF DoguActs, StopAllWaits
    <3>3. CASE WaitForPods
      BY <2>19, <3>3 DEF DoguActs, WaitForPods, DoguCallFails
    <3>4. CASE StopAllReturns
      BY <2>19, <3>4 DEF DoguActs, StopAllReturns
    <3>5. CASE StartDogu
      BY <2>19, <3>5 DEF DoguActs, StartDogu, DoguCallFails
    <3>6. CASE StartAllReturns
      BY <2>19, <3>6 DEF DoguActs, StartAllReturns
    <3> QED
      BY <2>19, <3>1, <3>2, <3>3, <3>4, <3>5, <3>6 DEF DoguActs, DoguProgress
  <2>20. CASE BlueprintActs
    <3>1. CASE StopOneBlueprint
      BY <2>20, <3>1 DEF BlueprintActs, StopOneBlueprint, BlueprintCallFails,
         PatchStop
    <3>2. CASE StopBlueprintReturns
      BY <2>20, <3>2 DEF BlueprintActs, StopBlueprintReturns
    <3>3. CASE StartOneBlueprint
      BY <2>20, <3>3 DEF BlueprintActs, StartOneBlueprint, BlueprintCallFails,
         PatchStart
    <3>4. CASE StartBlueprintReturns
      BY <2>20, <3>4 DEF BlueprintActs, StartBlueprintReturns
    <3> QED
      BY <2>20, <3>1, <3>2, <3>3, <3>4 DEF BlueprintActs, BlueprintProgress
  <2>21. CASE RunnerActs
    BY <2>21 DEF RunnerActs, JobCreated, RunReturnsNil, RunReturnsError
  <2>22. CASE JobActs
    BY <2>22 DEF JobActs, JobEnds
  <2>23. CASE DoguOperator
    BY <2>23 DEF DoguOperator, OperatorActs
  <2>24. CASE User
    BY <2>24 DEF User, UserStopsBlueprint
  <2>25. CASE Signal
    BY <2>25 DEF Signal
  <2>26. CASE CrashAndRestart
    BY <2>26 DEF CrashAndRestart
  <2>27. CASE UNCHANGED vars
    BY <2>27
  <2> QED
    BY <2>1, <2>2, <2>3, <2>4, <2>5, <2>6, <2>7, <2>8, <2>9, <2>10, <2>11,
       <2>12, <2>13, <2>14, <2>15, <2>16, <2>17, <2>18, <2>19, <2>20, <2>21,
       <2>22, <2>23, <2>24, <2>25, <2>26, <2>27 DEF Next, RunStep, CleanupStep
<1> QED
  BY <1>1, <1>2, MigratorTypeCorrect, PTL DEF Spec

-----------------------------------------------------------------------------
\* RunMigration returns nil only if nothing failed (ReturnTellsFailure).
THEOREM NoFailureIsHidden == Spec => []ReturnTellsFailure
<1>1. ErrorsInv => ReturnTellsFailure
  BY DEF ErrorsInv, ReturnTellsFailure
<1> QED
  BY <1>1, ErrorsInvHolds, PTL

-----------------------------------------------------------------------------
(* What the mail knows of the job. *)

JobSucceeded == current # 0 /\ job[current] = "succeeded"

MailInv ==
    /\ jcall = "ok" => JobSucceeded \/ CtxDone
    /\ jcall \in {"busy", "ok"} => step = "job"
    /\ step \in RunSteps => runErr = "none" /\ panic = "none"
    /\ step \in RunSteps \cup CleanupSteps => mail = "none"
    /\ step \in CleanupSteps => runErr # "none" \/ panic = "panic" \/ JobSucceeded \/ CtxDone
    /\ step = "returned" /\ mail = "success" => panic = "panic" \/ JobSucceeded \/ CtxDone

\* The result of the job is known in the cleanup, and stays what it is.
LEMMA MailInvHolds == Spec => []MailInv
<1>1. Init => MailInv
  BY MigratorAssumption DEF Init, DoguInit, BlueprintInit, RunnerInit, MailInv, JobSucceeded, MigratorTypeOK, ControlTypeOK, RunnerTypeOK, Jobs
<1>2. MigratorTypeOK /\ MailInv /\ [Next]_vars => MailInv'
  <2> SUFFICES ASSUME MigratorTypeOK, MailInv, [Next]_vars PROVE MailInv'
    OBVIOUS
  <2> USE DEF MailInv, JobSucceeded, MigratorTypeOK, ControlTypeOK, RunnerTypeOK, Jobs
  <2>1. CASE MigrationBegins
    BY <2>1 DEF MigrationBegins
  <2>2. CASE LoggerFails
    BY <2>2 DEF LoggerFails
  <2>3. CASE CheckEnds
    BY <2>3 DEF CheckEnds, GoesOn, Fails, StepOrder
  <2>4. CASE StopBlueprintStarts
    BY <2>4 DEF StopBlueprintStarts, StopBlueprintBegins, BlueprintCallFails
  <2>5. CASE StopBlueprintEnds
    BY <2>5 DEF StopBlueprintEnds, Ends, GoesOn, Fails, StepOrder
  <2>6. CASE StopAllStarts
    BY <2>6 DEF StopAllStarts, StopAllBegins, DoguCallFails
  <2>7. CASE StopAllEnds
    BY <2>7 DEF StopAllEnds, Ends, GoesOn, Fails, StepOrder
  <2>8. CASE EnableMaintenance
    BY <2>8 DEF EnableMaintenance, GoesOn, Fails, StepOrder
  <2>9. CASE JobStarts
    BY <2>9 DEF JobStarts, RunBegins
  <2>10. CASE JobStepEnds
    BY <2>10 DEF JobStepEnds, RunIsOver, Ends, GoesOn, Fails, StepOrder
  <2>11. CASE Panics
    BY <2>11 DEF Panics
  <2>12. CASE DisableMaintenance
    BY <2>12 DEF DisableMaintenance, CleanupSucceeds, CleanupFails
  <2>13. CASE StartAllStarts
    BY <2>13 DEF StartAllStarts, StartAllBegins, DoguCallFails
  <2>14. CASE StartAllEnds
    BY <2>14 DEF StartAllEnds, CleanupSucceeds, CleanupFails
  <2>15. CASE StartBlueprintStarts
    BY <2>15 DEF StartBlueprintStarts, StartBlueprintBegins
  <2>16. CASE StartBlueprintEnds
    BY <2>16 DEF StartBlueprintEnds, CleanupSucceeds, CleanupFails
  <2>17. CASE SendMail
    BY <2>17 DEF SendMail, CleanupSucceeds, CleanupFails
  <2>18. CASE Returns
    BY <2>18 DEF Returns
  <2>19. CASE DoguActs
    <3>1. CASE StopDogu
      BY <2>19, <3>1 DEF DoguActs, StopDogu, DoguCallFails
    <3>2. CASE StopAllWaits
      BY <2>19, <3>2 DEF DoguActs, StopAllWaits
    <3>3. CASE WaitForPods
      BY <2>19, <3>3 DEF DoguActs, WaitForPods, DoguCallFails
    <3>4. CASE StopAllReturns
      BY <2>19, <3>4 DEF DoguActs, StopAllReturns
    <3>5. CASE StartDogu
      BY <2>19, <3>5 DEF DoguActs, StartDogu, DoguCallFails
    <3>6. CASE StartAllReturns
      BY <2>19, <3>6 DEF DoguActs, StartAllReturns
    <3> QED
      BY <2>19, <3>1, <3>2, <3>3, <3>4, <3>5, <3>6 DEF DoguActs, DoguProgress
  <2>20. CASE BlueprintActs
    <3>1. CASE StopOneBlueprint
      BY <2>20, <3>1 DEF BlueprintActs, StopOneBlueprint, BlueprintCallFails,
         PatchStop
    <3>2. CASE StopBlueprintReturns
      BY <2>20, <3>2 DEF BlueprintActs, StopBlueprintReturns
    <3>3. CASE StartOneBlueprint
      BY <2>20, <3>3 DEF BlueprintActs, StartOneBlueprint, BlueprintCallFails,
         PatchStart
    <3>4. CASE StartBlueprintReturns
      BY <2>20, <3>4 DEF BlueprintActs, StartBlueprintReturns
    <3> QED
      BY <2>20, <3>1, <3>2, <3>3, <3>4 DEF BlueprintActs, BlueprintProgress
  <2>21. CASE RunnerActs
    BY <2>21 DEF RunnerActs, JobCreated, RunReturnsNil, RunReturnsError
  <2>22. CASE JobActs
    BY <2>22 DEF JobActs, JobEnds
  <2>23. CASE DoguOperator
    BY <2>23 DEF DoguOperator, OperatorActs
  <2>24. CASE User
    BY <2>24 DEF User, UserStopsBlueprint
  <2>25. CASE Signal
    BY <2>25 DEF Signal
  <2>26. CASE CrashAndRestart
    BY <2>26 DEF CrashAndRestart
  <2>27. CASE UNCHANGED vars
    BY <2>27
  <2> QED
    BY <2>1, <2>2, <2>3, <2>4, <2>5, <2>6, <2>7, <2>8, <2>9, <2>10, <2>11,
       <2>12, <2>13, <2>14, <2>15, <2>16, <2>17, <2>18, <2>19, <2>20, <2>21,
       <2>22, <2>23, <2>24, <2>25, <2>26, <2>27 DEF Next, RunStep, CleanupStep
<1> QED
  BY <1>1, <1>2, MigratorTypeCorrect, PTL DEF Spec

-----------------------------------------------------------------------------
\* A mail of success means a job that succeeded, a panic or a shutdown (MailTellsOfJob).
THEOREM MailIsRight == Spec => []MailTellsOfJob
<1>1. MailInv => MailTellsOfJob
  BY DEF MailInv, MailTellsOfJob, JobSucceeded
<1> QED
  BY <1>1, MailInvHolds, PTL

-----------------------------------------------------------------------------
(* The maintenance mode of the source. *)

MaintenanceInv ==
    /\ maintenance = "on" =>
         \/ finalResult = "ok"
         \/ faults \cap {"disable", "crash"} # {}
         \/ kind = "final" /\ step \in {"enable", "job", "disable"}
         \/ kind = "final" /\ step \in CleanupSteps /\ runErr = "none" /\ panic = "none"
    /\ step \in RunSteps \cup CleanupSteps /\ kind = "final" => finalResult # "ok"
    /\ step \in RunSteps => runErr = "none" /\ panic = "none"

\* Every way that leads out of the final migration decides about the mode.
LEMMA MaintenanceInvHolds == Spec => []MaintenanceInv
<1>1. Init => MaintenanceInv
  BY MigratorAssumption DEF Init, DoguInit, BlueprintInit, RunnerInit, MaintenanceInv, MigratorTypeOK, ControlTypeOK
<1>2. MigratorTypeOK /\ MaintenanceInv /\ [Next]_vars => MaintenanceInv'
  <2> SUFFICES ASSUME MigratorTypeOK, MaintenanceInv, [Next]_vars PROVE MaintenanceInv'
    OBVIOUS
  <2> USE DEF MaintenanceInv, MigratorTypeOK, ControlTypeOK
  <2>1. CASE MigrationBegins
    BY <2>1 DEF MigrationBegins, KindsToBegin
  <2>2. CASE LoggerFails
    BY <2>2 DEF LoggerFails, KindsToBegin
  <2>3. CASE CheckEnds
    BY <2>3 DEF CheckEnds, GoesOn, Fails, StepOrder
  <2>4. CASE StopBlueprintStarts
    BY <2>4 DEF StopBlueprintStarts, StopBlueprintBegins, BlueprintCallFails
  <2>5. CASE StopBlueprintEnds
    BY <2>5 DEF StopBlueprintEnds, Ends, GoesOn, Fails, StepOrder
  <2>6. CASE StopAllStarts
    BY <2>6 DEF StopAllStarts, StopAllBegins, DoguCallFails
  <2>7. CASE StopAllEnds
    BY <2>7 DEF StopAllEnds, Ends, GoesOn, Fails, StepOrder
  <2>8. CASE EnableMaintenance
    BY <2>8 DEF EnableMaintenance, GoesOn, Fails, StepOrder
  <2>9. CASE JobStarts
    BY <2>9 DEF JobStarts, RunBegins
  <2>10. CASE JobStepEnds
    BY <2>10 DEF JobStepEnds, RunIsOver, Ends, GoesOn, Fails, StepOrder
  <2>11. CASE Panics
    BY <2>11 DEF Panics
  <2>12. CASE DisableMaintenance
    BY <2>12 DEF DisableMaintenance, CleanupSucceeds, CleanupFails
  <2>13. CASE StartAllStarts
    BY <2>13 DEF StartAllStarts, StartAllBegins, DoguCallFails
  <2>14. CASE StartAllEnds
    BY <2>14 DEF StartAllEnds, CleanupSucceeds, CleanupFails
  <2>15. CASE StartBlueprintStarts
    BY <2>15 DEF StartBlueprintStarts, StartBlueprintBegins
  <2>16. CASE StartBlueprintEnds
    BY <2>16 DEF StartBlueprintEnds, CleanupSucceeds, CleanupFails
  <2>17. CASE SendMail
    BY <2>17 DEF SendMail, CleanupSucceeds, CleanupFails
  <2>18. CASE Returns
    BY <2>18 DEF Returns
  <2>19. CASE DoguActs
    <3>1. CASE StopDogu
      BY <2>19, <3>1 DEF DoguActs, StopDogu, DoguCallFails
    <3>2. CASE StopAllWaits
      BY <2>19, <3>2 DEF DoguActs, StopAllWaits
    <3>3. CASE WaitForPods
      BY <2>19, <3>3 DEF DoguActs, WaitForPods, DoguCallFails
    <3>4. CASE StopAllReturns
      BY <2>19, <3>4 DEF DoguActs, StopAllReturns
    <3>5. CASE StartDogu
      BY <2>19, <3>5 DEF DoguActs, StartDogu, DoguCallFails
    <3>6. CASE StartAllReturns
      BY <2>19, <3>6 DEF DoguActs, StartAllReturns
    <3> QED
      BY <2>19, <3>1, <3>2, <3>3, <3>4, <3>5, <3>6 DEF DoguActs, DoguProgress
  <2>20. CASE BlueprintActs
    <3>1. CASE StopOneBlueprint
      BY <2>20, <3>1 DEF BlueprintActs, StopOneBlueprint, BlueprintCallFails,
         PatchStop
    <3>2. CASE StopBlueprintReturns
      BY <2>20, <3>2 DEF BlueprintActs, StopBlueprintReturns
    <3>3. CASE StartOneBlueprint
      BY <2>20, <3>3 DEF BlueprintActs, StartOneBlueprint, BlueprintCallFails,
         PatchStart
    <3>4. CASE StartBlueprintReturns
      BY <2>20, <3>4 DEF BlueprintActs, StartBlueprintReturns
    <3> QED
      BY <2>20, <3>1, <3>2, <3>3, <3>4 DEF BlueprintActs, BlueprintProgress
  <2>21. CASE RunnerActs
    BY <2>21 DEF RunnerActs, JobCreated, RunReturnsNil, RunReturnsError
  <2>22. CASE JobActs
    BY <2>22 DEF JobActs, JobEnds
  <2>23. CASE DoguOperator
    BY <2>23 DEF DoguOperator, OperatorActs
  <2>24. CASE User
    BY <2>24 DEF User, UserStopsBlueprint
  <2>25. CASE Signal
    BY <2>25 DEF Signal
  <2>26. CASE CrashAndRestart
    BY <2>26 DEF CrashAndRestart
  <2>27. CASE UNCHANGED vars
    BY <2>27
  <2> QED
    BY <2>1, <2>2, <2>3, <2>4, <2>5, <2>6, <2>7, <2>8, <2>9, <2>10, <2>11,
       <2>12, <2>13, <2>14, <2>15, <2>16, <2>17, <2>18, <2>19, <2>20, <2>21,
       <2>22, <2>23, <2>24, <2>25, <2>26, <2>27 DEF Next, RunStep, CleanupStep
<1> QED
  BY <1>1, <1>2, MigratorTypeCorrect, PTL DEF Spec

-----------------------------------------------------------------------------
\* The source stays in maintenance mode for a known reason only (MaintenanceAccounted).
THEOREM SourceIsGivenBack == Spec => []MaintenanceAccounted
<1>1. MigratorTypeOK /\ MaintenanceInv => MaintenanceAccounted
  BY DEF MaintenanceInv, MaintenanceAccounted, MigratorTypeOK, ControlTypeOK
<1> QED
  BY <1>1, MigratorTypeCorrect, MaintenanceInvHolds, PTL

-----------------------------------------------------------------------------
(* The cleanup.  What a call of it has not reached is in its list; what it   *)
(* has done nobody undoes before RunMigration returns.                       *)

DogusStart ==
    /\ step = "startAll" => dcall \notin {"stop", "wait"}
    /\ step = "startAll" /\ dcall = "start" => stopped \subseteq dtodo
    /\ step = "startAll" /\ dcall = "ok" => stopped = {}
    /\ step \in {"startBlueprint", "mail", "returned"} /\ failed \cap {"startAll", "logger"} = {} =>
          stopped = {}

BlueprintsStart ==
    /\ step = "startBlueprint" => bcall # "stop"
    /\ step = "startBlueprint" /\ bcall = "ok" => stoppedBlueprints = {}
    /\ step \in {"mail", "returned"} /\ failed \cap {"startBlueprint", "logger"} = {} =>
          stoppedBlueprints = {}

SourceThaws ==
    /\ step \in RunSteps => runErr = "none" /\ panic = "none"
    /\ step \in {"startAll", "startBlueprint", "mail", "returned"} /\ kind = "final"
       /\ (runErr # "none" \/ panic = "panic") /\ failed \cap {"disable", "logger"} = {} =>
          maintenance = "off"

\* StartAll starts every dogu, and nothing stops one before RunMigration returns.
LEMMA DogusStartHolds == Spec => []DogusStart
<1>1. Init => DogusStart
  BY MigratorAssumption DEF Init, DoguInit, BlueprintInit, RunnerInit, DogusStart
<1>2. MigratorTypeOK /\ DogusStop /\ DogusStart /\ [Next]_vars => DogusStart'
  <2> SUFFICES ASSUME MigratorTypeOK, DogusStop, DogusStart, [Next]_vars PROVE DogusStart'
    OBVIOUS
  <2> USE DEF DogusStart, DogusStop, MigratorTypeOK, ControlTypeOK, DoguTypeOK
  <2>1. CASE MigrationBegins
    BY <2>1 DEF MigrationBegins
  <2>2. CASE LoggerFails
    BY <2>2 DEF LoggerFails
  <2>3. CASE CheckEnds
    BY <2>3 DEF CheckEnds, GoesOn, Fails, StepOrder
  <2>4. CASE StopBlueprintStarts
    BY <2>4 DEF StopBlueprintStarts, StopBlueprintBegins, BlueprintCallFails
  <2>5. CASE StopBlueprintEnds
    BY <2>5 DEF StopBlueprintEnds, Ends, GoesOn, Fails, StepOrder
  <2>6. CASE StopAllStarts
    BY <2>6 DEF StopAllStarts, StopAllBegins, DoguCallFails
  <2>7. CASE StopAllEnds
    BY <2>7 DEF StopAllEnds, Ends, GoesOn, Fails, StepOrder
  <2>8. CASE EnableMaintenance
    BY <2>8 DEF EnableMaintenance, GoesOn, Fails, StepOrder
  <2>9. CASE JobStarts
    BY <2>9 DEF JobStarts, RunBegins
  <2>10. CASE JobStepEnds
    BY <2>10 DEF JobStepEnds, RunIsOver, Ends, GoesOn, Fails, StepOrder
  <2>11. CASE Panics
    BY <2>11 DEF Panics
  <2>12. CASE DisableMaintenance
    BY <2>12 DEF DisableMaintenance, CleanupSucceeds, CleanupFails
  <2>13. CASE StartAllStarts
    BY <2>13 DEF StartAllStarts, StartAllBegins, DoguCallFails
  <2>14. CASE StartAllEnds
    BY <2>14 DEF StartAllEnds, CleanupSucceeds, CleanupFails
  <2>15. CASE StartBlueprintStarts
    BY <2>15 DEF StartBlueprintStarts, StartBlueprintBegins
  <2>16. CASE StartBlueprintEnds
    BY <2>16 DEF StartBlueprintEnds, CleanupSucceeds, CleanupFails
  <2>17. CASE SendMail
    BY <2>17 DEF SendMail, CleanupSucceeds, CleanupFails
  <2>18. CASE Returns
    BY <2>18 DEF Returns
  <2>19. CASE DoguActs
    <3>1. CASE StopDogu
      BY <2>19, <3>1 DEF DoguActs, StopDogu, DoguCallFails
    <3>2. CASE StopAllWaits
      BY <2>19, <3>2 DEF DoguActs, StopAllWaits
    <3>3. CASE WaitForPods
      BY <2>19, <3>3 DEF DoguActs, WaitForPods, DoguCallFails
    <3>4. CASE StopAllReturns
      BY <2>19, <3>4 DEF DoguActs, StopAllReturns
    <3>5. CASE StartDogu
      BY <2>19, <3>5 DEF DoguActs, StartDogu, DoguCallFails
    <3>6. CASE StartAllReturns
      BY <2>19, <3>6 DEF DoguActs, StartAllReturns
    <3> QED
      BY <2>19, <3>1, <3>2, <3>3, <3>4, <3>5, <3>6 DEF DoguActs, DoguProgress
  <2>20. CASE BlueprintActs
    <3>1. CASE StopOneBlueprint
      BY <2>20, <3>1 DEF BlueprintActs, StopOneBlueprint, BlueprintCallFails,
         PatchStop
    <3>2. CASE StopBlueprintReturns
      BY <2>20, <3>2 DEF BlueprintActs, StopBlueprintReturns
    <3>3. CASE StartOneBlueprint
      BY <2>20, <3>3 DEF BlueprintActs, StartOneBlueprint, BlueprintCallFails,
         PatchStart
    <3>4. CASE StartBlueprintReturns
      BY <2>20, <3>4 DEF BlueprintActs, StartBlueprintReturns
    <3> QED
      BY <2>20, <3>1, <3>2, <3>3, <3>4 DEF BlueprintActs, BlueprintProgress
  <2>21. CASE RunnerActs
    BY <2>21 DEF RunnerActs, JobCreated, RunReturnsNil, RunReturnsError
  <2>22. CASE JobActs
    BY <2>22 DEF JobActs, JobEnds
  <2>23. CASE DoguOperator
    BY <2>23 DEF DoguOperator, OperatorActs
  <2>24. CASE User
    BY <2>24 DEF User, UserStopsBlueprint
  <2>25. CASE Signal
    BY <2>25 DEF Signal
  <2>26. CASE CrashAndRestart
    BY <2>26 DEF CrashAndRestart
  <2>27. CASE UNCHANGED vars
    BY <2>27
  <2> QED
    BY <2>1, <2>2, <2>3, <2>4, <2>5, <2>6, <2>7, <2>8, <2>9, <2>10, <2>11,
       <2>12, <2>13, <2>14, <2>15, <2>16, <2>17, <2>18, <2>19, <2>20, <2>21,
       <2>22, <2>23, <2>24, <2>25, <2>26, <2>27 DEF Next, RunStep, CleanupStep
<1> QED
  BY <1>1, <1>2, MigratorTypeCorrect, DogusStopHolds, PTL DEF Spec

-----------------------------------------------------------------------------
\* StartBlueprint forgets its list only when it has gone through all of it.
LEMMA BlueprintsStartHolds == Spec => []BlueprintsStart
<1>1. Init => BlueprintsStart
  BY MigratorAssumption DEF Init, DoguInit, BlueprintInit, RunnerInit, BlueprintsStart
<1>2. MigratorTypeOK /\ BlueprintsStop /\ BlueprintsStart /\ [Next]_vars => BlueprintsStart'
  <2> SUFFICES ASSUME MigratorTypeOK, BlueprintsStop, BlueprintsStart, [Next]_vars PROVE BlueprintsStart'
    OBVIOUS
  <2> USE DEF BlueprintsStart, BlueprintsStop, MigratorTypeOK, ControlTypeOK, BlueprintTypeOK
  <2>1. CASE MigrationBegins
    BY <2>1 DEF MigrationBegins
  <2>2. CASE LoggerFails
    BY <2>2 DEF LoggerFails
  <2>3. CASE CheckEnds
    BY <2>3 DEF CheckEnds, GoesOn, Fails, StepOrder
  <2>4. CASE StopBlueprintStarts
    BY <2>4 DEF StopBlueprintStarts, StopBlueprintBegins, BlueprintCallFails
  <2>5. CASE StopBlueprintEnds
    BY <2>5 DEF StopBlueprintEnds, Ends, GoesOn, Fails, StepOrder
  <2>6. CASE StopAllStarts
    BY <2>6 DEF StopAllStarts, StopAllBegins, DoguCallFails
  <2>7. CASE StopAllEnds
    BY <2>7 DEF StopAllEnds, Ends, GoesOn, Fails, StepOrder
  <2>8. CASE EnableMaintenance
    BY <2>8 DEF EnableMaintenance, GoesOn, Fails, StepOrder
  <2>9. CASE JobStarts
    BY <2>9 DEF JobStarts, RunBegins
  <2>10. CASE JobStepEnds
    BY <2>10 DEF JobStepEnds, RunIsOver, Ends, GoesOn, Fails, StepOrder
  <2>11. CASE Panics
    BY <2>11 DEF Panics
  <2>12. CASE DisableMaintenance
    BY <2>12 DEF DisableMaintenance, CleanupSucceeds, CleanupFails
  <2>13. CASE StartAllStarts
    BY <2>13 DEF StartAllStarts, StartAllBegins, DoguCallFails
  <2>14. CASE StartAllEnds
    BY <2>14 DEF StartAllEnds, CleanupSucceeds, CleanupFails
  <2>15. CASE StartBlueprintStarts
    BY <2>15 DEF StartBlueprintStarts, StartBlueprintBegins
  <2>16. CASE StartBlueprintEnds
    BY <2>16 DEF StartBlueprintEnds, CleanupSucceeds, CleanupFails
  <2>17. CASE SendMail
    BY <2>17 DEF SendMail, CleanupSucceeds, CleanupFails
  <2>18. CASE Returns
    BY <2>18 DEF Returns
  <2>19. CASE DoguActs
    <3>1. CASE StopDogu
      BY <2>19, <3>1 DEF DoguActs, StopDogu, DoguCallFails
    <3>2. CASE StopAllWaits
      BY <2>19, <3>2 DEF DoguActs, StopAllWaits
    <3>3. CASE WaitForPods
      BY <2>19, <3>3 DEF DoguActs, WaitForPods, DoguCallFails
    <3>4. CASE StopAllReturns
      BY <2>19, <3>4 DEF DoguActs, StopAllReturns
    <3>5. CASE StartDogu
      BY <2>19, <3>5 DEF DoguActs, StartDogu, DoguCallFails
    <3>6. CASE StartAllReturns
      BY <2>19, <3>6 DEF DoguActs, StartAllReturns
    <3> QED
      BY <2>19, <3>1, <3>2, <3>3, <3>4, <3>5, <3>6 DEF DoguActs, DoguProgress
  <2>20. CASE BlueprintActs
    <3>1. CASE StopOneBlueprint
      BY <2>20, <3>1 DEF BlueprintActs, StopOneBlueprint, BlueprintCallFails,
         PatchStop
    <3>2. CASE StopBlueprintReturns
      BY <2>20, <3>2 DEF BlueprintActs, StopBlueprintReturns
    <3>3. CASE StartOneBlueprint
      BY <2>20, <3>3 DEF BlueprintActs, StartOneBlueprint, BlueprintCallFails,
         PatchStart
    <3>4. CASE StartBlueprintReturns
      BY <2>20, <3>4 DEF BlueprintActs, StartBlueprintReturns
    <3> QED
      BY <2>20, <3>1, <3>2, <3>3, <3>4 DEF BlueprintActs, BlueprintProgress
  <2>21. CASE RunnerActs
    BY <2>21 DEF RunnerActs, JobCreated, RunReturnsNil, RunReturnsError
  <2>22. CASE JobActs
    BY <2>22 DEF JobActs, JobEnds
  <2>23. CASE DoguOperator
    BY <2>23 DEF DoguOperator, OperatorActs
  <2>24. CASE User
    BY <2>24 DEF User, UserStopsBlueprint
  <2>25. CASE Signal
    BY <2>25 DEF Signal
  <2>26. CASE CrashAndRestart
    BY <2>26 DEF CrashAndRestart
  <2>27. CASE UNCHANGED vars
    BY <2>27
  <2> QED
    BY <2>1, <2>2, <2>3, <2>4, <2>5, <2>6, <2>7, <2>8, <2>9, <2>10, <2>11,
       <2>12, <2>13, <2>14, <2>15, <2>16, <2>17, <2>18, <2>19, <2>20, <2>21,
       <2>22, <2>23, <2>24, <2>25, <2>26, <2>27 DEF Next, RunStep, CleanupStep
<1> QED
  BY <1>1, <1>2, MigratorTypeCorrect, BlueprintsStopHolds, PTL DEF Spec

-----------------------------------------------------------------------------
\* A failed final migration switches the maintenance mode off again.
LEMMA SourceThawsHolds == Spec => []SourceThaws
<1>1. Init => SourceThaws
  BY MigratorAssumption DEF Init, DoguInit, BlueprintInit, RunnerInit, SourceThaws
<1>2. MigratorTypeOK /\ SourceThaws /\ [Next]_vars => SourceThaws'
  <2> SUFFICES ASSUME MigratorTypeOK, SourceThaws, [Next]_vars PROVE SourceThaws'
    OBVIOUS
  <2> USE DEF SourceThaws, MigratorTypeOK, ControlTypeOK
  <2>1. CASE MigrationBegins
    BY <2>1 DEF MigrationBegins
  <2>2. CASE LoggerFails
    BY <2>2 DEF LoggerFails
  <2>3. CASE CheckEnds
    BY <2>3 DEF CheckEnds, GoesOn, Fails, StepOrder
  <2>4. CASE StopBlueprintStarts
    BY <2>4 DEF StopBlueprintStarts, StopBlueprintBegins, BlueprintCallFails
  <2>5. CASE StopBlueprintEnds
    BY <2>5 DEF StopBlueprintEnds, Ends, GoesOn, Fails, StepOrder
  <2>6. CASE StopAllStarts
    BY <2>6 DEF StopAllStarts, StopAllBegins, DoguCallFails
  <2>7. CASE StopAllEnds
    BY <2>7 DEF StopAllEnds, Ends, GoesOn, Fails, StepOrder
  <2>8. CASE EnableMaintenance
    BY <2>8 DEF EnableMaintenance, GoesOn, Fails, StepOrder
  <2>9. CASE JobStarts
    BY <2>9 DEF JobStarts, RunBegins
  <2>10. CASE JobStepEnds
    BY <2>10 DEF JobStepEnds, RunIsOver, Ends, GoesOn, Fails, StepOrder
  <2>11. CASE Panics
    BY <2>11 DEF Panics
  <2>12. CASE DisableMaintenance
    BY <2>12 DEF DisableMaintenance, CleanupSucceeds, CleanupFails
  <2>13. CASE StartAllStarts
    BY <2>13 DEF StartAllStarts, StartAllBegins, DoguCallFails
  <2>14. CASE StartAllEnds
    BY <2>14 DEF StartAllEnds, CleanupSucceeds, CleanupFails
  <2>15. CASE StartBlueprintStarts
    BY <2>15 DEF StartBlueprintStarts, StartBlueprintBegins
  <2>16. CASE StartBlueprintEnds
    BY <2>16 DEF StartBlueprintEnds, CleanupSucceeds, CleanupFails
  <2>17. CASE SendMail
    BY <2>17 DEF SendMail, CleanupSucceeds, CleanupFails
  <2>18. CASE Returns
    BY <2>18 DEF Returns
  <2>19. CASE DoguActs
    <3>1. CASE StopDogu
      BY <2>19, <3>1 DEF DoguActs, StopDogu, DoguCallFails
    <3>2. CASE StopAllWaits
      BY <2>19, <3>2 DEF DoguActs, StopAllWaits
    <3>3. CASE WaitForPods
      BY <2>19, <3>3 DEF DoguActs, WaitForPods, DoguCallFails
    <3>4. CASE StopAllReturns
      BY <2>19, <3>4 DEF DoguActs, StopAllReturns
    <3>5. CASE StartDogu
      BY <2>19, <3>5 DEF DoguActs, StartDogu, DoguCallFails
    <3>6. CASE StartAllReturns
      BY <2>19, <3>6 DEF DoguActs, StartAllReturns
    <3> QED
      BY <2>19, <3>1, <3>2, <3>3, <3>4, <3>5, <3>6 DEF DoguActs, DoguProgress
  <2>20. CASE BlueprintActs
    <3>1. CASE StopOneBlueprint
      BY <2>20, <3>1 DEF BlueprintActs, StopOneBlueprint, BlueprintCallFails,
         PatchStop
    <3>2. CASE StopBlueprintReturns
      BY <2>20, <3>2 DEF BlueprintActs, StopBlueprintReturns
    <3>3. CASE StartOneBlueprint
      BY <2>20, <3>3 DEF BlueprintActs, StartOneBlueprint, BlueprintCallFails,
         PatchStart
    <3>4. CASE StartBlueprintReturns
      BY <2>20, <3>4 DEF BlueprintActs, StartBlueprintReturns
    <3> QED
      BY <2>20, <3>1, <3>2, <3>3, <3>4 DEF BlueprintActs, BlueprintProgress
  <2>21. CASE RunnerActs
    BY <2>21 DEF RunnerActs, JobCreated, RunReturnsNil, RunReturnsError
  <2>22. CASE JobActs
    BY <2>22 DEF JobActs, JobEnds
  <2>23. CASE DoguOperator
    BY <2>23 DEF DoguOperator, OperatorActs
  <2>24. CASE User
    BY <2>24 DEF User, UserStopsBlueprint
  <2>25. CASE Signal
    BY <2>25 DEF Signal
  <2>26. CASE CrashAndRestart
    BY <2>26 DEF CrashAndRestart
  <2>27. CASE UNCHANGED vars
    BY <2>27
  <2> QED
    BY <2>1, <2>2, <2>3, <2>4, <2>5, <2>6, <2>7, <2>8, <2>9, <2>10, <2>11,
       <2>12, <2>13, <2>14, <2>15, <2>16, <2>17, <2>18, <2>19, <2>20, <2>21,
       <2>22, <2>23, <2>24, <2>25, <2>26, <2>27 DEF Next, RunStep, CleanupStep
<1> QED
  BY <1>1, <1>2, MigratorTypeCorrect, ErrorsInvHolds, PTL DEF Spec

-----------------------------------------------------------------------------
\* The cleanup of a migration is complete, or its failure is known
\* (CleanupIsComplete in Migrator.tla).
THEOREM NothingStaysStopped == Spec => []CleanupIsComplete
<1>1. DogusStart /\ BlueprintsStart /\ SourceThaws /\ BlueprintsAccounted => CleanupIsComplete
  BY DEF DogusStart, BlueprintsStart, SourceThaws, BlueprintsAccounted, CleanupIsComplete
<1> QED
  BY <1>1, DogusStartHolds, BlueprintsStartHolds, SourceThawsHolds, NoBlueprintIsLost, PTL

-----------------------------------------------------------------------------
(* RunMigration uses Run as JobRunner.tla has it: whatever a migration does, *)
(* a step of it is one of the promise or leaves it alone.                    *)

\* The job, its Run and the context move only as JobRunner.tla says, whoever
\* panics and whenever the process is ended.
THEOREM RunnerIsUsedAsPromised == Spec => RunnerSpec
<1>1. Init => ctx = "active" /\ RunnerInit
  BY DEF Init
<1>2. [Next]_vars => [RunnerNext]_<<ctx, runnerVars>>
  <2> SUFFICES ASSUME [Next]_vars PROVE [RunnerNext]_<<ctx, runnerVars>>
    OBVIOUS
  <2> USE DEF RunnerNext, RunnerStep
  <2>1. CASE MigrationBegins
    BY <2>1 DEF MigrationBegins
  <2>2. CASE LoggerFails
    BY <2>2 DEF LoggerFails
  <2>3. CASE CheckEnds
    BY <2>3 DEF CheckEnds
  <2>4. CASE StopBlueprintStarts \/ StopBlueprintEnds
    BY <2>4 DEF StopBlueprintStarts, StopBlueprintEnds
  <2>5. CASE StopAllStarts \/ StopAllEnds
    BY <2>5 DEF StopAllStarts, StopAllEnds
  <2>6. CASE EnableMaintenance
    BY <2>6 DEF EnableMaintenance
  <2>7. CASE JobStarts
    BY <2>7 DEF JobStarts
  <2>8. CASE JobStepEnds
    BY <2>8 DEF JobStepEnds
  <2>9. CASE Panics
    <3>1. jcall = "idle" => UNCHANGED <<ctx, runnerVars>>
      BY <2>9 DEF Panics
    <3>2. jcall # "idle" => RunIsOver /\ UNCHANGED ctx
      BY <2>9 DEF Panics, RunIsOver
    <3> QED
      BY <3>1, <3>2
  <2>10. CASE CleanupStep
    BY <2>10 DEF CleanupStep, DisableMaintenance, StartAllStarts, StartAllEnds, StartBlueprintStarts,
       StartBlueprintEnds, SendMail, Returns
  <2>11. CASE DoguActs \/ DoguOperator
    BY <2>11 DEF DoguActs, DoguOperator
  <2>12. CASE BlueprintActs \/ User
    BY <2>12 DEF BlueprintActs, User
  <2>13. CASE RunnerActs \/ JobActs
    BY <2>13 DEF RunnerActs, JobActs
  <2>14. CASE Signal
    BY <2>14 DEF Signal
  <2>15. CASE CrashAndRestart
    BY <2>15 DEF CrashAndRestart
  <2>16. CASE UNCHANGED vars
    BY <2>16
  <2> QED
    BY <2>1, <2>2, <2>3, <2>4, <2>5, <2>6, <2>7, <2>8, <2>9, <2>10, <2>11,
       <2>12, <2>13, <2>14, <2>15, <2>16 DEF Next, RunStep
<1> QED
  BY <1>1, <1>2, PTL DEF Spec, RunnerSpec

=============
