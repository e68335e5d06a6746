----------------------- MODULE MigrationScheduleProofs -----------------------
(* Proofs about MigrationSchedule, for any set of ConfigMaps, any possible   *)
(* final timestamps and any bounds.                                          *)
EXTENDS MigrationSchedule, FiniteSetTheorems, TLAPS

USE DEF RunUnchanged, DeltaUnchanged, ManualUnchanged, FinalUnchanged,
        FlagUnchanged, RunFrame, DeltaFrame, FinalFrame, ManualFrame, SetRunning, ClearRunning, ProcessEnds,
        Scheduled, Returned, Critical, Watching, Expired, Reached, CtxDone, Busy,
        processVars, clusterVars, vars

-----------------------------------------------------------------------------

\* The variables keep their types in every state.
THEOREM TypeCorrect == Spec => []TypeOK
<1>1. Init => TypeOK
  BY ScheduleAssumption DEF Init, TypeOK
<1>2. TypeOK /\ [Next]_vars => TypeOK'
  <2> SUFFICES ASSUME TypeOK, [Next]_vars PROVE TypeOK'
    OBVIOUS
  <2> USE ScheduleAssumption DEF TypeOK
  <2>1. CASE RunStartsWatcher
    BY <2>1 DEF RunStartsWatcher
  <2>2. CASE RunParsesTimestamp
    BY <2>2 DEF RunParsesTimestamp
  <2>3. CASE RunCronInvalid
    BY <2>3 DEF RunCronInvalid
  <2>4. CASE RunSchedules
    BY <2>4 DEF RunSchedules
  <2>5. CASE RunSeesShutdown
    BY <2>5 DEF RunSeesShutdown
  <2>6. CASE RunSeesFinalDone
    BY <2>6 DEF RunSeesFinalDone
  <2>7. CASE DeltaLoads
    BY <2>7 DEF DeltaLoads
  <2>8. CASE DeltaStores
    BY <2>8 DEF DeltaStores
  <2>9. CASE DeltaChecksTimestamp
    BY <2>9 DEF DeltaChecksTimestamp
  <2>10. CASE DeltaMigrationEnds
    BY <2>10 DEF DeltaMigrationEnds
  <2>11. CASE DeltaClears
    BY <2>11 DEF DeltaClears
  <2>12. CASE FinalTimerFires
    BY <2>12 DEF FinalTimerFires
  <2>13. CASE FinalPollsBusy
    BY <2>13 DEF FinalPollsBusy
  <2>14. CASE FinalStarts
    BY <2>14 DEF FinalStarts
  <2>15. CASE FinalWakes
    BY <2>15 DEF FinalWakes
  <2>16. CASE FinalMigrationEnds
    BY <2>16 DEF FinalMigrationEnds
  <2>17. CASE ManualOpensWatch
    BY <2>17 DEF ManualOpensWatch
  <2>18. CASE ManualStops
    BY <2>18 DEF ManualStops
  <2>19. CASE ManualLosesWatch
    BY <2>19 DEF ManualLosesWatch
  <2>20. CASE ManualReconnects
    BY <2>20 DEF ManualReconnects
  <2>21. CASE ManualReceives
    BY <2>21 DEF ManualReceives
  <2>22. CASE ManualDeletes
    BY <2>22 DEF ManualDeletes
  <2>23. CASE ManualLoads
    <3>1. manual' \in {"watching", "store"}
      BY <2>23 DEF ManualLoads
    <3> QED
      BY <2>23, <3>1 DEF ManualLoads
  <2>24. CASE ManualStores
    <3>1. holders' \in SUBSET {"delta", "manual"}
      BY <2>24 DEF ManualStores
    <3> QED
      BY <2>24, <3>1 DEF ManualStores
  <2>25. CASE ManualMigrationEnds
    BY <2>25 DEF ManualMigrationEnds
  <2>26. CASE ManualClears
    BY <2>26 DEF ManualClears
  <2>27. CASE UserCreates
    BY <2>27 DEF UserCreates
  <2>28. CASE UserWithdraws
    BY <2>28 DEF UserWithdraws
  <2>29. CASE Tick
    BY <2>29 DEF Tick
  <2>30. CASE Signal
    BY <2>30 DEF Signal
  <2>31. CASE Exit
    BY <2>31 DEF Exit
  <2>32. CASE Crash
    BY <2>32 DEF Crash
  <2>33. CASE Restart
    BY <2>33 DEF Restart
  <2>34. CASE UNCHANGED vars
    BY <2>34
  <2> QED
    BY <2>1, <2>2, <2>3, <2>4, <2>5, <2>6, <2>7, <2>8, <2>9, <2>10, <2>11,
       <2>12, <2>13, <2>14, <2>15, <2>16, <2>17, <2>18, <2>19, <2>20,
       <2>21, <2>22, <2>23, <2>24, <2>25, <2>26, <2>27, <2>28, <2>29,
       <2>30, <2>31, <2>32, <2>33, <2>34 DEF Next, RunStep, DeltaStep,
       FinalStep, ManualStep, ManualHandling, Environment
<1> QED
  BY <1>1, <1>2, PTL DEF Spec

-----------------------------------------------------------------------------
(* The inductive invariant.  DeltaFinalExclusive needs to know that a delta  *)
(* which set the flag still holds it, and that the final goroutine polls     *)
(* only once it was released.  FinalNotEarly and FlagNeverLeaks say that.    *)

IInv ==
    /\ FlagNeverLeaks
    /\ final # "off" => finalTs # 0
    /\ run \in {"start", "down"} => manual = "off"
    /\ FinalNotEarly
    /\ DeltaFinalExclusive

\* IInv is an invariant of the three triggers, over restarts.
LEMMA IInvHolds == Spec => []IInv
<1>1. Init => IInv
  BY DEF Init, IInv, FlagNeverLeaks, FinalNotEarly, DeltaFinalExclusive
<1>2. TypeOK /\ IInv /\ [Next]_vars => IInv'
  <2> SUFFICES ASSUME TypeOK, IInv, [Next]_vars PROVE IInv'
    OBVIOUS
  <2> USE ScheduleAssumption DEF TypeOK, IInv, FlagNeverLeaks, FinalNotEarly,
          DeltaFinalExclusive
  <2>1. CASE RunStartsWatcher
    BY <2>1 DEF RunStartsWatcher
  <2>2. CASE RunParsesTimestamp
    BY <2>2 DEF RunParsesTimestamp
  <2>3. CASE RunCronInvalid
    BY <2>3 DEF RunCronInvalid
  <2>4. CASE RunSchedules
    BY <2>4 DEF RunSchedules
  <2>5. CASE RunSeesShutdown
    BY <2>5 DEF RunSeesShutdown
  <2>6. CASE RunSeesFinalDone
    BY <2>6 DEF RunSeesFinalDone
  <2>7. CASE DeltaLoads
    BY <2>7 DEF DeltaLoads
  <2>8. CASE DeltaStores
    BY <2>8 DEF DeltaStores
  <2>9. CASE DeltaChecksTimestamp
    BY <2>9 DEF DeltaChecksTimestamp
  <2>10. CASE DeltaMigrationEnds
    BY <2>10 DEF DeltaMigrationEnds
  <2>11. CASE DeltaClears
    BY <2>11 DEF DeltaClears
  <2>12. CASE FinalTimerFires
    BY <2>12 DEF FinalTimerFires
  <2>13. CASE FinalPollsBusy
    BY <2>13 DEF FinalPollsBusy
  <2>14. CASE FinalStarts
    BY <2>14 DEF FinalStarts
  <2>15. CASE FinalWakes
    BY <2>15 DEF FinalWakes
  <2>16. CASE FinalMigrationEnds
    BY <2>16 DEF FinalMigrationEnds
  <2>17. CASE ManualOpensWatch
    BY <2>17 DEF ManualOpensWatch
  <2>18. CASE ManualStops
    BY <2>18 DEF ManualStops
  <2>19. CASE ManualLosesWatch
    BY <2>19 DEF ManualLosesWatch
  <2>20. CASE ManualReconnects
    BY <2>20 DEF ManualReconnects
  <2>21. CASE ManualReceives
    BY <2>21 DEF ManualReceives
  <2>22. CASE ManualDeletes
    BY <2>22 DEF ManualDeletes
  <2>23. CASE ManualLoads
    BY <2>23 DEF ManualLoads
  <2>24. CASE ManualStores
    BY <2>24 DEF ManualStores
  <2>25. CASE ManualMigrationEnds
    BY <2>25 DEF ManualMigrationEnds
  <2>26. CASE ManualClears
    BY <2>26 DEF ManualClears
  <2>27. CASE UserCreates
    BY <2>27 DEF UserCreates
  <2>28. CASE UserWithdraws
    BY <2>28 DEF UserWithdraws
  <2>29. CASE Tick
    BY <2>29 DEF Tick
  <2>30. CASE Signal
    BY <2>30 DEF Signal
  <2>31. CASE Exit
    BY <2>31 DEF Exit
  <2>32. CASE Crash
    BY <2>32 DEF Crash
  <2>33. CASE Restart
    BY <2>33 DEF Restart
  <2>34. CASE UNCHANGED vars
    BY <2>34
  <2> QED
    BY <2>1, <2>2, <2>3, <2>4, <2>5, <2>6, <2>7, <2>8, <2>9, <2>10, <2>11,
       <2>12, <2>13, <2>14, <2>15, <2>16, <2>17, <2>18, <2>19, <2>20,
       <2>21, <2>22, <2>23, <2>24, <2>25, <2>26, <2>27, <2>28, <2>29,
       <2>30, <2>31, <2>32, <2>33, <2>34 DEF Next, RunStep, DeltaStep,
       FinalStep, ManualStep, ManualHandling, Environment
<1> QED
  BY <1>1, <1>2, TypeCorrect, PTL DEF Spec

\* The flag is set exactly while someone who stored it has not cleared it.
THEOREM FlagSafe == Spec => []FlagNeverLeaks
  BY IInvHolds, PTL DEF IInv

\* A final migration is ahead of its timestamp only in a shutdown.
THEOREM FinalOnTime == Spec => []FinalNotEarly
  BY IInvHolds, PTL DEF IInv

\* Delta and final migration exclude each other, but for the three cases
\* that DeltaFinalExclusive names.
THEOREM Exclusion == Spec => []DeltaFinalExclusive
  BY IInvHolds, PTL DEF IInv

-----------------------------------------------------------------------------
(* At most one final migration.  Once a final migration has started at or    *)
(* after the timestamp, either its goroutine is past its start, or the       *)
(* process is gone, or the next one will find the timestamp expired.         *)

FinalGone == {"migrating", "sendOk", "sendErr", "exited"}

OnceInv ==
    /\ finalStarts # {} => finalTs # 0
    /\ \A t \in finalStarts : t <= now
    /\ \A t, u \in finalStarts : t >= finalTs /\ u >= finalTs => t = u
    /\ run \in {"start", "parse", "schedule", "expired", "cronError", "down",
                "waitCtx", "stopped"} => final = "off"
    /\ final # "off" => finalTs # 0
    /\ \A t \in finalStarts : t >= finalTs =>
          \/ final \in FinalGone
          \/ run \in {"down", "expired"}
          \/ run \in {"start", "parse"} /\ now > t

\* OnceInv is an invariant: a restart takes time, so that it finds the timestamp past.
LEMMA OnceInvHolds == Spec => []OnceInv
<1>1. Init => OnceInv
  BY DEF Init, OnceInv
<1>2. TypeOK /\ OnceInv /\ [Next]_vars => OnceInv'
  <2> SUFFICES ASSUME TypeOK, OnceInv, [Next]_vars PROVE OnceInv'
    OBVIOUS
  <2> USE ScheduleAssumption DEF TypeOK, OnceInv, FinalGone
  <2>1. CASE RunStartsWatcher
    BY <2>1 DEF RunStartsWatcher
  <2>2. CASE RunParsesTimestamp
    BY <2>2 DEF RunParsesTimestamp
  <2>3. CASE RunCronInvalid
    BY <2>3 DEF RunCronInvalid
  <2>4. CASE RunSchedules
    BY <2>4 DEF RunSchedules
  <2>5. CASE RunSeesShutdown
    BY <2>5 DEF RunSeesShutdown
  <2>6. CASE RunSeesFinalDone
    BY <2>6 DEF RunSeesFinalDone
  <2>7. CASE DeltaLoads
    BY <2>7 DEF DeltaLoads
  <2>8. CASE DeltaStores
    BY <2>8 DEF DeltaStores
  <2>9. CASE DeltaChecksTimestamp
    BY <2>9 DEF DeltaChecksTimestamp
  <2>10. CASE DeltaMigrationEnds
    BY <2>10 DEF DeltaMigrationEnds
  <2>11. CASE DeltaClears
    BY <2>11 DEF DeltaClears
  <2>12. CASE FinalTimerFires
    BY <2>12 DEF FinalTimerFires
  <2>13. CASE FinalPollsBusy
    BY <2>13 DEF FinalPollsBusy
  <2>14. CASE FinalStarts
    BY <2>14 DEF FinalStarts
  <2>15. CASE FinalWakes
    BY <2>15 DEF FinalWakes
  <2>16. CASE FinalMigrationEnds
    BY <2>16 DEF FinalMigrationEnds
  <2>17. CASE ManualOpensWatch
    BY <2>17 DEF ManualOpensWatch
  <2>18. CASE ManualStops
    BY <2>18 DEF ManualStops
  <2>19. CASE ManualLosesWatch
    BY <2>19 DEF ManualLosesWatch
  <2>20. CASE ManualReconnects
    BY <2>20 DEF ManualReconnects
  <2>21. CASE ManualReceives
    BY <2>21 DEF ManualReceives
  <2>22. CASE ManualDeletes
    BY <2>22 DEF ManualDeletes
  <2>23. CASE ManualLoads
    BY <2>23 DEF ManualLoads
  <2>24. CASE ManualStores
    BY <2>24 DEF ManualStores
  <2>25. CASE ManualMigrationEnds
    BY <2>25 DEF ManualMigrationEnds
  <2>26. CASE ManualClears
    BY <2>26 DEF ManualClears
  <2>27. CASE UserCreates
    BY <2>27 DEF UserCreates
  <2>28. CASE UserWithdraws
    BY <2>28 DEF UserWithdraws
  <2>29. CASE Tick
    BY <2>29 DEF Tick
  <2>30. CASE Signal
    BY <2>30 DEF Signal
  <2>31. CASE Exit
    BY <2>31 DEF Exit
  <2>32. CASE Crash
    BY <2>32 DEF Crash
  <2>33. CASE Restart
    BY <2>33 DEF Restart
  <2>34. CASE UNCHANGED vars
    BY <2>34
  <2> QED
    BY <2>1, <2>2, <2>3, <2>4, <2>5, <2>6, <2>7, <2>8, <2>9, <2>10, <2>11,
       <2>12, <2>13, <2>14, <2>15, <2>16, <2>17, <2>18, <2>19, <2>20,
       <2>21, <2>22, <2>23, <2>24, <2>25, <2>26, <2>27, <2>28, <2>29,
       <2>30, <2>31, <2>32, <2>33, <2>34 DEF Next, RunStep, DeltaStep,
       FinalStep, ManualStep, ManualHandling, Environment
<1> QED
  BY <1>1, <1>2, TypeCorrect, PTL DEF Spec

\* At most one final migration starts at or after its timestamp, over all
\* restarts of the pod.
THEOREM OneFinal == Spec => []FinalAtMostOnce
<1>1. TypeOK /\ OnceInv => FinalAtMostOnce
  <2> SUFFICES ASSUME TypeOK, OnceInv PROVE FinalAtMostOnce
    OBVIOUS
  <2> DEFINE Due == {t \in finalStarts : t >= finalTs}
  <2>1. CASE Due = {}
    BY <2>1, FS_EmptySet DEF FinalAtMostOnce
  <2>2. CASE Due # {}
    <3>1. PICK t \in Due : TRUE
      BY <2>2
    <3>2. Due = {t}
      BY <3>1 DEF OnceInv
    <3>3. Cardinality(Due) = 1
      BY <3>2, FS_Singleton
    <3> QED
      BY <3>3 DEF FinalAtMostOnce
  <2> QED
    BY <2>1, <2>2
<1> QED
  BY <1>1, TypeCorrect, OnceInvHolds, PTL

-----------------------------------------------------------------------------
(* ConfigMaps are not taken up again after their deletion.                   *)

ReplayInv ==
    /\ deleted \subseteq created
    /\ starters \subseteq created \ deleted
    /\ events \subseteq created \ deleted
    /\ manual \in Watching \ {"watching"} => request \in created
    /\ manual = "delete" => request \notin events

\* ReplayInv is an invariant, over watches that break and restarts.
LEMMA ReplayInvHolds == Spec => []ReplayInv
<1>1. Init => ReplayInv
  BY DEF Init, ReplayInv
<1>2. TypeOK /\ ReplayInv /\ [Next]_vars => ReplayInv'
  <2> SUFFICES ASSUME TypeOK, ReplayInv, [Next]_vars PROVE ReplayInv'
    OBVIOUS
  <2> USE ScheduleAssumption DEF TypeOK, ReplayInv
  <2>1. CASE RunStartsWatcher
    BY <2>1 DEF RunStartsWatcher
  <2>2. CASE RunParsesTimestamp
    BY <2>2 DEF RunParsesTimestamp
  <2>3. CASE RunCronInvalid
    BY <2>3 DEF RunCronInvalid
  <2>4. CASE RunSchedules
    BY <2>4 DEF RunSchedules
  <2>5. CASE RunSeesShutdown
    BY <2>5 DEF RunSeesShutdown
  <2>6. CASE RunSeesFinalDone
    BY <2>6 DEF RunSeesFinalDone
  <2>7. CASE DeltaLoads
    BY <2>7 DEF DeltaLoads
  <2>8. CASE DeltaStores
    BY <2>8 DEF DeltaStores
  <2>9. CASE DeltaChecksTimestamp
    BY <2>9 DEF DeltaChecksTimestamp
  <2>10. CASE DeltaMigrationEnds
    BY <2>10 DEF DeltaMigrationEnds
  <2>11. CASE DeltaClears
    BY <2>11 DEF DeltaClears
  <2>12. CASE FinalTimerFires
    BY <2>12 DEF FinalTimerFires
  <2>13. CASE FinalPollsBusy
    BY <2>13 DEF FinalPollsBusy
  <2>14. CASE FinalStarts
    BY <2>14 DEF FinalStarts
  <2>15. CASE FinalWakes
    BY <2>15 DEF FinalWakes
  <2>16. CASE FinalMigrationEnds
    BY <2>16 DEF FinalMigrationEnds
  <2>17. CASE ManualOpensWatch
    BY <2>17 DEF ManualOpensWatch
  <2>18. CASE ManualStops
    BY <2>18 DEF ManualStops
  <2>19. CASE ManualLosesWatch
    BY <2>19 DEF ManualLosesWatch
  <2>20. CASE ManualReconnects
    BY <2>20 DEF ManualReconnects
  <2>21. CASE ManualReceives
    BY <2>21 DEF ManualReceives
  <2>22. CASE ManualDeletes
    BY <2>22 DEF ManualDeletes
  <2>23. CASE ManualLoads
    BY <2>23 DEF ManualLoads
  <2>24. CASE ManualStores
    BY <2>24 DEF ManualStores
  <2>25. CASE ManualMigrationEnds
    BY <2>25 DEF ManualMigrationEnds
  <2>26. CASE ManualClears
    BY <2>26 DEF ManualClears
  <2>27. CASE UserCreates
    BY <2>27 DEF UserCreates
  <2>28. CASE UserWithdraws
    BY <2>28 DEF UserWithdraws
  <2>29. CASE Tick
    BY <2>29 DEF Tick
  <2>30. CASE Signal
    BY <2>30 DEF Signal
  <2>31. CASE Exit
    BY <2>31 DEF Exit
  <2>32. CASE Crash
    BY <2>32 DEF Crash
  <2>33. CASE Restart
    BY <2>33 DEF Restart
  <2>34. CASE UNCHANGED vars
    BY <2>34
  <2> QED
    BY <2>1, <2>2, <2>3, <2>4, <2>5, <2>6, <2>7, <2>8, <2>9, <2>10, <2>11,
       <2>12, <2>13, <2>14, <2>15, <2>16, <2>17, <2>18, <2>19, <2>20,
       <2>21, <2>22, <2>23, <2>24, <2>25, <2>26, <2>27, <2>28, <2>29,
       <2>30, <2>31, <2>32, <2>33, <2>34 DEF Next, RunStep, DeltaStep,
       FinalStep, ManualStep, ManualHandling, Environment
<1> QED
  BY <1>1, <1>2, TypeCorrect, PTL DEF Spec

\* A ConfigMap that the importer has deleted is never taken up again.
THEOREM NoReplay == Spec => DeletedNeverTakenUp
<1>1. TypeOK /\ ReplayInv /\ [Next]_vars =>
        [manual = "watching" /\ manual' = "delete" => request' \notin deleted]_vars
  <2> SUFFICES ASSUME TypeOK, ReplayInv, [Next]_vars,
                      manual = "watching", manual' = "delete"
               PROVE  request' \notin deleted
    OBVIOUS
  <2>1. ManualReceives
    BY DEF Next, RunStep, DeltaStep, FinalStep, ManualStep, ManualHandling, Environment,
       RunStartsWatcher, RunParsesTimestamp, RunCronInvalid, RunSchedules,
       RunSeesShutdown, RunSeesFinalDone, DeltaLoads, DeltaStores,
       DeltaChecksTimestamp, DeltaMigrationEnds, DeltaClears, FinalTimerFires,
       FinalPollsBusy, FinalStarts, FinalWakes, FinalMigrationEnds, ManualOpensWatch,
       ManualStops, ManualLosesWatch, ManualReconnects, ManualDeletes, ManualLoads,
       ManualStores, ManualMigrationEnds, ManualClears, UserCreates, UserWithdraws,
       Tick, Signal, Exit, Crash, Restart
  <2> QED
    BY <2>1 DEF ManualReceives, ReplayInv
<1> QED
  BY <1>1, TypeCorrect, ReplayInvHolds, PTL DEF Spec, DeletedNeverTakenUp

=============================================================================
