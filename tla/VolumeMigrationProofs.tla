------------------------- MODULE VolumeMigrationProofs -------------------------
(* Proofs about VolumeMigration, for all systems, sizes, limits and any      *)
(* number of migrations.                                                     *)
EXTENDS VolumeMigration, FiniteSetTheorems, TLAPS

\* What starts and ends a resize has the types of its locals.
LEMMA NoTries ==
    /\ [d \in Names |-> 0] \in [Names -> 0 .. MaxRetries]
    /\ [d \in Names |-> "none"] \in [Names -> {"none", "get", "update", "wait", "send", "done"}]
BY ResizeAssumption

\* The end of a resize leaves its locals of their types.
LEMMA ResizeOverTypes ==
    ASSUME ResizeIsOver
    PROVE  /\ resizer' = "off" /\ left' \subseteq Names /\ errorsChan' \subseteq Names
           /\ worker' \in [Names -> {"none", "get", "update", "wait", "send", "done"}]
           /\ tries' \in [Names -> 0 .. MaxRetries]
           /\ closed' \in BOOLEAN /\ resizeErr' \subseteq Names \X Reasons
BY NoTries DEF ResizeIsOver

\* So does its begin, which forgets no volume that was abandoned.
LEMMA ResizeBeginsTypes ==
    ASSUME ResizeBegins
    PROVE  /\ resizer' = "loop" /\ left' \subseteq Names /\ errorsChan' \subseteq Names
           /\ worker' \in [Names -> {"none", "get", "update", "wait", "send", "done"}]
           /\ tries' \in [Names -> 0 .. MaxRetries]
           /\ closed' \in BOOLEAN /\ resizeErr' \subseteq Names \X Reasons
           /\ abandoned' = abandoned
BY NoTries DEF ResizeBegins, NamesIn

\* The cluster and the migration hold values of their types.
LEMMA TypeInit == ASSUME Init PROVE VolumeTypeOK
<1>1. PICK l \in Landscapes : /\ source = l.source /\ target = l.target
                              /\ sourceSize = l.exported /\ wanted = l.volumes
  BY DEF Init
<1>2. /\ source \in Systems /\ target \in Systems
      /\ sourceSize \in [Names -> Sizes] /\ wanted \in [Names -> Sizes]
  BY <1>1, LandscapeAssumption
<1>3. ResizeTypeOK
  BY <1>2, NoTries DEF Init, ResizeTypeOK, ResizeInit
<1>4. PipeTypeOK
  BY PipeAssumption DEF Init, PipeTypeOK, PipeInit
<1> QED
  BY <1>2, <1>3, <1>4, LandscapeAssumption DEF Init, VolumeTypeOK, ResizeInit, PipeInit

\* A step of the resize keeps the types.
LEMMA ResizeKeepsTypes ==
    ASSUME VolumeTypeOK, Resizes
    PROVE  VolumeTypeOK'
<1> USE DEF VolumeTypeOK, ResizeTypeOK, PipeTypeOK, pipeVars, stepVars, sizeVars, Resizes
<1>1. ASSUME NEW d \in left, LoopSkips(d) \/ LoopMissesDogu(d) \/ LoopFails(d) \/ LoopSpawns(d)
      PROVE  VolumeTypeOK'
  BY <1>1 DEF LoopSkips, LoopMissesDogu, LoopFails, LoopSpawns, Visits, Reasons
<1>2. ASSUME LoopEnds \/ ResizeEnds \/ CloserCloses
      PROVE  VolumeTypeOK'
  BY <1>2 DEF LoopEnds, ResizeEnds, CloserCloses
<1>6. ASSUME CollectsError
      PROVE  VolumeTypeOK'
  BY <1>6 DEF CollectsError, Reasons
<1>3. ASSUME NEW d \in Names, GetsDogu(d) \/ StopsPolling(d) \/ SendsError(d)
      PROVE  VolumeTypeOK'
  BY <1>3 DEF GetsDogu, StopsPolling, SendsError, Moves
<1>4. ASSUME NEW d \in Names, UpdatesDogu(d)
      PROVE  VolumeTypeOK'
  BY <1>4 DEF UpdatesDogu, Moves
<1>5. ASSUME NEW d \in Names, PollsVolume(d)
      PROVE  VolumeTypeOK'
  <2>1. tries' \in [Names -> 0 .. MaxRetries]
    BY <1>5, ResizeAssumption DEF PollsVolume
  <2> QED BY <1>5, <2>1 DEF PollsVolume, Moves
<1> QED
  BY <1>1, <1>2, <1>3, <1>4, <1>5, <1>6 DEF ResizeNext, MainStep, WorkerStep

\* A step of SyncDoguDir or of rsync keeps the types.
LEMMA CopyKeepsTypes ==
    ASSUME VolumeTypeOK, Copying
    PROVE  VolumeTypeOK'
<1> USE PipeAssumption
    DEF VolumeTypeOK, ResizeTypeOK, PipeTypeOK, resizeVars, stepVars, sizeVars, Copying
<1>1. ASSUME WaitsForReaders \/ WaitsForRsync \/ Exits \/ BeginsLine
      PROVE  VolumeTypeOK'
  BY <1>1 DEF WaitsForReaders, WaitsForRsync, Exits, BeginsLine, Streams
<1>2. ASSUME WritesLine
      PROVE  VolumeTypeOK'
  BY <1>2 DEF WritesLine
<1>3. ASSUME NEW s \in Streams, ReadsLine(s) \/ ReadsEnd(s)
      PROVE  VolumeTypeOK'
  BY <1>3 DEF ReadsLine, ReadsEnd
<1> QED
  BY <1>1, <1>2, <1>3 DEF PipeNext, SyncerStep, RsyncStep, ReaderStep

\* Every step of the validation, the resize and the copying keeps the types.
LEMMA TypeStep == ASSUME VolumeTypeOK, [Next]_vars PROVE VolumeTypeOK'
<1> USE DEF VolumeTypeOK, ResizeTypeOK, PipeTypeOK, pipeVars, resizeVars, sizeVars
<1>1. CASE ReadsSystems
  BY <1>1, LandscapeAssumption DEF ReadsSystems
<1>2. CASE Validates
  BY <1>2, ResizeBeginsTypes DEF Validates
<1>3. CASE FailsBefore
  BY <1>3 DEF FailsBefore
<1>4. CASE Resizes
  BY <1>4, ResizeKeepsTypes
<1>5. CASE ResizeReturns
  BY <1>5, ResizeOverTypes DEF ResizeReturns, NamesIn
<1>6. CASE CopyStarts
  BY <1>6, PipeAssumption DEF CopyStarts, StartsRsync, stepVars
<1>7. CASE Copying
  BY <1>7, CopyKeepsTypes
<1>8. CASE CopyReturns \/ MigrationEnds
  BY <1>8, PipeAssumption DEF CopyReturns, MigrationEnds, SyncDoguDirIsOver
<1>9. CASE Dies
  <2>1. abandoned' \subseteq Names
    BY <1>9 DEF Dies, ResizeIsCutOff
  <2>2. PipeTypeOK'
    BY <1>9, PipeAssumption DEF Dies, SyncDoguDirIsOver
  <2> QED
    BY <1>9, <2>1, <2>2, ResizeOverTypes DEF Dies, ResizeIsCutOff, SyncDoguDirIsOver
<1>10. CASE SourceGrows
  BY <1>10, ResizeAssumption DEF SourceGrows, Sizes, NamesIn
<1>11. CASE OperatorActs
  BY <1>11 DEF OperatorActs, OperatorResizes, stepVars
<1>12. CASE UNCHANGED vars
  BY <1>12 DEF vars, stepVars
<1> QED
  BY <1>1, <1>2, <1>3, <1>4, <1>5, <1>6, <1>7, <1>8, <1>9, <1>10, <1>11, <1>12 DEF Next

\* The variables always have their types, whatever the systems and limits: no
\* goroutine polls more often than it may, no pipe holds more than fits.
THEOREM VolumeTypeCorrect == Spec => []VolumeTypeOK
BY TypeInit, TypeStep, PTL DEF Spec

-----------------------------------------------------------------------------
(* The channel of the errors. *)

\* The channel is closed after the last goroutine; none starts after the loop.
ChannelInv == closed => AllDone /\ resizer \in {"collect", "done"}

\* The channel is closed when all goroutines that send to it are done, for any
\* number of dogus, so that no send can panic.
THEOREM ChannelIsOpen == Spec => []NoSendOnClosed
<1> USE DEF ChannelInv, AllDone
<1>1. Init => ChannelInv
  BY DEF Init, ResizeInit
<1>2. ChannelInv /\ [Next]_vars => ChannelInv'
  <2> SUFFICES ASSUME ChannelInv, [Next]_vars PROVE ChannelInv'
    OBVIOUS
  <2>1. CASE ReadsSystems \/ FailsBefore \/ CopyStarts \/ Copying \/ CopyReturns
               \/ MigrationEnds \/ SourceGrows \/ OperatorActs \/ UNCHANGED vars
    BY <2>1 DEF ReadsSystems, FailsBefore, CopyStarts, Copying, CopyReturns, MigrationEnds,
                SourceGrows, OperatorActs, OperatorResizes, vars, resizeVars
  <2>2. CASE Validates \/ ResizeReturns \/ Dies
    BY <2>2 DEF Validates, ResizeReturns, Dies, ResizeBegins, ResizeIsCutOff, ResizeIsOver
  <2>3. CASE Resizes
    <3>1. ASSUME NEW d \in left, LoopSkips(d) \/ LoopMissesDogu(d) \/ LoopFails(d) \/ LoopSpawns(d)
          PROVE  ChannelInv'
      BY <3>1 DEF LoopSkips, LoopMissesDogu, LoopFails, LoopSpawns, Visits
    <3>2. CASE LoopEnds \/ CollectsError \/ ResizeEnds \/ CloserCloses
      BY <3>2 DEF LoopEnds, CollectsError, ResizeEnds, CloserCloses
    <3>3. ASSUME NEW d \in Names, WorkerStep(d)
          PROVE  ChannelInv'
      BY <3>3 DEF WorkerStep, GetsDogu, UpdatesDogu, PollsVolume, StopsPolling, SendsError, Moves
    <3> QED
      BY <2>3, <3>1, <3>2, <3>3 DEF Resizes, ResizeNext, MainStep
  <2> QED
    BY <2>1, <2>2, <2>3 DEF Next
<1>3. ChannelInv => NoSendOnClosed
  BY DEF NoSendOnClosed
<1> QED
  BY <1>1, <1>2, <1>3, PTL DEF Spec

\* An error in the channel is that of a goroutine that is done, and a goroutine is
\* that of a dogu of the source system.
SendersInv ==
    /\ left \subseteq NamesIn(source) /\ \A d \in left : worker[d] = "none"
    /\ \A d \in errorsChan : worker[d] = "done"
    /\ \A d \in Names : worker[d] # "none" => d \in NamesIn(source)

\* SendersInv is an invariant: each goroutine sends once, and is done.
LEMMA SendersInvHolds == Spec => []SendersInv
<1> USE DEF SendersInv, NamesIn
<1>1. Init => SendersInv
  BY DEF Init, ResizeInit
<1>2. VolumeTypeOK /\ SendersInv /\ [Next]_vars => SendersInv'
  <2> SUFFICES ASSUME VolumeTypeOK, SendersInv, [Next]_vars PROVE SendersInv'
    OBVIOUS
  <2> USE DEF VolumeTypeOK, ResizeTypeOK
  <2>1. CASE ReadsSystems \/ FailsBefore \/ CopyStarts \/ Copying \/ CopyReturns
               \/ MigrationEnds \/ SourceGrows \/ OperatorActs \/ UNCHANGED vars
    BY <2>1 DEF ReadsSystems, FailsBefore, CopyStarts, Copying, CopyReturns, MigrationEnds,
                SourceGrows, OperatorActs, OperatorResizes, vars, sizeVars, resizeVars
  <2>2. CASE Validates \/ ResizeReturns \/ Dies
    BY <2>2 DEF Validates, ResizeReturns, Dies, ResizeBegins, ResizeIsCutOff, ResizeIsOver, sizeVars
  <2>3. CASE Resizes
    <3>1. ASSUME NEW d \in left, LoopSkips(d) \/ LoopMissesDogu(d) \/ LoopFails(d)
          PROVE  SendersInv'
      BY <3>1 DEF LoopSkips, LoopMissesDogu, LoopFails, Visits, sizeVars
    <3>2. ASSUME NEW d \in left, LoopSpawns(d)
          PROVE  SendersInv'
      BY <3>2 DEF LoopSpawns, Visits, sizeVars
    <3>3. CASE LoopEnds \/ CollectsError \/ ResizeEnds \/ CloserCloses
      BY <3>3 DEF LoopEnds, CollectsError, ResizeEnds, CloserCloses, sizeVars
    <3>4. ASSUME NEW d \in Names, GetsDogu(d) \/ UpdatesDogu(d) \/ PollsVolume(d) \/ StopsPolling(d)
          PROVE  SendersInv'
      BY <3>4 DEF GetsDogu, UpdatesDogu, PollsVolume, StopsPolling, Moves
    <3>5. ASSUME NEW d \in Names, SendsError(d)
          PROVE  SendersInv'
      BY <3>5 DEF SendsError, Moves
    <3> QED
      BY <2>3, <3>1, <3>2, <3>3, <3>4, <3>5 DEF Resizes, ResizeNext, MainStep, WorkerStep
  <2> QED
    BY <2>1, <2>2, <2>3 DEF Next
<1> QED
  BY <1>1, <1>2, VolumeTypeCorrect, PTL DEF Spec

\* A goroutine that has an error to send finds room in the channel, so that it
\* never waits for the loop that drains it, which begins when the goroutines are
\* all started (dogu_volume_resizer.go:67, 107-120).
SendNeverBlocks ==
    \A d \in Names : worker[d] = "send" => Cardinality(errorsChan) < Cardinality(NamesIn(source))

\* A channel as long as the list of dogus is long enough, for any number of dogus
\* and however many of their goroutines fail at once.
THEOREM ChannelHasRoom == Spec => []SendNeverBlocks
<1>1. SendersInv /\ VolumeTypeOK => SendNeverBlocks
  <2> SUFFICES ASSUME SendersInv, VolumeTypeOK, NEW d \in Names, worker[d] = "send"
               PROVE  Cardinality(errorsChan) < Cardinality(NamesIn(source))
    BY DEF SendNeverBlocks
  <2>1. IsFiniteSet(NamesIn(source))
    BY ResizeAssumption, FS_Subset DEF NamesIn
  <2>2. errorsChan \subseteq NamesIn(source)
    BY DEF SendersInv, VolumeTypeOK, ResizeTypeOK
  <2>3. errorsChan # NamesIn(source)
    BY DEF SendersInv
  <2>4. Cardinality(errorsChan) \in Nat /\ Cardinality(NamesIn(source)) \in Nat
    BY <2>1, <2>2, FS_Subset, FS_CardinalityType
  <2>5. /\ Cardinality(errorsChan) <= Cardinality(NamesIn(source))
        /\ Cardinality(errorsChan) # Cardinality(NamesIn(source))
    BY <2>1, <2>2, <2>3, FS_Subset
  <2> QED
    BY <2>4, <2>5
<1> QED
  BY <1>1, SendersInvHolds, VolumeTypeCorrect, PTL

-----------------------------------------------------------------------------
(* The validator and the resizer. *)

\* What two systems that fit have under a name that is not excluded.  An official
\* nginx is not looked up, and must not be in the target system.
Same(s, t, d) ==
    LET here == s.dogus[d]
        there == t.dogus[d]
    IN  \/ here = Absent /\ there = Absent
        \/ here # Absent /\ d = Nginx /\ here.namespace = Official /\ there = Absent
        \/ /\ here # Absent /\ ~(d = Nginx /\ here.namespace = Official)
           /\ there # Absent /\ there.version = here.version

\* The three lists that the validator builds are empty just if each name for itself
\* fits, for all systems: what it deletes from its map while it goes over the dogus
\* of the source system hides no dogu (validator.go:53-97, 119-138).
THEOREM ValidMeansSame ==
    ASSUME NEW s \in Systems, NEW t \in Systems
    PROVE  IsValid(s, t) <=>
              (\A d \in Names \ ExcludedDogus : Same(s, t, d)) /\ ComponentsFit(s, t)
<1> USE DEF NamesIn, ToValidate
<1>1. Missing(s, t) = {} <=> \A d \in ToValidate(s) : t.dogus[d] # Absent
  BY DEF Missing
<1>2. OtherVersion(s, t) = {} <=>
          \A d \in ToValidate(s) : t.dogus[d] # Absent => s.dogus[d].version = t.dogus[d].version
  BY DEF OtherVersion
<1>3. Extra(s, t) = {} <=> \A d \in Names \ ExcludedDogus : t.dogus[d] # Absent => d \in ToValidate(s)
  BY DEF Extra
<1>4. ASSUME NEW d \in Names \ ExcludedDogus
      PROVE  Same(s, t, d) <=>
                /\ d \in ToValidate(s) => t.dogus[d] # Absent /\ s.dogus[d].version = t.dogus[d].version
                /\ t.dogus[d] # Absent => d \in ToValidate(s)
  BY DEF Same
<1>5. ToValidate(s) \subseteq Names \ ExcludedDogus
  OBVIOUS
<1> HIDE DEF ToValidate, NamesIn
<1> QED
  BY <1>1, <1>2, <1>3, <1>4, <1>5 DEF IsValid

\* A resize runs for systems that were found to fit, and its loop goes over dogus
\* of the source system.
FitInv ==
    /\ step = "resize" => IsValid(source, target)
    /\ resizer # "off" => step = "resize"
    /\ left \subseteq NamesIn(source)
    /\ resizeErr # {} => resizer # "off"
    /\ \A d \in Names : <<d, "notFound">> \in resizeErr =>
          d \in NamesIn(source) \ ResizeExcluded /\ ~Found(d)

\* The resizer looks at systems that fit, and misses only what it did not find.
LEMMA FitInvHolds == Spec => []FitInv
<1>1. Init => FitInv
  BY DEF Init, ResizeInit, FitInv
<1>2. FitInv /\ [Next]_vars => FitInv'
  <2> SUFFICES ASSUME FitInv, [Next]_vars PROVE FitInv'
    OBVIOUS
  <2> USE DEF FitInv, Found, NamesIn
  <2>1. CASE ReadsSystems \/ FailsBefore \/ CopyStarts \/ Copying \/ CopyReturns
               \/ MigrationEnds \/ SourceGrows \/ OperatorActs \/ UNCHANGED vars
    BY <2>1 DEF ReadsSystems, FailsBefore, CopyStarts, Copying, CopyReturns, MigrationEnds,
                SourceGrows, OperatorActs, OperatorResizes, vars, resizeVars, sizeVars, stepVars
  <2>2. CASE Validates \/ ResizeReturns \/ Dies
    BY <2>2 DEF Validates, ResizeReturns, Dies, ResizeBegins, ResizeIsCutOff, ResizeIsOver, sizeVars
  <2>3. CASE Resizes
    <3> USE <2>3 DEF Resizes, stepVars
    <3>1. ASSUME NEW d \in left, LoopSkips(d) \/ LoopSpawns(d)
          PROVE  FitInv'
      BY <3>1 DEF LoopSkips, LoopSpawns, Visits, sizeVars
    <3>2. ASSUME NEW d \in left, LoopMissesDogu(d) \/ LoopFails(d)
          PROVE  FitInv'
      BY <3>2 DEF LoopMissesDogu, LoopFails, Visits, sizeVars
    <3>3. CASE LoopEnds \/ CollectsError \/ ResizeEnds \/ CloserCloses
      BY <3>3 DEF LoopEnds, CollectsError, ResizeEnds, CloserCloses, sizeVars
    <3>4. ASSUME NEW d \in Names, WorkerStep(d)
          PROVE  FitInv'
      BY <3>4 DEF WorkerStep, GetsDogu, UpdatesDogu, PollsVolume, StopsPolling, SendsError, Moves
    <3> QED
      BY <3>1, <3>2, <3>3, <3>4 DEF ResizeNext, MainStep
  <2> QED
    BY <2>1, <2>2, <2>3 DEF Next
<1> QED
  BY <1>1, <1>2, PTL DEF Spec

\* A dogu that passed the validation and is not found by the resizer is installed
\* in another namespace, for all systems and exclusions.
THEOREM ValidatedDogusAreFound == Spec => []ValidatedIsFound
<1>1. FitInv => ValidatedIsFound
  BY DEF FitInv, ValidatedIsFound, IsValid, Missing, ToValidate, ResizeExcluded, Found, NamesIn
<1> QED
  BY <1>1, FitInvHolds, PTL

\* The loop comes to every dogu of the source system, and its errors are kept until
\* RunMigration looks at them.
LookedUpInv ==
    /\ resizer # "off" =>
          \A d \in NamesIn(source) \ ResizeExcluded :
              d \in left \/ Found(d) \/ <<d, "notFound">> \in resizeErr
    /\ resizer \in {"collect", "done"} => left = {}

\* LookedUpInv is an invariant: the loop passes no dogu without a look.
LEMMA LookedUpInvHolds == Spec => []LookedUpInv
<1>1. Init => LookedUpInv
  BY DEF Init, ResizeInit, LookedUpInv
<1>2. LookedUpInv /\ [Next]_vars => LookedUpInv'
  <2> SUFFICES ASSUME LookedUpInv, [Next]_vars PROVE LookedUpInv'
    OBVIOUS
  <2> USE DEF LookedUpInv, Found, NamesIn
  <2>1. CASE ReadsSystems \/ FailsBefore \/ CopyStarts \/ Copying \/ CopyReturns
               \/ MigrationEnds \/ SourceGrows \/ OperatorActs \/ UNCHANGED vars
    BY <2>1 DEF ReadsSystems, FailsBefore, CopyStarts, Copying, CopyReturns, MigrationEnds,
                SourceGrows, OperatorActs, OperatorResizes, vars, resizeVars, sizeVars, stepVars
  <2>2. CASE Validates \/ ResizeReturns \/ Dies
    BY <2>2 DEF Validates, ResizeReturns, Dies, ResizeBegins, ResizeIsCutOff, ResizeIsOver, sizeVars
  <2>3. CASE Resizes
    <3>1. ASSUME NEW d \in left, LoopSkips(d) \/ LoopSpawns(d)
          PROVE  LookedUpInv'
      BY <3>1 DEF LoopSkips, LoopSpawns, Visits, sizeVars
    <3>2. ASSUME NEW d \in left, LoopMissesDogu(d) \/ LoopFails(d)
          PROVE  LookedUpInv'
      BY <3>2 DEF LoopMissesDogu, LoopFails, Visits, sizeVars
    <3>3. CASE LoopEnds \/ CollectsError \/ ResizeEnds \/ CloserCloses
      BY <3>3 DEF LoopEnds, CollectsError, ResizeEnds, CloserCloses, sizeVars
    <3>4. ASSUME NEW d \in Names, WorkerStep(d)
          PROVE  LookedUpInv'
      BY <3>4 DEF WorkerStep, GetsDogu, UpdatesDogu, PollsVolume, StopsPolling, SendsError, Moves
    <3> QED
      BY <2>3, <3>1, <3>2, <3>3, <3>4 DEF Resizes, ResizeNext, MainStep
  <2> QED
    BY <2>1, <2>2, <2>3 DEF Next
<1> QED
  BY <1>1, <1>2, PTL DEF Spec

\* The validator and the resizer, each of which compares half of it, together let
\* only dogus through that are installed in the same version and namespace.
LEMMA ResizedIsInstalled ==
    ASSUME FitInv, LookedUpInv, step = "resize", resizer = "done", resizeErr = {},
           NEW d \in NamesIn(source) \ ExcludedDogus
    PROVE  \/ d = Nginx /\ source.dogus[d].namespace = Official
           \/ /\ target.dogus[d] # Absent
              /\ target.dogus[d].version = source.dogus[d].version
              /\ target.dogus[d].namespace = source.dogus[d].namespace \/ d = Nginx
<1> SUFFICES ASSUME ~(d = Nginx /\ source.dogus[d].namespace = Official)
             PROVE  /\ target.dogus[d] # Absent
                    /\ target.dogus[d].version = source.dogus[d].version
                    /\ target.dogus[d].namespace = source.dogus[d].namespace \/ d = Nginx
  OBVIOUS
<1>1. d \in ToValidate(source)
  BY DEF ToValidate
<1>2. d \in NamesIn(target)
  BY <1>1 DEF FitInv, IsValid, Missing
<1>3. target.dogus[d].version = source.dogus[d].version
  BY <1>1, <1>2 DEF FitInv, IsValid, OtherVersion
<1>4. d # Nginx => Found(d)
  BY DEF LookedUpInv, ResizeExcluded
<1> QED
  BY <1>2, <1>3, <1>4 DEF NamesIn, Found

\* Data is copied only into dogus of the same version and namespace, but for nginx,
\* whatever the two systems are and whatever is excluded.
THEOREM CopiesFit == Spec => []CopiedIsInstalled
<1>1. Init => CopiedIsInstalled
  BY DEF Init, CopiedIsInstalled
<1>2. FitInv /\ LookedUpInv /\ CopiedIsInstalled /\ [Next]_vars => CopiedIsInstalled'
  <2> SUFFICES ASSUME FitInv, LookedUpInv, CopiedIsInstalled, [Next]_vars
               PROVE  CopiedIsInstalled'
    OBVIOUS
  <2>1. CASE ReadsSystems \/ FailsBefore \/ Validates \/ MigrationEnds \/ Dies \/ SourceGrows
    BY <2>1 DEF ReadsSystems, FailsBefore, Validates, MigrationEnds, Dies, SourceGrows, CopiedIsInstalled
  <2>2. CASE CopyStarts \/ Copying \/ CopyReturns
    BY <2>2 DEF CopyStarts, Copying, CopyReturns, sizeVars, stepVars, CopiedIsInstalled
  <2>3. CASE Resizes \/ OperatorActs \/ UNCHANGED vars
    <3>1. CASE Resizes
      BY <3>1 DEF Resizes, stepVars, CopiedIsInstalled
    <3>2. CASE OperatorActs \/ UNCHANGED vars
      BY <3>2 DEF OperatorActs, OperatorResizes, vars, sizeVars, stepVars, CopiedIsInstalled
    <3> QED
      BY <2>3, <3>1, <3>2
  <2>4. CASE ResizeReturns
    <3>1. step' = "copy" => /\ step = "resize" /\ resizer = "done" /\ resizeErr = {}
                            /\ copies' = NamesIn(source) \ ExcludedDogus
                            /\ UNCHANGED <<source, target>>
      BY <2>4 DEF ResizeReturns, sizeVars
    <3> QED
      BY <3>1, ResizedIsInstalled DEF CopiedIsInstalled
  <2> QED
    BY <2>1, <2>2, <2>3, <2>4 DEF Next
<1> QED
  BY <1>1, <1>2, FitInvHolds, LookedUpInvHolds, PTL DEF Spec


-----------------------------------------------------------------------------
(* Room for the data. *)

Active == {"get", "update", "wait", "send"}
Relevant(d) == d \in (NamesIn(source) \cap WithBackup) \ ResizeExcluded
HasError(d) == d \in errorsChan \/ \E r \in Reasons : <<d, r>> \in resizeErr

\* Why the resize need not care for dogu d, or what became of it.
Handled(d) ==
    \/ needed[d] <= known[d] \/ worker[d] \in Active \/ HasError(d)
    \/ actual[d] >= needed[d]

\* A spec that asks for more than the volume has is waited for, or was abandoned.
SpecsInv ==
    \A d \in Names :
        /\ actual[d] >= wanted[d] \/ d \in abandoned \/ worker[d] = "wait"
        /\ worker[d] # "none" => needed[d] > known[d] /\ step = "resize"
        /\ worker[d] = "wait" => wanted[d] = needed[d]

\* The sizes that a migration has read were those of the specs.
KnownInv ==
    step \in {"validate", "resize", "copy"} =>
        \A d \in Names : actual[d] >= known[d] \/ d \in abandoned

\* What the resize does for each dogu that it has come to.
ResizeInv ==
    /\ resizer # "off" => step = "resize" /\ \A d \in Names : Relevant(d) => d \in left \/ Handled(d)
    /\ resizer \in {"collect", "done"} => left = {}
    /\ \A d \in left : worker[d] = "none"
    /\ resizer = "done" => errorsChan = {} /\ \A d \in Names : worker[d] \notin Active
    /\ closed => (\A d \in Names : worker[d] \notin Active) /\ resizer \in {"collect", "done"}

RoomInv == SpecsInv /\ KnownInv /\ ResizeInv /\ VolumesHaveRoom

\* Before the first migration the volumes are as large as their specs say.
LEMMA RoomInit == ASSUME Init, VolumeTypeOK PROVE RoomInv
<1>1. /\ \A d \in Names : actual[d] >= wanted[d] /\ worker[d] = "none"
      /\ step = "none" /\ resizer = "off" /\ ~closed /\ left = {}
  BY DEF Init, ResizeInit, VolumeTypeOK, ResizeTypeOK, Sizes
<1> QED
  BY <1>1 DEF RoomInv, SpecsInv, KnownInv, ResizeInv, VolumesHaveRoom

\* The loop passes over dogus that have room or an error, and starts goroutines
\* for the others.
LEMMA LoopKeepsRoom ==
    ASSUME VolumeTypeOK, RoomInv, step = "resize", UNCHANGED <<step, sizeVars>>, NEW d \in left,
           LoopSkips(d) \/ LoopMissesDogu(d) \/ LoopFails(d) \/ LoopSpawns(d)
    PROVE  RoomInv'
<1> USE DEF RoomInv, sizeVars
<1>1. d \in Names
  BY DEF VolumeTypeOK, ResizeTypeOK
<1>2. /\ left' = left \ {d} /\ resizer = "loop" /\ resizer' = "loop"
      /\ UNCHANGED <<tries, errorsChan, closed, abandoned>>
  BY DEF LoopSkips, LoopMissesDogu, LoopFails, LoopSpawns, Visits
<1>3. \/ worker' = worker /\ resizeErr \subseteq resizeErr'
      \/ /\ worker' = [worker EXCEPT ![d] = "get"] /\ resizeErr' = resizeErr
         /\ needed[d] > known[d]
  BY DEF LoopSkips, LoopMissesDogu, LoopFails, LoopSpawns
<1>4. Relevant(d) => Handled(d)'
  <2>1. CASE LoopSkips(d)
    BY <2>1 DEF LoopSkips, Relevant, Handled
  <2>2. CASE LoopMissesDogu(d) \/ LoopFails(d)
    BY <2>2 DEF LoopMissesDogu, LoopFails, Handled, HasError, Reasons
  <2>3. CASE LoopSpawns(d)
    BY <1>1, <2>3 DEF LoopSpawns, Handled, Active, VolumeTypeOK, ResizeTypeOK
  <2> QED
    BY <2>1, <2>2, <2>3
<1>5. \A e \in Names : Handled(e) => Handled(e)'
  BY <1>2, <1>3 DEF Handled, HasError, Active, VolumeTypeOK, ResizeTypeOK
<1>6. \A e \in Names : Relevant(e)' <=> Relevant(e)
  BY DEF Relevant, NamesIn, ResizeExcluded
<1>7. ResizeInv'
  <2>1. ~closed /\ ~closed'
    BY <1>2 DEF ResizeInv
  <2>2. \A e \in Names : Relevant(e)' => e \in left' \/ Handled(e)'
    BY <1>2, <1>4, <1>5, <1>6 DEF ResizeInv
  <2>3. \A e \in left' : worker'[e] = "none"
    BY <1>2, <1>3 DEF ResizeInv, VolumeTypeOK, ResizeTypeOK
  <2> QED
    BY <1>2, <2>1, <2>2, <2>3 DEF ResizeInv
<1>8. SpecsInv'
  <2>1. worker[d] = "none"
    BY DEF ResizeInv
  <2> QED
    BY <1>1, <1>2, <1>3, <2>1 DEF SpecsInv, VolumeTypeOK, ResizeTypeOK
<1> QED
  BY <1>2, <1>7, <1>8 DEF KnownInv, VolumesHaveRoom

\* A goroutine does its work, or leaves an error, or its dogu as abandoned.
LEMMA WorkerKeepsRoom ==
    ASSUME VolumeTypeOK, RoomInv, step = "resize", step' = step, NEW d \in Names, WorkerStep(d)
    PROVE  RoomInv'
<1> USE DEF RoomInv
<1>1. /\ UNCHANGED <<source, target, actual, needed, known, resizer, left, closed, resizeErr>>
      /\ worker[d] \in Active
      /\ \A e \in Names \ {d} : worker'[e] = worker[e] /\ wanted'[e] = wanted[e]
                                /\ (e \in abandoned' <=> e \in abandoned)
      /\ errorsChan \subseteq errorsChan'
  BY DEF WorkerStep, GetsDogu, UpdatesDogu, PollsVolume, StopsPolling, SendsError, Moves, Active,
         VolumeTypeOK, ResizeTypeOK
<1>2. /\ needed[d] > known[d]
      /\ worker[d] = "wait" => wanted[d] = needed[d]
      /\ actual[d] >= wanted[d] \/ d \in abandoned \/ worker[d] = "wait"
  BY <1>1 DEF SpecsInv, Active
<1>3. /\ actual'[d] >= wanted'[d] \/ d \in abandoned' \/ worker'[d] = "wait"
      /\ worker'[d] = "wait" => wanted'[d] = needed[d]
      /\ worker'[d] # "none"
      /\ d \in abandoned => d \in abandoned' \/ actual[d] >= needed[d]
      /\ worker'[d] \in Active \/ d \in errorsChan' \/ actual[d] >= needed[d]
  <2> USE <1>1, <1>2 DEF Moves, VolumeTypeOK, ResizeTypeOK, Active
  <2>1. CASE GetsDogu(d)
    BY <2>1 DEF GetsDogu
  <2>2. CASE UpdatesDogu(d)
    BY <2>2 DEF UpdatesDogu
  <2>3. CASE PollsVolume(d)
    BY <2>3 DEF PollsVolume
  <2>4. CASE StopsPolling(d) \/ SendsError(d)
    BY <2>4 DEF StopsPolling, SendsError
  <2> QED
    BY <2>1, <2>2, <2>3, <2>4 DEF WorkerStep
<1>4. SpecsInv'
  BY <1>1, <1>2, <1>3 DEF SpecsInv
<1>5. KnownInv'
  <2>1. \A e \in Names : actual[e] \in Nat /\ known[e] \in Nat /\ needed[e] \in Nat
    BY DEF VolumeTypeOK, ResizeTypeOK, Sizes
  <2> QED
    BY <1>1, <1>2, <1>3, <2>1 DEF KnownInv
<1>6. \A e \in Names : (Relevant(e)' <=> Relevant(e)) /\ (Handled(e) => Handled(e)')
  BY <1>1, <1>3 DEF Relevant, NamesIn, ResizeExcluded, Handled, HasError
<1>7. ResizeInv'
  <2>1. d \notin left
    BY <1>1 DEF ResizeInv, Active
  <2>2. ~closed
    BY <1>1 DEF ResizeInv
  <2>3. \A e \in left : worker'[e] = "none"
    BY <1>1, <2>1 DEF ResizeInv, VolumeTypeOK, ResizeTypeOK
  <2> QED
    BY <1>1, <1>6, <2>2, <2>3 DEF ResizeInv
<1> QED
  BY <1>4, <1>5, <1>7 DEF VolumesHaveRoom

\* Every step keeps RoomInv, one that ends or kills a migration by abandoning the
\* volumes that are being waited for.
LEMMA RoomStep == ASSUME VolumeTypeOK, RoomInv, [Next]_vars PROVE RoomInv'
<1> USE DEF RoomInv
<1>1. CASE ReadsSystems
  BY <1>1 DEF ReadsSystems, SpecsInv, KnownInv, ResizeInv, VolumesHaveRoom, resizeVars
<1>2. CASE Validates
  BY <1>2 DEF Validates, ResizeBegins, SpecsInv, KnownInv, ResizeInv, VolumesHaveRoom, sizeVars,
              Relevant, NamesIn, Active, VolumeTypeOK, ResizeTypeOK
<1>3. CASE FailsBefore \/ MigrationEnds
  BY <1>3 DEF FailsBefore, MigrationEnds, SpecsInv, KnownInv, ResizeInv, VolumesHaveRoom, sizeVars,
              resizeVars
<1>4. CASE Resizes
  <2>1. ASSUME NEW d \in left, LoopSkips(d) \/ LoopMissesDogu(d) \/ LoopFails(d) \/ LoopSpawns(d)
        PROVE  RoomInv'
    BY <1>4, <2>1, LoopKeepsRoom DEF Resizes, stepVars, LoopSkips, LoopMissesDogu, LoopFails,
       LoopSpawns, Visits
  <2>2. ASSUME NEW d \in Names, WorkerStep(d) PROVE RoomInv'
    BY <1>4, <2>2, WorkerKeepsRoom DEF Resizes, stepVars
  <2>3. CASE LoopEnds \/ ResizeEnds \/ CloserCloses
    BY <1>4, <2>3 DEF LoopEnds, ResizeEnds, CloserCloses, Resizes, stepVars, sizeVars, SpecsInv,
       KnownInv, ResizeInv, VolumesHaveRoom, Relevant, NamesIn, ResizeExcluded, Handled, HasError,
       Active, AllDone
  <2>4. CASE CollectsError
    BY <1>4, <2>4 DEF CollectsError, Resizes, stepVars, sizeVars, SpecsInv, KnownInv, ResizeInv,
       VolumesHaveRoom, Relevant, NamesIn, ResizeExcluded, Handled, HasError, Reasons
  <2> QED
    BY <1>4, <2>1, <2>2, <2>3, <2>4 DEF Resizes, ResizeNext, MainStep
<1>5. CASE ResizeReturns
  <2>1. resizeErr = {} => \A d \in Names : Relevant(d) => actual[d] >= needed[d] \/ d \in abandoned
    <3>1. ASSUME resizeErr = {}, NEW d \in Names, Relevant(d)
          PROVE  actual[d] >= needed[d] \/ d \in abandoned
      <4>1. needed[d] <= known[d] \/ actual[d] >= needed[d]
        BY <1>5, <3>1 DEF ResizeReturns, ResizeInv, Handled, HasError
      <4>2. actual[d] >= known[d] \/ d \in abandoned
        BY <1>5 DEF ResizeReturns, KnownInv
      <4> QED
        BY <4>1, <4>2 DEF VolumeTypeOK, ResizeTypeOK, Sizes
    <3> QED
      BY <3>1
  <2>2. VolumesHaveRoom'
    BY <1>5, <2>1 DEF ResizeReturns, VolumesHaveRoom, Relevant, NamesIn, sizeVars, VolumeTypeOK
  <2>3. SpecsInv' /\ KnownInv' /\ ResizeInv'
    BY <1>5 DEF ResizeReturns, ResizeIsOver, SpecsInv, KnownInv, ResizeInv, Active, sizeVars
  <2> QED
    BY <2>2, <2>3
<1>6. CASE CopyStarts \/ Copying \/ CopyReturns
  BY <1>6 DEF CopyStarts, Copying, CopyReturns, SpecsInv, KnownInv, ResizeInv, VolumesHaveRoom,
              sizeVars, resizeVars, stepVars, Relevant, NamesIn, ResizeExcluded, Handled, HasError
<1>7. CASE Dies
  <2>1. SpecsInv'
    BY <1>7 DEF Dies, ResizeIsCutOff, ResizeIsOver, SpecsInv, sizeVars
  <2> QED
    BY <1>7, <2>1 DEF Dies, ResizeIsCutOff, ResizeIsOver, KnownInv, ResizeInv, VolumesHaveRoom
<1>8. CASE SourceGrows
  BY <1>8 DEF SourceGrows, SpecsInv, KnownInv, ResizeInv, VolumesHaveRoom, sizeVars, resizeVars
<1>9. CASE OperatorActs
  <2>1. \A d \in Names : /\ actual[d] \in Nat /\ actual'[d] \in Nat /\ actual'[d] >= actual[d]
                          /\ wanted[d] \in Nat /\ needed[d] \in Nat /\ known[d] \in Nat
    BY <1>9 DEF OperatorActs, OperatorResizes, VolumeTypeOK, ResizeTypeOK, Sizes
  <2>2. UNCHANGED <<source, target, wanted, needed, known, resizeVars, stepVars>>
    BY <1>9 DEF OperatorActs, OperatorResizes
  <2>3. SpecsInv' /\ KnownInv' /\ VolumesHaveRoom'
    BY <2>1, <2>2 DEF SpecsInv, KnownInv, VolumesHaveRoom, resizeVars, stepVars, NamesIn
  <2>4. \A d \in Names : (Relevant(d)' <=> Relevant(d)) /\ (Handled(d) => Handled(d)')
    BY <2>1, <2>2 DEF Relevant, Handled, HasError, NamesIn, resizeVars
  <2> QED
    BY <2>2, <2>3, <2>4 DEF ResizeInv, resizeVars, stepVars
<1>10. CASE UNCHANGED vars
  BY <1>10 DEF vars, sizeVars, resizeVars, stepVars, SpecsInv, KnownInv, ResizeInv, VolumesHaveRoom,
               Relevant, NamesIn, ResizeExcluded, Handled, HasError
<1> QED
  BY <1>1, <1>2, <1>3, <1>4, <1>5, <1>6, <1>7, <1>8, <1>9, <1>10 DEF Next

\* Data is copied into volumes that are large enough, or that an earlier resize
\* has abandoned, for all sizes, limits and numbers of migrations.
THEOREM DataHasRoom == Spec => []VolumesHaveRoom
<1>1. Init => RoomInv
  BY TypeInit, RoomInit
<1>2. VolumeTypeOK /\ RoomInv /\ [Next]_vars => RoomInv'
  BY RoomStep
<1>3. RoomInv => VolumesHaveRoom
  BY DEF RoomInv
<1> QED
  BY <1>1, <1>2, <1>3, VolumeTypeCorrect, PTL DEF Spec

-----------------------------------------------------------------------------
(* The sizes in the specs of the dogus. *)

\* A goroutine that is still to write the size finds the one that the migration
\* has read: in the model only the resize of the one migration under way writes sizes.
SpecIsAsRead ==
    /\ step = "validate" => known = wanted
    /\ \A d \in left : worker[d] = "none"
    /\ step = "resize" =>
          \A d \in Names : worker[d] \in {"none", "get", "update"} => wanted[d] = known[d]
    /\ \A d \in Names : worker[d] # "none" => needed[d] > known[d] /\ step = "resize"

\* SpecIsAsRead is an invariant of migrations that come one after the other.
LEMMA SpecIsAsReadHolds == Spec => []SpecIsAsRead
<1> USE DEF SpecIsAsRead
<1>1. Init => SpecIsAsRead
  BY DEF Init, ResizeInit
<1>2. VolumeTypeOK /\ SpecIsAsRead /\ [Next]_vars => SpecIsAsRead'
  <2> SUFFICES ASSUME VolumeTypeOK, SpecIsAsRead, [Next]_vars PROVE SpecIsAsRead'
    OBVIOUS
  <2> USE DEF VolumeTypeOK, ResizeTypeOK
  <2>1. CASE ReadsSystems
    BY <2>1 DEF ReadsSystems, resizeVars
  <2>2. CASE Validates \/ ResizeReturns \/ Dies
    <3>1. step' # "validate" /\ \A d \in Names : worker'[d] = "none"
      BY <2>2 DEF Validates, ResizeReturns, Dies, ResizeBegins, ResizeIsCutOff, ResizeIsOver
    <3>2. left' \subseteq Names
      BY <2>2 DEF Validates, ResizeReturns, Dies, ResizeBegins, ResizeIsCutOff, ResizeIsOver, NamesIn
    <3>3. step' = "resize" => known' = wanted'
      BY <2>2 DEF Validates, ResizeReturns, Dies, sizeVars
    <3> QED
      BY <3>1, <3>2, <3>3
  <2>3. CASE FailsBefore \/ CopyStarts \/ Copying \/ CopyReturns \/ MigrationEnds
               \/ SourceGrows \/ OperatorActs \/ UNCHANGED vars
    BY <2>3 DEF FailsBefore, CopyStarts, Copying, CopyReturns, MigrationEnds, SourceGrows,
                OperatorActs, OperatorResizes, vars, sizeVars, resizeVars, stepVars
  <2>4. CASE Resizes
    <3> USE <2>4 DEF Resizes, stepVars
    <3>1. ASSUME NEW d \in left, LoopSkips(d) \/ LoopMissesDogu(d) \/ LoopFails(d)
          PROVE  SpecIsAsRead'
      BY <3>1 DEF LoopSkips, LoopMissesDogu, LoopFails, Visits, sizeVars
    <3>2. ASSUME NEW d \in left, LoopSpawns(d)
          PROVE  SpecIsAsRead'
      BY <3>2 DEF LoopSpawns, Visits, sizeVars
    <3>3. CASE LoopEnds \/ CollectsError \/ ResizeEnds \/ CloserCloses
      BY <3>3 DEF LoopEnds, CollectsError, ResizeEnds, CloserCloses, sizeVars
    <3>4. ASSUME NEW d \in Names, GetsDogu(d) \/ PollsVolume(d) \/ StopsPolling(d) \/ SendsError(d)
          PROVE  SpecIsAsRead'
      BY <3>4 DEF GetsDogu, PollsVolume, StopsPolling, SendsError, Moves
    <3>5. ASSUME NEW d \in Names, UpdatesDogu(d)
          PROVE  SpecIsAsRead'
      BY <3>5 DEF UpdatesDogu, Moves
    <3> QED
      BY <3>1, <3>2, <3>3, <3>4, <3>5 DEF ResizeNext, MainStep, WorkerStep
  <2> QED
    BY <2>1, <2>2, <2>3, <2>4 DEF Next
<1> QED
  BY <1>1, <1>2, VolumeTypeCorrect, PTL DEF Spec

\* No migration asks for a smaller volume than the one before it, which Kubernetes
\* would refuse: a goroutine writes a size, long after it was compared, that is
\* larger than the one it overwrites (dogu_volume_resizer.go:100-105, 160-172).
SpecsOnlyGrow == [][\A d \in Names : wanted'[d] >= wanted[d]]_vars

\* The sizes in the specs only grow, over any number of migrations, failed ones and
\* killed ones too, whatever the sizes.
THEOREM NoVolumeShrinks == Spec => SpecsOnlyGrow
<1>1. VolumeTypeOK /\ SpecIsAsRead /\ [Next]_vars => [\A d \in Names : wanted'[d] >= wanted[d]]_vars
  <2> SUFFICES ASSUME VolumeTypeOK, SpecIsAsRead, Next
               PROVE  \A d \in Names : wanted'[d] >= wanted[d]
    OBVIOUS
  <2>1. \A d \in Names : wanted[d] \in Nat /\ known[d] \in Nat /\ needed[d] \in Nat
    BY DEF VolumeTypeOK, ResizeTypeOK, Sizes
  <2>2. ASSUME NEW d \in Names, UpdatesDogu(d), step = "resize"
        PROVE  \A e \in Names : wanted'[e] >= wanted[e]
    <3>1. wanted' = wanted \/ wanted' = [wanted EXCEPT ![d] = needed[d]]
      BY <2>2 DEF UpdatesDogu
    <3>2. needed[d] >= wanted[d]
      BY <2>1, <2>2 DEF SpecIsAsRead, UpdatesDogu, Moves
    <3> QED
      BY <2>1, <3>1, <3>2 DEF VolumeTypeOK, ResizeTypeOK
  <2>3. wanted' = wanted \/ \E d \in Names : UpdatesDogu(d) /\ step = "resize"
    <3>1. CASE Resizes
      BY <3>1 DEF Resizes, ResizeNext, MainStep, WorkerStep, LoopSkips, LoopMissesDogu, LoopFails,
         LoopSpawns, Visits, LoopEnds, CollectsError, ResizeEnds, CloserCloses, GetsDogu,
         PollsVolume, StopsPolling, SendsError, sizeVars
    <3>2. CASE ~Resizes
      BY <3>2 DEF Next, ReadsSystems, Validates, FailsBefore, ResizeReturns, CopyStarts, Copying,
         CopyReturns, MigrationEnds, Dies, SourceGrows, OperatorActs, OperatorResizes, sizeVars
    <3> QED
      BY <3>1, <3>2
  <2> QED
    BY <2>1, <2>2, <2>3
<1> QED
  BY <1>1, VolumeTypeCorrect, SpecIsAsReadHolds, PTL DEF Spec, SpecsOnlyGrow

-----------------------------------------------------------------------------
(* The output of rsync. *)

\* A goroutine that has seen the end of its pipe has emptied it, and nobody writes
\* to it any more.
PipeInv ==
    /\ rsync # "running" => writing = "none"
    /\ \A s \in Streams : reader[s] \in {"none", "eof"} => pipe[s] = 0 /\ rsync # "running"
    /\ syncer \in {"cmdWait", "ok", "failed"} => \A s \in Streams : reader[s] # "reading"

\* No line of rsync is lost, but after one that is too long, for pipes of any size
\* and any number of lines.
THEOREM LogIsComplete == Spec => []OutputIsLogged
<1>1. Init => PipeInv
  BY DEF Init, PipeInit, PipeInv
<1>2. VolumeTypeOK /\ PipeInv /\ [Next]_vars => PipeInv'
  <2> SUFFICES ASSUME VolumeTypeOK, PipeInv, [Next]_vars PROVE PipeInv'
    OBVIOUS
  <2> USE DEF PipeInv
  <2>1. CASE ReadsSystems \/ Validates \/ FailsBefore \/ Resizes \/ ResizeReturns
               \/ MigrationEnds \/ SourceGrows \/ OperatorActs \/ UNCHANGED vars
    BY <2>1 DEF ReadsSystems, Validates, FailsBefore, Resizes, ResizeReturns, MigrationEnds,
                SourceGrows, OperatorActs, vars, pipeVars
  <2>2. CASE CopyStarts
    BY <2>2 DEF CopyStarts, StartsRsync
  <2>3. CASE CopyReturns \/ Dies
    BY <2>3 DEF CopyReturns, Dies, SyncDoguDirIsOver
  <2>4. CASE Copying
    <3> USE DEF VolumeTypeOK, PipeTypeOK
    <3>1. CASE WaitsForReaders \/ WaitsForRsync
      BY <3>1 DEF WaitsForReaders, WaitsForRsync
    <3>2. CASE BeginsLine \/ Exits
      BY <3>2 DEF BeginsLine, Exits
    <3>3. CASE WritesLine
      BY <3>3 DEF WritesLine, Streams
    <3>4. ASSUME NEW s \in Streams, ReadsLine(s) \/ ReadsEnd(s)
          PROVE  PipeInv'
      BY <3>4 DEF ReadsLine, ReadsEnd
    <3> QED
      BY <2>4, <3>1, <3>2, <3>3, <3>4 DEF Copying, PipeNext, SyncerStep, RsyncStep, ReaderStep
  <2> QED
    BY <2>1, <2>2, <2>3, <2>4 DEF Next
<1>3. VolumeTypeOK /\ PipeInv => OutputIsLogged
  BY DEF PipeInv, OutputIsLogged, VolumeTypeOK, PipeTypeOK
<1> QED
  BY <1>1, <1>2, <1>3, VolumeTypeCorrect, PTL DEF Spec

=============================================================================
