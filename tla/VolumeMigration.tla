---------------------------- MODULE VolumeMigration ----------------------------
(* The way of the volumes through migrations: RunMigration compares the two  *)
(* systems (SystemValidation), makes the volumes large enough (VolumeResize) *)
(* and has the directories copied (RsyncPipe).  Each migration reads the     *)
(* sizes anew; what a failed or killed one left in the specs of the dogus is *)
(* what the next one finds.                                                  *)
(*                                                                           *)
(* What the other modules treat is one choice here between "goes on" and     *)
(* "fails": the export mode, blueprints, the stop of the dogus, the job.     *)
EXTENDS VolumeResize, RsyncPipe

CONSTANTS
    Landscapes,     \* the systems looked at: source and target, and the sizes of
                    \* their volumes, exported and volumes
    MaxMigrations   \* bound: migrations started

ASSUME LandscapeAssumption ==
    /\ Landscapes \subseteq [source : Systems, target : Systems,
                             exported : [Names -> Sizes], volumes : [Names -> Sizes]]
    /\ MaxMigrations \in Nat

VARIABLES
    step,           \* RunMigration: "none", "validate", "resize", "copy", "ended"
    sourceSize,     \* the sizes of the volumes of the source system
    copies,         \* the dogus whose data is still to be copied
    migrations      \* migrations started so far

stepVars == <<step, sourceSize, copies, migrations>>
vars == <<sizeVars, resizeVars, pipeVars, stepVars>>

VolumeTypeOK ==
    /\ ResizeTypeOK /\ PipeTypeOK
    /\ step \in {"none", "validate", "resize", "copy", "ended"}
    /\ sourceSize \in [Names -> Sizes]
    /\ copies \subseteq Names
    /\ migrations \in 0 .. MaxMigrations
    /\ resizer # "off" => step = "resize"
    /\ syncer # "off" => step = "copy"

\* At first the volumes of the target system have the sizes of their specs.
Init ==
    /\ \E l \in Landscapes :
          /\ source = l.source /\ target = l.target
          /\ sourceSize = l.exported /\ wanted = l.volumes
    /\ needed = sourceSize /\ known = wanted /\ actual = wanted
    /\ ResizeInit /\ PipeInit
    /\ step = "none" /\ copies = {} /\ migrations = 0

-----------------------------------------------------------------------------
(* RunMigration. *)

\* The size of a volume of the target system is what its dogu asks for.
ReadsSystems ==
    /\ step \in {"none", "ended"} /\ migrations < MaxMigrations
    /\ migrations' = migrations + 1 /\ step' = "validate"
    /\ needed' = sourceSize /\ known' = wanted
    /\ UNCHANGED <<source, target, wanted, actual, resizeVars, pipeVars>>
    /\ UNCHANGED <<sourceSize, copies>>

Validates ==
    /\ step = "validate" /\ IsValid(source, target)
    /\ step' = "resize" /\ ResizeBegins
    /\ UNCHANGED <<sizeVars, pipeVars, sourceSize, copies, migrations>>

\* The systems do not fit; or an error of any of the steps before the resize.
FailsBefore ==
    /\ step = "validate" /\ step' = "ended"
    /\ UNCHANGED <<sizeVars, resizeVars, pipeVars, sourceSize, copies, migrations>>

Resizes ==
    /\ step = "resize" /\ ResizeNext
    /\ UNCHANGED <<pipeVars, stepVars>>

\* The job asks the exporter for its dogus anew (rsync.go:83); they are taken to be
\* those that were validated.
ResizeReturns ==
    /\ step = "resize" /\ resizer = "done"
    /\ \/ /\ resizeErr = {}
          /\ step' = "copy" /\ copies' = NamesIn(source) \ ExcludedDogus
       \/ step' = "ended" /\ UNCHANGED copies
    /\ ResizeIsOver /\ UNCHANGED <<abandoned, sizeVars>>
    /\ UNCHANGED <<pipeVars, sourceSize, migrations>>

CopyStarts ==
    /\ step = "copy" /\ syncer = "off"
    /\ copies # {} /\ StartsRsync
    /\ UNCHANGED <<sizeVars, resizeVars, stepVars>>

Copying ==
    /\ step = "copy" /\ PipeNext
    /\ UNCHANGED <<sizeVars, resizeVars, stepVars>>

CopyReturns ==
    /\ step = "copy" /\ syncer \in {"ok", "failed"}
    /\ \E d \in copies : copies' = copies \ {d}
    /\ SyncDoguDirIsOver
    /\ UNCHANGED <<sizeVars, resizeVars, step, sourceSize, migrations>>

MigrationEnds ==
    /\ step = "copy" /\ syncer = "off" /\ copies = {}
    /\ step' = "ended"
    /\ UNCHANGED <<sizeVars, resizeVars, pipeVars, sourceSize, copies, migrations>>

-----------------------------------------------------------------------------
(* The surroundings. *)

\* The coordinator dies, or the node with all of it.
Dies ==
    /\ step \in {"validate", "resize", "copy"}
    /\ step' = "ended" /\ copies' = {} /\ ResizeIsCutOff /\ SyncDoguDirIsOver
    /\ UNCHANGED <<sizeVars, sourceSize, migrations>>

\* Only the sizes that a migration reads at its begin count; and those of volumes
\* that need no backup never do.
SourceGrows ==
    /\ step \in {"none", "ended"}
    /\ \E d \in NamesIn(source) \cap WithBackup :
          sourceSize[d] < MaxSize /\ sourceSize' = [sourceSize EXCEPT ![d] = @ + 1]
    /\ UNCHANGED <<sizeVars, resizeVars, pipeVars, step, copies, migrations>>

OperatorActs == OperatorResizes /\ UNCHANGED <<pipeVars, stepVars>>

Next ==
    \/ ReadsSystems \/ Validates \/ FailsBefore \/ Resizes \/ ResizeReturns
    \/ CopyStarts \/ Copying \/ CopyReturns \/ MigrationEnds
    \/ Dies \/ SourceGrows \/ OperatorActs

Spec == Init /\ [][Next]_vars

(* Goroutines that can go on do, and rsync works or exits.  Nothing makes the *)
(* dogu operator resize a volume.                                             *)
Fairness ==
    /\ WF_vars(step = "resize" /\ MainStep /\ UNCHANGED <<pipeVars, stepVars>>)
    /\ WF_vars(step = "resize" /\ CloserCloses /\ UNCHANGED <<pipeVars, stepVars>>)
    /\ \A d \in Names : WF_vars(step = "resize" /\ WorkerStep(d) /\ UNCHANGED <<pipeVars, stepVars>>)
    /\ WF_vars(step = "copy" /\ SyncerStep /\ UNCHANGED <<sizeVars, resizeVars, stepVars>>)
    /\ WF_vars(step = "copy" /\ RsyncStep /\ UNCHANGED <<sizeVars, resizeVars, stepVars>>)
    /\ \A s \in Streams :
          WF_vars(step = "copy" /\ ReaderStep(s) /\ UNCHANGED <<sizeVars, resizeVars, stepVars>>)

FairSpec == Spec /\ Fairness

-----------------------------------------------------------------------------
(* Properties. *)

\* No goroutine sends on a closed channel, which would panic outside of the
\* reach of the cleanup and end the coordinator (dogu_volume_resizer.go:99-117).
NoSendOnClosed == closed => AllDone

\* When data is copied, each volume that is to take it is as large as the one it
\* comes from, unless an earlier migration wrote the size into the spec and gave
\* up waiting, or died: the spec is what this one looked at (provider.go:48).
VolumesHaveRoom ==
    step = "copy" =>
        \A d \in (NamesIn(source) \cap WithBackup) \ ResizeExcluded :
            actual[d] >= needed[d] \/ d \in abandoned

\* After the validation the resizer misses no dogu but one that the target system
\* has in another namespace: the validator looks at simple names and the resizer
\* at full ones (validator.go:60, 119; dogu_volume_resizer.go:78).
ValidatedIsFound ==
    \A d \in Names : <<d, "notFound">> \in resizeErr =>
        /\ target.dogus[d] # Absent
        /\ target.dogus[d].namespace # source.dogus[d].namespace

\* The data of a dogu is copied only into a dogu of the same version and of the
\* same namespace, although the validator does not look at namespaces and the
\* resizer not at versions; but for nginx, which the resizer passes over, and
\* the validator too when it is the official one (validator.go:60-119,
\* dogu_volume_resizer.go:49-78).
CopiedIsInstalled ==
    step = "copy" => \A d \in copies :
        LET from == source.dogus[d]
            into == target.dogus[d]
        IN  \/ d = Nginx /\ from.namespace = Official
            \/ /\ into # Absent /\ into.version = from.version
               /\ into.namespace = from.namespace \/ d = Nginx

\* The resize comes to an end, also when a volume never gets its size and when
\* nobody can read it (dogu_volume_resizer.go:180-203).
ResizeComesToEnd == resizer = "loop" ~> resizer \in {"done", "off"}

\* All that rsync printed is in the log when SyncDoguDir returns, unless a line
\* was too long (rsync.go:194-219).
OutputIsLogged ==
    syncer \in {"ok", "failed"} => \A s \in Streams : pipe[s] = 0 \/ reader[s] = "tooLong"

\* SyncDoguDir returns, whatever rsync prints to which stream, unless a line is
\* too long (rsync.go:194-224).
SyncReturns ==
    syncer = "wgWait" ~>
        syncer \in {"ok", "failed", "off"} \/ \E s \in Streams : reader[s] = "tooLong"

=============================================================================
