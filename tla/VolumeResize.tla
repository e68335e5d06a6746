----------------------------- MODULE VolumeResize -----------------------------
(* systeminfo/dogu_volume_resizer.go: ResizeDogusIfNeeded compares the sizes *)
(* of the volumes in two lists of dogus, and starts a goroutine for each     *)
(* volume that is too small.  The goroutine sets the size in the spec of the *)
(* dogu and waits, for a bounded number of tries, until the volume has it.   *)
(*                                                                           *)
(* Errors go through a buffered channel, which one more goroutine closes     *)
(* when all others are done.  Nothing here looks at the context.             *)
EXTENDS SystemValidation, Naturals, FiniteSets

CONSTANTS
    WithBackup,     \* the dogus whose descriptor has a volume that needs backup
    MaxSize,        \* bound: sizes are 1 .. MaxSize
    MaxRetries      \* maxRetries, 60 in the code

ASSUME ResizeAssumption ==
    /\ WithBackup \subseteq Names
    /\ IsFiniteSet(Names)
    /\ MaxSize \in Nat \ {0} /\ MaxRetries \in Nat

VARIABLES
    source, target, \* the two systems: what is installed
    wanted,         \* spec.resources.minDataVolumeSize of each dogu in the target system
    actual,         \* status.capacity of its volume
    needed,         \* exporterDogus: the sizes read from the exporter
    known,          \* importerDogus: the sizes read from the specs of the dogus
    resizer,        \* ResizeDogusIfNeeded: "off", "loop", "collect", "done"
    left,           \* the dogus that the loop has not come to
    worker,         \* the goroutine of each dogu
    tries,          \* retries of its waitForPVCResize
    errorsChan,     \* the dogus whose errors are in the channel
    closed,         \* whether the channel is closed
    resizeErr,      \* the joined errors: dogu and reason
    abandoned       \* history: the size is in the spec, and nobody waited until
                    \* the volume had it

sizeVars == <<source, target, wanted, actual, needed, known>>
resizeVars == <<resizer, left, worker, tries, errorsChan, closed, resizeErr, abandoned>>

Sizes == 1 .. MaxSize
Reasons == {"notFound", "descriptor", "resize"}

ResizeTypeOK ==
    /\ source \in Systems /\ target \in Systems
    /\ wanted \in [Names -> Sizes] /\ actual \in [Names -> Sizes]
    /\ needed \in [Names -> Sizes] /\ known \in [Names -> Sizes]
    /\ resizer \in {"off", "loop", "collect", "done"}
    /\ left \subseteq Names
    /\ worker \in [Names -> {"none", "get", "update", "wait", "send", "done"}]
    /\ tries \in [Names -> 0 .. MaxRetries]
    /\ errorsChan \subseteq Names /\ closed \in BOOLEAN
    /\ resizeErr \subseteq Names \X Reasons
    /\ abandoned \subseteq Names

ResizeInit ==
    /\ resizer = "off" /\ left = {} /\ errorsChan = {} /\ closed = FALSE /\ resizeErr = {}
    /\ worker = [d \in Names |-> "none"] /\ tries = [d \in Names |-> 0]
    /\ abandoned = {}

\* nginx is appended to the excluded dogus, in whatever namespace.
ResizeExcluded == ExcludedDogus \cup {Nginx}

\* Mutation: the lists are compared by simple names.
FoundByName(d) == target.dogus[d] # Absent

\* The lists are compared by full names, with the namespace.
Found(d) ==
    target.dogus[d] # Absent /\ target.dogus[d].namespace = source.dogus[d].namespace

ResizeBegins ==
    /\ resizer' = "loop" /\ left' = NamesIn(source)
    /\ worker' = [d \in Names |-> "none"] /\ tries' = [d \in Names |-> 0]
    /\ errorsChan' = {} /\ closed' = FALSE /\ resizeErr' = {}
    /\ UNCHANGED abandoned

-----------------------------------------------------------------------------
(* The loop over the dogus of the source system. *)

Visits(d) ==
    /\ resizer = "loop" /\ d \in left
    /\ left' = left \ {d}
    /\ UNCHANGED <<sizeVars, resizer, tries, errorsChan, closed, abandoned>>

LoopSkips(d) ==
    /\ \/ d \in ResizeExcluded
       \/ Found(d) /\ (d \notin WithBackup \/ needed[d] <= known[d])
    /\ Visits(d)
    /\ UNCHANGED <<worker, resizeErr>>

LoopMissesDogu(d) ==
    /\ d \notin ResizeExcluded /\ ~Found(d)
    /\ Visits(d)
    /\ resizeErr' = resizeErr \cup {<<d, "notFound">>} /\ UNCHANGED worker

\* The descriptor cannot be read, or the version not be parsed.
LoopFails(d) ==
    /\ d \notin ResizeExcluded /\ Found(d)
    /\ Visits(d)
    /\ resizeErr' = resizeErr \cup {<<d, "descriptor">>} /\ UNCHANGED worker

LoopSpawns(d) ==
    /\ d \notin ResizeExcluded /\ Found(d) /\ d \in WithBackup /\ needed[d] > known[d]
    /\ Visits(d)
    /\ worker' = [worker EXCEPT ![d] = "get"] /\ UNCHANGED resizeErr

LoopEnds ==
    /\ resizer = "loop" /\ left = {}
    /\ resizer' = "collect"
    /\ UNCHANGED <<sizeVars, left, worker, tries, errorsChan, closed, resizeErr, abandoned>>

-----------------------------------------------------------------------------
(* The goroutine of a dogu: resize and waitForPVCResize. *)

Moves(d, from, to) ==
    /\ worker[d] = from /\ worker' = [worker EXCEPT ![d] = to]
    /\ UNCHANGED <<source, target, actual, needed, known>>
    /\ UNCHANGED <<resizer, left, closed, resizeErr>>

GetsDogu(d) ==
    /\ Moves(d, "get", "update") \/ Moves(d, "get", "send")
    /\ UNCHANGED <<wanted, tries, errorsChan, abandoned>>

\* An update that fails may have had its effect.
UpdatesDogu(d) ==
    /\ \/ /\ Moves(d, "update", "wait")
          /\ wanted' = [wanted EXCEPT ![d] = needed[d]] /\ UNCHANGED abandoned
       \/ /\ Moves(d, "update", "send")
          /\ wanted' = [wanted EXCEPT ![d] = needed[d]] /\ abandoned' = abandoned \cup {d}
       \/ Moves(d, "update", "send") /\ UNCHANGED <<wanted, abandoned>>
    /\ UNCHANGED <<tries, errorsChan>>

\* Mutation: one try more than the limit.
PollsOnceMore(d) ==
    /\ tries[d] <= MaxRetries
    /\ tries' = [tries EXCEPT ![d] = @ + 1]
    /\ Moves(d, "wait", "wait") /\ UNCHANGED <<wanted, errorsChan, abandoned>>

\* Mutation: the tries are not counted.
PollsVolumeForever(d) ==
    /\ \/ /\ actual[d] >= needed[d] /\ Moves(d, "wait", "done")
          /\ abandoned' = abandoned \ {d}
       \/ Moves(d, "wait", "wait") /\ UNCHANGED abandoned
    /\ UNCHANGED <<wanted, tries, errorsChan>>

\* Mutation: an unreadable volume counts as resized.
PollsVolumeCarelessly(d) ==
    /\ tries[d] < MaxRetries
    /\ tries' = [tries EXCEPT ![d] = @ + 1]
    /\ Moves(d, "wait", "done") \/ Moves(d, "wait", "wait")
    /\ UNCHANGED <<wanted, errorsChan, abandoned>>

\* The volume is large enough, or not yet, or it cannot be read.
PollsVolume(d) ==
    /\ tries[d] < MaxRetries
    /\ tries' = [tries EXCEPT ![d] = @ + 1]
    /\ \/ /\ actual[d] >= needed[d] /\ Moves(d, "wait", "done")
          /\ abandoned' = abandoned \ {d}
       \/ Moves(d, "wait", "wait") /\ UNCHANGED abandoned
    /\ UNCHANGED <<wanted, errorsChan>>

StopsPolling(d) ==
    /\ tries[d] = MaxRetries
    /\ Moves(d, "wait", "send")
    /\ abandoned' = abandoned \cup {d}
    /\ UNCHANGED <<wanted, tries, errorsChan>>

\* The capacity of the channel is the number of dogus of the source system.
SendsError(d) ==
    /\ Cardinality(errorsChan) < Cardinality(NamesIn(source))
    /\ Moves(d, "send", "done")
    /\ errorsChan' = errorsChan \cup {d}
    /\ UNCHANGED <<wanted, tries, abandoned>>

WorkerStep(d) ==
    \/ GetsDogu(d) \/ UpdatesDogu(d) \/ PollsVolume(d) \/ StopsPolling(d) \/ SendsError(d)

-----------------------------------------------------------------------------
(* The goroutine that closes the channel, and the loop that drains it. *)

AllDone == \A d \in Names : worker[d] \in {"none", "done"}

\* Mutation: the channel is closed without wg.Wait.
CloserDoesNotWait ==
    /\ resizer = "collect" /\ ~closed /\ closed' = TRUE
    /\ UNCHANGED <<sizeVars, resizer, left, worker, tries, errorsChan, resizeErr, abandoned>>

CloserCloses ==
    /\ resizer = "collect" /\ ~closed /\ AllDone
    /\ closed' = TRUE
    /\ UNCHANGED <<sizeVars, resizer, left, worker, tries, errorsChan, resizeErr, abandoned>>

CollectsError ==
    /\ resizer = "collect"
    /\ \E d \in errorsChan :
          /\ errorsChan' = errorsChan \ {d}
          /\ resizeErr' = resizeErr \cup {<<d, "resize">>}
    /\ UNCHANGED <<sizeVars, resizer, left, worker, tries, closed, abandoned>>

ResizeEnds ==
    /\ resizer = "collect" /\ closed /\ errorsChan = {}
    /\ resizer' = "done"
    /\ UNCHANGED <<sizeVars, left, worker, tries, errorsChan, closed, resizeErr, abandoned>>

MainStep ==
    \/ \E d \in left : LoopSkips(d) \/ LoopMissesDogu(d) \/ LoopFails(d) \/ LoopSpawns(d)
    \/ LoopEnds \/ CollectsError \/ ResizeEnds

ResizeNext == MainStep \/ CloserCloses \/ \E d \in Names : WorkerStep(d)

\* ResizeDogusIfNeeded has returned.
ResizeIsOver ==
    /\ resizer' = "off" /\ left' = {} /\ errorsChan' = {} /\ closed' = FALSE /\ resizeErr' = {}
    /\ worker' = [d \in Names |-> "none"] /\ tries' = [d \in Names |-> 0]

\* The process ends, and all goroutines with it.
ResizeIsCutOff ==
    /\ ResizeIsOver
    /\ abandoned' = abandoned \cup {d \in Names : worker[d] = "wait"}

-----------------------------------------------------------------------------
(* The dogu operator: it gives the volume the size of the spec, or does not. *)

OperatorResizes ==
    /\ \E d \in Names : actual[d] < wanted[d] /\ actual' = [actual EXCEPT ![d] = wanted[d]]
    /\ UNCHANGED <<source, target, wanted, needed, known, resizeVars>>

=============================================================================
