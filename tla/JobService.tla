------------------------------ MODULE JobService ------------------------------
(* migration/jobService.go: JobService.Run creates the Kubernetes job that   *)
(* copies the data, watches it to its end, and copies the log of its pod.    *)
(* Calls of Run follow one another; a goroutine that copies a log may        *)
(* outlive the call that started it.                                         *)
(*                                                                           *)
(* From client-go it takes a RetryWatcher: it delivers every change of the   *)
(* job after the resource version of the List, over broken connections, it   *)
(* reports an expired resource version as an Error event, and it closes its  *)
(* channel when the context is done, with what it had not delivered yet.     *)
EXTENDS Context, Naturals, Sequences

CONSTANTS
    MaxJobs,        \* bound: jobs ever created
    MaxAttempts     \* Steps of getStreamerBackoff

ASSUME JobServiceAssumption == MaxJobs \in Nat /\ MaxAttempts \in Nat \ {0}

VARIABLES
    job,            \* what has become of each job
    podRunning,     \* the jobs whose pod is in the phase Running
    existing,       \* the jobs that are in the API server
    current,        \* the job that the call of Run created, 0 before
    run,            \* where Run is
    listed,         \* what the List of createGetWatcherFunc saw of the job
    channel,        \* ResultChan of the watcher: "none", "open", "failed", "closed"
    queue,          \* the events it has still to deliver
    streamer,       \* where streamLogs is, for each job
    attempts,       \* how often it has failed to get a streamer
    logged,         \* history: the jobs whose log was copied to its end
    faults          \* history: the calls that failed in this Run

Jobs == 1 .. MaxJobs

runVars == <<current, run, listed, faults>>
watchVars == <<channel, queue>>
logVars == <<streamer, attempts, logged>>
clusterVars == <<job, podRunning, existing>>
vars == <<ctx, runVars, watchVars, logVars, clusterVars>>

Busy == {"create", "reply", "getWatcher", "watch", "wait"}
Results == {"succeeded", "failed", "deleted"}

JobServiceTypeOK ==
    /\ CtxTypeOK
    /\ job \in [Jobs -> {"none", "active"} \cup Results]
    /\ existing \in SUBSET Jobs
    /\ podRunning \in SUBSET existing
    /\ current \in 0 .. MaxJobs
    /\ run \in Busy \cup {"idle", "ok", "error"}
    /\ run \in {"reply", "getWatcher", "watch", "wait"} => current # 0
    /\ listed \in {"none", "active"} \cup Results
    /\ channel \in {"none", "open", "failed", "closed"}
    /\ queue \in Seq({"active", "Error"} \cup Results)
    /\ streamer \in [Jobs -> {"off", "try", "stream", "done"}]
    /\ attempts \in [Jobs -> 0 .. MaxAttempts]
    /\ logged \in SUBSET Jobs
    /\ faults \in SUBSET {"create", "list", "watch", "log"}

Init ==
    /\ ctx = "active"
    /\ job = [j \in Jobs |-> "none"]
    /\ podRunning = {} /\ existing = {}
    /\ current = 0 /\ run = "idle" /\ listed = "none" /\ faults = {}
    /\ channel = "none" /\ queue = <<>>
    /\ streamer = [j \in Jobs |-> "off"]
    /\ attempts = [j \in Jobs |-> 0]
    /\ logged = {}

-----------------------------------------------------------------------------
(* Run, up to the watcher. *)

RunBegins ==
    /\ run = "idle"
    /\ run' = "create" /\ current' = 0 /\ listed' = "none" /\ faults' = {}
    /\ UNCHANGED <<ctx, watchVars, logVars, clusterVars>>

RunFails(call) ==
    /\ run' = "error"
    /\ faults' = faults \cup {call}
    /\ UNCHANGED <<ctx, current, watchVars, logVars, clusterVars>>

\* The API server takes the job; its name is new.
JobIsCreated ==
    /\ run = "create" /\ ~CtxDone
    /\ \E j \in Jobs :
          /\ job[j] = "none" /\ \A i \in 1 .. (j - 1) : job[i] # "none"
          /\ job' = [job EXCEPT ![j] = "active"]
          /\ existing' = existing \cup {j}
          /\ current' = j
    /\ run' = "reply"
    /\ UNCHANGED <<ctx, podRunning, listed, faults, watchVars, logVars>>

\* The volumes cannot be listed, or Create fails, or its answer is lost.
CreateFails == run \in {"create", "reply"} /\ RunFails("create") /\ UNCHANGED listed

CreateReturns ==
    /\ run = "reply"
    /\ run' = "getWatcher"
    /\ UNCHANGED <<ctx, current, listed, faults, watchVars, logVars, clusterVars>>

\* Mutation: nobody looks whether the job is in the list.
WatcherStartsBlindly ==
    /\ run = "getWatcher" /\ ~CtxDone
    /\ listed' = job[current]
    /\ run' = "watch" /\ channel' = "open" /\ queue' = <<>>
    /\ streamer' = [streamer EXCEPT ![current] = "try"]
    /\ UNCHANGED <<ctx, current, faults, attempts, logged, clusterVars>>

\* The watch begins with the first change after the List.
WatcherStarts ==
    /\ run = "getWatcher" /\ ~CtxDone
    /\ current \in existing
    /\ listed' = job[current]
    /\ run' = "watch" /\ channel' = "open" /\ queue' = <<>>
    /\ streamer' = [streamer EXCEPT ![current] = "try"]
    /\ UNCHANGED <<ctx, current, faults, attempts, logged, clusterVars>>

WatcherFails == run = "getWatcher" /\ RunFails("list") /\ UNCHANGED listed

\* The job is not in the list any more.
WatcherFindsNoJob ==
    /\ run = "getWatcher" /\ ~CtxDone
    /\ current \notin existing
    /\ listed' = "deleted"
    /\ run' = "error"
    /\ UNCHANGED <<ctx, current, faults, watchVars, logVars, clusterVars>>

-----------------------------------------------------------------------------
(* watchEvents, and the return of Run.  The watcher is stopped on return.    *)

\* Mutation: a deletion is an end like any other.
WatchTakesDeletionAsEnd ==
    /\ run = "watch" /\ queue # <<>>
    /\ run' = CASE Head(queue) = "active"                  -> "watch"
                [] Head(queue) \in {"succeeded", "deleted"} -> "wait"
                [] OTHER                                    -> "error"
    /\ IF run' = "watch" THEN queue' = Tail(queue) /\ UNCHANGED channel
                         ELSE queue' = <<>> /\ channel' = "none"
    /\ UNCHANGED <<ctx, current, listed, faults, logVars, clusterVars>>

\* Mutation: the first event of the job ends the loop.
WatchTakesFirstEvent ==
    /\ run = "watch" /\ queue # <<>>
    /\ run' = IF Head(queue) \in {"Error", "failed", "deleted"} THEN "error" ELSE "wait"
    /\ channel' = "none" /\ queue' = <<>>
    /\ UNCHANGED <<ctx, current, listed, faults, logVars, clusterVars>>

\* Left out are an object that is no Job, and a Job of another name
\* (jobService.go:250-260): the field selector of the watch keeps them away.
WatchReceives ==
    /\ run = "watch" /\ queue # <<>>
    /\ LET event == Head(queue) IN
          /\ run' = CASE event = "active"    -> "watch"
                      [] event = "succeeded" -> "wait"
                      [] OTHER               -> "error"
          /\ IF event = "active" THEN queue' = Tail(queue) /\ UNCHANGED channel
                                 ELSE queue' = <<>> /\ channel' = "none"
    /\ UNCHANGED <<ctx, current, listed, faults, logVars, clusterVars>>

\* The range over the closed channel ends without an error.
WatchEndsWithChannel ==
    /\ run = "watch" /\ channel = "closed" /\ queue = <<>>
    /\ run' = "wait" /\ channel' = "none"
    /\ UNCHANGED <<ctx, current, listed, faults, queue, logVars, clusterVars>>

RunReturns ==
    /\ run = "wait" /\ streamer[current] = "done"
    /\ run' = "ok"
    /\ UNCHANGED <<ctx, current, listed, faults, watchVars, logVars, clusterVars>>

-----------------------------------------------------------------------------
(* streamLogs, in a goroutine of its own.                                    *)

LogFrame == UNCHANGED <<ctx, current, run, listed, watchVars, clusterVars>>

\* Mutation: one attempt more than the backoff has steps.
GivesUpLate(j) ==
    /\ attempts' = [attempts EXCEPT ![j] = @ + 1]
    /\ streamer' = [streamer EXCEPT ![j] = IF attempts[j] = MaxAttempts THEN "done" ELSE "try"]
    /\ UNCHANGED logged

GivesUp(j) ==
    /\ attempts' = [attempts EXCEPT ![j] = @ + 1]
    /\ streamer' = [streamer EXCEPT ![j] = IF attempts[j] + 1 = MaxAttempts THEN "done" ELSE "try"]
    /\ UNCHANGED logged

\* Mutation: it tries without an end.
StreamerTriesForever(j) ==
    /\ streamer[j] = "try"
    /\ j \in podRunning
    /\ streamer' = [streamer EXCEPT ![j] = "stream"]
    /\ UNCHANGED <<attempts, logged, faults>> /\ LogFrame

\* The tries look at neither the context nor the end of the job.
StreamerTries(j) ==
    /\ streamer[j] = "try"
    /\ \/ /\ j \in podRunning
          /\ streamer' = [streamer EXCEPT ![j] = "stream"]
          /\ UNCHANGED <<attempts, logged, faults>>
       \/ j \in podRunning /\ GivesUp(j) /\ faults' = faults \cup {"log"}
       \/ j \notin podRunning /\ GivesUp(j) /\ UNCHANGED faults
    /\ LogFrame

\* The log ends with the pod; the stream ends with the context, or breaks.
StreamEnds(j) ==
    /\ streamer[j] = "stream"
    /\ streamer' = [streamer EXCEPT ![j] = "done"]
    /\ \/ j \notin podRunning /\ logged' = logged \cup {j} /\ UNCHANGED faults
       \/ CtxDone /\ UNCHANGED <<logged, faults>>
       \/ faults' = faults \cup {"log"} /\ UNCHANGED logged
    /\ UNCHANGED attempts /\ LogFrame

-----------------------------------------------------------------------------
(* The jobs, the watcher of client-go, the process.                          *)

ClusterFrame == UNCHANGED <<ctx, runVars, logVars>>

Delivers(j, event) ==
    /\ queue' = IF j = current /\ channel = "open" THEN Append(queue, event) ELSE queue
    /\ UNCHANGED channel

PodRuns(j) ==
    /\ job[j] = "active" /\ j \notin podRunning
    /\ podRunning' = podRunning \cup {j}
    /\ Delivers(j, "active")
    /\ UNCHANGED <<job, existing>> /\ ClusterFrame

JobEnds(j) ==
    /\ job[j] = "active"
    /\ \E end \in {"succeeded", "failed"} :
          /\ job' = [job EXCEPT ![j] = end]
          /\ Delivers(j, end)
    /\ podRunning' = podRunning \ {j}
    /\ UNCHANGED existing /\ ClusterFrame

\* Somebody deletes the job before its end.
JobIsDeleted(j) ==
    /\ job[j] = "active"
    /\ job' = [job EXCEPT ![j] = "deleted"]
    /\ podRunning' = podRunning \ {j} /\ existing' = existing \ {j}
    /\ Delivers(j, "deleted")
    /\ ClusterFrame

\* TTLSecondsAfterFinished.
JobIsCleanedUp(j) ==
    /\ j \in existing /\ job[j] # "active"
    /\ existing' = existing \ {j}
    /\ Delivers(j, "deleted")
    /\ UNCHANGED <<job, podRunning>> /\ ClusterFrame

WatchExpires ==
    /\ channel = "open"
    /\ queue' = Append(queue, "Error") /\ channel' = "failed"
    /\ faults' = faults \cup {"watch"}
    /\ UNCHANGED <<ctx, current, run, listed, logVars, clusterVars>>

ChannelCloses ==
    /\ channel \in {"open", "failed"} /\ CtxDone
    /\ queue' = <<>> /\ channel' = "closed"
    /\ UNCHANGED clusterVars /\ ClusterFrame

Signal ==
    /\ ~CtxDone /\ ctx' = "done"
    /\ UNCHANGED <<runVars, watchVars, logVars, clusterVars>>

\* RunMigration takes the result.
ResultTaken ==
    /\ run \in {"ok", "error"}
    /\ run' = "idle"
    /\ UNCHANGED <<ctx, current, listed, faults, watchVars, logVars, clusterVars>>

\* The process ends and is started anew; the jobs go on.
CrashAndRestart ==
    /\ run # "idle" \/ CtxDone
    /\ run' = "idle" /\ ctx' = "active"
    /\ channel' = "none" /\ queue' = <<>>
    /\ streamer' = [j \in Jobs |-> "off"]
    /\ attempts' = [j \in Jobs |-> 0]
    /\ UNCHANGED <<current, listed, faults, logged, clusterVars>>

RunStep == \/ RunBegins \/ JobIsCreated \/ CreateFails \/ CreateReturns \/ WatcherStarts
           \/ WatcherFails \/ WatcherFindsNoJob \/ WatchReceives \/ WatchEndsWithChannel
           \/ RunReturns \/ ResultTaken

LogStep == \E j \in Jobs : StreamerTries(j) \/ StreamEnds(j)

JobStep == \E j \in Jobs : JobEnds(j) \/ JobIsCleanedUp(j)

Next == \/ RunStep \/ LogStep \/ JobStep \/ ChannelCloses
        \/ \E j \in Jobs : PodRuns(j) \/ JobIsDeleted(j)
        \/ WatchExpires \/ Signal \/ CrashAndRestart

Spec == Init /\ [][Next]_vars

(* Goroutines go on, a job ends, Kubernetes deletes an ended job, and the    *)
(* watcher closes its channel.  Nothing else has to happen.                  *)
Fairness == WF_vars(RunStep) /\ WF_vars(JobStep) /\ WF_vars(ChannelCloses)
            /\ \A j \in Jobs : WF_vars(StreamerTries(j) \/ StreamEnds(j))

FairSpec == Spec /\ Fairness

-----------------------------------------------------------------------------
(* Properties. *)

Runner == INSTANCE JobRunner WITH
    jcall <- IF run \in Busy THEN "busy" ELSE run

\* Run keeps the promise that RunMigration relies on: it creates at most one
\* job, and returns nil only when that job has succeeded or the context is
\* done (JobRunner.tla; jobService.go:180-276).
RunKeepsPromise == Runner!RunnerSpec

\* Run returns, with an error or without, while its job is still active only
\* if a call, the watch or the context broke off: a later migration then meets
\* a job that still copies (jobService.go:190-223).
ReturnLeavesNoJob ==
    run \in {"ok", "error"} /\ current # 0 /\ job[current] = "active" =>
        CtxDone \/ faults \cap {"create", "list", "watch"} # {}

\* Run never waits for what cannot come any more, whatever happened to the job
\* between Create, List and Watch: an event that ends the loop is on its way, or
\* the watch is good and the job still there to be ended or cleaned up, or the
\* channel is closed; and the log is waited for only when somebody copies it
\* (jobService.go:131-157, 211-225, 231-276).
EndIsToCome ==
    /\ run = "watch" =>
          \/ channel = "open" /\ current \in existing
          \/ channel = "closed"
          \/ \E i \in 1 .. Len(queue) : queue[i] # "active"
    /\ run \in {"watch", "wait"} => streamer[current] # "off"

\* Once the job has ended Run returns, unless the process ends, also when no
\* log could be read, and when the end came before the watch did
\* (jobService.go:31-36, 144, 225; the TTL of the job).
RunEnds == run = "watch" ~> run \in {"ok", "error", "idle"}

=============================================================================
