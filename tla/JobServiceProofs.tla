--------------------------- MODULE JobServiceProofs ---------------------------
(* Theorems about JobService for any number of jobs and any backoff: its     *)
(* types, that a Run which returns beside an active job was broken off, and  *)
(* that Run keeps the promise of JobRunner.                                  *)
EXTENDS JobService, TLAPS

-----------------------------------------------------------------------------
(* The inductive invariant: what the watcher has still to deliver is true of *)
(* the job, also later, since no job comes back from its end.                *)

\* A job that is active is in the API server, and no other has a running pod.
ActiveExists == \A j \in Jobs : /\ job[j] = "active" => j \in existing
                                /\ j \in existing => job[j] # "none"
                                /\ j \in podRunning => job[j] = "active"

\* A streamer is started once for a job, with its whole backoff before it.
StreamerInv ==
    /\ \A j \in Jobs : /\ streamer[j] = "off" => attempts[j] = 0
                       /\ streamer[j] = "try" => attempts[j] < MaxAttempts
                       /\ job[j] = "none" => streamer[j] = "off"
    /\ run \in {"reply", "getWatcher"} => streamer[current] = "off"

\* There is a watcher only while Run watches.
WatcherInv ==
    /\ run = "create" => current = 0
    /\ channel # "none" => run = "watch"
    /\ channel = "none" => queue = <<>>
    /\ channel = "closed" => CtxDone

EventIsTrue(event) ==
    /\ event = "Error" => "watch" \in faults
    /\ event = "succeeded" => job[current] = "succeeded"
    /\ event \in {"failed", "deleted"} => job[current] # "active"

QueueInv == \A i \in 1 .. Len(queue) : EventIsTrue(queue[i])

\* Run waits for the log after the job has succeeded, or in a shutdown.
WaitInv == run = "wait" => job[current] = "succeeded" \/ CtxDone

JobServiceInv ==
    /\ JobServiceTypeOK /\ ActiveExists /\ StreamerInv /\ WatcherInv /\ QueueInv /\ WaitInv
    /\ ReturnLeavesNoJob

\* JobServiceInv holds when the importer starts.
LEMMA JobServiceInvInit == ASSUME Init PROVE JobServiceInv
BY JobServiceAssumption
   DEF Init, JobServiceInv, JobServiceTypeOK, CtxTypeOK, ActiveExists, StreamerInv, WatcherInv,
       QueueInv, WaitInv, ReturnLeavesNoJob, Jobs, Busy, Results

-----------------------------------------------------------------------------
(* Types. *)

\* What is left of a sequence, its tail or nothing, has no new elements.
LEMMA TailInSeq ==
    ASSUME NEW S, NEW q \in Seq(S), q # <<>>, NEW r, r = Tail(q) \/ r = <<>>
    PROVE  r \in Seq(S)
<1>1. Tail(q) \in Seq(S) OBVIOUS
<1>2. <<>> \in Seq(S) OBVIOUS
<1> QED BY <1>1, <1>2

\* What the watcher has to deliver are events.
DeliveryTypeOK ==
    /\ queue \in Seq({"active", "Error"} \cup Results)
    /\ channel \in {"none", "open", "failed", "closed"}

\* A change that the watcher is told of leaves what it has to deliver of its type.
LEMMA DeliversTypes ==
    ASSUME JobServiceTypeOK, NEW j \in Jobs, NEW event \in {"active", "Error"} \cup Results,
           Delivers(j, event)
    PROVE  DeliveryTypeOK'
BY DEF Delivers, DeliveryTypeOK, JobServiceTypeOK

\* Every step keeps the types; the streamer stops at the last attempt of its
\* backoff.
LEMMA JobServiceTypeStep ==
    ASSUME JobServiceTypeOK, ActiveExists, StreamerInv, [Next]_vars
    PROVE  JobServiceTypeOK'
<1> USE JobServiceAssumption DEF JobServiceTypeOK, CtxTypeOK, Busy, Results, Jobs
<1>1. CASE RunBegins BY <1>1 DEF RunBegins, watchVars, logVars, clusterVars
<1>2. CASE JobIsCreated BY <1>2 DEF JobIsCreated, watchVars, logVars
<1>3. CASE CreateFails BY <1>3 DEF CreateFails, RunFails, watchVars, logVars, clusterVars
<1>4. CASE CreateReturns BY <1>4 DEF CreateReturns, watchVars, logVars, clusterVars
<1>5. CASE WatcherStarts BY <1>5 DEF WatcherStarts, clusterVars
<1>6. CASE WatcherFails BY <1>6 DEF WatcherFails, RunFails, watchVars, logVars, clusterVars
<1>7. CASE WatcherFindsNoJob BY <1>7 DEF WatcherFindsNoJob, watchVars, logVars, clusterVars
<1>8. CASE WatchReceives
  <2>1. queue' = Tail(queue) \/ queue' = <<>> BY <1>8 DEF WatchReceives
  <2>2. queue' \in Seq({"active", "Error"} \cup Results) BY <1>8, <2>1, TailInSeq DEF WatchReceives
  <2>3. run' \in {"watch", "wait", "error"} BY <1>8 DEF WatchReceives
  <2>4. channel' \in {channel, "none"} BY <1>8 DEF WatchReceives
  <2> QED BY <1>8, <2>2, <2>3, <2>4 DEF WatchReceives, logVars, clusterVars
<1>9. CASE WatchEndsWithChannel BY <1>9 DEF WatchEndsWithChannel, logVars, clusterVars
<1>10. CASE RunReturns BY <1>10 DEF RunReturns, watchVars, logVars, clusterVars
<1>11. CASE ResultTaken BY <1>11 DEF ResultTaken, watchVars, logVars, clusterVars
<1>12. ASSUME NEW j \in Jobs, StreamerTries(j) PROVE JobServiceTypeOK'
  <2>1. attempts[j] + 1 \in 0 .. MaxAttempts BY <1>12 DEF StreamerTries, StreamerInv
  <2>2. attempts' = attempts \/ attempts' = [attempts EXCEPT ![j] = attempts[j] + 1]
    BY <1>12 DEF StreamerTries, GivesUp
  <2>3. attempts' \in [Jobs -> 0 .. MaxAttempts] BY <2>1, <2>2
  <2>4. \E s \in {"try", "stream", "done"} : streamer' = [streamer EXCEPT ![j] = s]
    BY <1>12 DEF StreamerTries, GivesUp
  <2>5. faults' \in {faults, faults \cup {"log"}} /\ logged' = logged
    BY <1>12 DEF StreamerTries, GivesUp
  <2> QED BY <1>12, <2>3, <2>4, <2>5 DEF StreamerTries, LogFrame, watchVars, clusterVars
<1>13. ASSUME NEW j \in Jobs, StreamEnds(j) PROVE JobServiceTypeOK'
  <2>1. streamer' = [streamer EXCEPT ![j] = "done"] /\ attempts' = attempts BY <1>13 DEF StreamEnds
  <2>2. logged' \in {logged, logged \cup {j}} /\ faults' \in {faults, faults \cup {"log"}}
    BY <1>13 DEF StreamEnds
  <2>3. UNCHANGED <<ctx, current, run, listed, watchVars, clusterVars>> BY <1>13 DEF StreamEnds, LogFrame
  <2> QED BY <2>1, <2>2, <2>3 DEF watchVars, clusterVars
<1>14. ASSUME NEW j \in Jobs, JobEnds(j) PROVE JobServiceTypeOK'
  <2>1. PICK end \in {"succeeded", "failed"} : job' = [job EXCEPT ![j] = end] /\ Delivers(j, end)
    BY <1>14 DEF JobEnds
  <2>2. DeliveryTypeOK' BY <2>1, DeliversTypes
  <2>3. podRunning' = podRunning \ {j} /\ existing' = existing BY <1>14 DEF JobEnds
  <2>4. UNCHANGED <<ctx, runVars, logVars>> BY <1>14 DEF JobEnds, ClusterFrame
  <2> QED BY <2>1, <2>2, <2>3, <2>4 DEF DeliveryTypeOK, runVars, logVars
<1>15. ASSUME NEW j \in Jobs, JobIsCleanedUp(j) PROVE JobServiceTypeOK'
  <2>1. DeliveryTypeOK' BY <1>15, DeliversTypes DEF JobIsCleanedUp
  <2>2. existing' = existing \ {j} /\ UNCHANGED <<job, podRunning, ctx, runVars, logVars>>
    BY <1>15 DEF JobIsCleanedUp, ClusterFrame
  <2>3. j \notin podRunning BY <1>15 DEF JobIsCleanedUp, ActiveExists
  <2> QED BY <2>1, <2>2, <2>3 DEF DeliveryTypeOK, runVars, logVars
<1>16. ASSUME NEW j \in Jobs, PodRuns(j) PROVE JobServiceTypeOK'
  <2>1. DeliveryTypeOK' BY <1>16, DeliversTypes DEF PodRuns
  <2>2. podRunning' = podRunning \cup {j} /\ UNCHANGED <<job, existing, ctx, runVars, logVars>>
    BY <1>16 DEF PodRuns, ClusterFrame
  <2>3. j \in existing BY <1>16 DEF PodRuns, ActiveExists
  <2> QED BY <2>1, <2>2, <2>3 DEF DeliveryTypeOK, runVars, logVars
<1>17. ASSUME NEW j \in Jobs, JobIsDeleted(j) PROVE JobServiceTypeOK'
  <2>1. DeliveryTypeOK' BY <1>17, DeliversTypes DEF JobIsDeleted
  <2>2. /\ job' = [job EXCEPT ![j] = "deleted"]
        /\ podRunning' = podRunning \ {j} /\ existing' = existing \ {j}
    BY <1>17 DEF JobIsDeleted
  <2>3. UNCHANGED <<ctx, runVars, logVars>> BY <1>17 DEF JobIsDeleted, ClusterFrame
  <2> QED BY <2>1, <2>2, <2>3 DEF DeliveryTypeOK, runVars, logVars
<1>18. CASE ChannelCloses BY <1>18 DEF ChannelCloses, ClusterFrame, runVars, logVars, clusterVars
<1>19. CASE WatchExpires BY <1>19 DEF WatchExpires, logVars, clusterVars
<1>20. CASE Signal BY <1>20 DEF Signal, runVars, watchVars, logVars, clusterVars
<1>21. CASE CrashAndRestart BY <1>21 DEF CrashAndRestart, clusterVars
<1>22. CASE UNCHANGED vars BY <1>22 DEF vars, runVars, watchVars, logVars, clusterVars
<1> QED
  BY <1>1, <1>2, <1>3, <1>4, <1>5, <1>6, <1>7, <1>8, <1>9, <1>10, <1>11, <1>12, <1>13, <1>14, <1>15,
     <1>16, <1>17, <1>18, <1>19, <1>20, <1>21, <1>22
  DEF Next, RunStep, LogStep, JobStep

-----------------------------------------------------------------------------
(* The other parts of the invariant. *)

\* An event that is added to the queue leaves it true when it is true itself.
LEMMA QueueTakes ==
    ASSUME JobServiceTypeOK, QueueInv, NEW event \in {"active", "Error"} \cup Results,
           EventIsTrue(event)', queue' = Append(queue, event),
           \A e \in {"active", "Error"} \cup Results : EventIsTrue(e) => EventIsTrue(e)'
    PROVE  QueueInv'
<1>1. queue \in Seq({"active", "Error"} \cup Results) BY DEF JobServiceTypeOK
<1>2. \A i \in 1 .. Len(queue') : i = Len(queue) + 1 \/ i \in 1 .. Len(queue) BY <1>1
<1>3. \A i \in 1 .. Len(queue) : queue'[i] = queue[i] /\ queue[i] \in {"active", "Error"} \cup Results
  BY <1>1
<1>4. queue'[Len(queue) + 1] = event BY <1>1
<1>5. ASSUME NEW i \in 1 .. Len(queue') PROVE EventIsTrue(queue[i])'
  <2>1. CASE i = Len(queue) + 1 BY <2>1, <1>4 DEF EventIsTrue, CtxDone
  <2>2. CASE i \in 1 .. Len(queue)
    <3>1. EventIsTrue(queue[i]) BY <2>2 DEF QueueInv
    <3> QED BY <3>1, <2>2, <1>3 DEF EventIsTrue
  <2> QED BY <2>1, <2>2, <1>2
<1> QED BY <1>5 DEF QueueInv

\* An event that is taken from the queue leaves it true.
LEMMA QueueGives ==
    ASSUME JobServiceTypeOK, QueueInv, UNCHANGED <<job, current, faults>>,
           queue # <<>>, queue' = Tail(queue)
    PROVE  QueueInv'
<1>1. queue \in Seq({"active", "Error"} \cup Results) BY DEF JobServiceTypeOK
<1>2. ASSUME NEW i \in 1 .. Len(queue') PROVE EventIsTrue(queue[i])'
  <2>1. i + 1 \in 1 .. Len(queue) /\ queue'[i] = queue[i + 1] BY <1>1
  <2>2. EventIsTrue(queue[i + 1]) BY <2>1 DEF QueueInv
  <2> QED BY <2>1, <2>2 DEF EventIsTrue
<1> QED BY <1>2 DEF QueueInv

\* What a job has come to stays: an end is the end, and an event about it that
\* was true is so later.
LEMMA EventsStayTrue ==
    ASSUME JobServiceTypeOK, QueueInv, UNCHANGED <<current, queue>>, faults \subseteq faults',
           current # 0 /\ job[current] # "none" /\ job[current] # "active" =>
               job'[current] = job[current],
           job[current] = "none" => job'[current] # "active",
           queue # <<>> => current # 0
    PROVE  QueueInv'
<1>1. ASSUME NEW i \in 1 .. Len(queue') PROVE EventIsTrue(queue[i])'
  <2>1. i \in 1 .. Len(queue) /\ queue # <<>> BY <1>1 DEF JobServiceTypeOK
  <2>2. EventIsTrue(queue[i]) BY <2>1 DEF QueueInv
  <2>3. job[current] \in {"none", "active"} \cup Results
    BY <2>1 DEF JobServiceTypeOK, Jobs
  <2> QED BY <2>1, <2>2, <2>3 DEF EventIsTrue, Results
<1> QED BY <1>1 DEF QueueInv

-----------------------------------------------------------------------------
(* Jobs, streamers, and the places of Run. *)

\* Every step keeps what is said of the jobs in the API server, of the streamers
\* and of the watcher.
LEMMA JobServicePartsStep ==
    ASSUME JobServiceInv, [Next]_vars
    PROVE  (ActiveExists /\ StreamerInv /\ WatcherInv)'
<1>0. run \in {"reply", "getWatcher"} => current \in Jobs /\ streamer[current] = "off"
  BY JobServiceAssumption DEF JobServiceInv, JobServiceTypeOK, StreamerInv, Jobs
<1> USE JobServiceAssumption
    DEF JobServiceInv, JobServiceTypeOK, ActiveExists, StreamerInv, WatcherInv, CtxDone, CtxTypeOK,
        Busy, Results, Jobs
<1>1. CASE RunBegins BY <1>1 DEF RunBegins, watchVars, logVars, clusterVars
<1>2. CASE JobIsCreated
  <2>1. PICK j \in Jobs : /\ job[j] = "none" /\ job' = [job EXCEPT ![j] = "active"]
                          /\ existing' = existing \cup {j} /\ current' = j
    BY <1>2 DEF JobIsCreated
  <2>2. run' = "reply" /\ UNCHANGED <<ctx, podRunning, listed, faults, watchVars, logVars>>
    BY <1>2 DEF JobIsCreated
  <2>3. run = "create" BY <1>2 DEF JobIsCreated
  <2>4. ActiveExists' BY <2>1, <2>2
  <2>5. StreamerInv' BY <2>1, <2>2 DEF logVars
  <2>6. WatcherInv' BY <2>2, <2>3 DEF watchVars
  <2> QED BY <2>4, <2>5, <2>6
<1>3. CASE CreateFails BY <1>3 DEF CreateFails, RunFails, watchVars, logVars, clusterVars
<1>4. CASE CreateReturns BY <1>4 DEF CreateReturns, watchVars, logVars, clusterVars
<1>5. CASE WatcherStarts
  <2> USE <1>5 DEF WatcherStarts, clusterVars
  <2>1. /\ run' = "watch" /\ channel' = "open" /\ queue' = <<>>
        /\ streamer' = [streamer EXCEPT ![current] = "try"]
        /\ UNCHANGED <<ctx, current, attempts, job, podRunning, existing>>
    OBVIOUS
  <2>2. /\ streamer[current] = "off" /\ current \in Jobs /\ job[current] # "none"
        /\ attempts[current] = 0
    OBVIOUS
  <2>3. ActiveExists' /\ WatcherInv' BY <2>1
  <2>4. \A i \in Jobs : i # current => streamer'[i] = streamer[i] BY <2>1
  <2>5. streamer'[current] = "try" BY <2>1, <2>2
  <2>6. attempts[current] < MaxAttempts BY <2>2
  <2>7. ASSUME NEW i \in Jobs
        PROVE  /\ streamer'[i] = "off" => attempts'[i] = 0
               /\ streamer'[i] = "try" => attempts'[i] < MaxAttempts
               /\ job'[i] = "none" => streamer'[i] = "off"
    <3>1. CASE i = current BY <3>1, <2>1, <2>2, <2>5, <2>6
    <3>2. CASE i # current BY <3>2, <2>1, <2>4
    <3> QED BY <3>1, <3>2
  <2>8. run' \notin {"reply", "getWatcher"} BY <2>1
  <2>9. StreamerInv' BY <2>7, <2>8
  <2> QED BY <2>3, <2>9
<1>6. CASE WatcherFails BY <1>6 DEF WatcherFails, RunFails, watchVars, logVars, clusterVars
<1>7. CASE WatcherFindsNoJob BY <1>7 DEF WatcherFindsNoJob, watchVars, logVars, clusterVars
<1>8. CASE WatchReceives
  <2>1. CASE Head(queue) = "active"
    BY <1>8, <2>1 DEF WatchReceives, logVars, clusterVars
  <2>2. CASE Head(queue) # "active"
    <3>1. run' \in {"wait", "error"} BY <1>8, <2>2 DEF WatchReceives
    <3> QED BY <1>8, <2>2, <3>1 DEF WatchReceives, logVars, clusterVars
  <2> QED BY <2>1, <2>2
<1>9. CASE WatchEndsWithChannel BY <1>9 DEF WatchEndsWithChannel, logVars, clusterVars
<1>10. CASE RunReturns BY <1>10 DEF RunReturns, watchVars, logVars, clusterVars
<1>11. CASE ResultTaken BY <1>11 DEF ResultTaken, watchVars, logVars, clusterVars
<1>12. ASSUME NEW j \in Jobs, StreamerTries(j) PROVE (ActiveExists /\ StreamerInv /\ WatcherInv)'
  <2> USE DEF StreamerTries
  <2>1. job[j] # "none" BY <1>12
  <2>2. run \in {"reply", "getWatcher"} => current # j BY <1>12
  <2>3. \/ streamer' = [streamer EXCEPT ![j] = "stream"] /\ attempts' = attempts
        \/ /\ attempts' = [attempts EXCEPT ![j] = attempts[j] + 1]
           /\ streamer' = [streamer EXCEPT ![j] =
                              IF attempts[j] + 1 = MaxAttempts THEN "done" ELSE "try"]
    BY <1>12 DEF GivesUp
  <2>4. attempts[j] \in 0 .. MaxAttempts BY <1>12
  <2>5. \A i \in Jobs : i # j => streamer'[i] = streamer[i] /\ attempts'[i] = attempts[i] BY <2>3
  <2>6. streamer'[j] = "try" => attempts'[j] < MaxAttempts BY <1>12, <2>3, <2>4
  <2>7. streamer'[j] # "off" BY <2>3
  <2>8. UNCHANGED <<ctx, current, run, channel, queue, job, podRunning, existing>>
    BY <1>12 DEF LogFrame, watchVars, clusterVars
  <2>9. run \in {"reply", "getWatcher"} => current \in Jobs BY DEF Jobs
  <2>10. ActiveExists' /\ WatcherInv' BY <2>8
  <2>11. StreamerInv' BY <2>1, <2>2, <2>5, <2>6, <2>7, <2>8, <2>9
  <2> QED BY <2>10, <2>11
<1>13. ASSUME NEW j \in Jobs, StreamEnds(j) PROVE (ActiveExists /\ StreamerInv /\ WatcherInv)'
  <2>1. streamer[j] = "stream" /\ streamer' = [streamer EXCEPT ![j] = "done"]
    BY <1>13 DEF StreamEnds
  <2>2. run \in {"reply", "getWatcher"} => current # j BY <1>0, <2>1
  <2>3. UNCHANGED <<ctx, current, run, channel, queue, job, podRunning, existing, attempts>>
    BY <1>13 DEF StreamEnds, LogFrame, watchVars, clusterVars
  <2>4. job[j] # "none" BY <2>1
  <2>5. ActiveExists' /\ WatcherInv' BY <2>3
  <2>6. \A i \in Jobs : i # j => streamer'[i] = streamer[i] BY <2>1
  <2>7. streamer'[j] = "done" BY <2>1
  <2>8. StreamerInv' BY <1>0, <2>2, <2>3, <2>4, <2>6, <2>7
  <2> QED BY <2>5, <2>8
<1>14. ASSUME NEW j \in Jobs, JobEnds(j) PROVE (ActiveExists /\ StreamerInv /\ WatcherInv)'
  BY <1>14 DEF JobEnds, Delivers, ClusterFrame, runVars, logVars
<1>15. ASSUME NEW j \in Jobs, JobIsCleanedUp(j) PROVE (ActiveExists /\ StreamerInv /\ WatcherInv)'
  BY <1>15 DEF JobIsCleanedUp, Delivers, ClusterFrame, runVars, logVars
<1>16. ASSUME NEW j \in Jobs, PodRuns(j) PROVE (ActiveExists /\ StreamerInv /\ WatcherInv)'
  BY <1>16 DEF PodRuns, Delivers, ClusterFrame, runVars, logVars
<1>17. ASSUME NEW j \in Jobs, JobIsDeleted(j) PROVE (ActiveExists /\ StreamerInv /\ WatcherInv)'
  BY <1>17 DEF JobIsDeleted, Delivers, ClusterFrame, runVars, logVars
<1>18. CASE ChannelCloses BY <1>18 DEF ChannelCloses, ClusterFrame, runVars, logVars, clusterVars
<1>19. CASE WatchExpires BY <1>19 DEF WatchExpires, logVars, clusterVars
<1>20. CASE Signal BY <1>20 DEF Signal, runVars, watchVars, logVars, clusterVars
<1>21. CASE CrashAndRestart BY <1>21 DEF CrashAndRestart, clusterVars
<1>22. CASE UNCHANGED vars BY <1>22 DEF vars, runVars, watchVars, logVars, clusterVars
<1> QED
  BY <1>1, <1>2, <1>3, <1>4, <1>5, <1>6, <1>7, <1>8, <1>9, <1>10, <1>11, <1>12, <1>13, <1>14, <1>15,
     <1>16, <1>17, <1>18, <1>19, <1>20, <1>21, <1>22
  DEF Next, RunStep, LogStep, JobStep

\* Run comes to its end for a reason: an event that is true, a call or a watch
\* that broke off, or a shutdown.
LEMMA RunEndStep ==
    ASSUME JobServiceInv, [Next]_vars
    PROVE  (WaitInv /\ ReturnLeavesNoJob)'
<1> USE DEF JobServiceInv, JobServiceTypeOK, ActiveExists, WatcherInv, WaitInv, ReturnLeavesNoJob,
        CtxDone, CtxTypeOK, Busy, Results, Jobs
<1>1. CASE RunBegins BY <1>1 DEF RunBegins, watchVars, logVars, clusterVars
<1>2. CASE JobIsCreated BY <1>2 DEF JobIsCreated, watchVars, logVars
<1>3. CASE CreateFails BY <1>3 DEF CreateFails, RunFails, watchVars, logVars, clusterVars
<1>4. CASE CreateReturns BY <1>4 DEF CreateReturns, watchVars, logVars, clusterVars
<1>5. CASE WatcherStarts BY <1>5 DEF WatcherStarts, clusterVars
<1>6. CASE WatcherFails BY <1>6 DEF WatcherFails, RunFails, watchVars, logVars, clusterVars
<1>7. CASE WatcherFindsNoJob BY <1>7 DEF WatcherFindsNoJob, watchVars, logVars, clusterVars
<1>8. CASE WatchReceives
  <2>1. EventIsTrue(Head(queue)) BY <1>8 DEF WatchReceives, QueueInv
  <2>2. Head(queue) \in {"active", "Error"} \cup Results BY <1>8 DEF WatchReceives
  <2>3. CASE Head(queue) = "active" BY <1>8, <2>3 DEF WatchReceives, logVars, clusterVars
  <2>4. CASE Head(queue) = "succeeded" BY <1>8, <2>1, <2>4 DEF WatchReceives, EventIsTrue, logVars, clusterVars
  <2>5. CASE Head(queue) \in {"failed", "deleted", "Error"}
    BY <1>8, <2>1, <2>5 DEF WatchReceives, EventIsTrue, logVars, clusterVars
  <2> QED BY <2>2, <2>3, <2>4, <2>5
<1>9. CASE WatchEndsWithChannel BY <1>9 DEF WatchEndsWithChannel, logVars, clusterVars
<1>10. CASE RunReturns BY <1>10 DEF RunReturns, watchVars, logVars, clusterVars
<1>11. CASE ResultTaken BY <1>11 DEF ResultTaken, watchVars, logVars, clusterVars
<1>12. ASSUME NEW j \in Jobs, StreamerTries(j) PROVE (WaitInv /\ ReturnLeavesNoJob)'
  BY <1>12 DEF StreamerTries, GivesUp, LogFrame, watchVars, clusterVars
<1>13. ASSUME NEW j \in Jobs, StreamEnds(j) PROVE (WaitInv /\ ReturnLeavesNoJob)'
  BY <1>13 DEF StreamEnds, LogFrame, watchVars, clusterVars
<1>14. ASSUME NEW j \in Jobs, JobEnds(j) PROVE (WaitInv /\ ReturnLeavesNoJob)'
  BY <1>14 DEF JobEnds, Delivers, ClusterFrame, runVars, logVars
<1>15. ASSUME NEW j \in Jobs, JobIsCleanedUp(j) PROVE (WaitInv /\ ReturnLeavesNoJob)'
  BY <1>15 DEF JobIsCleanedUp, Delivers, ClusterFrame, runVars, logVars
<1>16. ASSUME NEW j \in Jobs, PodRuns(j) PROVE (WaitInv /\ ReturnLeavesNoJob)'
  BY <1>16 DEF PodRuns, Delivers, ClusterFrame, runVars, logVars
<1>17. ASSUME NEW j \in Jobs, JobIsDeleted(j) PROVE (WaitInv /\ ReturnLeavesNoJob)'
  BY <1>17 DEF JobIsDeleted, Delivers, ClusterFrame, runVars, logVars
<1>18. CASE ChannelCloses BY <1>18 DEF ChannelCloses, ClusterFrame, runVars, logVars, clusterVars
<1>19. CASE WatchExpires BY <1>19 DEF WatchExpires, logVars, clusterVars
<1>20. CASE Signal BY <1>20 DEF Signal, runVars, watchVars, logVars, clusterVars
<1>21. CASE CrashAndRestart BY <1>21 DEF CrashAndRestart, clusterVars
<1>22. CASE UNCHANGED vars BY <1>22 DEF vars, runVars, watchVars, logVars, clusterVars
<1> QED
  BY <1>1, <1>2, <1>3, <1>4, <1>5, <1>6, <1>7, <1>8, <1>9, <1>10, <1>11, <1>12, <1>13, <1>14, <1>15,
     <1>16, <1>17, <1>18, <1>19, <1>20, <1>21, <1>22
  DEF Next, RunStep, LogStep, JobStep

-----------------------------------------------------------------------------
(* The queue of the watcher. *)

\* An event that the cluster sends about a job j, and that is true, keeps the
\* queue true, whether it is delivered or not.
LEMMA DeliveryStep ==
    ASSUME JobServiceInv, NEW j \in Jobs, NEW event \in {"active"} \cup Results,
           Delivers(j, event), UNCHANGED <<current, faults>>,
           \A i \in Jobs : i # j => job'[i] = job[i],
           job[j] # "active" => job'[j] = job[j],
           job[j] # "none",
           event = "succeeded" => job'[j] = "succeeded",
           event \in {"failed", "deleted"} => job'[j] # "active"
    PROVE  QueueInv'
<1> USE DEF JobServiceInv
<1>1. queue # <<>> => current # 0 BY DEF WatcherInv, JobServiceTypeOK
<1>2. current # 0 => current \in Jobs BY DEF JobServiceTypeOK, Jobs
<1>3. CASE queue' = queue
  <2>1. current # 0 /\ job[current] # "none" /\ job[current] # "active" =>
            job'[current] = job[current]
    BY <1>2
  <2>2. QueueInv /\ UNCHANGED <<current, queue>> /\ faults \subseteq faults' BY <1>3
  <2>3. ASSUME NEW i \in 1 .. Len(queue') PROVE EventIsTrue(queue[i])'
    <3>1. i \in 1 .. Len(queue) /\ queue # <<>> BY <2>3, <1>3 DEF JobServiceTypeOK
    <3>2. EventIsTrue(queue[i]) BY <3>1 DEF QueueInv
    <3>3. current \in Jobs BY <3>1, <1>1, <1>2
    <3>4. job[current] # "active" => job'[current] = job[current] BY <3>3
    <3> QED BY <3>1, <3>2, <3>4, <1>3 DEF EventIsTrue
  <2> QED BY <2>3 DEF QueueInv
<1>4. CASE j = current /\ queue' = Append(queue, event)
  <2>1. EventIsTrue(event)' BY <1>4 DEF EventIsTrue, Results
  <2>2. \A e \in {"active", "Error"} \cup Results : EventIsTrue(e) => EventIsTrue(e)'
    BY <1>4 DEF EventIsTrue
  <2> QED BY <1>4, <2>1, <2>2, QueueTakes
<1> QED BY <1>3, <1>4 DEF Delivers

\* Every event that the watcher has still to deliver is true, in every step.
LEMMA QueueStep ==
    ASSUME JobServiceInv, [Next]_vars
    PROVE  QueueInv'
<1> USE DEF JobServiceInv
<1>0. queue # <<>> => run = "watch" /\ current \in Jobs
  BY DEF WatcherInv, JobServiceTypeOK, Jobs
<1>a. queue' = <<>> => QueueInv' BY DEF QueueInv
<1>b. queue' = queue /\ job' = job /\ current' = current /\ faults \subseteq faults' => QueueInv'
  BY <1>0, EventsStayTrue, JobServiceAssumption DEF Jobs
<1>1. CASE RunBegins BY <1>0, <1>1, <1>a DEF RunBegins, watchVars
<1>2. CASE JobIsCreated BY <1>0, <1>2, <1>a DEF JobIsCreated, watchVars
<1>3. CASE CreateFails BY <1>3, <1>b DEF CreateFails, RunFails, watchVars, clusterVars
<1>4. CASE CreateReturns BY <1>4, <1>b DEF CreateReturns, watchVars, clusterVars
<1>5. CASE WatcherStarts BY <1>5, <1>a DEF WatcherStarts
<1>6. CASE WatcherFails BY <1>6, <1>b DEF WatcherFails, RunFails, watchVars, clusterVars
<1>7. CASE WatcherFindsNoJob BY <1>7, <1>b DEF WatcherFindsNoJob, watchVars, clusterVars
<1>8. CASE WatchReceives BY <1>8, <1>a, QueueGives DEF WatchReceives, clusterVars
<1>9. CASE WatchEndsWithChannel BY <1>9, <1>b DEF WatchEndsWithChannel, clusterVars
<1>10. CASE RunReturns BY <1>10, <1>b DEF RunReturns, watchVars, clusterVars
<1>11. CASE ResultTaken BY <1>11, <1>b DEF ResultTaken, watchVars, clusterVars
<1>12. ASSUME NEW j \in Jobs, StreamerTries(j) PROVE QueueInv'
  BY <1>12, <1>b DEF StreamerTries, LogFrame, watchVars, clusterVars
<1>13. ASSUME NEW j \in Jobs, StreamEnds(j) PROVE QueueInv'
  BY <1>13, <1>b DEF StreamEnds, LogFrame, watchVars, clusterVars
<1>14. ASSUME NEW j \in Jobs, JobEnds(j) PROVE QueueInv'
  <2>1. PICK end \in {"succeeded", "failed"} :
            job' = [job EXCEPT ![j] = end] /\ Delivers(j, end)
    BY <1>14 DEF JobEnds
  <2>2. job[j] = "active" /\ UNCHANGED <<current, faults>>
    BY <1>14 DEF JobEnds, ClusterFrame, runVars
  <2>3. job'[j] = end /\ \A i \in Jobs : i # j => job'[i] = job[i]
    BY <2>1 DEF JobServiceTypeOK
  <2>4. end \in {"active"} \cup Results BY DEF Results
  <2> QED BY <2>1, <2>2, <2>3, <2>4, DeliveryStep
<1>15. ASSUME NEW j \in Jobs, JobIsCleanedUp(j) PROVE QueueInv'
  <2>1. Delivers(j, "deleted") /\ job' = job /\ job[j] # "active" /\ job[j] # "none"
    BY <1>15 DEF JobIsCleanedUp, ActiveExists
  <2>2. UNCHANGED <<current, faults>> BY <1>15 DEF JobIsCleanedUp, ClusterFrame, runVars
  <2> QED BY <2>1, <2>2, DeliveryStep DEF Results
<1>16. ASSUME NEW j \in Jobs, PodRuns(j) PROVE QueueInv'
  <2>1. Delivers(j, "active") /\ job' = job /\ job[j] # "none" BY <1>16 DEF PodRuns
  <2>2. UNCHANGED <<current, faults>> BY <1>16 DEF PodRuns, ClusterFrame, runVars
  <2> QED BY <2>1, <2>2, DeliveryStep
<1>17. ASSUME NEW j \in Jobs, JobIsDeleted(j) PROVE QueueInv'
  <2>1. Delivers(j, "deleted") /\ job[j] = "active" /\ UNCHANGED <<current, faults>>
    BY <1>17 DEF JobIsDeleted, ClusterFrame, runVars
  <2>2. job'[j] = "deleted" /\ \A i \in Jobs : i # j => job'[i] = job[i]
    BY <1>17 DEF JobIsDeleted, JobServiceTypeOK
  <2> QED BY <2>1, <2>2, DeliveryStep DEF Results
<1>18. CASE ChannelCloses BY <1>18, <1>a DEF ChannelCloses
<1>19. CASE WatchExpires
  <2>1. EventIsTrue("Error")' BY <1>19 DEF WatchExpires, EventIsTrue
  <2>2. UNCHANGED <<job, current>> /\ faults \subseteq faults'
    BY <1>19 DEF WatchExpires, clusterVars
  <2>3. \A e \in {"active", "Error"} \cup Results : EventIsTrue(e) => EventIsTrue(e)'
    BY <2>2 DEF EventIsTrue
  <2> QED BY <1>19, <2>1, <2>3, QueueTakes DEF WatchExpires
<1>20. CASE Signal BY <1>20, <1>b DEF Signal, runVars, watchVars, clusterVars
<1>21. CASE CrashAndRestart BY <1>21, <1>a DEF CrashAndRestart
<1>22. CASE UNCHANGED vars BY <1>22, <1>b DEF vars, runVars, watchVars, clusterVars
<1> QED
  BY <1>1, <1>2, <1>3, <1>4, <1>5, <1>6, <1>7, <1>8, <1>9, <1>10, <1>11, <1>12, <1>13, <1>14, <1>15,
     <1>16, <1>17, <1>18, <1>19, <1>20, <1>21, <1>22
  DEF Next, RunStep, LogStep, JobStep

-----------------------------------------------------------------------------
(* The theorems about states. *)

\* JobServiceInv is an invariant of Run and its surroundings.
LEMMA JobServiceInvHolds == Spec => []JobServiceInv
<1>1. JobServiceInv /\ [Next]_vars => JobServiceInv'
  BY JobServiceTypeStep, JobServicePartsStep, RunEndStep, QueueStep DEF JobServiceInv
<1> QED BY <1>1, JobServiceInvInit, PTL DEF Spec

\* The variables keep their types: no streamer makes more attempts than its
\* backoff has steps, for any number of jobs.
THEOREM JobServiceTypeCorrect == Spec => []JobServiceTypeOK
<1>1. JobServiceInv => JobServiceTypeOK BY DEF JobServiceInv
<1> QED BY <1>1, JobServiceInvHolds, PTL

\* A Run that returned beside an active job was broken off: by a call, by its
\* watch, or by a shutdown.
THEOREM ReturnIsExplained == Spec => []ReturnLeavesNoJob
<1>1. JobServiceInv => ReturnLeavesNoJob BY DEF JobServiceInv
<1> QED BY <1>1, JobServiceInvHolds, PTL

-----------------------------------------------------------------------------
(* No end is missed. *)

HasEnd == \E i \in 1 .. Len(queue) : queue[i] # "active"

\* An end in the queue stays there while events are added behind it.
LEMMA EndStaysInQueue ==
    ASSUME JobServiceTypeOK, HasEnd, NEW event \in {"active", "Error"} \cup Results,
           queue' \in {queue, Append(queue, event)}
    PROVE  HasEnd'
<1>1. PICK i \in 1 .. Len(queue) : queue[i] # "active" BY DEF HasEnd
<1>2. queue \in Seq({"active", "Error"} \cup Results) BY DEF JobServiceTypeOK
<1>3. i \in 1 .. Len(queue') /\ queue'[i] = queue[i] BY <1>1, <1>2
<1> QED BY <1>1, <1>3 DEF HasEnd

\* An end that is added is in the queue.
LEMMA EndIsAdded ==
    ASSUME JobServiceTypeOK, NEW event \in {"Error"} \cup Results, queue' = Append(queue, event)
    PROVE  HasEnd'
<1>1. queue \in Seq({"active", "Error"} \cup Results) BY DEF JobServiceTypeOK
<1>2. event \in {"active", "Error"} \cup Results /\ event # "active" BY DEF Results
<1>3. Len(queue') = Len(queue) + 1 /\ queue'[Len(queue) + 1] = event BY <1>1, <1>2
<1>4. Len(queue) + 1 \in 1 .. Len(queue') BY <1>1, <1>3
<1> QED BY <1>2, <1>3, <1>4 DEF HasEnd

\* An event that does not end the loop is not the end that is in the queue.
LEMMA EndIsBehindActive ==
    ASSUME JobServiceTypeOK, HasEnd, queue # <<>>, Head(queue) = "active", queue' = Tail(queue)
    PROVE  HasEnd'
<1>1. PICK i \in 1 .. Len(queue) : queue[i] # "active" BY DEF HasEnd
<1>2. queue \in Seq({"active", "Error"} \cup Results) BY DEF JobServiceTypeOK
<1>3. i # 1 BY <1>1, <1>2
<1>4. i - 1 \in 1 .. Len(queue') /\ queue'[i - 1] = queue[i] BY <1>1, <1>2, <1>3
<1> QED BY <1>1, <1>4 DEF HasEnd

\* A change of a job leaves the watch something to come: the job itself, or the
\* event of its deletion.
LEMMA DeliveryKeepsEnd ==
    ASSUME JobServiceTypeOK, EndIsToCome, NEW j \in Jobs,
           NEW event \in {"active", "Error"} \cup Results, Delivers(j, event),
           UNCHANGED <<ctx, runVars, logVars>>,
           existing' = existing \/ (existing' = existing \ {j} /\ event = "deleted")
    PROVE  EndIsToCome'
<1>1. UNCHANGED <<run, current, channel, streamer>> BY DEF Delivers, runVars, logVars
<1>2. queue' = IF j = current /\ channel = "open" THEN Append(queue, event) ELSE queue BY DEF Delivers
<1>3. ASSUME run = "watch"
      PROVE  (channel = "open" /\ current \in existing) \/ channel = "closed" \/ HasEnd
  BY <1>3 DEF EndIsToCome, HasEnd
<1>4. HasEnd => HasEnd' BY <1>2, EndStaysInQueue
<1>5. ASSUME channel = "open", current \in existing
      PROVE  current \in existing' \/ HasEnd'
  <2>1. CASE existing' = existing BY <1>5, <2>1
  <2>2. CASE existing' = existing \ {j} /\ event = "deleted" /\ j = current
    BY <1>2, <1>5, <2>2, EndIsAdded DEF Results
  <2>3. CASE existing' = existing \ {j} /\ j # current BY <1>5, <2>3
  <2> QED BY <2>1, <2>2, <2>3
<1>6. (run = "watch" => (channel = "open" /\ current \in existing) \/ channel = "closed" \/ HasEnd)'
  BY <1>1, <1>3, <1>4, <1>5
<1>7. (run \in {"watch", "wait"} => streamer[current] # "off")' BY <1>1 DEF EndIsToCome
<1> QED BY <1>6, <1>7 DEF EndIsToCome, HasEnd

\* Where Run neither watches nor waits there is nothing to say.
LEMMA EndElsewhere ==
    ASSUME run' \notin {"watch", "wait"}
    PROVE  EndIsToCome'
BY DEF EndIsToCome

\* Every step leaves an end of the wait to come.
LEMMA EndStep == ASSUME JobServiceInv, EndIsToCome, [Next]_vars PROVE EndIsToCome'
<1>0. JobServiceTypeOK /\ WatcherInv BY DEF JobServiceInv
<1>1. CASE RunBegins BY <1>1, EndElsewhere DEF RunBegins
<1>2. CASE JobIsCreated BY <1>2, EndElsewhere DEF JobIsCreated
<1>3. CASE CreateFails BY <1>3, EndElsewhere DEF CreateFails, RunFails
<1>4. CASE CreateReturns BY <1>4, EndElsewhere DEF CreateReturns
<1>5. CASE WatcherStarts
  <2>1. /\ run' = "watch" /\ channel' = "open" /\ current' = current
        /\ current \in existing /\ existing' = existing
        /\ streamer' = [streamer EXCEPT ![current] = "try"]
    BY <1>5 DEF WatcherStarts, clusterVars
  <2>2. streamer'[current] = "try" BY <1>0, <2>1 DEF JobServiceTypeOK
  <2> QED BY <2>1, <2>2 DEF EndIsToCome
<1>6. CASE WatcherFails BY <1>6, EndElsewhere DEF WatcherFails, RunFails
<1>7. CASE WatcherFindsNoJob BY <1>7, EndElsewhere DEF WatcherFindsNoJob
<1>8. CASE WatchReceives
  <2>1. queue # <<>> /\ run = "watch" /\ UNCHANGED <<current, streamer, existing>>
    BY <1>8 DEF WatchReceives, logVars, clusterVars
  <2>2. CASE Head(queue) = "active"
    <3>1. run' = "watch" /\ queue' = Tail(queue) /\ channel' = channel
      BY <1>8, <2>2 DEF WatchReceives
    <3>2. HasEnd => HasEnd' BY <1>0, <2>1, <2>2, <3>1, EndIsBehindActive
    <3> QED BY <2>1, <3>1, <3>2 DEF EndIsToCome, HasEnd
  <2>3. CASE Head(queue) # "active"
    <3>1. run' \in {"wait", "error"} BY <1>8, <2>3 DEF WatchReceives
    <3>2. streamer[current] # "off" BY <2>1 DEF EndIsToCome
    <3> QED BY <2>1, <3>1, <3>2 DEF EndIsToCome
  <2> QED BY <2>2, <2>3
<1>9. CASE WatchEndsWithChannel
  BY <1>9 DEF WatchEndsWithChannel, EndIsToCome, logVars, clusterVars
<1>10. CASE RunReturns \/ ResultTaken BY <1>10, EndElsewhere DEF RunReturns, ResultTaken
<1>11. ASSUME NEW j \in Jobs, StreamerTries(j) \/ StreamEnds(j) PROVE EndIsToCome'
  <2>1. UNCHANGED <<run, current, channel, queue, existing>>
    BY <1>11 DEF StreamerTries, StreamEnds, LogFrame, watchVars, clusterVars
  <2>2. \E p \in {"try", "stream", "done"} : streamer' = [streamer EXCEPT ![j] = p]
    BY <1>11 DEF StreamerTries, StreamEnds, GivesUp
  <2>3. run \in {"watch", "wait"} => current \in Jobs BY <1>0 DEF JobServiceTypeOK, Jobs
  <2>4. streamer[current] # "off" /\ current \in Jobs => streamer'[current] # "off"
    BY <1>0, <2>2 DEF JobServiceTypeOK
  <2> QED BY <2>1, <2>3, <2>4 DEF EndIsToCome
<1>12. ASSUME NEW j \in Jobs, PodRuns(j) PROVE EndIsToCome'
  <2>1. Delivers(j, "active") /\ existing' = existing /\ UNCHANGED <<ctx, runVars, logVars>>
    BY <1>12 DEF PodRuns, ClusterFrame
  <2> QED BY <1>0, <2>1, DeliveryKeepsEnd
<1>13. ASSUME NEW j \in Jobs, JobEnds(j) PROVE EndIsToCome'
  <2>1. PICK end \in {"succeeded", "failed"} : Delivers(j, end) BY <1>13 DEF JobEnds
  <2>2. end \in {"active", "Error"} \cup Results BY DEF Results
  <2>3. existing' = existing /\ UNCHANGED <<ctx, runVars, logVars>> BY <1>13 DEF JobEnds, ClusterFrame
  <2> QED BY <1>0, <2>1, <2>2, <2>3, DeliveryKeepsEnd
<1>14. ASSUME NEW j \in Jobs, JobIsDeleted(j) \/ JobIsCleanedUp(j) PROVE EndIsToCome'
  <2>1. "deleted" \in {"active", "Error"} \cup Results BY DEF Results
  <2> QED BY <1>0, <1>14, <2>1, DeliveryKeepsEnd DEF JobIsDeleted, JobIsCleanedUp, ClusterFrame
<1>15. CASE ChannelCloses
  BY <1>15 DEF ChannelCloses, EndIsToCome, ClusterFrame, runVars, logVars
<1>16. CASE WatchExpires
  <2>1. HasEnd' BY <1>0, <1>16, EndIsAdded DEF WatchExpires
  <2> QED BY <1>16, <2>1 DEF WatchExpires, EndIsToCome, HasEnd, logVars
<1>17. CASE Signal \/ UNCHANGED vars
  BY <1>17 DEF Signal, vars, runVars, watchVars, logVars, clusterVars, EndIsToCome
<1>18. CASE CrashAndRestart BY <1>18, EndElsewhere DEF CrashAndRestart
<1> QED
  BY <1>1, <1>2, <1>3, <1>4, <1>5, <1>6, <1>7, <1>8, <1>9, <1>10, <1>11, <1>12, <1>13, <1>14, <1>15,
     <1>16, <1>17, <1>18
  DEF Next, RunStep, LogStep, JobStep

\* Run never waits for an end that it has missed, in whatever order List, Watch,
\* the end of the job and its clean-up come, for any number of jobs: the part of
\* RunEnds that is no matter of fairness.
THEOREM NoEndIsMissed == Spec => []EndIsToCome
<1>1. Init => EndIsToCome BY DEF Init, EndIsToCome
<1>2. JobServiceInv /\ EndIsToCome /\ [Next]_vars => EndIsToCome' BY EndStep
<1> QED BY <1>1, <1>2, JobServiceInvHolds, PTL DEF Spec

-----------------------------------------------------------------------------
(* The refinement. *)

\* Each step of Run, of the cluster and of the process is a step of JobRunner,
\* or none.
LEMMA StepIsRunnerStep ==
    ASSUME JobServiceInv, [Next]_vars
    PROVE  [Runner!RunnerNext]_<<ctx, Runner!runnerVars>>
<1> USE DEF JobServiceInv, JobServiceTypeOK, WatcherInv, WaitInv, CtxDone, Busy, Jobs, Runner!runnerVars,
        Runner!RunnerNext, Runner!RunnerStep, Runner!Jobs, Runner!CtxDone
<1>1. CASE RunBegins BY <1>1 DEF RunBegins, clusterVars, Runner!RunBegins
<1>2. CASE JobIsCreated BY <1>2 DEF JobIsCreated, Runner!JobCreated
<1>3. CASE CreateFails BY <1>3 DEF CreateFails, RunFails, clusterVars, Runner!RunReturnsError
<1>4. CASE CreateReturns BY <1>4 DEF CreateReturns, clusterVars
<1>5. CASE WatcherStarts BY <1>5 DEF WatcherStarts, clusterVars
<1>6. CASE WatcherFails BY <1>6 DEF WatcherFails, RunFails, clusterVars, Runner!RunReturnsError
<1>7. CASE WatcherFindsNoJob BY <1>7 DEF WatcherFindsNoJob, clusterVars, Runner!RunReturnsError
<1>8. CASE WatchReceives
  <2>1. run' \in {"watch", "wait", "error"} BY <1>8 DEF WatchReceives
  <2> QED BY <1>8, <2>1 DEF WatchReceives, clusterVars, Runner!RunReturnsError
<1>9. CASE WatchEndsWithChannel BY <1>9 DEF WatchEndsWithChannel, clusterVars
<1>10. CASE RunReturns BY <1>10 DEF RunReturns, clusterVars, Runner!RunReturnsNil
<1>11. CASE ResultTaken BY <1>11 DEF ResultTaken, clusterVars, Runner!RunIsOver
<1>12. ASSUME NEW j \in Jobs, StreamerTries(j) \/ StreamEnds(j)
       PROVE  UNCHANGED <<ctx, Runner!runnerVars>>
  BY <1>12 DEF StreamerTries, StreamEnds, LogFrame, clusterVars
<1>13. ASSUME NEW j \in Jobs, JobEnds(j) PROVE Runner!JobEnds /\ UNCHANGED ctx
  BY <1>13 DEF JobEnds, ClusterFrame, runVars, Runner!JobEnds
<1>14. ASSUME NEW j \in Jobs, JobIsDeleted(j) PROVE Runner!JobEnds /\ UNCHANGED ctx
  BY <1>14 DEF JobIsDeleted, ClusterFrame, runVars, Runner!JobEnds
<1>15. ASSUME NEW j \in Jobs, JobIsCleanedUp(j) \/ PodRuns(j)
       PROVE  UNCHANGED <<ctx, Runner!runnerVars>>
  BY <1>15 DEF JobIsCleanedUp, PodRuns, ClusterFrame, runVars
<1>16. CASE ChannelCloses BY <1>16 DEF ChannelCloses, ClusterFrame, runVars, clusterVars
<1>17. CASE WatchExpires BY <1>17 DEF WatchExpires, clusterVars
<1>18. CASE Signal BY <1>18 DEF Signal, runVars, clusterVars
<1>19. CASE CrashAndRestart BY <1>19 DEF CrashAndRestart, clusterVars
<1>20. CASE UNCHANGED vars BY <1>20 DEF vars, runVars, clusterVars
<1> QED
  BY <1>1, <1>2, <1>3, <1>4, <1>5, <1>6, <1>7, <1>8, <1>9, <1>10, <1>11, <1>12, <1>13, <1>14, <1>15,
     <1>16, <1>17, <1>18, <1>19, <1>20
  DEF Next, RunStep, LogStep, JobStep

\* JobService.Run implements the promise that RunMigration is built on: at most
\* one job, and nil only when it has succeeded or the context is done.
THEOREM RunImplementsRunner == Spec => RunKeepsPromise
<1>1. Init => ctx = "active" /\ Runner!RunnerInit
  BY DEF Init, Runner!RunnerInit, Runner!Jobs, Jobs, Busy
<1>2. JobServiceInv /\ [Next]_vars => [Runner!RunnerNext]_<<ctx, Runner!runnerVars>>
  BY StepIsRunnerStep
<1> QED BY <1>1, <1>2, JobServiceInvHolds, PTL DEF Spec, RunKeepsPromise, Runner!RunnerSpec

=============================================================================
