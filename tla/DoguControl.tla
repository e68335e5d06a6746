----------------------------- MODULE DoguControl -----------------------------
(* api/importer/doguClient.go: stopping all dogus of the target system and   *)
(* waiting for their pods, and starting them again.  Every call goes to the  *)
(* API server; it needs a live context, and may fail after it was applied.   *)
(* The dogu operator, which is not part of the program, follows spec.stopped *)
(* with the pods.                                                            *)
EXTENDS Context

CONSTANT Dogus

VARIABLES
    stopped,    \* the dogus whose spec.stopped is true
    pods,       \* the dogus that have a pod that has not terminated
    dcall,      \* the call under way: "idle", "stop", "wait", "start", or its result
    dtodo       \* the dogus its loop has not reached

doguVars == <<stopped, pods, dcall, dtodo>>

DoguTypeOK ==
    /\ stopped \in SUBSET Dogus
    /\ pods \in SUBSET Dogus
    /\ dcall \in {"idle", "stop", "wait", "start", "ok", "error"}
    /\ dtodo \in SUBSET Dogus

\* Users may have stopped any dogu.
DoguInit ==
    /\ stopped \in SUBSET Dogus
    /\ pods = Dogus \ stopped
    /\ dcall = "idle"
    /\ dtodo = {}

DoguCallFails == dcall' = "error" /\ dtodo' = {} /\ UNCHANGED pods

StopAllBegins ==
    /\ dcall = "idle"
    /\ \/ ~CtxDone /\ dcall' = "stop" /\ dtodo' = Dogus /\ UNCHANGED pods
       \/ DoguCallFails
    /\ UNCHANGED stopped

\* Mutation: a dogu that fails to stop is passed over.
StopDoguIgnoresError ==
    /\ dcall = "stop"
    /\ \E d \in dtodo : dtodo' = dtodo \ {d} /\ stopped' \in {stopped, stopped \cup {d}}
    /\ UNCHANGED <<pods, dcall>>

StopDogu ==
    /\ dcall = "stop"
    /\ \E d \in dtodo :
          \/ /\ ~CtxDone
             /\ stopped' = stopped \cup {d}
             /\ dtodo' = dtodo \ {d}
             /\ UNCHANGED <<pods, dcall>>
          \/ /\ \/ UNCHANGED stopped
                \/ ~CtxDone /\ stopped' = stopped \cup {d}
             /\ DoguCallFails

\* Mutation: StopAll returns without waiting for the pods.
StopAllSkipsWait ==
    /\ dcall = "stop" /\ dtodo = {}
    /\ dcall' = "ok"
    /\ UNCHANGED <<stopped, pods, dtodo>>

StopAllWaits ==
    /\ dcall = "stop" /\ dtodo = {}
    /\ dcall' = "wait" /\ dtodo' = Dogus
    /\ UNCHANGED <<stopped, pods>>

\* Mutation: no timeout.
WaitForPodsForever ==
    /\ dcall = "wait" /\ ~CtxDone
    /\ \E d \in dtodo \ pods : dtodo' = dtodo \ {d}
    /\ UNCHANGED <<stopped, pods, dcall>>

\* The pods of one dogu are gone, or the list call fails or times out.
WaitForPods ==
    /\ dcall = "wait"
    /\ \/ ~CtxDone /\ \E d \in dtodo \ pods : dtodo' = dtodo \ {d} /\ UNCHANGED <<pods, dcall>>
       \/ dtodo # {} /\ DoguCallFails
    /\ UNCHANGED stopped

StopAllReturns ==
    /\ dcall = "wait" /\ dtodo = {}
    /\ dcall' = "ok"
    /\ UNCHANGED <<stopped, pods, dtodo>>

StartAllBegins ==
    /\ dcall = "idle"
    /\ \/ ~CtxDone /\ dcall' = "start" /\ dtodo' = Dogus /\ UNCHANGED pods
       \/ DoguCallFails
    /\ UNCHANGED stopped

\* Mutation: a dogu that fails to start is passed over.
StartDoguIgnoresError ==
    /\ dcall = "start"
    /\ \E d \in dtodo : dtodo' = dtodo \ {d} /\ stopped' \in {stopped, stopped \ {d}}
    /\ UNCHANGED <<pods, dcall>>

StartDogu ==
    /\ dcall = "start"
    /\ \E d \in dtodo :
          \/ /\ ~CtxDone
             /\ stopped' = stopped \ {d}
             /\ dtodo' = dtodo \ {d}
             /\ UNCHANGED <<pods, dcall>>
          \/ /\ \/ UNCHANGED stopped
                \/ ~CtxDone /\ stopped' = stopped \ {d}
             /\ DoguCallFails

StartAllReturns ==
    /\ dcall = "start" /\ dtodo = {}
    /\ dcall' = "ok"
    /\ UNCHANGED <<stopped, pods, dtodo>>

\* The dogu operator removes the pod of a stopped dogu and starts the others.
OperatorActs ==
    /\ \E d \in Dogus :
          \/ d \in stopped \cap pods /\ pods' = pods \ {d}
          \/ d \notin stopped \cup pods /\ pods' = pods \cup {d}
    /\ UNCHANGED <<stopped, dcall, dtodo>>

DoguProgress == StopDogu \/ StopAllWaits \/ WaitForPods \/ StopAllReturns
                \/ StartDogu \/ StartAllReturns

=============================================================================
