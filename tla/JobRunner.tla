------------------------------ MODULE JobRunner ------------------------------
(* What JobService.Run (migration/jobService.go) promises to RunMigration:   *)
(* it creates at most one import job, and returns nil only if that job has   *)
(* succeeded or the context is done.  An error may leave the job running.    *)
(* JobService.tla is the code in detail, and implements this.                *)
EXTENDS Context, Naturals

CONSTANT MaxJobs    \* bound: jobs are numbered in the order of their creation

VARIABLES
    job,        \* what has become of each job
    current,    \* the job of the Run under way, 0 while there is none
    jcall       \* the call: "idle", "busy", or its result

Jobs == 1 .. MaxJobs

runnerVars == <<job, current, jcall>>

RunnerTypeOK ==
    /\ job \in [Jobs -> {"none", "active", "succeeded", "failed", "deleted"}]
    /\ current \in 0 .. MaxJobs
    /\ jcall \in {"idle", "busy", "ok", "error"}

RunnerInit ==
    /\ job = [j \in Jobs |-> "none"]
    /\ current = 0
    /\ jcall = "idle"

RunBegins ==
    /\ jcall = "idle"
    /\ jcall' = "busy" /\ current' = 0
    /\ UNCHANGED job

JobCreated ==
    /\ jcall = "busy" /\ current = 0 /\ ~CtxDone
    /\ \E j \in Jobs :
          /\ job[j] = "none" /\ \A i \in 1 .. (j - 1) : job[i] # "none"
          /\ job' = [job EXCEPT ![j] = "active"]
          /\ current' = j
    /\ UNCHANGED jcall

JobEnds ==
    /\ \E j \in Jobs :
          /\ job[j] = "active"
          /\ \E end \in {"succeeded", "failed", "deleted"} : job' = [job EXCEPT ![j] = end]
    /\ UNCHANGED <<current, jcall>>

\* Mutation: the end of the job is not awaited.
RunReturnsAtOnce ==
    /\ jcall = "busy" /\ current # 0
    /\ jcall' = "ok"
    /\ UNCHANGED <<job, current>>

RunReturnsNil ==
    /\ jcall = "busy" /\ current # 0
    /\ job[current] = "succeeded" \/ CtxDone
    /\ jcall' = "ok"
    /\ UNCHANGED <<job, current>>

RunReturnsError ==
    /\ jcall = "busy"
    /\ jcall' = "error"
    /\ UNCHANGED <<job, current>>

\* The caller takes the result, or is gone before there is one.
RunIsOver ==
    /\ jcall # "idle"
    /\ jcall' = "idle"
    /\ UNCHANGED <<job, current>>

-----------------------------------------------------------------------------
(* The promise on its own: any caller, a context that ends with a signal and *)
(* is new in a new process.                                                  *)

RunnerStep == \/ RunBegins \/ JobCreated \/ JobEnds \/ RunReturnsNil
              \/ RunReturnsError \/ RunIsOver

RunnerNext == \/ RunnerStep /\ UNCHANGED ctx
              \/ ctx' = "done" /\ UNCHANGED runnerVars
              \/ ctx' = "active" /\ jcall' = "idle" /\ UNCHANGED <<job, current>>

RunnerSpec == ctx = "active" /\ RunnerInit /\ [][RunnerNext]_<<ctx, runnerVars>>

=============================================================================
