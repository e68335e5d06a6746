-------------------------- MODULE MigrationSchedule --------------------------
(***************************************************************************)
(* Who starts a migration, and when.  Three goroutines of the coordinator  *)
(* start migrations: the cron task (delta migrations), the ConfigMap       *)
(* watcher (manual migrations) and the goroutine that waits for the final  *)
(* timestamp (the final migration).  They share one atomic.Bool, running.  *)
(* migration.Run sets them up; cmd/ces-importer/main.go ends the process   *)
(* on a signal, and Kubernetes starts it again.                            *)
(*                                                                         *)
(* A migration is one long step here, between the state "migrating" and    *)
(* its end; Migrator.tla models what happens inside.                       *)
(***************************************************************************)
EXTENDS Naturals, FiniteSets

CONSTANTS
    Requests,      \* the start-migration ConfigMaps users create, each once
    NoRequest,     \* no ConfigMap
    Timestamps,    \* the values of finalSchedule; 0 is the zero time.Time
    MaxTime,       \* bound: the clock stops here
    MaxStarts      \* bound: how often the pod is started

ASSUME ScheduleAssumption ==
    /\ NoRequest \notin Requests
    /\ Timestamps \subseteq Nat
    /\ MaxTime \in Nat \ {0}
    /\ MaxStarts \in Nat \ {0}

VARIABLES
    now,          \* the wall clock; it is never 0
    finalTs,      \* finalTimestamp, 0 when unset or unparseable
    starts,       \* starts of the pod so far
    ctx,          \* the context of main: "active" or "done"
    run,          \* where migration.Run is; "down": there is no process
    delta,        \* where the cron task is
    deltaNow,     \* the clock the cron task read in Expired, 0 before and after
    final,        \* where the goroutine of the final migration is
    manual,       \* where the ConfigMap watcher is
    request,      \* the ConfigMap the watcher works on
    starters,     \* the ConfigMaps in the API server
    events,       \* Added events of the open watch, not received yet
    running,      \* migrationRunning; an atomic.Bool is a 0 or a 1
    created,      \* history: the ConfigMaps ever created
    deleted,      \* history: the ConfigMaps the importer deleted
    holders,      \* history: who stored TRUE since running was last cleared
    finalStarts   \* history: the times at which final migrations started

processVars == <<ctx, run, delta, deltaNow, final, manual, request, events,
                 running, holders>>
clusterVars == <<starters, created, deleted>>
vars == <<now, finalTs, starts, processVars, clusterVars, finalStarts>>

Scheduled == {"select", "waitCtx"}
Returned == {"expired", "cronError", "stopped", "aborted", "finalOk", "finalFailed"}
Critical == {"check", "migrating", "clear"}
Watching == {"watching", "delete", "load", "store", "migrating", "clear"}

TypeOK ==
    /\ now \in 1 .. MaxTime
    /\ finalTs \in Timestamps
    /\ starts \in 1 .. MaxStarts
    /\ ctx \in {"active", "done"}
    /\ run \in {"start", "parse", "schedule", "down"} \cup Scheduled \cup Returned
    /\ delta \in {"idle", "store"} \cup Critical
    /\ deltaNow \in 0 .. MaxTime
    /\ final \in {"off", "waitTs", "poll", "asleep", "migrating", "sendOk",
                  "sendErr", "exited"}
    /\ manual \in {"off", "connect", "reconnect", "stopped"} \cup Watching
    /\ request \in Requests \cup {NoRequest}
    /\ manual \in Watching \ {"watching"} => request \in Requests
    /\ starters \in SUBSET Requests
    /\ events \in SUBSET Requests
    /\ running \in {0, 1}
    /\ created \in SUBSET Requests
    /\ deleted \in SUBSET Requests
    /\ holders \in SUBSET {"delta", "manual"}
    /\ finalStarts \in SUBSET (1 .. MaxTime)

Init ==
    /\ now = 1
    /\ finalTs \in Timestamps
    /\ starts = 1
    /\ ctx = "active"
    /\ run = "start"
    /\ delta = "idle"
    /\ deltaNow = 0
    /\ final = "off"
    /\ manual = "off"
    /\ request = NoRequest
    /\ starters = {}
    /\ events = {}
    /\ running = 0
    /\ created = {}
    /\ deleted = {}
    /\ holders = {}
    /\ finalStarts = {}

-----------------------------------------------------------------------------
(* The final timestamp. *)

Expired(t) == t = 0 \/ now > t

Reached(t) == t = 0 \/ now >= t

-----------------------------------------------------------------------------
(* The context, and the atomic flag with who holds it kept as history. *)

CtxDone == ctx = "done"

Busy == running = 1

SetRunning(actor) ==
    /\ running' = 1
    /\ holders' = holders \cup {actor}

ClearRunning ==
    /\ running' = 0
    /\ holders' = {}

FlagUnchanged == UNCHANGED <<running, holders>>

-----------------------------------------------------------------------------
(* migration.Run *)

RunUnchanged == UNCHANGED <<now, finalTs, starts, ctx, run>>
DeltaUnchanged == UNCHANGED <<delta, deltaNow>>
ManualUnchanged == UNCHANGED <<manual, request, events, starters, created, deleted>>
FinalUnchanged == UNCHANGED <<final, finalStarts>>
RunFrame == UNCHANGED <<now, finalTs, starts, ctx>> /\ DeltaUnchanged /\ FlagUnchanged
DeltaFrame == RunUnchanged /\ ManualUnchanged /\ FinalUnchanged
FinalFrame == RunUnchanged /\ DeltaUnchanged /\ ManualUnchanged /\ FlagUnchanged
ManualFrame == RunUnchanged /\ DeltaUnchanged /\ FinalUnchanged

RunStartsWatcher ==
    /\ run = "start"
    /\ run' = "parse"
    /\ manual' = "connect"
    /\ UNCHANGED <<request, events, starters, created, deleted>>
    /\ RunFrame /\ FinalUnchanged

\* Mutation: Run does not look whether the timestamp has passed.
RunParsesUnchecked ==
    run = "parse" /\ run' = "schedule" /\ RunFrame /\ ManualUnchanged /\ FinalUnchanged

RunParsesTimestamp ==
    /\ run = "parse"
    /\ run' = IF finalTs # 0 /\ Expired(finalTs) THEN "expired" ELSE "schedule"
    /\ RunFrame /\ ManualUnchanged /\ FinalUnchanged

RunCronInvalid ==
    /\ run = "schedule"
    /\ run' = "cronError"
    /\ RunFrame /\ ManualUnchanged /\ FinalUnchanged

RunSchedules ==
    /\ run = "schedule"
    /\ IF finalTs = 0
       THEN run' = "waitCtx" /\ final' = final
       ELSE run' = "select" /\ final' = "waitTs"
    /\ UNCHANGED finalStarts /\ RunFrame /\ ManualUnchanged

RunSeesShutdown ==
    /\ CtxDone
    /\ \/ run = "waitCtx" /\ run' = "stopped"
       \/ run = "select" /\ run' = "aborted"
    /\ RunFrame /\ ManualUnchanged /\ FinalUnchanged

RunSeesFinalDone ==
    /\ run = "select"
    /\ \/ final = "sendOk" /\ run' = "finalOk"
       \/ final = "sendErr" /\ run' = "finalFailed"
    /\ final' = "exited"
    /\ UNCHANGED finalStarts /\ RunFrame /\ ManualUnchanged

-----------------------------------------------------------------------------
(* The cron task: runDeltaMigration.  gronx never runs two of them at once. *)

\* A trigger that finds the flag set returns without a step of its own.
DeltaLoads ==
    /\ run \in Scheduled
    /\ delta = "idle"
    /\ ~Busy
    /\ delta' = "store"
    /\ UNCHANGED deltaNow /\ DeltaFrame /\ FlagUnchanged

DeltaStores ==
    /\ delta = "store"
    /\ delta' = "check"
    /\ SetRunning("delta")
    /\ UNCHANGED deltaNow /\ DeltaFrame

\* Mutation: a delta migration starts after the final timestamp.
DeltaChecksNothing ==
    delta = "check" /\ delta' = "migrating" /\ deltaNow' = now /\ DeltaFrame /\ FlagUnchanged

\* Mutation: the early return of line 102 comes without the deferred Store(false).
DeltaReturnsEarly ==
    /\ delta = "check"
    /\ deltaNow' = now
    /\ delta' = IF finalTs # 0 /\ Expired(finalTs) THEN "idle" ELSE "migrating"
    /\ DeltaFrame /\ FlagUnchanged

DeltaChecksTimestamp ==
    /\ delta = "check"
    /\ deltaNow' = now
    /\ delta' = IF finalTs # 0 /\ Expired(finalTs) THEN "clear" ELSE "migrating"
    /\ DeltaFrame /\ FlagUnchanged

DeltaMigrationEnds ==
    /\ delta = "migrating"
    /\ delta' = "clear"
    /\ UNCHANGED deltaNow /\ DeltaFrame /\ FlagUnchanged

\* Mutation: the flag stays set.
DeltaForgetsFlag ==
    delta = "clear" /\ delta' = "idle" /\ UNCHANGED deltaNow /\ DeltaFrame /\ FlagUnchanged

DeltaClears ==
    /\ delta = "clear"
    /\ delta' = "idle"
    /\ deltaNow' = 0
    /\ ClearRunning
    /\ DeltaFrame

-----------------------------------------------------------------------------
(* The final migration: runFinalMigration and WaitUntilReady.  It never      *)
(* sets the flag.                                                            *)

\* Mutation: the timer is set to fire a moment too early.
FinalTimerFiresEarly ==
    /\ final = "waitTs"
    /\ now + 1 >= finalTs \/ CtxDone
    /\ final' = "poll"
    /\ UNCHANGED finalStarts /\ FinalFrame

FinalTimerFires ==
    /\ final = "waitTs"
    /\ Reached(finalTs) \/ CtxDone
    /\ final' = "poll"
    /\ UNCHANGED finalStarts /\ FinalFrame

FinalPollsBusy ==
    /\ final = "poll"
    /\ Busy
    /\ final' = "asleep"
    /\ UNCHANGED finalStarts /\ FinalFrame

\* Mutation: the final migration does not wait for a running one.
FinalStartsAtOnce ==
    final = "poll" /\ final' = "migrating" /\ finalStarts' = finalStarts \cup {now} /\ FinalFrame

FinalStarts ==
    /\ final = "poll"
    /\ ~Busy
    /\ final' = "migrating"
    /\ finalStarts' = finalStarts \cup {now}
    /\ FinalFrame

FinalWakes ==
    /\ final = "asleep"
    /\ final' = "poll"
    /\ UNCHANGED finalStarts /\ FinalFrame

FinalMigrationEnds ==
    /\ final = "migrating"
    /\ final' \in {"sendOk", "sendErr"}
    /\ UNCHANGED finalStarts /\ FinalFrame

-----------------------------------------------------------------------------
(* The ConfigMap watcher.  Events are handled one after the other, in the    *)
(* same goroutine that runs the migration.  A watch that opens reports the   *)
(* ConfigMaps that exist already as added.                                   *)

ManualOpensWatch ==
    /\ manual = "connect"
    /\ ~CtxDone
    /\ manual' = "watching"
    /\ events' = starters
    /\ UNCHANGED <<request, starters, created, deleted>>
    /\ ManualFrame /\ FlagUnchanged

\* Watch fails, or the context is done: the watcher ends for good.
ManualStops ==
    /\ manual = "connect"
    /\ manual' = "stopped"
    /\ UNCHANGED <<request, events, starters, created, deleted>>
    /\ ManualFrame /\ FlagUnchanged

\* The connection is closed, or the context is done.
ManualLosesWatch ==
    /\ manual = "watching"
    /\ manual' = "reconnect"
    /\ events' = {}
    /\ UNCHANGED <<request, starters, created, deleted>>
    /\ ManualFrame /\ FlagUnchanged

ManualReconnects ==
    /\ manual = "reconnect"
    /\ manual' = "connect"
    /\ UNCHANGED <<request, events, starters, created, deleted>>
    /\ ManualFrame /\ FlagUnchanged

\* Mutation: an event that was handled is handled again.
ManualReceivesAgain ==
    /\ manual = "watching"
    /\ \E r \in events : request' = r
    /\ manual' = "delete"
    /\ UNCHANGED <<events, starters, created, deleted>>
    /\ ManualFrame /\ FlagUnchanged

\* Mutation: an event whose object is no ConfigMap is handled all the same.
ManualReceivesNothing ==
    manual = "watching" /\ manual' = "delete" /\ request' = NoRequest
    /\ UNCHANGED <<events, starters, created, deleted>> /\ ManualFrame /\ FlagUnchanged

ManualReceives ==
    /\ manual = "watching"
    /\ \E r \in events : request' = r /\ events' = events \ {r}
    /\ manual' = "delete"
    /\ UNCHANGED <<starters, created, deleted>>
    /\ ManualFrame /\ FlagUnchanged

\* Delete may fail, or find the ConfigMap gone; either is only logged.
ManualDeletes ==
    /\ manual = "delete"
    /\ manual' = "load"
    /\ \/ starters' = starters \ {request} /\ deleted' = deleted \cup {request}
       \/ UNCHANGED <<starters, deleted>>
    /\ UNCHANGED <<request, events, created>>
    /\ ManualFrame /\ FlagUnchanged

ManualLoads ==
    /\ manual = "load"
    /\ manual' = IF Busy THEN "watching" ELSE "store"
    /\ UNCHANGED <<request, events, starters, created, deleted>>
    /\ ManualFrame /\ FlagUnchanged

ManualStores ==
    /\ manual = "store"
    /\ manual' = "migrating"
    /\ SetRunning("manual")
    /\ UNCHANGED <<request, events, starters, created, deleted>>
    /\ ManualFrame

ManualMigrationEnds ==
    /\ manual = "migrating"
    /\ manual' = "clear"
    /\ UNCHANGED <<request, events, starters, created, deleted>>
    /\ ManualFrame /\ FlagUnchanged

\* Mutation: the watcher does not go back to its loop.
ManualHangs ==
    manual = "clear" /\ ClearRunning /\ ManualUnchanged /\ ManualFrame

ManualClears ==
    /\ manual = "clear"
    /\ manual' = "watching"
    /\ ClearRunning
    /\ UNCHANGED <<request, events, starters, created, deleted>>
    /\ ManualFrame

-----------------------------------------------------------------------------
(* The users, the clock and the process. *)

UserCreates ==
    /\ \E r \in Requests \ created :
          /\ created' = created \cup {r}
          /\ starters' = starters \cup {r}
          /\ events' = IF manual \in Watching THEN events \cup {r} ELSE events
    /\ UNCHANGED <<manual, request, deleted>>
    /\ ManualFrame /\ FlagUnchanged

\* The watcher ignores events of type Deleted.
UserWithdraws ==
    /\ \E r \in starters : starters' = starters \ {r}
    /\ UNCHANGED <<manual, request, events, created, deleted>>
    /\ ManualFrame /\ FlagUnchanged

Tick ==
    /\ now < MaxTime
    /\ now' = now + 1
    /\ UNCHANGED <<finalTs, starts, processVars, clusterVars, finalStarts>>

Signal ==
    /\ run \notin {"down"}
    /\ ~CtxDone
    /\ ctx' = "done"
    /\ UNCHANGED <<now, finalTs, starts, run>>
    /\ DeltaUnchanged /\ ManualUnchanged /\ FinalUnchanged /\ FlagUnchanged

ProcessEnds ==
    /\ run' = "down"
    /\ ctx' = "active"
    /\ delta' = "idle"
    /\ deltaNow' = 0
    /\ final' = "off"
    /\ manual' = "off"
    /\ request' = NoRequest
    /\ events' = {}
    /\ running' = 0
    /\ holders' = {}
    /\ UNCHANGED <<now, finalTs, starts, clusterVars, finalStarts>>

\* After the signal main waits for Run for at most five seconds.
Exit == run # "down" /\ CtxDone /\ ProcessEnds

\* A panic in a goroutine, an eviction, a kill.
Crash == run # "down" /\ ~CtxDone /\ ProcessEnds

\* Kubernetes starts the pod again, at a later time.
Restart ==
    /\ run = "down"
    /\ starts < MaxStarts
    /\ now < MaxTime
    /\ starts' = starts + 1
    /\ now' = now + 1
    /\ run' = "start"
    /\ UNCHANGED <<finalTs, ctx>>
    /\ DeltaUnchanged /\ ManualUnchanged /\ FinalUnchanged /\ FlagUnchanged

-----------------------------------------------------------------------------
(* The specification. *)

RunStep == \/ RunStartsWatcher \/ RunParsesTimestamp \/ RunCronInvalid \/ RunSchedules
           \/ RunSeesShutdown \/ RunSeesFinalDone

DeltaStep == \/ DeltaStores \/ DeltaChecksTimestamp \/ DeltaMigrationEnds \/ DeltaClears

FinalStep == \/ FinalTimerFires \/ FinalPollsBusy \/ FinalStarts \/ FinalWakes
             \/ FinalMigrationEnds

ManualHandling == \/ ManualReceives \/ ManualDeletes \/ ManualLoads \/ ManualStores
                  \/ ManualMigrationEnds \/ ManualClears

ManualStep == \/ ManualOpensWatch \/ ManualStops \/ ManualLosesWatch \/ ManualReconnects
              \/ ManualHandling

Environment == UserCreates \/ UserWithdraws \/ Tick \/ Signal \/ Exit \/ Crash \/ Restart

Next == RunStep \/ DeltaLoads \/ DeltaStep \/ FinalStep \/ ManualStep \/ Environment

Spec == Init /\ [][Next]_vars

(* A goroutine that can go on does, and every migration ends.  Nothing makes *)
(* the cron expression fire, a watch break, a user act or a pod die.         *)
Fairness ==
    /\ WF_vars(Tick)
    /\ WF_vars(RunStep)
    /\ WF_vars(DeltaStep)
    /\ WF_vars(FinalStep)
    /\ WF_vars(ManualOpensWatch \/ ManualReconnects)
    /\ WF_vars(ManualHandling)
    /\ WF_vars(Exit)

FairSpec == Spec /\ Fairness

-----------------------------------------------------------------------------
(* Properties. *)

\* The flag is set exactly while a delta or a manual migration that set it
\* is still on its way to its deferred Store(false): it never leaks, on the
\* early return of an expired delta trigger neither (run.go:97-103).
FlagNeverLeaks ==
    /\ Busy <=> holders # {}
    /\ "delta" \in holders => delta \in Critical
    /\ "manual" \in holders => manual \in {"migrating", "clear"}

\* A final migration starts before its timestamp only when the process is
\* being shut down: WaitUntil returns early then, and run.go:119-133 goes on.
FinalNotEarly ==
    final \in {"poll", "asleep", "migrating"} => Reached(finalTs) \/ CtxDone

\* A delta and the final migration run at the same time only if the final one
\* was let go early by a shutdown, or the delta read the clock in the very
\* instant of the timestamp, or the end of a manual migration cleared the flag
\* under the delta.  The order Store, then Expired (run.go:97-100) is what
\* makes this true although the final migration never sets the flag.
DeltaFinalExclusive ==
    delta = "migrating" /\ final = "migrating" =>
        CtxDone \/ deltaNow = finalTs \/ "delta" \notin holders

\* However often the pod restarts, at most one final migration starts at or
\* after the timestamp: a restarted process finds it expired (run.go:37-41).
FinalAtMostOnce == Cardinality({t \in finalStarts : t >= finalTs}) <= 1

\* A ConfigMap that the importer has deleted is never taken up again, over
\* broken watches, reconnects and restarts (manual.go:35-58, 91-96).
DeletedNeverTakenUp ==
    [][manual = "watching" /\ manual' = "delete" => request' \notin deleted]_vars

\* The goroutine of the final migration does not wait forever, unless the
\* process ends or is told to, or deltas and manual migrations set the flag
\* again and again (WaitUntilReady has no queue: timestamp.go:69-71).
FinalGetsItsTurn ==
    \/ []<>(delta = "store" \/ manual = "store")
    \/ final = "waitTs" ~> (final = "migrating" \/ CtxDone \/ run = "down")

\* The flag does not stay set for good: each skipped trigger is followed by
\* a time when triggers are answered again (run.go:98, manual.go:103).
FlagIsReleased == Busy ~> ~Busy

\* An Added event that the watch delivered is handled, also when it arrived
\* while the watcher was busy with a migration, unless the watch breaks.
EventsAreHandled ==
    \A r \in Requests : r \in events ~> (request = r \/ manual \notin Watching)

-----------------------------------------------------------------------------
(* What comments of the code say and the code does not do. *)

\* "set migration to running to prevent simultaneous migrations" (run.go:96).
NoSimultaneousMigrations ==
    ~(manual = "migrating" /\ (delta = "migrating" \/ final = "migrating"))

\* "When a ConfigMap is added, the migration is started." (manual.go:31): a
\* ConfigMap the watcher has taken away is one whose migration it goes on to start.
AddedConfigMapStartsMigration ==
    [][manual = "load" /\ manual' # "load" /\ request \in deleted /\ run' # "down"
          => manual' = "store"]_vars

=============================================================================
