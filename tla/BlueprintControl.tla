--------------------------- MODULE BlueprintControl ---------------------------
(* api/importer/blueprintClient.go: stopping the blueprints of the target    *)
(* system for a migration, and starting those again that it stopped.  What   *)
(* it stopped is remembered in memory only.                                  *)
EXTENDS Context

CONSTANT Blueprints

VARIABLES
    bpStopped,          \* the blueprints whose spec.stopped is true
    stoppedBlueprints,  \* the field of that name
    bcall,              \* the call under way: "idle", "stop", "start", or its result
    btodo,              \* the blueprints its loop has not reached
    stoppedBy,          \* history: who stopped a blueprint last
    forgotten           \* history: the blueprints stopped without being remembered

historyOfBlueprints == <<stoppedBy, forgotten>>
blueprintVars == <<bpStopped, stoppedBlueprints, bcall, btodo, historyOfBlueprints>>

BlueprintTypeOK ==
    /\ bpStopped \in SUBSET Blueprints
    /\ stoppedBlueprints \in SUBSET Blueprints
    /\ bcall \in {"idle", "stop", "start", "ok", "error"}
    /\ btodo \in SUBSET Blueprints
    /\ stoppedBy \in [Blueprints -> {"nobody", "user", "control"}]
    /\ forgotten \in SUBSET Blueprints

BlueprintInit ==
    /\ bpStopped \in SUBSET Blueprints
    /\ stoppedBlueprints = {}
    /\ bcall = "idle"
    /\ btodo = {}
    /\ stoppedBy = [b \in Blueprints |-> IF b \in bpStopped THEN "user" ELSE "nobody"]
    /\ forgotten = {}

BlueprintCallFails == bcall' = "error" /\ btodo' = {} /\ UNCHANGED stoppedBlueprints

StopBlueprintBegins ==
    /\ bcall = "idle"
    /\ \/ ~CtxDone /\ bcall' = "stop" /\ btodo' = Blueprints /\ UNCHANGED stoppedBlueprints
       \/ BlueprintCallFails
    /\ UNCHANGED <<bpStopped, historyOfBlueprints>>

PatchStop(b) ==
    /\ bpStopped' = bpStopped \cup {b}
    /\ stoppedBy' = [stoppedBy EXCEPT ![b] = "control"]

\* Mutation: a blueprint is remembered only if it had been stopped already.
StopOneRemembersWrong ==
    /\ bcall = "stop" /\ ~CtxDone
    /\ \E b \in btodo :
          /\ btodo' = btodo \ {b}
          /\ IF b \in bpStopped
             THEN stoppedBlueprints' = stoppedBlueprints \cup {b} /\ UNCHANGED <<bpStopped, stoppedBy>>
             ELSE PatchStop(b) /\ UNCHANGED stoppedBlueprints
    /\ UNCHANGED <<bcall, forgotten>>

\* One blueprint of the list.  An error may come after the patch was applied;
\* the blueprint is not remembered then.
StopOneBlueprint ==
    /\ bcall = "stop"
    /\ \E b \in btodo :
          \/ /\ ~CtxDone /\ b \in bpStopped
             /\ btodo' = btodo \ {b}
             /\ UNCHANGED <<bpStopped, stoppedBlueprints, bcall, historyOfBlueprints>>
          \/ /\ ~CtxDone /\ b \notin bpStopped
             /\ PatchStop(b)
             /\ \/ /\ stoppedBlueprints' = stoppedBlueprints \cup {b}
                   /\ btodo' = btodo \ {b}
                   /\ UNCHANGED <<bcall, forgotten>>
                \/ /\ forgotten' = forgotten \cup ({b} \ stoppedBlueprints)
                   /\ BlueprintCallFails
          \/ BlueprintCallFails /\ UNCHANGED <<bpStopped, historyOfBlueprints>>

StopBlueprintReturns ==
    /\ bcall = "stop" /\ btodo = {}
    /\ bcall' = "ok"
    /\ UNCHANGED <<bpStopped, stoppedBlueprints, btodo, historyOfBlueprints>>

StartBlueprintBegins ==
    /\ bcall = "idle"
    /\ bcall' = "start" /\ btodo' = stoppedBlueprints
    /\ UNCHANGED <<bpStopped, stoppedBlueprints, historyOfBlueprints>>

PatchStart(b) ==
    /\ bpStopped' = bpStopped \ {b}
    /\ stoppedBy' = [stoppedBy EXCEPT ![b] = "nobody"]
    /\ forgotten' = forgotten \ {b}

StartOneBlueprint ==
    /\ bcall = "start"
    /\ \E b \in btodo :
          \/ /\ ~CtxDone
             /\ PatchStart(b)
             /\ \/ btodo' = btodo \ {b} /\ UNCHANGED <<stoppedBlueprints, bcall>>
                \/ BlueprintCallFails
          \/ BlueprintCallFails /\ UNCHANGED <<bpStopped, historyOfBlueprints>>

\* Mutation: the first error ends the loop, and the list is cleared all the same.
StartClearsAnyway ==
    /\ bcall = "start"
    /\ bcall' = "ok" /\ btodo' = {} /\ stoppedBlueprints' = {}
    /\ UNCHANGED <<bpStopped, historyOfBlueprints>>

StartBlueprintReturns ==
    /\ bcall = "start" /\ btodo = {}
    /\ bcall' = "ok" /\ stoppedBlueprints' = {}
    /\ UNCHANGED <<bpStopped, btodo, historyOfBlueprints>>

\* A user stops a blueprint.  The importer does not hear of it.
UserStopsBlueprint ==
    /\ \E b \in Blueprints \ bpStopped :
          /\ bpStopped' = bpStopped \cup {b}
          /\ stoppedBy' = [stoppedBy EXCEPT ![b] = "user"]
    /\ UNCHANGED <<stoppedBlueprints, bcall, btodo, forgotten>>

BlueprintProgress == StopOneBlueprint \/ StopBlueprintReturns
                     \/ StartOneBlueprint \/ StartBlueprintReturns

=============================================================================
