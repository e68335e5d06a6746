------------------------------- MODULE DataSync -------------------------------
(* migration/sync/rsync.go: SyncData asks the exporter to export one dogu    *)
(* after the other, and has rsync copy each directory of the dogu's volume.  *)
(* Errors are collected, and the rest is copied all the same.                *)
(*                                                                           *)
(* The exporter exports one dogu at a time, to everyone.  A step takes one   *)
(* call; which files of a directory differ, and are copied, is left out.     *)

CONSTANTS
    Dogus,          \* the dogus of the source system
    SyncExcluded,   \* those not available in this system, or excluded by the user
    Cas,            \* the dogu that the preflight check has exported
    Dirs,           \* names of directories in volumes, the ignored ones left out
    Volumes         \* the directories in the volume of each dogu in the target system

ASSUME DataSyncAssumption ==
    /\ SyncExcluded \subseteq Dogus /\ Cas \in Dogus
    /\ Volumes \in [Dogus -> SUBSET Dirs]

VARIABLES
    sync,           \* SyncData: "off", "fetch", "next" dogu,
                    \* "list" and copy the "dirs" of the dogu, "done"
    todo,           \* the dogus it has not come to
    dogu,           \* the dogu it is at
    dirs,           \* the directories of this dogu that it has not come to
    syncFailed,     \* result: what failed, the dogus and "systemInfo"
    exported,       \* the dogu that the exporter exports
    copied          \* what this job copied into each: "no", "part", or whose data

syncVars == <<sync, todo, dogu, dirs, syncFailed, exported, copied>>

Places == Dogus \X Dirs

SyncTypeOK ==
    /\ sync \in {"off", "fetch", "next", "list", "dirs", "done"}
    /\ todo \subseteq Dogus /\ dogu \in Dogus
    /\ dirs \subseteq Volumes[dogu]
    /\ syncFailed \subseteq Dogus \cup {"systemInfo"}
    /\ exported \in Dogus
    /\ copied \in [Places -> Dogus \cup {"no", "part"}]
    /\ \A p \in Places : copied[p] # "no" => p[2] \in Volumes[p[1]] /\ p[1] \notin SyncExcluded

SyncInit ==
    /\ sync = "off" /\ todo = {} /\ dirs = {} /\ syncFailed = {}
    /\ dogu = (CHOOSE d \in Dogus : TRUE) /\ exported \in Dogus
    /\ copied = [p \in Places |-> "no"]

\* A new job knows nothing of the one before.
SyncBegins ==
    /\ sync' = "fetch" /\ todo' = {} /\ dirs' = {} /\ syncFailed' = {}
    /\ copied' = [p \in Places |-> "no"]
    /\ UNCHANGED <<dogu, exported>>

GetSystemInfo ==
    /\ sync = "fetch"
    /\ \/ sync' = "next" /\ todo' = Dogus /\ UNCHANGED syncFailed
       \/ sync' = "done" /\ syncFailed' = {"systemInfo"} /\ UNCHANGED todo
    /\ UNCHANGED <<dogu, dirs, exported, copied>>

SkipExcluded ==
    /\ sync = "next"
    /\ \E d \in todo \cap SyncExcluded : todo' = todo \ {d}
    /\ UNCHANGED <<sync, dogu, dirs, syncFailed, exported, copied>>

\* Mutation: when the exporter refuses the dogu the sync goes on all the same.
SetExportDoguUnchecked ==
    /\ sync = "next"
    /\ \E d \in todo \ SyncExcluded :
          /\ todo' = todo \ {d} /\ dogu' = d
          /\ exported' \in {exported, d}
          /\ sync' = "list"
    /\ UNCHANGED <<dirs, syncFailed, copied>>

\* A call that fails may have had its effect; the next dogu is taken.
SetExportDogu ==
    /\ sync = "next"
    /\ \E d \in todo \ SyncExcluded :
          /\ todo' = todo \ {d} /\ dogu' = d
          /\ \/ exported' = d /\ sync' = "list" /\ UNCHANGED syncFailed
             \/ /\ exported' \in {exported, d}
                /\ syncFailed' = syncFailed \cup {d} /\ UNCHANGED sync
    /\ UNCHANGED <<dirs, copied>>

\* A directory that the target system does not have is not copied, and not missed.
GetSubDirs ==
    /\ sync = "list"
    /\ \/ sync' = "dirs" /\ dirs' = Volumes[dogu] /\ UNCHANGED syncFailed
       \/ sync' = "next" /\ syncFailed' = syncFailed \cup {dogu} /\ UNCHANGED dirs
    /\ UNCHANGED <<todo, dogu, exported, copied>>

\* SyncDoguDir runs rsync, which may fail at its start or half way.
SyncDoguDir ==
    /\ sync = "dirs"
    /\ \E dir \in dirs :
          /\ dirs' = dirs \ {dir}
          /\ \/ copied' = [copied EXCEPT ![<<dogu, dir>>] = exported] /\ UNCHANGED syncFailed
             \/ /\ \E c \in {copied[<<dogu, dir>>], "part"} :
                      copied' = [copied EXCEPT ![<<dogu, dir>>] = c]
                /\ syncFailed' = syncFailed \cup {dogu}
    /\ UNCHANGED <<sync, todo, dogu, exported>>

DoguIsDone ==
    /\ sync = "dirs" /\ dirs = {}
    /\ sync' = "next"
    /\ UNCHANGED <<todo, dogu, dirs, syncFailed, exported, copied>>

SyncEnds ==
    /\ sync = "next" /\ todo = {}
    /\ sync' = "done"
    /\ UNCHANGED <<todo, dogu, dirs, syncFailed, exported, copied>>

SyncStops == sync' = "off" /\ UNCHANGED <<todo, dogu, dirs, syncFailed, exported, copied>>

SyncNext ==
    \/ GetSystemInfo \/ SkipExcluded \/ SetExportDogu \/ GetSubDirs \/ SyncDoguDir
    \/ DoguIsDone \/ SyncEnds

-----------------------------------------------------------------------------
(* Somebody else: a job that a migration left behind, another importer, or   *)
(* the coordinator, which tests its connection whenever it starts.           *)

OtherSetsExportDogu ==
    /\ exported' \in Dogus \ {exported}
    /\ UNCHANGED <<sync, todo, dogu, dirs, syncFailed, copied>>

\* The preflight check also goes on when the exporter refuses the dogu.
PreflightSetsExportDogu ==
    /\ exported' = Cas
    /\ UNCHANGED <<sync, todo, dogu, dirs, syncFailed, copied>>

\* What SyncData promises when it returns nil: the directories of the dogus that
\* are not excluded hold what the source system has, each of its own dogu.
AllCopied ==
    \A d \in Dogus \ SyncExcluded : \A dir \in Volumes[d] : copied[<<d, dir>>] = d

=============================================================================
