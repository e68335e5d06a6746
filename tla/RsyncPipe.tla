------------------------------- MODULE RsyncPipe -------------------------------
(* migration/sync/rsync.go: SyncDoguDir starts rsync and copies what it      *)
(* prints into the log.  Each of its two outputs is a pipe of limited size   *)
(* that a goroutine reads line by line; rsync blocks on a pipe that is full. *)
(* A bufio.Scanner ends at a line of more than 64 KiB, and the goroutine     *)
(* with it; the pipe stays open.                                             *)
EXTENDS Naturals

CONSTANTS
    PipeSize,       \* lines that fit into a pipe
    MaxLines        \* bound: lines that one rsync prints

ASSUME PipeAssumption == PipeSize \in Nat \ {0} /\ MaxLines \in Nat

Streams == {"stdout", "stderr"}

VARIABLES
    syncer,         \* SyncDoguDir: "off", "wgWait", "cmdWait", "ok", "failed"
    rsync,          \* the process: "none", "running", "ok", "failed"
    writing,        \* the stream it is writing a line to, or "none"
    lines,          \* lines it may still print
    pipe,           \* lines in each pipe
    reader          \* each goroutine: "none", "reading", "eof", "tooLong"

pipeVars == <<syncer, rsync, writing, lines, pipe, reader>>

PipeTypeOK ==
    /\ syncer \in {"off", "wgWait", "cmdWait", "ok", "failed"}
    /\ rsync \in {"none", "running", "ok", "failed"}
    /\ writing \in Streams \cup {"none"}
    /\ lines \in 0 .. MaxLines
    /\ pipe \in [Streams -> 0 .. PipeSize]
    /\ reader \in [Streams -> {"none", "reading", "eof", "tooLong"}]

PipeInit ==
    /\ syncer = "off" /\ rsync = "none" /\ writing = "none" /\ lines = 0
    /\ pipe = [s \in Streams |-> 0] /\ reader = [s \in Streams |-> "none"]

-----------------------------------------------------------------------------
(* SyncDoguDir and its two goroutines. *)

StartsRsync ==
    /\ pipe' = [s \in Streams |-> 0] /\ writing' = "none"
    /\ \/ /\ syncer' = "wgWait" /\ rsync' = "running" /\ lines' = MaxLines
          /\ reader' = [s \in Streams |-> "reading"]
       \/ /\ syncer' = "failed" /\ rsync' = "none" /\ lines' = 0
          /\ reader' = [s \in Streams |-> "none"]

\* Mutation: one goroutine reads the two pipes, stdout first.
ReadsOneAfterTheOther(s) ==
    /\ reader[s] = "reading" /\ pipe[s] > 0
    /\ s = "stderr" => reader["stdout"] # "reading"
    /\ pipe' = [pipe EXCEPT ![s] = @ - 1]
    /\ \E r \in {"reading", "tooLong"} : reader' = [reader EXCEPT ![s] = r]
    /\ UNCHANGED <<syncer, rsync, writing, lines>>

\* A line, of which every one may be too long.
ReadsLine(s) ==
    /\ reader[s] = "reading" /\ pipe[s] > 0
    /\ pipe' = [pipe EXCEPT ![s] = @ - 1]
    /\ \E r \in {"reading", "tooLong"} : reader' = [reader EXCEPT ![s] = r]
    /\ UNCHANGED <<syncer, rsync, writing, lines>>

ReadsEnd(s) ==
    /\ reader[s] = "reading" /\ pipe[s] = 0 /\ rsync # "running"
    /\ reader' = [reader EXCEPT ![s] = "eof"]
    /\ UNCHANGED <<syncer, rsync, writing, lines, pipe>>

\* Mutation: cmd.Wait, which closes the pipes, comes before wg.Wait.
WaitsForNobody ==
    /\ syncer = "wgWait"
    /\ syncer' = "cmdWait"
    /\ UNCHANGED <<rsync, writing, lines, pipe, reader>>

WaitsForReaders ==
    /\ syncer = "wgWait" /\ \A s \in Streams : reader[s] # "reading"
    /\ syncer' = "cmdWait"
    /\ UNCHANGED <<rsync, writing, lines, pipe, reader>>

WaitsForRsync ==
    /\ syncer = "cmdWait" /\ rsync \in {"ok", "failed"}
    /\ syncer' = rsync
    /\ UNCHANGED <<rsync, writing, lines, pipe, reader>>

-----------------------------------------------------------------------------
(* rsync. *)

BeginsLine ==
    /\ rsync = "running" /\ writing = "none" /\ lines > 0
    /\ writing' \in Streams /\ lines' = lines - 1
    /\ UNCHANGED <<syncer, rsync, pipe, reader>>

WritesLine ==
    /\ writing \in Streams /\ pipe[writing] < PipeSize
    /\ pipe' = [pipe EXCEPT ![writing] = @ + 1] /\ writing' = "none"
    /\ UNCHANGED <<syncer, rsync, lines, reader>>

Exits ==
    /\ rsync = "running" /\ writing = "none"
    /\ rsync' \in {"ok", "failed"}
    /\ UNCHANGED <<syncer, writing, lines, pipe, reader>>

-----------------------------------------------------------------------------

ReaderStep(s) == ReadsLine(s) \/ ReadsEnd(s)
SyncerStep == WaitsForReaders \/ WaitsForRsync
RsyncStep == BeginsLine \/ WritesLine \/ Exits
PipeNext == SyncerStep \/ RsyncStep \/ \E s \in Streams : ReaderStep(s)

\* SyncDoguDir has returned, or the pod has ended, and rsync with it.
SyncDoguDirIsOver ==
    /\ syncer' = "off" /\ rsync' = "none" /\ writing' = "none" /\ lines' = 0
    /\ pipe' = [s \in Streams |-> 0] /\ reader' = [s \in Streams |-> "none"]

=============================================================================
