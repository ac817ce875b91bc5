-------------------------------- MODULE Disk --------------------------------
(***************************************************************************)
(* A disk controller (disk_real.rs): the memory-mapped registers shared,   *)
(* under one mutex, by the CPU thread, the worker thread that executes     *)
(* disk commands and the file watcher's callback; and the host directory   *)
(* that stands for the drive.  start() runs on the CPU thread and looks at *)
(* the directory itself while the watcher is already active.               *)
(*                                                                         *)
(* Everything done while holding the mutex is one step.  The directory is  *)
(* read before the mutex is taken, in two host calls.  The contents of the *)
(* data buffer and of the disk files are left out.                         *)
(***************************************************************************)
EXTENDS Integers, Sequences, FiniteSets

CONSTANTS
    Files,       \* the disk files that the user moves in and out
    Blocks,      \* their sizes in blocks; 0: not recognised as a disk
    NoFile,      \* get_file_name found no single file
    MaxBlock,    \* the largest 32-bit number
    ChangesDuringStart,  \* may the user change the disk before start returns?
    Backlog      \* bound on the unhandled events and commands, and on interrupts

ASSUME MaxBlockAssumption == MaxBlock \in Nat
ASSUME FilesAssumption ==
    IsFiniteSet(Files) /\ Blocks \in [Files -> 0..MaxBlock] /\ NoFile \notin Files
ASSUME ChangesAssumption == ChangesDuringStart \in BOOLEAN
ASSUME BacklogAssumption == Backlog \in Nat \ {0}

VARIABLES
    dir,               \* the files in the disk directory
    events,            \* watcher events that are not handled yet
    look,              \* the two callers of watcher_iteration
    status,            \* the status byte
    blocks_available,
    block_to_access,
    commands,          \* DiskCommands sent to the worker
    worker,            \* the worker thread
    phase,             \* start and stop, on the CPU thread
    ints,              \* interrupts sent and not yet received by the CPU
    cpu,               \* the guest: running, or in its disk handler
    known              \* the status byte the guest's handler last loaded

shared == <<status, blocks_available, block_to_access>>
guest == <<cpu, known>>
vars == <<dir, events, look, shared, commands, worker, phase, ints, guest>>

Callers == {"start", "watcher"}
Idle == [at |-> "idle", file |-> NoFile, blocks |-> 0]
Looks == [at : {"idle", "named", "sized"}, file : Files \cup {NoFile},
          blocks : 0..MaxBlock]
Status == [C : BOOLEAN, F : BOOLEAN, S : BOOLEAN, B : BOOLEAN]
Commands == [write : BOOLEAN, sustained : BOOLEAN]
JoinThread == [join |-> TRUE]
DiskCommand == Commands \cup {JoinThread}

(* Bounds the events and commands that nobody has handled yet. *)
HasRoom == events + Len(commands) < Backlog

TypeOK ==
    /\ dir \in SUBSET Files
    /\ events \in Nat
    /\ look \in [Callers -> Looks]
    /\ status \in Status
    /\ blocks_available \in 0..MaxBlock
    /\ block_to_access \in 0..MaxBlock
    /\ commands \in Seq(DiskCommand)
    /\ worker \in {"off", "on", "joined"}
    /\ phase \in {"new", "watching", "running", "joining", "unwatching", "stopped"}
    /\ ints \in Nat
    /\ cpu \in {"run", "handler"}
    /\ known \in Status

Init ==
    /\ dir \in SUBSET Files
    /\ events = 0
    /\ look = [c \in Callers |-> Idle]
    /\ status = [C |-> FALSE, F |-> FALSE, S |-> FALSE, B |-> FALSE]
    /\ blocks_available = 0
    /\ block_to_access = 0
    /\ commands = <<>>
    /\ worker = "off"
    /\ phase = "new"
    /\ ints = 0
    /\ cpu = "run"
    /\ known = status

-----------------------------------------------------------------------------
(***************************************************************************)
(* The status macros: every update of the status sends an interrupt.  ints *)
(* saturates at Backlog: nobody receives them once the CPU has stopped.    *)
(***************************************************************************)
Return_with_status(st) ==
    /\ status' = st
    /\ ints' = IF ints < Backlog THEN ints + 1 ELSE ints

Finished(st) == [st EXCEPT !.F = ~@]
Successful(st) == Finished([st EXCEPT !.S = TRUE, !.B = FALSE])
Failed(st) == Finished([st EXCEPT !.S = FALSE, !.B = FALSE])
Bad(st) == Finished([st EXCEPT !.S = FALSE, !.B = TRUE])
Connected(st) == [st EXCEPT !.C = TRUE]
Disconnected(st) == [st EXCEPT !.C = FALSE]

-----------------------------------------------------------------------------
(***************************************************************************)
(* The host directory and the watcher.                                     *)
(***************************************************************************)
Single == Cardinality(dir) = 1
Get_file_name == IF Single THEN CHOOSE f \in Files : dir = {f} ELSE NoFile

MayChange == ChangesDuringStart \/ phase # "watching"
(* Mutant: events that arrive during a callback are lost. *)
NotifiedWhenIdle == IF look["watcher"].at # "idle" THEN events ELSE events + 1

Notified == IF phase \in {"new", "stopped"} THEN events ELSE events + 1

Insert(f) ==
    /\ MayChange
    /\ HasRoom
    /\ f \notin dir
    /\ dir' = dir \cup {f}
    /\ events' = Notified
    /\ UNCHANGED <<look, shared, commands, worker, phase, ints, guest>>

Remove(f) ==
    /\ MayChange
    /\ HasRoom
    /\ f \in dir
    /\ dir' = dir \ {f}
    /\ events' = Notified
    /\ UNCHANGED <<look, shared, commands, worker, phase, ints, guest>>

Name(caller) == look' = [look EXCEPT ![caller] =
                           [at |-> "named", file |-> Get_file_name, blocks |-> 0]]

(* The watcher thread calls back for the next event. *)
Callback ==
    /\ events > 0
    /\ look["watcher"].at = "idle"
    /\ phase # "stopped"
    /\ events' = events - 1
    /\ Name("watcher")
    /\ UNCHANGED <<dir, shared, commands, worker, phase, ints, guest>>

(* fs::metadata: the named file may be gone by now, or not be a disk. *)
Size(caller) ==
    /\ look[caller].at = "named"
    /\ look' = [look EXCEPT ![caller].at = "sized",
                            ![caller].blocks =
                               IF look[caller].file \in dir
                                 THEN Blocks[look[caller].file] ELSE 0]
    /\ UNCHANGED <<dir, events, shared, commands, worker, phase, ints, guest>>

(* Mutant: a disconnection is not announced. *)
UpdateSilently(caller) ==
    /\ look[caller].at = "sized"
    /\ look' = [look EXCEPT ![caller] = Idle]
    /\ blocks_available' = look[caller].blocks
    /\ IF look[caller].blocks > 0
         THEN Return_with_status(Connected(status))
         ELSE status' = Disconnected(status) /\ UNCHANGED ints
    /\ phase' = IF caller = "start" THEN "running" ELSE phase
    /\ UNCHANGED <<dir, events, block_to_access, commands, worker, guest>>

(* Mutant: blocks_available survives a disconnection. *)
UpdateKeepsBlocks(caller) ==
    /\ look[caller].at = "sized"
    /\ look' = [look EXCEPT ![caller] = Idle]
    /\ IF look[caller].blocks > 0
         THEN /\ blocks_available' = look[caller].blocks
              /\ Return_with_status(Connected(status))
         ELSE /\ Return_with_status(Disconnected(status))
              /\ UNCHANGED blocks_available
    /\ phase' = IF caller = "start" THEN "running" ELSE phase
    /\ UNCHANGED <<dir, events, block_to_access, commands, worker, guest>>

(* The locked part of watcher_iteration; start returns after its own. *)
Update(caller) ==
    /\ look[caller].at = "sized"
    /\ look' = [look EXCEPT ![caller] = Idle]
    /\ blocks_available' = look[caller].blocks
    /\ Return_with_status(IF look[caller].blocks > 0 THEN Connected(status)
                                                     ELSE Disconnected(status))
    /\ phase' = IF caller = "start" THEN "running" ELSE phase
    /\ UNCHANGED <<dir, events, block_to_access, commands, worker, guest>>

-----------------------------------------------------------------------------
(***************************************************************************)
(* The worker thread: one command, start to end under the mutex.           *)
(***************************************************************************)
Receive(cmd) ==
    /\ worker = "on"
    /\ commands # <<>>
    /\ Head(commands) = cmd
    /\ commands' = Tail(commands)

WorkerRejectsDisconnected(cmd) ==
    /\ Receive(cmd)
    /\ ~status.C
    /\ Return_with_status(Disconnected(status))
    /\ UNCHANGED <<dir, events, look, blocks_available, block_to_access,
                   worker, phase, guest>>

WorkerRejectsAddress(cmd) ==
    /\ Receive(cmd)
    /\ status.C
    /\ block_to_access >= blocks_available
    /\ Return_with_status(Bad(status))
    /\ UNCHANGED <<dir, events, look, blocks_available, block_to_access,
                   worker, phase, guest>>

Accepts(cmd) == Receive(cmd) /\ status.C /\ block_to_access < blocks_available

(* The transfer needs a single file; a read must lie inside it. *)
CanTransfer(cmd) ==
    /\ Get_file_name # NoFile
    /\ ~cmd.write => block_to_access < Blocks[Get_file_name]

(* Mutant: the bounds check of the block address is missing. *)
WorkerSucceedsUnchecked(cmd) ==
    /\ Receive(cmd) /\ status.C
    /\ CanTransfer([cmd EXCEPT !.write = TRUE])
    /\ block_to_access' = IF cmd.sustained THEN block_to_access + 1
                                           ELSE block_to_access
    /\ Return_with_status(Successful(status))
    /\ UNCHANGED <<dir, events, look, blocks_available, worker, phase, guest>>

WorkerSucceeds(cmd) ==
    /\ Accepts(cmd)
    /\ CanTransfer(cmd)
    /\ block_to_access' = IF cmd.sustained THEN block_to_access + 1
                                           ELSE block_to_access
    /\ Return_with_status(Successful(status))
    /\ UNCHANGED <<dir, events, look, blocks_available, worker, phase, guest>>

(* Any of the host's file operations may fail. *)
WorkerFails(cmd) ==
    /\ Accepts(cmd)
    /\ Return_with_status(Failed(status))
    /\ UNCHANGED <<dir, events, look, blocks_available, block_to_access,
                   worker, phase, guest>>

WorkerJoins ==
    /\ Receive(JoinThread)
    /\ worker' = "joined"
    /\ UNCHANGED <<dir, events, look, shared, phase, ints, guest>>

Worker ==
    \/ \E cmd \in Commands :
         \/ WorkerRejectsDisconnected(cmd)
         \/ WorkerRejectsAddress(cmd)
         \/ WorkerSucceeds(cmd)
         \/ WorkerFails(cmd)
    \/ WorkerJoins

-----------------------------------------------------------------------------
(***************************************************************************)
(* The CPU thread: start, stop and the guest program.                      *)
(***************************************************************************)
Start ==
    /\ phase = "new"
    /\ worker' = "on"
    /\ phase' = "watching"
    /\ UNCHANGED <<dir, events, look, shared, commands, ints, guest>>

StartLooks ==
    /\ phase = "watching"
    /\ look["start"].at = "idle"
    /\ Name("start")
    /\ UNCHANGED <<dir, events, shared, commands, worker, phase, ints, guest>>

Stop ==
    /\ phase = "running"
    /\ commands' = Append(commands, JoinThread)
    /\ phase' = "joining"
    /\ UNCHANGED <<dir, events, look, shared, worker, ints, guest>>

(* Mutant: stop does not wait for the worker. *)
WorkerNotJoined ==
    /\ phase = "joining"
    /\ phase' = "unwatching"
    /\ UNCHANGED <<dir, events, look, shared, commands, worker, ints, guest>>

(* Mutant: also waits until the watcher has nothing left to handle. *)
WorkerJoinedWhenQuiet ==
    /\ phase = "joining"
    /\ worker = "joined"
    /\ events = 0
    /\ phase' = "unwatching"
    /\ UNCHANGED <<dir, events, look, shared, commands, worker, ints, guest>>

WorkerJoined ==
    /\ phase = "joining"
    /\ worker = "joined"
    /\ phase' = "unwatching"
    /\ UNCHANGED <<dir, events, look, shared, commands, worker, ints, guest>>

(* unwatch is answered by the watcher thread, between two callbacks. *)
Unwatch ==
    /\ phase = "unwatching"
    /\ look["watcher"].at = "idle"
    /\ phase' = "stopped"
    /\ events' = 0
    /\ UNCHANGED <<dir, look, shared, commands, worker, ints, guest>>

Running == phase = "running" /\ cpu = "run"

StoreAddress(block) ==
    /\ Running
    /\ block_to_access' = block
    /\ UNCHANGED <<dir, events, look, status, blocks_available, commands,
                   worker, phase, ints, guest>>

StoreCommand(cmd) ==
    /\ Running
    /\ HasRoom
    /\ commands' = Append(commands, cmd)
    /\ UNCHANGED <<dir, events, look, shared, worker, phase, ints, guest>>

StoreBadCommand ==
    /\ Running
    /\ HasRoom
    /\ Return_with_status(Bad(status))
    /\ UNCHANGED <<dir, events, look, blocks_available, block_to_access,
                   commands, worker, phase, guest>>

TakeInterrupt ==
    /\ Running
    /\ ints > 0
    /\ ints' = ints - 1
    /\ cpu' = "handler"
    /\ UNCHANGED <<dir, events, look, shared, commands, worker, phase, known>>

(* Two interrupts that meet in the CPU's latch become one. *)
Coalesce ==
    /\ phase = "running"
    /\ ints > 1
    /\ ints' = ints - 1
    /\ UNCHANGED <<dir, events, look, shared, commands, worker, phase, guest>>

LoadStatus ==
    /\ phase = "running"
    /\ cpu = "handler"
    /\ known' = status
    /\ cpu' = "run"
    /\ UNCHANGED <<dir, events, look, shared, commands, worker, phase, ints>>

Guest ==
    \/ \E block \in 0..MaxBlock : StoreAddress(block)
    \/ \E cmd \in Commands : StoreCommand(cmd)
    \/ StoreBadCommand
    \/ TakeInterrupt
    \/ Coalesce
    \/ LoadStatus

CpuThread == Start \/ StartLooks \/ Stop \/ WorkerJoined \/ Unwatch \/ Guest

Terminated == phase = "stopped" /\ UNCHANGED vars

Next ==
    \/ CpuThread
    \/ Worker
    \/ Callback
    \/ \E caller \in Callers : Size(caller)
    \/ \E caller \in Callers : Update(caller)
    \/ \E f \in Files : Insert(f)
    \/ \E f \in Files : Remove(f)
    \/ Terminated

(***************************************************************************)
(* Threads are scheduled; stop() runs to its end once called; the user and *)
(* the guest program may do nothing.  Fairness of Unwatch is strong: the   *)
(* watcher's event loop handles the request between two callbacks even     *)
(* when there is always another event.                                     *)
(***************************************************************************)
Fairness ==
    /\ WF_vars(Worker)
    /\ WF_vars(Callback)
    /\ \A caller \in Callers : WF_vars(Size(caller)) /\ WF_vars(Update(caller))
    /\ WF_vars(Start)
    /\ WF_vars(StartLooks)
    /\ WF_vars(WorkerJoined)
    /\ SF_vars(Unwatch)

Spec == Init /\ [][Next]_vars /\ Fairness

-----------------------------------------------------------------------------
(***************************************************************************)
(* Properties.                                                             *)
(***************************************************************************)

(* A guest that loads the status after every interrupt misses no update:   *)
(* when no interrupt is outstanding, the byte it loaded last is the        *)
(* current one (disk_real.rs:73-79; disks.md:45 "every time the disk       *)
(* status byte is updated, an interrupt will be sent to the CPU").         *)
NoMissedStatus ==
    ints = 0 /\ cpu = "run" => known = status

MountedBlocks == IF Get_file_name = NoFile THEN 0 ELSE Blocks[Get_file_name]

(* When the user has stopped changing the directory and every event is     *)
(* handled, the drive shows what the directory holds: a single recognised  *)
(* file is mounted with its size, anything else is disconnected with no    *)
(* blocks (disk_real.rs:422-479; disks.md:7).                              *)
MountMatchesDirectory ==
    (/\ phase \in {"running", "joining", "unwatching"}
     /\ events = 0
     /\ \A caller \in Callers : look[caller].at = "idle")
    => /\ status.C <=> MountedBlocks > 0
       /\ blocks_available = MountedBlocks

(* stop() loses no command: when it returns, the worker has executed every *)
(* command queued before it and has ended (disk_real.rs:167-182, 221-229). *)
StopDrainsCommands ==
    phase \in {"unwatching", "stopped"} => worker = "joined" /\ commands = <<>>

(* A drive without a disk has no blocks, whichever thread wrote last       *)
(* (disk_real.rs:433, 462, 472; disks.md "If no disk is connected, then    *)
(* blocks available will be zero").                                        *)
DisconnectedIsEmpty == status.C <=> blocks_available > 0

(* stop() returns: the worker gets through its queue to JoinThread and the *)
(* watcher lets go, however often the directory changes meanwhile          *)
(* (disk_real.rs:221-235).                                                 *)
StopReturns == phase = "joining" ~> phase = "stopped"
-----------------------------------------------------------------------------
(***************************************************************************)
(* The inductive invariants behind the safety properties.                  *)
(***************************************************************************)
JoinIsLast ==
    \A k \in 1..Len(commands) : commands[k] = JoinThread <=> k = Len(commands)

(* start looks at the directory only between spawning its threads and      *)
(* returning.                                                              *)
StartInv == phase # "watching" => look["start"].at = "idle"

StopInv ==
    /\ phase = "new" => worker = "off"
    /\ phase \in {"watching", "running"} => worker = "on"
    /\ phase \in {"new", "watching", "running"} =>
         \A k \in 1..Len(commands) : commands[k] # JoinThread
    /\ phase = "joining" =>
         \/ worker = "on" /\ commands # <<>> /\ JoinIsLast
         \/ worker = "joined" /\ commands = <<>>
    /\ phase \in {"unwatching", "stopped"} => worker = "joined" /\ commands = <<>>

(* What a look at the directory has seen is still true. *)
Current(l) ==
    /\ l.at = "named" => l.file = Get_file_name
    /\ l.at = "sized" => l.blocks = MountedBlocks

Mounted == (status.C <=> MountedBlocks > 0) /\ blocks_available = MountedBlocks

(* Before start returns, nothing changes; afterwards, the last event to be *)
(* handled makes the watcher look at the directory as it is.               *)
MountInv ==
    /\ phase \in {"new", "watching"} =>
         events = 0 /\ look["watcher"].at = "idle" /\ Current(look["start"])
    /\ phase \in {"running", "joining", "unwatching"} /\ events = 0 =>
         /\ Current(look["watcher"])
         /\ look["watcher"].at = "idle" => Mounted
=============================================================================
