----------------------------- MODULE DiskProofs -----------------------------
(***************************************************************************)
(* Proofs about the disk controller.                                       *)
(***************************************************************************)
EXTENDS Disk, FiniteSetTheorems, SequenceTheorems, TLAPS

(* Appending to a queue: its type, length and elements. *)
LEMMA AppendFacts ==
  ASSUME NEW S, NEW s \in Seq(S), NEW x \in S
  PROVE  /\ Append(s, x) \in Seq(S)
         /\ Append(s, x) # <<>>
         /\ Len(Append(s, x)) = Len(s) + 1
         /\ \A k \in 1..Len(s) : Append(s, x)[k] = s[k]
         /\ Append(s, x)[Len(s) + 1] = x
  OBVIOUS

(* Taking the head off a non-empty queue. *)
LEMMA TailFacts ==
  ASSUME NEW S, NEW s \in Seq(S), s # <<>>
  PROVE  /\ Tail(s) \in Seq(S)
         /\ Head(s) \in S
         /\ Head(s) = s[1]
         /\ Len(s) \in Nat \ {0}
         /\ Len(Tail(s)) = Len(s) - 1
         /\ \A k \in 1..Len(Tail(s)) : Tail(s)[k] = s[k + 1]
  OBVIOUS

(* JoinThread is not a command of the guest. *)
LEMMA JoinIsNoCommand == JoinThread \notin Commands
  BY DEF JoinThread, Commands

(* The constants, in the form the proofs use. *)
LEMMA ConstantFacts ==
  /\ MaxBlock \in Nat
  /\ Blocks \in [Files -> 0..MaxBlock]
  /\ NoFile \notin Files
  /\ Backlog \in Nat /\ Backlog > 0
  BY MaxBlockAssumption, FilesAssumption, BacklogAssumption

(***************************************************************************)
(* Types.                                                                  *)
(***************************************************************************)

(* get_file_name answers with a file of the directory or with NoFile. *)
LEMMA FileNameType ==
  ASSUME dir \in SUBSET Files
  PROVE  /\ Get_file_name \in Files \cup {NoFile}
         /\ Get_file_name # NoFile => dir = {Get_file_name}
<1>1. CASE Single
  <2>1. IsFiniteSet(dir)
    BY FilesAssumption, FS_Subset
  <2>2. \E f : dir = {f}
    BY <1>1, <2>1, FS_Singleton DEF Single
  <2>3. PICK f \in Files : dir = {f}
    BY <2>2
  <2>4. Get_file_name = CHOOSE g \in Files : dir = {g}
    BY <1>1 DEF Get_file_name
  <2>5. Get_file_name \in Files /\ dir = {Get_file_name}
    BY <2>3, <2>4
  <2>. QED
    BY <2>5, ConstantFacts
<1>2. CASE ~Single
  BY <1>2 DEF Get_file_name
<1>. QED
  BY <1>1, <1>2

(* The status macros yield a status byte. *)
LEMMA StatusType ==
  ASSUME NEW st \in Status
  PROVE  /\ Successful(st) \in Status /\ Failed(st) \in Status
         /\ Bad(st) \in Status
         /\ Connected(st) \in Status /\ Disconnected(st) \in Status
  BY DEF Successful, Failed, Bad, Connected, Disconnected, Finished, Status

(* An update of the status. *)
LEMMA ReturnType ==
  ASSUME ints \in Nat, NEW st \in Status, Return_with_status(st)
  PROVE  status' \in Status /\ ints' \in Nat /\ ints' # 0
  BY ConstantFacts DEF Return_with_status

(* Init yields values of the right types. *)
LEMMA InitType == Init => TypeOK
  BY ConstantFacts, EmptySeq
     DEF Init, TypeOK, Idle, Looks, Callers, Status

(* The watcher's and start's looks at the directory preserve types. *)
LEMMA LookType ==
  ASSUME TypeOK,
         \/ Callback
         \/ StartLooks
         \/ \E caller \in Callers : Size(caller) \/ Update(caller)
  PROVE  TypeOK'
<1>1. Get_file_name \in Files \cup {NoFile} /\ 0 \in 0..MaxBlock
  BY FileNameType, ConstantFacts DEF TypeOK
<1>2. ASSUME NEW caller \in Callers, Name(caller)
      PROVE  look' \in [Callers -> Looks]
  BY <1>1, <1>2 DEF Name, TypeOK, Looks
<1>3. CASE Callback
  BY <1>2, <1>3 DEF Callback, TypeOK, Callers, shared, guest
<1>4. CASE StartLooks
  BY <1>2, <1>4 DEF StartLooks, TypeOK, Callers, shared, guest
<1>5. ASSUME NEW caller \in Callers, Size(caller)
      PROVE  TypeOK'
  <2>1. (IF look[caller].file \in dir THEN Blocks[look[caller].file] ELSE 0)
          \in 0..MaxBlock
    BY ConstantFacts DEF TypeOK
  <2>2. look' \in [Callers -> Looks]
    BY <1>5, <2>1 DEF Size, TypeOK, Looks
  <2>. QED
    BY <1>5, <2>2 DEF Size, TypeOK, shared, guest
<1>6. ASSUME NEW caller \in Callers, Update(caller)
      PROVE  TypeOK'
  <2>1. look' \in [Callers -> Looks]
    BY <1>1, <1>6 DEF Update, TypeOK, Looks, Idle
  <2>2. status' \in Status /\ ints' \in Nat
    BY <1>6, StatusType, ReturnType DEF Update, TypeOK
  <2>3. blocks_available' \in 0..MaxBlock
    BY <1>6 DEF Update, TypeOK, Looks
  <2>. QED
    BY <1>6, <2>1, <2>2, <2>3 DEF Update, TypeOK, guest
<1>. QED
  BY <1>3, <1>4, <1>5, <1>6

(* The worker's steps preserve types: the bounds check keeps the block     *)
(* address of a sustained command within 32 bits.                          *)
LEMMA WorkerType ==
  ASSUME TypeOK, Worker
  PROVE  TypeOK'
<1>1. ASSUME NEW cmd, Receive(cmd) PROVE commands' \in Seq(DiskCommand)
  BY <1>1, TailFacts DEF Receive, TypeOK
<1>2. ASSUME NEW cmd \in Commands,
             \/ WorkerRejectsDisconnected(cmd)
             \/ WorkerRejectsAddress(cmd)
             \/ WorkerFails(cmd)
      PROVE  TypeOK'
  <2>1. status' \in Status /\ ints' \in Nat
    BY <1>2, StatusType, ReturnType
       DEF TypeOK, WorkerRejectsDisconnected, WorkerRejectsAddress, WorkerFails
  <2>2. commands' \in Seq(DiskCommand)
    BY <1>1, <1>2
       DEF WorkerRejectsDisconnected, WorkerRejectsAddress, WorkerFails, Accepts
  <2>. QED
    BY <1>2, <2>1, <2>2
       DEF TypeOK, WorkerRejectsDisconnected, WorkerRejectsAddress, WorkerFails,
           guest
<1>3. ASSUME NEW cmd \in Commands, WorkerSucceeds(cmd)
      PROVE  TypeOK'
  <2>1. status' \in Status /\ ints' \in Nat
    BY <1>3, StatusType, ReturnType DEF TypeOK, WorkerSucceeds
  <2>2. block_to_access' \in 0..MaxBlock
    BY <1>3, ConstantFacts DEF TypeOK, WorkerSucceeds, Accepts
  <2>3. commands' \in Seq(DiskCommand)
    BY <1>1, <1>3 DEF WorkerSucceeds, Accepts
  <2>. QED
    BY <1>3, <2>1, <2>2, <2>3 DEF TypeOK, WorkerSucceeds, guest
<1>4. CASE WorkerJoins
  BY <1>1, <1>4 DEF WorkerJoins, TypeOK, shared, guest
<1>. QED
  BY <1>2, <1>3, <1>4 DEF Worker

(* The steps of start, stop and the guest preserve types. *)
LEMMA CpuThreadType ==
  ASSUME TypeOK, CpuThread
  PROVE  TypeOK'
<1>1. CASE Start
  BY <1>1 DEF Start, TypeOK, shared, guest
<1>2. CASE StartLooks
  BY <1>2, LookType
<1>3. CASE Stop
  <2>1. commands' \in Seq(DiskCommand)
    BY <1>3, AppendFacts DEF Stop, TypeOK, DiskCommand
  <2>. QED
    BY <1>3, <2>1 DEF Stop, TypeOK, shared, guest
<1>4. CASE WorkerJoined
  BY <1>4 DEF WorkerJoined, TypeOK, shared, guest
<1>5. CASE Unwatch
  BY <1>5 DEF Unwatch, TypeOK, shared, guest
<1>6. ASSUME NEW block \in 0..MaxBlock, StoreAddress(block)
      PROVE  TypeOK'
  BY <1>6 DEF StoreAddress, TypeOK, guest
<1>7. ASSUME NEW cmd \in Commands, StoreCommand(cmd)
      PROVE  TypeOK'
  <2>1. commands' \in Seq(DiskCommand)
    BY <1>7, AppendFacts DEF StoreCommand, TypeOK, DiskCommand
  <2>. QED
    BY <1>7, <2>1 DEF StoreCommand, TypeOK, shared, guest
<1>8. CASE StoreBadCommand
  <2>1. status' \in Status /\ ints' \in Nat
    BY <1>8, StatusType, ReturnType DEF StoreBadCommand, TypeOK
  <2>. QED
    BY <1>8, <2>1 DEF StoreBadCommand, TypeOK, guest
<1>9. CASE TakeInterrupt \/ Coalesce \/ LoadStatus
  BY <1>9 DEF TakeInterrupt, Coalesce, LoadStatus, TypeOK, shared, guest
<1>. QED
  BY <1>1, <1>2, <1>3, <1>4, <1>5, <1>6, <1>7, <1>8, <1>9 DEF CpuThread, Guest

(* Every step preserves types. *)
LEMMA NextType ==
  ASSUME TypeOK, [Next]_vars
  PROVE  TypeOK'
<1>1. ASSUME NEW f \in Files, Insert(f) \/ Remove(f)
      PROVE  TypeOK'
  BY <1>1 DEF Insert, Remove, Notified, TypeOK, shared, guest
<1>2. CASE UNCHANGED vars
  BY <1>2 DEF TypeOK, vars, shared, guest
<1>. QED
  BY <1>1, <1>2, LookType, WorkerType, CpuThreadType DEF Next, Terminated

(* The registers hold 32-bit numbers and the queues hold commands: in      *)
(* particular a sustained transfer never counts past the largest block     *)
(* number (disk_real.rs:360-362, 408-411).                                 *)
THEOREM TypeCorrect == Spec => []TypeOK
<1>1. TypeOK /\ [Next]_vars => TypeOK'
  BY NextType
<1>. QED
  BY InitType, <1>1, PTL DEF Spec

(***************************************************************************)
(* The status byte.                                                        *)
(***************************************************************************)
Untouched == UNCHANGED <<status, blocks_available, ints, cpu, known>>

(* An update by a macro: an interrupt is outstanding, and the connected    *)
(* flag still agrees with the number of blocks.                            *)
Announced ==
  /\ ints' # 0
  /\ UNCHANGED <<cpu, known>>
  /\ \/ UNCHANGED blocks_available /\ status'.C = status.C
     \/ status'.C <=> blocks_available' > 0

(* The macros do what they say to the connected flag. *)
LEMMA ConnectedFlag ==
  ASSUME NEW st \in Status
  PROVE  /\ Successful(st).C = st.C /\ Failed(st).C = st.C /\ Bad(st).C = st.C
         /\ Connected(st).C /\ ~Disconnected(st).C
  BY DEF Successful, Failed, Bad, Connected, Disconnected, Finished, Status

(* A step of the worker announces its result. *)
LEMMA WorkerAnnounces ==
  ASSUME TypeOK, Worker
  PROVE  Announced \/ Untouched
<1>. USE DEF TypeOK
<1>1. ASSUME NEW cmd \in Commands, WorkerRejectsDisconnected(cmd)
      PROVE  Announced
  <2>1. ints' # 0
    BY <1>1, StatusType, ReturnType DEF WorkerRejectsDisconnected
  <2>2. ~status.C /\ ~status'.C
    BY <1>1, ConnectedFlag DEF WorkerRejectsDisconnected, Return_with_status
  <2>3. status.C \in BOOLEAN /\ status'.C \in BOOLEAN
    BY <1>1, StatusType DEF WorkerRejectsDisconnected, Return_with_status, Status
  <2>. QED
    BY <1>1, <2>1, <2>2, <2>3 DEF WorkerRejectsDisconnected, Announced, guest
<1>2. ASSUME NEW cmd \in Commands,
             WorkerRejectsAddress(cmd) \/ WorkerSucceeds(cmd) \/ WorkerFails(cmd)
      PROVE  Announced
  <2>1. ints' # 0
    BY <1>2, StatusType, ReturnType
       DEF WorkerRejectsAddress, WorkerSucceeds, WorkerFails
  <2>2. status'.C = status.C
    BY <1>2, ConnectedFlag
       DEF WorkerRejectsAddress, WorkerSucceeds, WorkerFails, Return_with_status
  <2>. QED
    BY <1>2, <2>1, <2>2
       DEF WorkerRejectsAddress, WorkerSucceeds, WorkerFails, Announced, guest
<1>3. CASE WorkerJoins
  BY <1>3 DEF WorkerJoins, Untouched, shared, guest
<1>. QED
  BY <1>1, <1>2, <1>3 DEF Worker

(* A look at the directory announces what it found. *)
LEMMA UpdateAnnounces ==
  ASSUME TypeOK, NEW caller \in Callers, Update(caller)
  PROVE  Announced
<1>1. ints' # 0
  BY StatusType, ReturnType DEF Update, TypeOK
<1>2. status'.C <=> blocks_available' > 0
  BY ConnectedFlag DEF Update, Return_with_status, TypeOK
<1>. QED
  BY <1>1, <1>2 DEF Update, Announced, guest

(* Every step leaves the status alone, announces a change of it, or is a   *)
(* step of the interrupt handler.                                          *)
LEMMA StatusSteps ==
  ASSUME TypeOK, [Next]_vars
  PROVE  \/ Untouched
         \/ Announced
         \/ TakeInterrupt \/ Coalesce \/ LoadStatus
<1>1. CASE Start \/ StartLooks \/ Stop \/ WorkerJoined \/ Unwatch
  BY <1>1 DEF Untouched, Start, StartLooks, Stop, WorkerJoined, Unwatch,
              shared, guest
<1>2. CASE Guest
  <2>1. ASSUME NEW block, StoreAddress(block) PROVE Untouched
    BY <2>1 DEF Untouched, StoreAddress, guest
  <2>2. ASSUME NEW cmd, StoreCommand(cmd) PROVE Untouched
    BY <2>2 DEF Untouched, StoreCommand, shared, guest
  <2>3. CASE StoreBadCommand
    BY <2>3, StatusType, ReturnType, ConnectedFlag
       DEF Announced, StoreBadCommand, Return_with_status, TypeOK, guest
  <2>. QED
    BY <1>2, <2>1, <2>2, <2>3 DEF Guest
<1>3. CASE Callback
  BY <1>3 DEF Untouched, Callback, shared, guest
<1>4. ASSUME NEW caller, Size(caller) PROVE Untouched
  BY <1>4 DEF Untouched, Size, shared, guest
<1>5. ASSUME NEW f, Insert(f) \/ Remove(f) PROVE Untouched
  BY <1>5 DEF Untouched, Insert, Remove, shared, guest
<1>6. CASE UNCHANGED vars
  BY <1>6 DEF Untouched, vars, shared, guest
<1>. QED
  BY <1>1, <1>2, <1>3, <1>4, <1>5, <1>6, WorkerAnnounces, UpdateAnnounces
     DEF Next, CpuThread, Terminated

(* The connected flag and the number of blocks never disagree.             *)
THEOREM NeverHalfConnected == Spec => []DisconnectedIsEmpty
<1>1. Init => DisconnectedIsEmpty
  BY DEF Init, DisconnectedIsEmpty
<1>2. TypeOK /\ DisconnectedIsEmpty /\ [Next]_vars => DisconnectedIsEmpty'
  <2>. SUFFICES ASSUME TypeOK, DisconnectedIsEmpty, [Next]_vars
                PROVE  DisconnectedIsEmpty'
    OBVIOUS
  <2>1. CASE Untouched
    BY <2>1 DEF Untouched, DisconnectedIsEmpty
  <2>2. CASE Announced
    BY <2>2 DEF Announced, DisconnectedIsEmpty
  <2>3. CASE TakeInterrupt \/ Coalesce \/ LoadStatus
    BY <2>3 DEF TakeInterrupt, Coalesce, LoadStatus, DisconnectedIsEmpty, shared
  <2>. QED
    BY <2>1, <2>2, <2>3, StatusSteps
<1>. QED
  BY <1>1, <1>2, TypeCorrect, PTL DEF Spec

(* No status update is missed by a guest that loads the status after every *)
(* interrupt, although interrupts coalesce and any thread may update it    *)
(* between the interrupt and the load.                                     *)
THEOREM StatusReported == Spec => []NoMissedStatus
<1>1. Init => NoMissedStatus
  BY DEF Init, NoMissedStatus
<1>2. TypeOK /\ NoMissedStatus /\ [Next]_vars => NoMissedStatus'
  <2>. SUFFICES ASSUME TypeOK, NoMissedStatus, [Next]_vars
                PROVE  NoMissedStatus'
    OBVIOUS
  <2>1. CASE Untouched
    BY <2>1 DEF Untouched, NoMissedStatus
  <2>2. CASE Announced
    BY <2>2 DEF Announced, NoMissedStatus
  <2>3. CASE TakeInterrupt
    BY <2>3 DEF TakeInterrupt, NoMissedStatus
  <2>4. CASE Coalesce
    BY <2>4 DEF Coalesce, NoMissedStatus, TypeOK
  <2>5. CASE LoadStatus
    BY <2>5 DEF LoadStatus, NoMissedStatus, shared
  <2>. QED
    BY <2>1, <2>2, <2>3, <2>4, <2>5, StatusSteps
<1>. QED
  BY <1>1, <1>2, TypeCorrect, PTL DEF Spec

(***************************************************************************)
(* stop() and the worker's queue.                                          *)
(***************************************************************************)

(* The worker takes a command that is not JoinThread. *)
LEMMA TakesCommand ==
  ASSUME TypeOK, StopInv, NEW cmd \in Commands, Receive(cmd),
         UNCHANGED <<worker, phase>>
  PROVE  StopInv'
<1>1. /\ commands # <<>> /\ worker = "on"
      /\ Len(commands) \in Nat \ {0}
      /\ Len(commands') = Len(commands) - 1
      /\ \A k \in 1..Len(commands') : commands'[k] = commands[k + 1]
      /\ commands[1] # JoinThread
      /\ commands' \in Seq(DiskCommand)
  BY TailFacts, JoinIsNoCommand DEF Receive, TypeOK
<1>2. \A k \in 1..Len(commands') : k + 1 \in 1..Len(commands)
  BY <1>1
<1>3. CASE phase \in {"watching", "running"}
  BY <1>1, <1>2, <1>3 DEF StopInv
<1>4. CASE phase = "joining"
  <2>1. JoinIsLast
    BY <1>1, <1>4 DEF StopInv
  <2>2. Len(commands) # 1
    BY <1>1, <2>1 DEF JoinIsLast
  <2>3. commands' # <<>>
    BY <1>1, <2>2, EmptySeq
  <2>4. ASSUME NEW k \in 1..Len(commands')
        PROVE  commands'[k] = JoinThread <=> k = Len(commands')
    <3>1. commands[k + 1] = JoinThread <=> k + 1 = Len(commands)
      BY <1>2, <2>1 DEF JoinIsLast
    <3>. QED
      BY <1>1, <3>1
  <2>. QED
    BY <1>1, <1>4, <2>3, <2>4 DEF StopInv, JoinIsLast
<1>. QED
  BY <1>1, <1>3, <1>4 DEF TypeOK, StopInv

(* The worker takes JoinThread, the last message of its queue. *)
LEMMA TakesJoin ==
  ASSUME TypeOK, StopInv, WorkerJoins
  PROVE  StopInv'
<1>1. /\ commands # <<>> /\ worker = "on" /\ worker' = "joined"
      /\ Len(commands) \in Nat \ {0}
      /\ Len(commands') = Len(commands) - 1
      /\ commands[1] = JoinThread
      /\ commands' \in Seq(DiskCommand)
      /\ phase' = phase
  BY TailFacts DEF WorkerJoins, Receive, TypeOK
<1>2. 1 \in 1..Len(commands)
  BY <1>1
<1>3. phase = "joining" /\ JoinIsLast
  BY <1>1, <1>2 DEF StopInv, TypeOK
<1>4. Len(commands') = 0
  BY <1>1, <1>2, <1>3 DEF JoinIsLast
<1>5. commands' = <<>>
  BY <1>1, <1>4, EmptySeq
<1>. QED
  BY <1>1, <1>3, <1>5 DEF StopInv

(* Every step preserves StartInv. *)
LEMMA NextStart ==
  ASSUME TypeOK, StartInv, [Next]_vars
  PROVE  StartInv'
<1>. USE DEF StartInv
<1>1. CASE Callback
  BY <1>1 DEF Callback, Name, TypeOK, Callers
<1>2. ASSUME NEW caller \in Callers, Size(caller) PROVE StartInv'
  BY <1>2 DEF Size, TypeOK, Callers
<1>3. ASSUME NEW caller \in Callers, Update(caller) PROVE StartInv'
  BY <1>3 DEF Update, TypeOK, Callers, Idle
<1>4. CASE StartLooks
  BY <1>4 DEF StartLooks
<1>5. CASE Start \/ Stop \/ WorkerJoined \/ Unwatch
  BY <1>5 DEF Start, Stop, WorkerJoined, Unwatch
<1>6. CASE UNCHANGED <<look, phase>>
  BY <1>6
<1>. QED
  BY <1>1, <1>2, <1>3, <1>4, <1>5, <1>6
     DEF Next, CpuThread, Guest, Worker, Terminated, StoreAddress, StoreCommand,
         StoreBadCommand, TakeInterrupt, Coalesce, LoadStatus, Insert, Remove,
         WorkerRejectsDisconnected, WorkerRejectsAddress, WorkerSucceeds,
         WorkerFails, WorkerJoins, vars

(* Every step preserves StopInv. *)
LEMMA NextStop ==
  ASSUME TypeOK, StartInv, StopInv, [Next]_vars
  PROVE  StopInv'
<1>1. ASSUME NEW cmd \in Commands,
             \/ WorkerRejectsDisconnected(cmd) \/ WorkerRejectsAddress(cmd)
             \/ WorkerSucceeds(cmd) \/ WorkerFails(cmd)
      PROVE  StopInv'
  BY <1>1, TakesCommand
     DEF WorkerRejectsDisconnected, WorkerRejectsAddress, WorkerSucceeds,
         WorkerFails, Accepts
<1>2. CASE Worker
  BY <1>1, <1>2, TakesJoin DEF Worker
<1>3. CASE Start \/ WorkerJoined \/ Unwatch
  BY <1>3 DEF Start, WorkerJoined, Unwatch, StopInv, JoinIsLast
<1>4. CASE Stop
  <2>1. /\ phase = "running" /\ phase' = "joining" /\ worker' = worker
        /\ commands' = Append(commands, JoinThread)
        /\ JoinThread \in DiskCommand
    BY <1>4 DEF Stop, DiskCommand
  <2>2. commands' # <<>> /\ JoinIsLast'
    BY <2>1, AppendFacts DEF StopInv, JoinIsLast, TypeOK
  <2>. QED
    BY <2>1, <2>2 DEF StopInv
<1>5. ASSUME NEW cmd \in Commands, StoreCommand(cmd)
      PROVE  StopInv'
  <2>1. /\ phase = "running" /\ phase' = "running" /\ worker' = worker
        /\ commands' = Append(commands, cmd)
        /\ cmd \in DiskCommand /\ cmd # JoinThread
    BY <1>5, JoinIsNoCommand DEF StoreCommand, Running, DiskCommand
  <2>2. \A k \in 1..Len(commands') : commands'[k] # JoinThread
    BY <2>1, AppendFacts DEF StopInv, TypeOK
  <2>. QED
    BY <2>1, <2>2 DEF StopInv
<1>6. ASSUME NEW caller \in Callers, Update(caller)
      PROVE  StopInv'
  BY <1>6 DEF Update, StartInv, StopInv, JoinIsLast
<1>7. CASE UNCHANGED <<commands, worker, phase>>
  BY <1>7 DEF StopInv, JoinIsLast
<1>. QED
  BY <1>2, <1>3, <1>4, <1>5, <1>6, <1>7
     DEF Next, CpuThread, Guest, Terminated, StartLooks, StoreAddress,
         StoreBadCommand, TakeInterrupt, Coalesce, LoadStatus, Callback, Size,
         Insert, Remove, vars

(* stop() runs after start() returned, and the worker is told to end once. *)
LEMMA StopCorrect == Spec => [](StartInv /\ StopInv)
<1>1. Init => StartInv /\ StopInv
  BY EmptySeq DEF Init, StartInv, StopInv, Idle, Callers
<1>2. TypeOK /\ StartInv /\ StopInv /\ [Next]_vars => StartInv' /\ StopInv'
  BY NextStart, NextStop
<1>. QED
  BY <1>1, <1>2, TypeCorrect, PTL DEF Spec

(* When stop() has joined the worker, every command the guest had queued   *)
(* has been executed.                                                      *)
THEOREM CommandsDrained == Spec => []StopDrainsCommands
<1>1. StopInv => StopDrainsCommands
  BY DEF StopInv, StopDrainsCommands
<1>. QED
  BY <1>1, StopCorrect, PTL

(***************************************************************************)
(* What is mounted.                                                        *)
(***************************************************************************)

(* Reading the size of the file just named yields the size that counts. *)
LEMMA SizeIsCurrent ==
  ASSUME TypeOK, NEW caller \in Callers, Size(caller), Current(look[caller])
  PROVE  Current(look[caller])'
<1>1. look[caller].file = Get_file_name
  BY DEF Size, Current
<1>2. (IF look[caller].file \in dir THEN Blocks[look[caller].file] ELSE 0)
        = MountedBlocks
  BY <1>1, FileNameType, ConstantFacts DEF MountedBlocks, TypeOK
<1>3. look'[caller].at = "sized" /\ look'[caller].blocks = MountedBlocks
  BY <1>2 DEF Size, TypeOK, Looks
<1>4. MountedBlocks' = MountedBlocks
  BY DEF Size, MountedBlocks, Get_file_name, Single
<1>. QED
  BY <1>3, <1>4 DEF Current

(* An update from a current look mounts what the directory holds. *)
LEMMA UpdateMounts ==
  ASSUME TypeOK, NEW caller \in Callers, Update(caller), Current(look[caller])
  PROVE  Mounted'
<1>1. look[caller].blocks = MountedBlocks
  BY DEF Update, Current
<1>2. MountedBlocks' = MountedBlocks
  BY DEF Update, MountedBlocks, Get_file_name, Single
<1>3. status'.C <=> look[caller].blocks > 0
  BY ConnectedFlag DEF Update, Return_with_status, TypeOK
<1>4. blocks_available' = look[caller].blocks
  BY DEF Update
<1>. QED
  BY <1>1, <1>2, <1>3, <1>4 DEF Mounted

(* Commands and the guest change neither the connected flag nor the size. *)
LEMMA CommandsKeepMount ==
  ASSUME TypeOK, Worker \/ Guest
  PROVE  /\ UNCHANGED <<dir, events, look, phase, blocks_available>>
         /\ status'.C = status.C
<1>. USE DEF TypeOK, shared, Return_with_status
<1>1. ASSUME NEW cmd \in Commands, WorkerRejectsDisconnected(cmd)
      PROVE  status'.C = status.C
  <2>1. status.C \in BOOLEAN /\ status'.C \in BOOLEAN
    BY <1>1, StatusType DEF WorkerRejectsDisconnected, Status
  <2>2. ~status.C /\ ~status'.C
    BY <1>1, ConnectedFlag DEF WorkerRejectsDisconnected
  <2>. QED
    BY <2>1, <2>2
<1>2. ASSUME NEW cmd \in Commands,
             WorkerRejectsAddress(cmd) \/ WorkerSucceeds(cmd) \/ WorkerFails(cmd)
      PROVE  status'.C = status.C
  BY <1>2, ConnectedFlag DEF WorkerRejectsAddress, WorkerSucceeds, WorkerFails
<1>3. CASE Worker
  BY <1>1, <1>2, <1>3
     DEF Worker, WorkerRejectsDisconnected, WorkerRejectsAddress,
         WorkerSucceeds, WorkerFails, WorkerJoins
<1>4. CASE Guest
  <2>1. ASSUME StoreBadCommand PROVE status'.C = status.C
    BY <2>1, ConnectedFlag DEF StoreBadCommand
  <2>. QED
    BY <1>4, <2>1
       DEF Guest, StoreAddress, StoreCommand, StoreBadCommand, TakeInterrupt,
           Coalesce, LoadStatus
<1>. QED
  BY <1>3, <1>4

(* With the directory unchanged, what is mounted is a matter of status. *)
LEMMA SameDirectory ==
  ASSUME UNCHANGED dir
  PROVE  Get_file_name' = Get_file_name /\ MountedBlocks' = MountedBlocks
  BY DEF MountedBlocks, Get_file_name, Single

(* Steps that neither look nor change the directory preserve MountInv. *)
LEMMA StillMounted ==
  ASSUME TypeOK, MountInv, UNCHANGED <<dir, events, look, phase, blocks_available>>,
         status'.C = status.C
  PROVE  MountInv'
  BY SameDirectory DEF MountInv, Mounted, Current

(* Every step preserves MountInv, if nobody swaps disks during start(). *)
LEMMA NextMount ==
  ASSUME ~ChangesDuringStart, TypeOK, StartInv, MountInv, [Next]_vars
  PROVE  MountInv'
<1>1. ASSUME NEW f \in Files, Insert(f) \/ Remove(f)
      PROVE  MountInv'
  <2>1. /\ phase # "watching" /\ UNCHANGED <<look, phase>>
        /\ events' = IF phase \in {"new", "stopped"} THEN events ELSE events + 1
    BY <1>1 DEF Insert, Remove, MayChange, Notified
  <2>2. Current(look["start"])'
    BY <2>1 DEF StartInv, Current
  <2>. QED
    BY <2>1, <2>2 DEF MountInv, TypeOK
<1>2. CASE Callback
  <2>1. phase \notin {"new", "watching"} /\ UNCHANGED <<dir, phase>>
    BY <1>2 DEF Callback, MountInv
  <2>2. look'["watcher"] = [at |-> "named", file |-> Get_file_name, blocks |-> 0]
    BY <1>2 DEF Callback, Name, TypeOK, Callers
  <2>3. Current(look["watcher"])' /\ look'["watcher"].at # "idle"
    BY <2>1, <2>2, SameDirectory DEF Current
  <2>. QED
    BY <2>1, <2>3 DEF MountInv
<1>3. CASE Size("watcher")
  <2>1. /\ phase \notin {"new", "watching"}
        /\ UNCHANGED <<events, phase>>
        /\ look'["watcher"].at = "sized"
    BY <1>3 DEF Size, MountInv, TypeOK, Callers, Looks
  <2>2. ASSUME phase \in {"running", "joining", "unwatching"}, events = 0
        PROVE  Current(look["watcher"])'
    BY <1>3, <2>2, SizeIsCurrent DEF MountInv, Callers
  <2>. QED
    BY <2>1, <2>2 DEF MountInv
<1>4. CASE Size("start")
  <2>1. phase = "watching" /\ UNCHANGED <<events, phase>>
    BY <1>4 DEF Size, StartInv
  <2>2. look'["watcher"] = look["watcher"]
    BY <1>4 DEF Size, TypeOK, Callers
  <2>3. Current(look["start"])'
    BY <1>4, <2>1, SizeIsCurrent DEF MountInv, Callers
  <2>. QED
    BY <2>1, <2>2, <2>3 DEF MountInv
<1>5. CASE Update("watcher")
  <2>1. /\ phase \notin {"new", "watching"}
        /\ UNCHANGED <<events, phase>>
        /\ look'["watcher"].at = "idle"
    BY <1>5 DEF Update, MountInv, TypeOK, Callers, Idle
  <2>2. ASSUME phase \in {"running", "joining", "unwatching"}, events = 0
        PROVE  Mounted'
    BY <1>5, <2>2, UpdateMounts DEF MountInv, Callers
  <2>3. Current(look["watcher"])'
    BY <2>1 DEF Current
  <2>. QED
    BY <2>1, <2>2, <2>3 DEF MountInv
<1>6. CASE Update("start")
  <2>1. phase = "watching" /\ phase' = "running" /\ UNCHANGED events
    BY <1>6 DEF Update, StartInv
  <2>2. look'["watcher"].at = "idle"
    BY <1>6, <2>1 DEF Update, MountInv, TypeOK, Callers
  <2>3. Mounted'
    BY <1>6, <2>1, UpdateMounts DEF MountInv, Callers
  <2>. QED
    BY <2>1, <2>2, <2>3 DEF MountInv, Current
<1>7. CASE StartLooks
  <2>1. phase = "watching" /\ UNCHANGED <<dir, events, phase>>
    BY <1>7 DEF StartLooks
  <2>2. /\ look'["start"] = [at |-> "named", file |-> Get_file_name, blocks |-> 0]
        /\ look'["watcher"] = look["watcher"]
    BY <1>7 DEF StartLooks, Name, TypeOK, Callers
  <2>3. Current(look["start"])'
    BY <2>1, <2>2, SameDirectory DEF Current
  <2>. QED
    BY <2>1, <2>2, <2>3 DEF MountInv
<1>8. CASE Start
  BY <1>8, SameDirectory DEF Start, MountInv, Current
<1>9. CASE Stop \/ WorkerJoined \/ Unwatch
  BY <1>9, SameDirectory
     DEF Stop, WorkerJoined, Unwatch, MountInv, Current, Mounted, shared
<1>10. CASE Worker \/ Guest
  BY <1>10, CommandsKeepMount, StillMounted
<1>11. CASE UNCHANGED vars
  BY <1>11, StillMounted DEF vars, shared
<1>. QED
  BY <1>1, <1>2, <1>3, <1>4, <1>5, <1>6, <1>7, <1>8, <1>9, <1>10, <1>11
     DEF Next, CpuThread, Terminated, Callers

(* Once every event is handled, the drive shows what the directory holds,  *)
(* provided that nobody swaps disks while start() runs.                    *)
THEOREM MountCorrect ==
  ASSUME ~ChangesDuringStart
  PROVE  Spec => []MountMatchesDirectory
<1>1. Init => MountInv
  BY DEF Init, MountInv, Idle, Callers, Current
<1>2. TypeOK /\ StartInv /\ MountInv /\ [Next]_vars => MountInv'
  BY NextMount
<1>3. MountInv => MountMatchesDirectory
  BY DEF MountInv, MountMatchesDirectory, Mounted, Callers
<1>. QED
  BY <1>1, <1>2, <1>3, TypeCorrect, StopCorrect, PTL DEF Spec
=============================================================================
