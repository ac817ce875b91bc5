-------------------------------- MODULE Cpu --------------------------------
(***************************************************************************)
(* The interrupt machinery of the Simulatron CPU: the interrupt channel    *)
(* and latch, the CPU loop with its privilege modes, interrupt frames and  *)
(* PAUSE, the timer thread, and the start / halt / stop life cycle.        *)
(*                                                                         *)
(* Threads: the CPU thread (variable phase says where it is), the timer    *)
(* thread, the device threads (keyboard, disk A, disk B: any of them may   *)
(* send at any time), and the host thread that starts and stops the CPU.   *)
(* They share the unbounded FIFO channel chan; a step of one thread may    *)
(* fall between any two receives of another.                               *)
(*                                                                         *)
(* The guest program is arbitrary: in phase "execute" the CPU executes any *)
(* instruction its privilege mode allows, and any instruction may fault.   *)
(* Addresses are abstracted to the region of code they lie in, and the     *)
(* kernel stack to the interrupt frames on it (other pushes and pops of    *)
(* the guest kernel are balanced).                                         *)
(***************************************************************************)
EXTENDS Integers, Sequences

CONSTANTS
    JOIN_THREAD,    \* the message of the host that asks the CPU to halt
    Devices,        \* the interrupts that device threads send
    Faults,         \* the synchronous interrupts an instruction can raise
    Masks,          \* the values the guest kernel writes to the IMR
    StackDepth,     \* frames that fit between KSPR and unwritable memory
    ChanBound,      \* devices and timer send only below this length
    CmdBound        \* bound on unprocessed timer commands

INTERRUPT_ILLEGAL_OPERATION == 0
INTERRUPT_DIV_BY_0 == 1
INTERRUPT_PAGE_FAULT == 2
INTERRUPT_KEYBOARD == 3
INTERRUPT_DISK_A == 4
INTERRUPT_DISK_B == 5
INTERRUPT_TIMER == 6
INTERRUPT_SYSCALL == 7

Interrupts == 0..7
Sync == {INTERRUPT_ILLEGAL_OPERATION, INTERRUPT_DIV_BY_0,
         INTERRUPT_PAGE_FAULT, INTERRUPT_SYSCALL}
Messages == Interrupts \cup {JOIN_THREAD}

ASSUME JoinAssumption == JOIN_THREAD \notin Interrupts
ASSUME DevicesAssumption ==
    Devices \subseteq {INTERRUPT_KEYBOARD, INTERRUPT_DISK_A, INTERRUPT_DISK_B}
ASSUME FaultsAssumption ==
    Faults \subseteq {INTERRUPT_ILLEGAL_OPERATION, INTERRUPT_DIV_BY_0,
                      INTERRUPT_PAGE_FAULT}
ASSUME MasksAssumption == Masks \subseteq SUBSET Interrupts
ASSUME BoundsAssumption ==
    StackDepth \in Nat /\ ChanBound \in Nat /\ CmdBound \in Nat

(***************************************************************************)
(* Code regions: 0..7 is the handler of that interrupt, as pointed to by   *)
(* the interrupt vector.                                                   *)
(***************************************************************************)
KernelCode == 8
UserCode == 9
Regions == Interrupts \cup {KernelCode, UserCode}

VARIABLES
    chan,         \* interrupt_rx: messages sent and not yet received
    latched,      \* InterruptLatch.latched
    imr,          \* the enabled interrupts
    kernel_mode,
    flags15,      \* bit 15 of the FLAGS register
    pc,           \* the region of the next instruction
    stack,        \* interrupt frames at KSPR, the newest last
    pausing,      \* the local of cpu_loop
    skip_pause,
    phase,        \* where the CPU thread is
    interval,     \* the timer thread's interval; 0 is off
    timer,        \* the timer thread: "firing" is about to send
    commands,     \* TimerCommands sent and not yet received
    host,         \* the thread that calls CPU::start and CPU::stop
    ui_halted     \* UICommand::CPUHalted was sent

latchVars == <<chan, latched>>
regVars == <<imr, kernel_mode, flags15, pc, stack>>
loopVars == <<pausing, skip_pause>>
timerVars == <<interval, timer, commands>>
hostVars == <<host, ui_halted>>
vars == <<latchVars, regVars, loopVars, phase, timerVars, hostVars>>

Frame == [bit15 : BOOLEAN, pc : Regions, imr : SUBSET Interrupts]
Looping == {"poll", "recv", "execute"}
Phases == Looping \cup {"new", "halted", "stop_timer", "join_timer",
                        "stop_mmu", "returned"}
JoinTimer == -1      \* TimerCommand::JoinThread; n >= 0 is SetTimer(n)

TypeOK ==
    /\ chan \in Seq(Messages)
    /\ latched \in SUBSET Interrupts
    /\ imr \in SUBSET Interrupts
    /\ kernel_mode \in BOOLEAN
    /\ flags15 \in BOOLEAN
    /\ pc \in Regions
    /\ stack \in Seq(Frame)
    /\ pausing \in BOOLEAN
    /\ skip_pause \in BOOLEAN
    /\ phase \in Phases
    /\ interval \in {0, 1}
    /\ timer \in {"off", "on", "firing", "joined"}
    /\ commands \in Seq({JoinTimer, 0, 1})
    /\ host \in {"created", "ui", "stopping", "stopped"}
    /\ ui_halted \in BOOLEAN

(* CPU::new, called with the receiving end of an empty channel. *)
Init ==
    /\ chan = <<>>
    /\ latched = {}
    /\ imr = {}
    /\ kernel_mode = TRUE
    /\ flags15 = FALSE
    /\ pc = KernelCode
    /\ stack = <<>>
    /\ pausing = FALSE
    /\ skip_pause = FALSE
    /\ phase = "new"
    /\ interval = 0
    /\ timer = "off"
    /\ commands = <<>>
    /\ host = "created"
    /\ ui_halted = FALSE

-----------------------------------------------------------------------------
(***************************************************************************)
(* Delivery of interrupt i to the CPU.  The frame holds the flags with     *)
(* bit 15 or-ed with the old mode, the program counter and the IMR.  The   *)
(* pushes are critical: when the stack runs into memory that rejects the   *)
(* write, the MMU raises an illegal operation and the CPU loop ends.       *)
(***************************************************************************)
EnterHandler(i, queue) ==
    /\ Len(stack) < StackDepth
    /\ stack' = Append(stack, [bit15 |-> flags15 \/ kernel_mode,
                               pc |-> pc, imr |-> imr])
    /\ imr' = {}
    /\ kernel_mode' = TRUE
    /\ pc' = i
    /\ phase' = "execute"
    /\ chan' = queue
    /\ UNCHANGED flags15

FatalDelivery(queue) ==
    /\ Len(stack) = StackDepth
    /\ kernel_mode' = TRUE
    /\ chan' = Append(queue, INTERRUPT_ILLEGAL_OPERATION)
    /\ phase' = "halted"
    /\ UNCHANGED <<imr, flags15, pc, stack>>

Deliver(i, queue) == EnterHandler(i, queue) \/ FatalDelivery(queue)

(* The first loop of try_get_next and of wait_for_next. *)
TakeLatched ==
    /\ phase = "poll"
    /\ \E i \in latched \cap imr :
         /\ \A j \in latched \cap imr : i <= j
         /\ latched' = latched \ {i}
         /\ Deliver(i, chan)
    /\ UNCHANGED <<loopVars, timerVars, hostVars>>

(* Mutant: blocks or polls without looking at the latch first. *)
NoneLatchedUnchecked ==
    /\ phase = "poll"
    /\ phase' = "recv"
    /\ UNCHANGED <<latchVars, regVars, loopVars, timerVars, hostVars>>

NoneLatched ==
    /\ phase = "poll"
    /\ latched \cap imr = {}
    /\ phase' = "recv"
    /\ UNCHANGED <<latchVars, regVars, loopVars, timerVars, hostVars>>

(* Mutants: JOIN_THREAD treated as an interrupt; a disabled interrupt      *)
(* dropped; the loop left after latching one message.                      *)
ReceiveDisabledOrJoin ==
    /\ phase = "recv"
    /\ chan # <<>>
    /\ Head(chan) \notin imr
    /\ latched' = latched \cup {Head(chan)}
    /\ chan' = Tail(chan)
    /\ UNCHANGED <<regVars, loopVars, phase, timerVars, hostVars>>

ReceiveDisabledDropped ==
    /\ phase = "recv"
    /\ chan # <<>>
    /\ Head(chan) \in Interrupts \ imr
    /\ chan' = Tail(chan)
    /\ UNCHANGED <<latched, regVars, loopVars, phase, timerVars, hostVars>>

ReceiveDisabledOnce ==
    /\ phase = "recv"
    /\ chan # <<>>
    /\ Head(chan) \in Interrupts \ imr
    /\ latched' = latched \cup {Head(chan)}
    /\ chan' = Tail(chan)
    /\ phase' = IF pausing THEN "recv" ELSE "execute"
    /\ UNCHANGED <<regVars, loopVars, timerVars, hostVars>>

(* One turn of the second loop: receive the message at the head. *)
ReceiveDisabled ==
    /\ phase = "recv"
    /\ chan # <<>>
    /\ Head(chan) \in Interrupts \ imr
    /\ latched' = latched \cup {Head(chan)}
    /\ chan' = Tail(chan)
    /\ UNCHANGED <<regVars, loopVars, phase, timerVars, hostVars>>

ReceiveEnabled ==
    /\ phase = "recv"
    /\ chan # <<>>
    /\ Head(chan) \in imr
    /\ Deliver(Head(chan), Tail(chan))
    /\ UNCHANGED <<latched, loopVars, timerVars, hostVars>>

(* Mutant: only a pausing CPU heeds JOIN_THREAD, others put it back. *)
ReceiveJoinWhenPausing ==
    /\ phase = "recv"
    /\ chan # <<>>
    /\ Head(chan) = JOIN_THREAD
    /\ chan' = IF pausing THEN Tail(chan) ELSE Append(Tail(chan), JOIN_THREAD)
    /\ phase' = IF pausing THEN "halted" ELSE "execute"
    /\ UNCHANGED <<latched, regVars, loopVars, timerVars, hostVars>>

ReceiveJoin ==
    /\ phase = "recv"
    /\ chan # <<>>
    /\ Head(chan) = JOIN_THREAD
    /\ chan' = Tail(chan)
    /\ phase' = "halted"
    /\ UNCHANGED <<latched, regVars, loopVars, timerVars, hostVars>>

(* try_recv finds the channel empty; a pausing CPU blocks in recv instead. *)
NothingReceived ==
    /\ phase = "recv"
    /\ chan = <<>>
    /\ ~pausing
    /\ phase' = "execute"
    /\ UNCHANGED <<latchVars, regVars, loopVars, timerVars, hostVars>>

-----------------------------------------------------------------------------
(***************************************************************************)
(* Execution of one instruction.  Completed is the end of a successful     *)
(* cycle; a fault sends its interrupt, the cycle ends with TryAgainError   *)
(* and leaves skip_pause as it was.                                        *)
(***************************************************************************)
Completed(skip_pause_next) ==
    /\ phase' = "poll"
    /\ pausing' = FALSE
    /\ skip_pause' = skip_pause_next

Executing == phase = "execute"
Privileged == Executing /\ kernel_mode

Halt ==
    /\ Privileged
    /\ phase' = "halted"
    /\ UNCHANGED <<latchVars, regVars, loopVars, timerVars, hostVars>>

Pause ==
    /\ Privileged
    /\ ~skip_pause
    /\ phase' = "poll"
    /\ pausing' = TRUE
    /\ UNCHANGED <<latchVars, regVars, skip_pause, timerVars, hostVars>>

SkippedPause ==
    /\ Privileged
    /\ skip_pause
    /\ Completed(FALSE)
    /\ UNCHANGED <<latchVars, regVars, timerVars, hostVars>>

SetTimer(milliseconds) ==
    /\ Privileged
    /\ Len(commands) < CmdBound
    /\ commands' = Append(commands, milliseconds)
    /\ Completed(FALSE)
    /\ UNCHANGED <<latchVars, regVars, interval, timer, hostVars>>

UserMode ==
    /\ Privileged
    /\ pc' = UserCode
    /\ flags15' = FALSE
    /\ kernel_mode' = FALSE
    /\ Completed(FALSE)
    /\ UNCHANGED <<latchVars, imr, stack, timerVars, hostVars>>

(* Mutant: the next PAUSE is not skipped. *)
IReturnNoSkip ==
    /\ Privileged
    /\ stack # <<>>
    /\ LET frame == stack[Len(stack)]
       IN  /\ kernel_mode' = (kernel_mode /\ frame.bit15)
           /\ imr' = frame.imr
           /\ pc' = frame.pc
    /\ stack' = SubSeq(stack, 1, Len(stack) - 1)
    /\ flags15' = FALSE
    /\ Completed(FALSE)
    /\ UNCHANGED <<latchVars, timerVars, hostVars>>

(* Bit 15 of the popped flags can only leave kernel mode, never enter it. *)
IReturn ==
    /\ Privileged
    /\ stack # <<>>
    /\ LET frame == stack[Len(stack)]
       IN  /\ kernel_mode' = (kernel_mode /\ frame.bit15)
           /\ imr' = frame.imr
           /\ pc' = frame.pc
    /\ stack' = SubSeq(stack, 1, Len(stack) - 1)
    /\ flags15' = FALSE
    /\ Completed(TRUE)
    /\ UNCHANGED <<latchVars, timerVars, hostVars>>

WriteImr(mask) ==
    /\ Privileged
    /\ imr' = mask
    /\ Completed(FALSE)
    /\ UNCHANGED <<latchVars, kernel_mode, flags15, pc, stack, timerVars, hostVars>>

(* The kernel starts a new stack. *)
WriteKspr ==
    /\ Privileged
    /\ stack' = <<>>
    /\ Completed(FALSE)
    /\ UNCHANGED <<latchVars, imr, kernel_mode, flags15, pc, timerVars, hostVars>>

(* Mutant: bit 15 is written unmasked. *)
UnmaskedFlags15(bit15) == bit15

(* write_to_register masks bit 15 of a value written to FLAGS. *)
WrittenFlags15(bit15) == FALSE

WriteFlags(bit15) ==
    /\ Executing
    /\ flags15' = WrittenFlags15(bit15)
    /\ Completed(FALSE)
    /\ UNCHANGED <<latchVars, imr, kernel_mode, pc, stack, timerVars, hostVars>>

(* A handler stores to the IMR saved in the newest frame. *)
EditFrame(mask) ==
    /\ Privileged
    /\ stack # <<>>
    /\ stack' = [stack EXCEPT ![Len(stack)].imr = mask]
    /\ Completed(FALSE)
    /\ UNCHANGED <<latchVars, imr, kernel_mode, flags15, pc, timerVars, hostVars>>

Syscall ==
    /\ Executing
    /\ chan' = Append(chan, INTERRUPT_SYSCALL)
    /\ Completed(FALSE)
    /\ UNCHANGED <<latched, regVars, timerVars, hostVars>>

(* Loads, stores, arithmetic and jumps inside the region. *)
OtherInstruction ==
    /\ Executing
    /\ Completed(FALSE)
    /\ UNCHANGED <<latchVars, regVars, timerVars, hostVars>>

(* Virtual addresses are translated in user mode only.  The program        *)
(* counter is rewound by what every cycle so far has fetched (see Cycle),  *)
(* so it may leave the code of a handler.                                  *)
Fault(i) ==
    /\ Executing
    /\ i = INTERRUPT_PAGE_FAULT => ~kernel_mode
    /\ chan' = Append(chan, i)
    /\ pc' \in {pc, IF kernel_mode THEN KernelCode ELSE UserCode}
    /\ phase' = "poll"
    /\ pausing' = FALSE
    /\ UNCHANGED <<latched, imr, kernel_mode, flags15, stack, skip_pause,
                   timerVars, hostVars>>

-----------------------------------------------------------------------------
(***************************************************************************)
(* The CPU thread before and after cpu_loop.                               *)
(***************************************************************************)
ThreadStart ==
    /\ phase = "new"
    /\ host # "created"
    /\ timer' = "on"
    /\ phase' = "poll"
    /\ UNCHANGED <<latchVars, regVars, loopVars, interval, commands, hostVars>>

SendHalted ==
    /\ phase = "halted"
    /\ ui_halted' = TRUE
    /\ phase' = "stop_timer"
    /\ UNCHANGED <<latchVars, regVars, loopVars, timerVars, host>>

StopTimer ==
    /\ phase = "stop_timer"
    /\ commands' = Append(commands, JoinTimer)
    /\ phase' = "join_timer"
    /\ UNCHANGED <<latchVars, regVars, loopVars, interval, timer, hostVars>>

(* Mutant: does not wait for the timer thread. *)
TimerNotJoined ==
    /\ phase = "join_timer"
    /\ phase' = "stop_mmu"
    /\ UNCHANGED <<latchVars, regVars, loopVars, timerVars, hostVars>>

TimerJoined ==
    /\ phase = "join_timer"
    /\ timer = "joined"
    /\ phase' = "stop_mmu"
    /\ UNCHANGED <<latchVars, regVars, loopVars, timerVars, hostVars>>

StopMmu ==
    /\ phase = "stop_mmu"
    /\ phase' = "returned"
    /\ UNCHANGED <<latchVars, regVars, loopVars, timerVars, hostVars>>

Poll ==
    \/ TakeLatched
    \/ NoneLatched
    \/ ReceiveDisabled
    \/ ReceiveEnabled
    \/ ReceiveJoin
    \/ NothingReceived

Execute ==
    \/ Halt
    \/ Pause
    \/ SkippedPause
    \/ \E ms \in {0, 1} : SetTimer(ms)
    \/ UserMode
    \/ IReturn
    \/ \E mask \in Masks : WriteImr(mask)
    \/ WriteKspr
    \/ \E bit15 \in BOOLEAN : WriteFlags(bit15)
    \/ \E mask \in Masks : EditFrame(mask)
    \/ Syscall
    \/ OtherInstruction
    \/ \E i \in Faults : Fault(i)

Lifecycle ==
    \/ ThreadStart
    \/ SendHalted
    \/ StopTimer
    \/ TimerJoined
    \/ StopMmu

-----------------------------------------------------------------------------
(***************************************************************************)
(* The other threads.                                                      *)
(***************************************************************************)
Send(message) == chan' = Append(chan, message)

(* The mmu's peripherals run from mmu.start to mmu.stop. *)
DeviceInterrupt(i) ==
    /\ phase \notin {"new", "returned"}
    /\ Len(chan) < ChanBound
    /\ Send(i)
    /\ UNCHANGED <<latched, regVars, loopVars, phase, timerVars, hostVars>>

TimerCommand ==
    /\ timer = "on"
    /\ commands # <<>>
    /\ commands' = Tail(commands)
    /\ IF Head(commands) = JoinTimer
         THEN timer' = "joined" /\ UNCHANGED interval
         ELSE interval' = Head(commands) /\ UNCHANGED timer
    /\ UNCHANGED <<latchVars, regVars, loopVars, phase, hostVars>>

(* recv_timeout has given up: a command sent from here on comes too late   *)
(* to keep this interrupt from being sent.                                 *)
TimerTimesOut ==
    /\ timer = "on"
    /\ interval # 0
    /\ commands = <<>>
    /\ Len(chan) < ChanBound
    /\ timer' = "firing"
    /\ UNCHANGED <<latchVars, regVars, loopVars, phase, interval, commands, hostVars>>

TimerFires ==
    /\ timer = "firing"
    /\ Send(INTERRUPT_TIMER)
    /\ timer' = "on"
    /\ UNCHANGED <<latched, regVars, loopVars, phase, interval, commands, hostVars>>

HostStart ==
    /\ host = "created"
    /\ host' = "ui"
    /\ UNCHANGED <<latchVars, regVars, loopVars, phase, timerVars, ui_halted>>

(* ui.run returns when the CPU has halted or when the user quits. *)
HostStops ==
    /\ host = "ui"
    /\ host' = "stopping"
    /\ Send(JOIN_THREAD)
    /\ UNCHANGED <<latched, regVars, loopVars, phase, timerVars, ui_halted>>

UiSeesHalt == ui_halted /\ HostStops
UserQuits == ~ui_halted /\ HostStops

HostJoins ==
    /\ host = "stopping"
    /\ phase = "returned"
    /\ host' = "stopped"
    /\ UNCHANGED <<latchVars, regVars, loopVars, phase, timerVars, ui_halted>>

Terminated == host = "stopped" /\ UNCHANGED vars

CpuThread == Poll \/ Execute \/ Lifecycle

Next ==
    \/ CpuThread
    \/ \E i \in Devices : DeviceInterrupt(i)
    \/ TimerCommand
    \/ TimerTimesOut
    \/ TimerFires
    \/ HostStart
    \/ UiSeesHalt
    \/ UserQuits
    \/ HostJoins
    \/ Terminated

(***************************************************************************)
(* Every running thread is scheduled; the user need not quit, devices need *)
(* not send and a timeout need not expire.                                 *)
(***************************************************************************)
Fairness ==
    /\ WF_vars(CpuThread)
    /\ WF_vars(TimerCommand)
    /\ WF_vars(TimerFires)
    /\ WF_vars(HostStart)
    /\ WF_vars(UiSeesHalt)
    /\ WF_vars(HostJoins)

Spec == Init /\ [][Next]_vars /\ Fairness
-----------------------------------------------------------------------------
(***************************************************************************)
(* Properties.                                                             *)
(***************************************************************************)
Queued == {chan[k] : k \in 1..Len(chan)}
Pending == latched \cup Queued

(* Code of the user region runs in user mode only, and only user code      *)
(* does: no sequence of flag writes, interrupts and IRETURNs leaves a user *)
(* program with kernel privileges (cpu.rs:534-547, 637-643, 2126-2132).    *)
UserCodeUnprivileged ==
    phase \in Looping => (kernel_mode <=> pc # UserCode)

(* An enabled synchronous interrupt (fault or SYSCALL) is taken before the *)
(* next instruction: when an instruction executes, none is latched or      *)
(* still in the channel, whatever else arrived meanwhile (cpu.rs:174-204). *)
SyncTakenFirst ==
    phase = "execute" => Pending \cap Sync \cap imr = {}

(* A CPU blocked in PAUSE has no enabled interrupt latched: an interrupt   *)
(* latched while it was disabled and enabled since cannot be slept through *)
(* (cpu.rs:207-231).                                                       *)
SleepsOnlyWhenIdle ==
    phase = "recv" /\ pausing => latched \cap imr = {}

(* When the CPU thread has returned its state to the host, the timer       *)
(* thread has ended and has consumed every command (cpu.rs:282-292,        *)
(* 380-390).                                                               *)
StoppedIsQuiet ==
    phase \in {"stop_mmu", "returned"} => timer = "joined" /\ commands = <<>>

Entered(i) == pc' = i /\ Len(stack') = Len(stack) + 1

(* No interrupt is lost: once sent, it stays in the channel or the latch   *)
(* until its handler is entered or the CPU halts (cpu.rs:174-231).         *)
NoLostInterrupt ==
    [][\A i \in Pending \cap Interrupts :
          i \in Pending' \/ Entered(i) \/ phase' = "halted"]_vars

(* Once the host asks the CPU to stop, the CPU thread, its timer and the   *)
(* host's join all terminate, even if the CPU is pausing, halts by itself, *)
(* or faults and is interrupted without end (cpu.rs:395-409, 174-231).     *)
StopTerminates == host = "stopping" ~> host = "stopped"
-----------------------------------------------------------------------------
(***************************************************************************)
(* The inductive invariant behind the safety properties.                   *)
(***************************************************************************)
ModeInv ==
    /\ ~flags15
    /\ phase \in Looping \cup {"new"} => (kernel_mode <=> pc # UserCode)
    /\ \A k \in 1..Len(stack) : stack[k].bit15 <=> stack[k].pc # UserCode

LatchInv ==
    /\ phase \in {"recv", "execute"} => latched \cap imr = {}
    /\ phase = "execute" =>
         \A k \in 1..Len(chan) : chan[k] \notin Sync \cap imr

JoinIsLast ==
    \A k \in 1..Len(commands) : commands[k] = JoinTimer <=> k = Len(commands)

TimerRuns == {"on", "firing"}

TimerInv ==
    /\ phase = "new" => timer = "off"
    /\ phase \in Looping \cup {"halted", "stop_timer"} => timer \in TimerRuns
    /\ phase \in Looping \cup {"new", "halted", "stop_timer"} =>
         \A k \in 1..Len(commands) : commands[k] # JoinTimer
    /\ phase \in {"join_timer", "stop_mmu", "returned"} =>
         \/ /\ timer \in TimerRuns
            /\ phase = "join_timer"
            /\ commands # <<>>
            /\ JoinIsLast
         \/ timer = "joined" /\ commands = <<>>

CpuInv == TypeOK /\ ModeInv /\ LatchInv /\ TimerInv
=============================================================================
