--------------------------- MODULE MachineProofs ----------------------------
(***************************************************************************)
(* Theorems about the interrupt machinery of module Cpu, for every set of  *)
(* devices, faults and masks and every stack depth and bound, and about    *)
(* the idle loop, the keyboard and the display on top of it, for every     *)
(* size of the screen, every terminal and any number of key presses.       *)
(***************************************************************************)
EXTENDS IdleKernel, SequenceTheorems, TLAPS

-----------------------------------------------------------------------------
(***************************************************************************)
(* The machine, under any guest.                                           *)
(***************************************************************************)

(* Appending a message: what the longer sequence holds. *)
LEMMA AppendFacts ==
    ASSUME NEW S, NEW s \in Seq(S), NEW e \in S
    PROVE  /\ Append(s, e) \in Seq(S)
           /\ Len(Append(s, e)) = Len(s) + 1
           /\ \A k \in 1..Len(s) : Append(s, e)[k] = s[k]
           /\ Append(s, e)[Len(s) + 1] = e
OBVIOUS

(* Receiving a message: what is left of a non-empty sequence. *)
LEMMA TailFacts ==
    ASSUME NEW S, NEW s \in Seq(S), s # <<>>
    PROVE  /\ Head(s) \in S
           /\ Head(s) = s[1]
           /\ Tail(s) \in Seq(S)
           /\ Len(s) \in Nat \ {0}
           /\ Len(Tail(s)) = Len(s) - 1
           /\ \A k \in 1..Len(Tail(s)) : Tail(s)[k] = s[k + 1]
OBVIOUS

(* Popping the newest frame: what is left of a non-empty stack. *)
LEMMA FrontFacts ==
    ASSUME NEW S, NEW s \in Seq(S), s # <<>>
    PROVE  /\ Len(s) \in 1..Len(s)
           /\ s[Len(s)] \in S
           /\ SubSeq(s, 1, Len(s) - 1) \in Seq(S)
           /\ Len(SubSeq(s, 1, Len(s) - 1)) = Len(s) - 1
           /\ \A k \in 1..(Len(s) - 1) : SubSeq(s, 1, Len(s) - 1)[k] = s[k]
<1>1. /\ Len(s) \in 1..Len(s)
      /\ \A i \in 1..(Len(s) - 1) : s[i] \in S
      /\ s[Len(s)] \in S
  OBVIOUS
<1>2. PICK n \in Nat : Len(s) = n + 1
  <2>1. Len(s) \in Nat \ {0}
    BY EmptySeq
  <2>2. Len(s) - 1 \in Nat /\ Len(s) = (Len(s) - 1) + 1
    BY <2>1
  <2>. QED
    BY <2>2
<1>3. Len(s) - 1 = n
  BY <1>2
<1>4. \A i \in 1..n : s[i] \in S
  BY <1>1, <1>3
<1>5. /\ SubSeq(s, 1, n) \in Seq(S)
      /\ Len(SubSeq(s, 1, n)) = n
      /\ \A i \in 1..n : SubSeq(s, 1, n)[i] = s[i]
  BY <1>4, SubSeqProperties
<1>. QED
  BY <1>1, <1>3, <1>5

-----------------------------------------------------------------------------
(***************************************************************************)
(* Type correctness.                                                       *)
(***************************************************************************)

(* Entering a handler, or failing to, keeps the types of what it changes. *)
LEMMA DeliverType ==
    ASSUME TypeOK, NEW i \in Interrupts, NEW queue \in Seq(Messages),
           Deliver(i, queue)
    PROVE  /\ chan' \in Seq(Messages)
           /\ imr' \in SUBSET Interrupts
           /\ kernel_mode' \in BOOLEAN
           /\ flags15' \in BOOLEAN
           /\ pc' \in Regions
           /\ stack' \in Seq(Frame)
           /\ phase' \in Phases
<1>1. CASE EnterHandler(i, queue)
  <2>1. [bit15 |-> flags15 \/ kernel_mode, pc |-> pc, imr |-> imr] \in Frame
    BY DEF TypeOK, Frame
  <2>. QED
    BY <1>1, <2>1, AppendFacts
    DEF TypeOK, EnterHandler, Regions, Phases, Looping
<1>2. CASE FatalDelivery(queue)
  <2>1. INTERRUPT_ILLEGAL_OPERATION \in Messages
    BY DEF INTERRUPT_ILLEGAL_OPERATION, Messages, Interrupts
  <2>. QED
    BY <1>2, <2>1, AppendFacts DEF TypeOK, FatalDelivery, Phases
<1>. QED
  BY <1>1, <1>2 DEF Deliver

(* The interrupt check of a cycle preserves the types. *)
LEMMA PollType == TypeOK /\ Poll => TypeOK'
<1>. SUFFICES ASSUME TypeOK, Poll PROVE TypeOK'
  OBVIOUS
<1>. USE DEF latchVars, regVars, loopVars, timerVars, hostVars
<1>1. CASE TakeLatched
  <2>1. PICK i \in latched \cap imr :
           latched' = latched \ {i} /\ Deliver(i, chan)
    BY <1>1 DEF TakeLatched
  <2>2. i \in Interrupts /\ chan \in Seq(Messages)
    BY DEF TypeOK
  <2>. QED
    BY <1>1, <2>1, <2>2, DeliverType DEF TypeOK, TakeLatched
<1>2. CASE NoneLatched
  BY <1>2 DEF TypeOK, NoneLatched, Phases, Looping
<1>3. CASE ReceiveDisabled
  BY <1>3, TailFacts DEF TypeOK, ReceiveDisabled
<1>4. CASE ReceiveEnabled
  <2>1. Head(chan) \in Interrupts /\ Tail(chan) \in Seq(Messages)
    BY <1>4, TailFacts DEF TypeOK, ReceiveEnabled
  <2>. QED
    BY <1>4, <2>1, DeliverType DEF TypeOK, ReceiveEnabled
<1>5. CASE ReceiveJoin
  BY <1>5, TailFacts DEF TypeOK, ReceiveJoin, Phases
<1>6. CASE NothingReceived
  BY <1>6 DEF TypeOK, NothingReceived, Phases, Looping
<1>. QED
  BY <1>1, <1>2, <1>3, <1>4, <1>5, <1>6 DEF Poll

(* Executing an instruction preserves the types. *)
LEMMA ExecuteType == TypeOK /\ Execute => TypeOK'
<1>. SUFFICES ASSUME TypeOK, Execute PROVE TypeOK'
  OBVIOUS
<1>. USE DEF latchVars, regVars, loopVars, timerVars, hostVars,
             Completed, Privileged, Executing, Phases, Looping
<1>1. CASE Halt
  BY <1>1 DEF TypeOK, Halt
<1>2. CASE Pause
  BY <1>2 DEF TypeOK, Pause
<1>3. CASE SkippedPause
  BY <1>3 DEF TypeOK, SkippedPause
<1>4. ASSUME NEW ms \in {0, 1}, SetTimer(ms) PROVE TypeOK'
  BY <1>4, AppendFacts DEF TypeOK, SetTimer
<1>5. CASE UserMode
  BY <1>5 DEF TypeOK, UserMode, Regions
<1>6. CASE IReturn
  <2>1. stack[Len(stack)] \in Frame
    BY <1>6, FrontFacts DEF TypeOK, IReturn
  <2>2. stack' \in Seq(Frame)
    BY <1>6, FrontFacts DEF TypeOK, IReturn
  <2>. QED
    BY <1>6, <2>1, <2>2 DEF TypeOK, IReturn, Frame
<1>7. ASSUME NEW mask \in Masks, WriteImr(mask) PROVE TypeOK'
  BY <1>7, MasksAssumption DEF TypeOK, WriteImr
<1>8. CASE WriteKspr
  BY <1>8, EmptySeq DEF TypeOK, WriteKspr
<1>9. ASSUME NEW bit15 \in BOOLEAN, WriteFlags(bit15) PROVE TypeOK'
  BY <1>9 DEF TypeOK, WriteFlags, WrittenFlags15
<1>10. ASSUME NEW mask \in Masks, EditFrame(mask) PROVE TypeOK'
  <2>1. stack[Len(stack)] \in Frame /\ mask \in SUBSET Interrupts
    BY <1>10, FrontFacts, MasksAssumption DEF TypeOK, EditFrame
  <2>2. [stack[Len(stack)] EXCEPT !.imr = mask] \in Frame
    BY <2>1 DEF Frame
  <2>3. stack' \in Seq(Frame)
    BY <1>10, <2>2 DEF TypeOK, EditFrame
  <2>. QED
    BY <1>10, <2>3 DEF TypeOK, EditFrame
<1>11. CASE Syscall
  <2>1. INTERRUPT_SYSCALL \in Messages
    BY DEF INTERRUPT_SYSCALL, Messages, Interrupts
  <2>. QED
    BY <1>11, <2>1, AppendFacts DEF TypeOK, Syscall
<1>12. CASE OtherInstruction
  BY <1>12 DEF TypeOK, OtherInstruction
<1>13. ASSUME NEW i \in Faults, Fault(i) PROVE TypeOK'
  <2>1. i \in Messages
    BY FaultsAssumption DEF INTERRUPT_ILLEGAL_OPERATION, INTERRUPT_DIV_BY_0,
                            INTERRUPT_PAGE_FAULT, Messages, Interrupts
  <2>. QED
    BY ZenonT(40), <1>13, <2>1, AppendFacts DEF TypeOK, Fault, Regions, KernelCode, UserCode
<1>. QED
  BY <1>1, <1>2, <1>3, <1>4, <1>5, <1>6, <1>7, <1>8, <1>9, <1>10, <1>11,
     <1>12, <1>13 DEF Execute

(* The CPU thread's set-up and clean-up preserve the types. *)
LEMMA LifecycleType == TypeOK /\ Lifecycle => TypeOK'
<1>. SUFFICES ASSUME TypeOK, Lifecycle PROVE TypeOK'
  OBVIOUS
<1>. USE DEF latchVars, regVars, loopVars, timerVars, hostVars, Phases, Looping
<1>1. CASE ThreadStart
  BY <1>1 DEF TypeOK, ThreadStart
<1>2. CASE SendHalted
  BY <1>2 DEF TypeOK, SendHalted
<1>3. CASE StopTimer
  BY <1>3, AppendFacts DEF TypeOK, StopTimer
<1>4. CASE TimerJoined
  BY <1>4 DEF TypeOK, TimerJoined
<1>5. CASE StopMmu
  BY <1>5 DEF TypeOK, StopMmu
<1>. QED
  BY <1>1, <1>2, <1>3, <1>4, <1>5 DEF Lifecycle

(* Every step preserves the types. *)
LEMMA NextType == TypeOK /\ [Next]_vars => TypeOK'
<1>. SUFFICES ASSUME TypeOK, [Next]_vars PROVE TypeOK'
  OBVIOUS
<1>. USE DEF latchVars, regVars, loopVars, timerVars, hostVars
<1>1. CASE CpuThread
  BY <1>1, PollType, ExecuteType, LifecycleType DEF CpuThread
<1>2. ASSUME NEW i \in Devices, DeviceInterrupt(i) PROVE TypeOK'
  <2>1. i \in Messages
    BY DevicesAssumption DEF INTERRUPT_KEYBOARD, INTERRUPT_DISK_A,
                             INTERRUPT_DISK_B, Messages, Interrupts
  <2>. QED
    BY <1>2, <2>1, AppendFacts DEF TypeOK, DeviceInterrupt, Send
<1>3. CASE TimerCommand
  BY <1>3, TailFacts DEF TypeOK, TimerCommand, JoinTimer
<1>4. CASE TimerFires
  <2>1. INTERRUPT_TIMER \in Messages
    BY DEF INTERRUPT_TIMER, Messages, Interrupts
  <2>. QED
    BY <1>4, <2>1, AppendFacts DEF TypeOK, TimerFires, Send
<1>5. CASE HostStart
  BY <1>5 DEF TypeOK, HostStart
<1>6. CASE UiSeesHalt \/ UserQuits
  <2>1. JOIN_THREAD \in Messages
    BY DEF Messages
  <2>2. CASE UiSeesHalt
    BY <2>1, <2>2, AppendFacts DEF TypeOK, UiSeesHalt, HostStops, Send
  <2>3. CASE UserQuits
    BY <2>1, <2>3, AppendFacts DEF TypeOK, UserQuits, HostStops, Send
  <2>. QED
    BY <1>6, <2>2, <2>3
<1>7. CASE HostJoins
  BY <1>7 DEF TypeOK, HostJoins
<1>8. CASE UNCHANGED vars
  BY <1>8 DEF TypeOK, vars
<1>9. CASE TimerTimesOut
  BY <1>9 DEF TypeOK, TimerTimesOut
<1>. QED
  BY <1>1, <1>2, <1>3, <1>4, <1>5, <1>6, <1>7, <1>8, <1>9 DEF Next, Terminated

(* Every variable keeps its type in every behaviour of the CPU. *)
THEOREM TypeCorrect == Spec => []TypeOK
<1>1. Init => TypeOK
  BY EmptySeq DEF Init, TypeOK, Phases, Regions, Messages
<1>. QED
  BY <1>1, NextType, PTL DEF Spec
-----------------------------------------------------------------------------
(***************************************************************************)
(* Privilege: user code runs in user mode.                                 *)
(***************************************************************************)

(* Delivery saves a frame whose mode bit tells user code from kernel code. *)
LEMMA DeliverMode ==
    ASSUME TypeOK, ModeInv, phase \in Looping, NEW i \in Interrupts, NEW queue,
           Deliver(i, queue)
    PROVE  ModeInv'
<1>1. CASE EnterHandler(i, queue)
  <2>1. [bit15 |-> flags15 \/ kernel_mode, pc |-> pc, imr |-> imr] \in Frame
    BY DEF TypeOK, Frame
  <2>2. \A k \in 1..Len(stack') : stack'[k].bit15 <=> stack'[k].pc # UserCode
    <3>. SUFFICES ASSUME NEW k \in 1..Len(stack')
                 PROVE  stack'[k].bit15 <=> stack'[k].pc # UserCode
      OBVIOUS
    <3>1. CASE k \in 1..Len(stack)
      BY <1>1, <2>1, <3>1, AppendFacts DEF TypeOK, ModeInv, EnterHandler
    <3>2. CASE k = Len(stack) + 1
      BY <1>1, <2>1, <3>2, AppendFacts DEF TypeOK, ModeInv, EnterHandler
    <3>. QED
      BY <1>1, <2>1, <3>1, <3>2, AppendFacts DEF TypeOK, EnterHandler
  <2>. QED
    BY <1>1, <2>2 DEF ModeInv, EnterHandler, UserCode, Interrupts
<1>2. CASE FatalDelivery(queue)
  BY <1>2 DEF ModeInv, FatalDelivery, Looping
<1>. QED
  BY <1>1, <1>2 DEF Deliver

(* Every step preserves the correspondence of mode bits and code regions. *)
LEMMA NextMode == TypeOK /\ ModeInv /\ [Next]_vars => ModeInv'
<1>. SUFFICES ASSUME TypeOK, ModeInv, [Next]_vars PROVE ModeInv'
  OBVIOUS
<1>. USE DEF latchVars, regVars, loopVars, timerVars, hostVars
<1>1. CASE Poll
  <2>1. CASE TakeLatched
    <3>1. PICK i \in latched \cap imr : Deliver(i, chan)
      BY <2>1 DEF TakeLatched
    <3>. QED
      BY <2>1, <3>1, DeliverMode DEF TypeOK, TakeLatched, Looping
  <2>2. CASE ReceiveEnabled
    <3>1. Head(chan) \in Interrupts
      BY <2>2 DEF TypeOK, ReceiveEnabled
    <3>. QED
      BY <2>2, <3>1, DeliverMode DEF ReceiveEnabled, Looping
  <2>3. CASE NoneLatched \/ ReceiveDisabled \/ ReceiveJoin \/ NothingReceived
    BY <2>3 DEF ModeInv, NoneLatched, ReceiveDisabled, ReceiveJoin,
                NothingReceived, Looping
  <2>. QED
    BY <1>1, <2>1, <2>2, <2>3 DEF Poll
<1>2. CASE Execute
  <2>. USE DEF Completed, Privileged, Executing, Looping
  <2>1. CASE Halt \/ Pause \/ SkippedPause \/ Syscall \/ OtherInstruction
    BY <2>1 DEF ModeInv, Halt, Pause, SkippedPause, Syscall, OtherInstruction
  <2>2. ASSUME NEW ms, SetTimer(ms) PROVE ModeInv'
    BY <2>2 DEF ModeInv, SetTimer
  <2>3. CASE UserMode
    BY <2>3 DEF ModeInv, UserMode
  <2>4. CASE IReturn
    <3>1. /\ Len(stack) \in 1..Len(stack)
          /\ Len(stack') = Len(stack) - 1
          /\ \A k \in 1..Len(stack') : stack'[k] = stack[k]
      BY <2>4, FrontFacts DEF TypeOK, IReturn
    <3>2. \A k \in 1..Len(stack') : stack'[k].bit15 <=> stack'[k].pc # UserCode
      BY <3>1 DEF TypeOK, ModeInv
    <3>3. kernel_mode' <=> pc' # UserCode
      BY <2>4, <3>1 DEF ModeInv, IReturn
    <3>. QED
      BY <2>4, <3>2, <3>3 DEF ModeInv, IReturn
  <2>5. ASSUME NEW mask, WriteImr(mask) PROVE ModeInv'
    BY <2>5 DEF ModeInv, WriteImr
  <2>6. CASE WriteKspr
    BY <2>6, EmptySeq DEF ModeInv, WriteKspr
  <2>7. ASSUME NEW bit15, WriteFlags(bit15) PROVE ModeInv'
    BY <2>7 DEF ModeInv, WriteFlags, WrittenFlags15
  <2>8. ASSUME NEW mask, EditFrame(mask) PROVE ModeInv'
    <3>1. /\ Len(stack') = Len(stack)
          /\ \A k \in 1..Len(stack) : /\ stack'[k].bit15 = stack[k].bit15
                                      /\ stack'[k].pc = stack[k].pc
      BY <2>8 DEF TypeOK, EditFrame, Frame
    <3>. QED
      BY <2>8, <3>1 DEF ModeInv, EditFrame
  <2>9. ASSUME NEW i, Fault(i) PROVE ModeInv'
    BY <2>9 DEF ModeInv, TypeOK, Fault, KernelCode, UserCode, Looping
  <2>. QED
    BY <1>2, <2>1, <2>2, <2>3, <2>4, <2>5, <2>6, <2>7, <2>8, <2>9 DEF Execute
<1>3. CASE Lifecycle
  BY <1>3 DEF ModeInv, Lifecycle, ThreadStart, SendHalted, StopTimer,
              TimerJoined, StopMmu, Looping
<1>4. CASE UNCHANGED <<regVars, phase>>
  BY <1>4 DEF ModeInv
<1>5. (Next \/ UNCHANGED vars) =>
         Poll \/ Execute \/ Lifecycle \/ UNCHANGED <<regVars, phase>>
  BY DEF Next, CpuThread, DeviceInterrupt, TimerCommand, TimerTimesOut, TimerFires,
         HostStart, UiSeesHalt, UserQuits, HostStops, HostJoins, Terminated, vars
<1>. QED
  BY <1>1, <1>2, <1>3, <1>4, <1>5

(* User code never runs with kernel privileges, and kernel code always    *)
(* does, whatever flags the program writes and however interrupts nest.    *)
THEOREM PrivilegeSafe == Spec => []UserCodeUnprivileged
<1>1. Init => ModeInv
  BY EmptySeq DEF Init, ModeInv, KernelCode, UserCode
<1>2. ModeInv => UserCodeUnprivileged
  BY DEF ModeInv, UserCodeUnprivileged
<1>. QED
  BY <1>1, <1>2, NextMode, TypeCorrect, PTL DEF Spec
-----------------------------------------------------------------------------
(***************************************************************************)
(* The latch: synchronous interrupts come first, sleep is justified.       *)
(***************************************************************************)

(* A message from another thread is never an enabled synchronous           *)
(* interrupt, so it cannot disturb an instruction already being executed.  *)
LEMMA AsyncSend ==
    ASSUME TypeOK, LatchInv, NEW m \in Messages, m \notin Sync,
           chan' = Append(chan, m), UNCHANGED <<latched, imr, phase>>
    PROVE  LatchInv'
<1>1. ASSUME phase = "execute", NEW k \in 1..Len(chan')
      PROVE  chan'[k] \notin Sync \cap imr
  <2>0. /\ Len(chan) \in Nat /\ Len(chan') = Len(chan) + 1
        /\ \A j \in 1..Len(chan) : chan'[j] = chan[j]
        /\ chan'[Len(chan) + 1] = m
    <3>1. chan \in Seq(Messages)
      BY DEF TypeOK
    <3>. QED
      BY <3>1, AppendFacts
  <2>1. CASE k \in 1..Len(chan)
    <3>1. chan'[k] = chan[k]
      BY <2>0, <2>1
    <3>2. chan[k] \notin Sync \cap imr
      BY <1>1, <2>1 DEF LatchInv
    <3>. QED
      BY <3>1, <3>2
  <2>2. CASE k = Len(chan) + 1
    BY <2>0, <2>2
  <2>. QED
    BY <2>0, <2>1, <2>2
<1>. QED
  BY <1>1 DEF LatchInv

(* Every step preserves the invariant of the latch. *)
LEMMA NextLatch == TypeOK /\ LatchInv /\ [Next]_vars => LatchInv'
<1>. SUFFICES ASSUME TypeOK, LatchInv, [Next]_vars PROVE LatchInv'
  OBVIOUS
<1>. USE DEF latchVars, regVars, loopVars, timerVars, hostVars
<1>1. CASE Poll
  <2>1. ASSUME NEW i, NEW queue, Deliver(i, queue) PROVE LatchInv'
    BY <2>1 DEF LatchInv, Deliver, EnterHandler, FatalDelivery
  <2>2. CASE NoneLatched
    BY <2>2 DEF LatchInv, NoneLatched
  <2>3. CASE ReceiveDisabled
    BY <2>3 DEF LatchInv, ReceiveDisabled
  <2>4. CASE ReceiveJoin
    BY <2>4 DEF LatchInv, ReceiveJoin
  <2>5. CASE NothingReceived
    BY <2>5, EmptySeq DEF LatchInv, NothingReceived
  <2>. QED
    BY <1>1, <2>1, <2>2, <2>3, <2>4, <2>5 DEF Poll, TakeLatched, ReceiveEnabled
<1>2. CASE Execute \/ Lifecycle
  <2>1. phase' \notin {"recv", "execute"}
    BY <1>2 DEF Execute, Lifecycle, Completed, Halt, Pause, SkippedPause,
       SetTimer, UserMode, IReturn, WriteImr, WriteKspr, WriteFlags, EditFrame,
       Syscall, OtherInstruction, Fault, ThreadStart, SendHalted, StopTimer,
       TimerJoined, StopMmu
  <2>. QED
    BY <2>1 DEF LatchInv
<1>3. ASSUME NEW i \in Devices, DeviceInterrupt(i) PROVE LatchInv'
  <2>1. i \in Messages /\ i \notin Sync
    BY DevicesAssumption
    DEF Messages, Interrupts, Sync, INTERRUPT_KEYBOARD, INTERRUPT_DISK_A,
        INTERRUPT_DISK_B, INTERRUPT_ILLEGAL_OPERATION, INTERRUPT_DIV_BY_0,
        INTERRUPT_PAGE_FAULT, INTERRUPT_SYSCALL
  <2>. QED
    BY <1>3, <2>1, AsyncSend DEF DeviceInterrupt, Send
<1>4. CASE TimerFires
  <2>1. INTERRUPT_TIMER \in Messages /\ INTERRUPT_TIMER \notin Sync
    BY DEF Messages, Interrupts, Sync, INTERRUPT_TIMER,
           INTERRUPT_ILLEGAL_OPERATION, INTERRUPT_DIV_BY_0,
           INTERRUPT_PAGE_FAULT, INTERRUPT_SYSCALL
  <2>. QED
    BY <1>4, <2>1, AsyncSend DEF TimerFires, Send
<1>5. CASE UiSeesHalt \/ UserQuits
  <2>1. JOIN_THREAD \in Messages /\ JOIN_THREAD \notin Sync
    BY JoinAssumption
    DEF Messages, Interrupts, Sync, INTERRUPT_ILLEGAL_OPERATION,
        INTERRUPT_DIV_BY_0, INTERRUPT_PAGE_FAULT, INTERRUPT_SYSCALL
  <2>. QED
    BY <1>5, <2>1, AsyncSend DEF UiSeesHalt, UserQuits, HostStops, Send
<1>6. CASE UNCHANGED <<latchVars, imr, phase>>
  BY <1>6 DEF LatchInv
<1>. QED
  BY <1>1, <1>2, <1>3, <1>4, <1>5, <1>6
  DEF Next, CpuThread, TimerCommand, TimerTimesOut, HostStart, HostJoins,
      Terminated, vars

(* The invariant of the latch holds in every behaviour. *)
LEMMA LatchCorrect == Spec => []LatchInv
<1>1. Init => LatchInv
  BY DEF Init, LatchInv
<1>. QED
  BY <1>1, NextLatch, TypeCorrect, PTL DEF Spec

(* An enabled fault or SYSCALL is always taken before another instruction  *)
(* executes.                                                               *)
THEOREM SyncFirst == Spec => []SyncTakenFirst
<1>1. LatchInv => SyncTakenFirst
  BY DEF LatchInv, SyncTakenFirst, Pending, Queued
<1>. QED
  BY <1>1, LatchCorrect, PTL

(* A CPU blocked in PAUSE leaves no enabled interrupt in the latch. *)
THEOREM SleepJustified == Spec => []SleepsOnlyWhenIdle
<1>1. LatchInv => SleepsOnlyWhenIdle
  BY DEF LatchInv, SleepsOnlyWhenIdle
<1>. QED
  BY <1>1, LatchCorrect, PTL

-----------------------------------------------------------------------------
(***************************************************************************)
(* No interrupt is lost.                                                   *)
(***************************************************************************)

(* Appending a message leaves everything pending that was. *)
LEMMA AppendKeepsPending ==
    ASSUME TypeOK, NEW m \in Messages, chan' = Append(chan, m),
           latched \subseteq latched'
    PROVE  Pending \subseteq Pending'
<1>1. ASSUME NEW k \in 1..Len(chan) PROVE chan[k] \in Queued'
  BY <1>1, AppendFacts DEF TypeOK, Queued
<1>. QED
  BY <1>1 DEF Pending, Queued

(* Receiving the head removes at most the head from what is pending. *)
LEMMA TailKeepsPending ==
    ASSUME TypeOK, chan # <<>>, NEW queue, queue = Tail(chan),
           NEW i \in Queued, i # Head(chan)
    PROVE  \E k \in 1..Len(queue) : queue[k] = i
<1>1. PICK k \in 1..Len(chan) : chan[k] = i
  BY DEF Queued
<1>2. k # 1
  BY <1>1, TailFacts DEF TypeOK
<1>3. k - 1 \in 1..Len(queue) /\ queue[k - 1] = chan[(k - 1) + 1]
  BY <1>1, <1>2, TailFacts DEF TypeOK
<1>4. (k - 1) + 1 = k
  BY <1>1
<1>. QED
  BY <1>1, <1>3, <1>4

(* Every step keeps an interrupt pending, enters its handler or halts. *)
LEMMA NextKeepsPending ==
    ASSUME TypeOK, [Next]_vars, NEW i \in Pending \cap Interrupts
    PROVE  i \in Pending' \/ Entered(i) \/ phase' = "halted"
<1>. USE DEF latchVars, regVars, loopVars, timerVars, hostVars
<1>1. CASE TakeLatched
  <2>1. PICK j \in latched \cap imr :
           latched' = latched \ {j} /\ Deliver(j, chan)
    BY <1>1 DEF TakeLatched
  <2>2. CASE FatalDelivery(chan)
    BY <2>2 DEF FatalDelivery
  <2>3. CASE EnterHandler(j, chan)
    <3>1. Entered(j) /\ chan' = chan
      <4>1. [bit15 |-> flags15 \/ kernel_mode, pc |-> pc, imr |-> imr] \in Frame
        BY DEF TypeOK, Frame
      <4>. QED
        BY <2>3, <4>1, AppendFacts DEF TypeOK, EnterHandler, Entered
    <3>. QED
      BY <2>1, <3>1 DEF Pending, Queued
  <2>. QED
    BY <2>1, <2>2, <2>3 DEF Deliver
<1>2. CASE ReceiveEnabled
  <2>1. CASE FatalDelivery(Tail(chan))
    BY <2>1 DEF FatalDelivery
  <2>2. CASE EnterHandler(Head(chan), Tail(chan))
    <3>1. Entered(Head(chan)) /\ chan' = Tail(chan) /\ latched' = latched
      <4>1. [bit15 |-> flags15 \/ kernel_mode, pc |-> pc, imr |-> imr] \in Frame
        BY DEF TypeOK, Frame
      <4>. QED
        BY <1>2, <2>2, <4>1, AppendFacts
        DEF TypeOK, ReceiveEnabled, EnterHandler, Entered
    <3>2. CASE i \in latched
      BY <3>1, <3>2 DEF Pending
    <3>3. CASE i \in Queued /\ i # Head(chan)
      BY <1>2, <3>1, <3>3, TailKeepsPending DEF ReceiveEnabled, Pending, Queued
    <3>. QED
      BY <3>1, <3>2, <3>3 DEF Pending
  <2>. QED
    BY <1>2, <2>1, <2>2 DEF ReceiveEnabled, Deliver
<1>3. CASE ReceiveDisabled
  <2>1. CASE i \in latched'
    BY <2>1 DEF Pending
  <2>2. CASE i \notin latched'
    <3>1. i \in Queued /\ i # Head(chan)
      BY <1>3, <2>2 DEF ReceiveDisabled, Pending
    <3>. QED
      BY <1>3, <3>1, TailKeepsPending DEF ReceiveDisabled, Pending, Queued
  <2>. QED
    BY <2>1, <2>2
<1>4. CASE ReceiveJoin
  BY <1>4 DEF ReceiveJoin
<1>5. CASE UNCHANGED latchVars
  BY <1>5 DEF Pending, Queued
<1>6. ASSUME NEW m \in Messages, chan' = Append(chan, m), latched' = latched
      PROVE  i \in Pending'
  BY <1>6, AppendKeepsPending
<1>7. /\ Devices \subseteq Messages /\ Faults \subseteq Messages
      /\ {INTERRUPT_TIMER, INTERRUPT_SYSCALL, JOIN_THREAD} \subseteq Messages
  BY DevicesAssumption, FaultsAssumption
  DEF Messages, Interrupts, INTERRUPT_ILLEGAL_OPERATION, INTERRUPT_DIV_BY_0,
      INTERRUPT_PAGE_FAULT, INTERRUPT_KEYBOARD, INTERRUPT_DISK_A,
      INTERRUPT_DISK_B, INTERRUPT_TIMER, INTERRUPT_SYSCALL
<1>8. CASE Execute
  <2>1. CASE Syscall
    BY <1>6, <1>7, <2>1 DEF Syscall
  <2>2. ASSUME NEW f \in Faults, Fault(f) PROVE i \in Pending'
    BY <1>6, <1>7, <2>2 DEF Fault
  <2>. QED
    BY <1>5, <1>8, <2>1, <2>2
    DEF Execute, Halt, Pause, SkippedPause, SetTimer, UserMode, IReturn,
        WriteImr, WriteKspr, WriteFlags, EditFrame, OtherInstruction
<1>9. CASE Lifecycle
  BY <1>5, <1>9
  DEF Lifecycle, ThreadStart, SendHalted, StopTimer, TimerJoined, StopMmu
<1>10. ASSUME NEW d \in Devices, DeviceInterrupt(d) PROVE i \in Pending'
  BY <1>6, <1>7, <1>10 DEF DeviceInterrupt, Send
<1>11. CASE TimerFires
  BY <1>6, <1>7, <1>11 DEF TimerFires, Send
<1>12. CASE UiSeesHalt \/ UserQuits
  BY <1>6, <1>7, <1>12 DEF UiSeesHalt, UserQuits, HostStops, Send
<1>. QED
  BY <1>1, <1>2, <1>3, <1>4, <1>5, <1>8, <1>9, <1>10, <1>11, <1>12
  DEF Next, CpuThread, Poll, NoneLatched, NothingReceived, TimerCommand,
      TimerTimesOut, HostStart, HostJoins, Terminated, vars

(* Once sent, an interrupt stays pending until its handler is entered or   *)
(* the CPU halts.                                                          *)
THEOREM InterruptsKept == Spec => NoLostInterrupt
<1>1. TypeOK /\ [Next]_vars =>
        [\A i \in Pending \cap Interrupts :
            i \in Pending' \/ Entered(i) \/ phase' = "halted"]_vars
  BY NextKeepsPending
<1>. QED
  BY <1>1, TypeCorrect, PTL DEF Spec, NoLostInterrupt
-----------------------------------------------------------------------------
(***************************************************************************)
(* The timer thread ends before the CPU thread returns.                    *)
(***************************************************************************)

(* Every step preserves the timer protocol: JoinThread is sent once, last. *)
LEMMA NextTimer == TypeOK /\ TimerInv /\ [Next]_vars => TimerInv'
<1>. SUFFICES ASSUME TypeOK, TimerInv, [Next]_vars PROVE TimerInv'
  OBVIOUS
<1>. USE DEF latchVars, regVars, loopVars, timerVars, hostVars, Looping, TimerRuns
<1>1. CASE Poll
  BY <1>1
  DEF Poll, TakeLatched, NoneLatched, ReceiveDisabled, ReceiveEnabled,
      ReceiveJoin, NothingReceived, Deliver, EnterHandler, FatalDelivery, TimerInv
<1>2. CASE Execute
  <2>1. ASSUME NEW ms \in {0, 1}, SetTimer(ms) PROVE TimerInv'
    <3>1. phase = "execute" /\ phase' = "poll" /\ timer' = timer
      BY <2>1 DEF SetTimer, Privileged, Executing, Completed
    <3>2. \A k \in 1..Len(commands') : commands'[k] # JoinTimer
      BY <2>1, <3>1, AppendFacts DEF SetTimer, TypeOK, TimerInv, JoinTimer
    <3>. QED
      BY <3>1, <3>2 DEF TimerInv
  <2>2. CASE /\ phase = "execute"
             /\ phase' \in {"poll", "halted"}
             /\ UNCHANGED timerVars
    BY <2>2 DEF TimerInv
  <2>. QED
    BY <1>2, <2>1, <2>2
    DEF Execute, Privileged, Executing, Completed, Halt, Pause, SkippedPause,
        UserMode, IReturn, WriteImr, WriteKspr, WriteFlags, EditFrame, Syscall,
        OtherInstruction, Fault
<1>3. CASE Lifecycle
  <2>1. CASE ThreadStart
    BY <2>1 DEF ThreadStart, TimerInv
  <2>2. CASE SendHalted
    BY <2>2 DEF SendHalted, TimerInv
  <2>3. CASE StopTimer
    <3>1. JoinIsLast' /\ commands' # <<>>
      BY <2>3, AppendFacts, EmptySeq DEF StopTimer, TypeOK, TimerInv, JoinIsLast
    <3>. QED
      BY <2>3, <3>1 DEF StopTimer, TimerInv
  <2>4. CASE TimerJoined \/ StopMmu
    BY <2>4 DEF TimerJoined, StopMmu, TimerInv
  <2>. QED
    BY <1>3, <2>1, <2>2, <2>3, <2>4 DEF Lifecycle
<1>4. CASE TimerCommand
  <2>1. /\ Len(commands) \in Nat \ {0}
        /\ Head(commands) = commands[1]
        /\ Len(commands') = Len(commands) - 1
        /\ \A k \in 1..Len(commands') : commands'[k] = commands[k + 1]
    BY <1>4, TailFacts DEF TypeOK, TimerCommand
  <2>2. CASE phase = "join_timer"
    <3>1. JoinIsLast /\ timer = "on"
      BY <1>4, <2>2 DEF TimerCommand, TimerInv
    <3>0. Head(commands) = JoinTimer <=> Len(commands) = 1
      <4>1. 1 \in 1..Len(commands)
        BY <2>1
      <4>. QED
        BY <2>1, <3>1, <4>1 DEF JoinIsLast
    <3>2. CASE Head(commands) = JoinTimer
      <4>1. Len(commands') = 0 /\ timer' = "joined"
        BY <1>4, <2>1, <3>0, <3>2 DEF TimerCommand
      <4>2. commands' = <<>>
        <5>1. commands' \in Seq({JoinTimer, 0, 1})
          BY <1>4, TailFacts DEF TypeOK, TimerCommand
        <5>. QED
          BY <4>1, <5>1, EmptySeq
      <4>. QED
        BY <1>4, <2>2, <4>1, <4>2 DEF TimerCommand, TimerInv
    <3>3. CASE Head(commands) # JoinTimer
      <4>1. Len(commands) # 1 /\ timer' = "on"
        BY <1>4, <3>0, <3>1, <3>3 DEF TimerCommand
      <4>2. commands' # <<>>
        BY <2>1, <4>1, EmptySeq
      <4>3. ASSUME NEW k \in 1..Len(commands')
            PROVE  commands'[k] = JoinTimer <=> k = Len(commands')
        <5>1. k + 1 \in 1..Len(commands)
          BY <2>1
        <5>2. commands[k + 1] = JoinTimer <=> k + 1 = Len(commands)
          BY <3>1, <5>1 DEF JoinIsLast
        <5>. QED
          BY <2>1, <5>2
      <4>. QED
        BY <1>4, <2>2, <4>1, <4>2, <4>3 DEF TimerCommand, TimerInv, JoinIsLast
    <3>. QED
      BY <3>2, <3>3
  <2>3. CASE phase \in Looping \cup {"halted", "stop_timer"}
    <3>1. \A k \in 1..Len(commands) : commands[k] # JoinTimer
      BY <2>3 DEF TimerInv
    <3>2. Head(commands) # JoinTimer /\ \A k \in 1..Len(commands') : commands'[k] # JoinTimer
      BY <2>1, <3>1
    <3>. QED
      BY <1>4, <2>3, <3>2 DEF TimerCommand, TimerInv
  <2>. QED
    BY <1>4, <2>2, <2>3 DEF TypeOK, Phases, TimerCommand, TimerInv
<1>5. CASE UNCHANGED <<phase, timerVars>>
  BY <1>5 DEF TimerInv, JoinIsLast
<1>6. CASE TimerTimesOut \/ TimerFires
  BY <1>6 DEF TimerTimesOut, TimerFires, TypeOK, Phases, TimerInv, JoinIsLast
<1>7. (Next \/ UNCHANGED vars) =>
        \/ Poll \/ Execute \/ Lifecycle \/ TimerCommand
        \/ TimerTimesOut \/ TimerFires \/ UNCHANGED <<phase, timerVars>>
  BY DEF Next, CpuThread, DeviceInterrupt, HostStart, UiSeesHalt, UserQuits,
         HostStops, HostJoins, Terminated, vars
<1>. QED
  BY <1>1, <1>2, <1>3, <1>4, <1>5, <1>6, <1>7

(* When the CPU thread returns, the timer thread has ended and no command  *)
(* is left in its channel.                                                 *)
THEOREM TimerEnds == Spec => []StoppedIsQuiet
<1>1. Init => TimerInv
  BY EmptySeq DEF Init, TimerInv, Looping
<1>2. TimerInv => StoppedIsQuiet
  BY DEF TimerInv, StoppedIsQuiet
<1>. QED
  BY <1>1, <1>2, NextTimer, TypeCorrect, PTL DEF Spec

-----------------------------------------------------------------------------
(***************************************************************************)
(* The idle loop with its terminal.                                        *)
(***************************************************************************)

(* The numbers of interrupts and regions. *)
LEMMA Numbers ==
    /\ INTERRUPT_KEYBOARD \in Interrupts
    /\ INTERRUPT_KEYBOARD \in Messages
    /\ INTERRUPT_KEYBOARD # KernelCode
    /\ INTERRUPT_KEYBOARD # JOIN_THREAD
    /\ INTERRUPT_ILLEGAL_OPERATION # JOIN_THREAD
    /\ OnlyKeyboard \in SUBSET Interrupts
BY JoinAssumption
DEF INTERRUPT_KEYBOARD, INTERRUPT_ILLEGAL_OPERATION, Interrupts, Messages, KernelCode,
    OnlyKeyboard

(* The screen has cells. *)
LEMMA ScreenSize == CELLS \in Nat \ {0}
BY DisplayAssumption DEF CELLS

-----------------------------------------------------------------------------
(***************************************************************************)
(* Type correctness.                                                       *)
(***************************************************************************)

(* What the CPU, the timer and the host do in the guest's machine. *)
CpuStep ==
    \/ [Next]_vars
    \/ \E mask \in {{}, OnlyKeyboard} : WriteImr(mask)
    \/ DeviceInterrupt(INTERRUPT_KEYBOARD)

(* No step of the composition does more to the CPU's variables. *)
LEMMA NextIdleIsCpuStep == TypeOK /\ [NextIdle]_allVars => CpuStep
<1>. SUFFICES ASSUME TypeOK, [NextIdle]_allVars PROVE CpuStep
  OBVIOUS
<1>1. CASE Guest
  BY <1>1
  DEF Guest, LoopMasks, LoopTests, LoopServes, LoopSetsChar, LoopSetsFg, LoopSetsBg,
      LoopHalts, LoopUnmasks, LoopPauses, HandlerLoadsKey, HandlerLoadsMetadata,
      HandlerStores, HandlerReturns, CpuStep, Next, CpuThread, Execute, OnlyKeyboard
<1>2. CASE Poll \/ ConsoleLifecycle
  BY <1>2
  DEF CpuStep, Next, CpuThread, Lifecycle, ConsoleLifecycle, ConsoleStart, ConsoleHalted,
      KeyboardStop, KeyboardStopped
<1>3. CASE Terminal
  <2>1. HostStops => UiSeesHalt \/ UserQuits
    BY DEF UiSeesHalt, UserQuits
  <2>. QED
    BY <1>3, <2>1
    DEF CpuStep, Next, Terminal, ListenerReads, ListenerChecks, KeyReceived,
        KeyboardJoins, UiDraws, UiLeavesLoop, UiReturns
<1>4. CASE TimerCommand \/ HostStart \/ HostJoins \/ UNCHANGED vars
  BY <1>4 DEF CpuStep, Next
<1>. QED
  BY <1>1, <1>2, <1>3, <1>4
  DEF NextIdle, IdleCpu, IdleTerminal, IdleTimer, IdleHost, UserTypes, AwaitsUser,
      Terminated, allVars

(* Every step of the guest's machine preserves the types of the CPU's      *)
(* variables.                                                              *)
LEMMA CpuStepType == TypeOK /\ CpuStep => TypeOK'
<1>. SUFFICES ASSUME TypeOK, CpuStep PROVE TypeOK'
  OBVIOUS
<1>. USE DEF latchVars, regVars, loopVars, timerVars, hostVars
<1>1. ASSUME NEW mask \in {{}, OnlyKeyboard}, WriteImr(mask) PROVE TypeOK'
  BY <1>1, Numbers DEF TypeOK, WriteImr, Completed, Phases, Looping
<1>2. CASE DeviceInterrupt(INTERRUPT_KEYBOARD)
  BY <1>2, Numbers, AppendFacts DEF TypeOK, DeviceInterrupt, Send
<1>. QED
  BY <1>1, <1>2, NextType DEF CpuStep

(* The byte of a key event (keyboard.rs). *)
LEMMA KeyRange == \A code : key_to_u8(code) \in 0..255
BY DEF key_to_u8, NamedKeys, NoKey, PoundSign, NotSign
(* The character drawn for a byte is a character of the screen buffer. *)
LEMMA CharRange == \A byte \in 0..255 : u8_to_printable_char(byte) \in 0..255
BY DEF u8_to_printable_char, PoundSign, NotSign, NoChar
(* The colour drawn for a byte is a colour. *)
LEMMA ColourRange == \A n \in Nat : rgb(n) \in Colours
BY DEF rgb, Colours
(* The metadata of a key message are two bits. *)
LEMMA MetadataRange == \A m : Metadata(m) \in 0..3
BY DEF Metadata

(* A key event becomes a message of the keyboard's channel, and it is not  *)
(* the message that ends the keyboard's thread.                            *)
LEMMA KeyMessage ==
    ASSUME NEW e \in Events, key_to_u8(e.code) # NoKey
    PROVE  /\ Key(key_to_u8(e.code), e.ctrl, e.alt) \in KeyMessages
           /\ Key(key_to_u8(e.code), e.ctrl, e.alt) # JoinThread
BY KeyRange, EventsAssumption DEF Key, KeyMessages, JoinThread

(* What the history records of a key message. *)
LEMMA RecordedType == \A m \in KeyMessages : Recorded(m) \in [key : 0..255, metadata : 0..3]
BY MetadataRange DEF KeyMessages, Recorded

(* A cell's position leads back to the cell. *)
LEMMA Position ==
    ASSUME NEW cell \in Cells
    PROVE  /\ At(cell) \in Positions
           /\ At(cell).row * COLS + At(cell).col = cell
BY DisplayAssumption, ScreenSize DEF At, Positions, Cells

(* What a store to one of the three parts of the display sends. *)
LEMMA CommandSent ==
    ASSUME NEW cell \in Cells, NEW value \in Nat
    PROVE  /\ DisplayCommands(cell, value) =
                IF u8_to_printable_char(value) = NoChar THEN <<>>
                ELSE <<[set |-> "char", at |-> At(cell), to |-> u8_to_printable_char(value)]>>
           /\ DisplayCommands(CELLS + cell, value) =
                <<[set |-> "fg", at |-> At(cell), to |-> rgb(value)]>>
           /\ DisplayCommands(2 * CELLS + cell, value) =
                <<[set |-> "bg", at |-> At(cell), to |-> rgb(value)]>>
<1>1. /\ CELLS \in Nat /\ cell \in Nat /\ cell < CELLS
  BY ScreenSize DEF Cells
<1>2. DisplayCommands(cell, value) =
         IF u8_to_printable_char(value) = NoChar THEN <<>>
         ELSE <<[set |-> "char", at |-> At(cell), to |-> u8_to_printable_char(value)]>>
  BY <1>1 DEF DisplayCommands
<1>3. DisplayCommands(CELLS + cell, value) =
         <<[set |-> "fg", at |-> At(cell), to |-> rgb(value)]>>
  <2>. DEFINE a == CELLS + cell
  <2>1. /\ ~(a < CELLS) /\ a \in CELLS..2 * CELLS - 1 /\ a - CELLS = cell
        /\ a \notin 2 * CELLS..3 * CELLS - 1
    BY <1>1
  <2>. HIDE DEF a
  <2>2. DisplayCommands(a, value) =
          <<[set |-> "fg", at |-> At(a - CELLS), to |-> rgb(value)]>>
    BY <2>1, Zenon DEF DisplayCommands
  <2>. QED
    BY <2>1, <2>2 DEF a
<1>4. DisplayCommands(2 * CELLS + cell, value) =
         <<[set |-> "bg", at |-> At(cell), to |-> rgb(value)]>>
  <2>. DEFINE a == 2 * CELLS + cell
  <2>1. /\ ~(a < CELLS) /\ a \notin CELLS..2 * CELLS - 1 /\ a - 2 * CELLS = cell
        /\ a \in 2 * CELLS..3 * CELLS - 1
    BY <1>1
  <2>. HIDE DEF a
  <2>2. DisplayCommands(a, value) =
          <<[set |-> "bg", at |-> At(a - 2 * CELLS), to |-> rgb(value)]>>
    BY <2>1, Zenon DEF DisplayCommands
  <2>. QED
    BY <2>1, <2>2 DEF a
<1>. QED
  BY <1>2, <1>3, <1>4

(* Sending one command, and sending none. *)
LEMMA ConcatFacts ==
    ASSUME NEW S, NEW s \in Seq(S)
    PROVE  /\ s \o <<>> = s
           /\ \A e \in S : s \o <<e>> = Append(s, e) /\ Append(s, e) \in Seq(S)
OBVIOUS

(* The byte that each character's key stands for. *)
LEMMA CharKeys ==
    ASSUME NEW c \in 32..NotSign
    PROVE  key_to_u8(<<"Char", c>>) =
             IF c = PoundSign THEN 31
             ELSE IF c \in 32..126 THEN c
             ELSE IF c = NotSign THEN 127 ELSE NoKey
<1>1. <<"Char", c>>[1] = "Char" /\ <<"Char", c>>[2] = c
  OBVIOUS
<1>2. "Char" \notin DOMAIN NamedKeys
  BY DEF NamedKeys
<1>. QED
  BY <1>1, <1>2 DEF key_to_u8, PoundSign, NotSign, NoKey

(* A byte is drawn as a character exactly when a key stands for that      *)
(* character, and it is drawn as the character that was typed.             *)
LEMMA Letters ==
    /\ \A key \in 0..255 : Printable(key) <=> u8_to_printable_char(key) # NoChar
    /\ \A key \in 0..255 : Printable(key) => key # NoKey
    /\ \A c \in Characters :
         /\ key_to_u8(<<"Char", c>>) # NoKey
         /\ u8_to_printable_char(key_to_u8(<<"Char", c>>)) = c
<1>1. ASSUME NEW c \in Characters
      PROVE  /\ key_to_u8(<<"Char", c>>) # NoKey
             /\ key_to_u8(<<"Char", c>>) \in 31..127
             /\ u8_to_printable_char(key_to_u8(<<"Char", c>>)) = c
  <2>1. c \in 32..NotSign /\ key_to_u8(<<"Char", c>>) # NoKey
    BY DEF Characters
  <2>2. key_to_u8(<<"Char", c>>) =
          IF c = 163 THEN 31 ELSE IF c \in 32..126 THEN c ELSE IF c = 172 THEN 127 ELSE 0
    BY ZenonT(40), <2>1, CharKeys DEF PoundSign, NotSign, NoKey
  <2>3. \/ c = 163 /\ key_to_u8(<<"Char", c>>) = 31
        \/ c \in 32..126 /\ key_to_u8(<<"Char", c>>) = c
        \/ c = 172 /\ key_to_u8(<<"Char", c>>) = 127
    BY <2>1, <2>2 DEF NoKey
  <2>4. /\ u8_to_printable_char(31) = 163
        /\ u8_to_printable_char(127) = 172
        /\ \A b \in 32..126 : u8_to_printable_char(b) = b
    BY DEF u8_to_printable_char, PoundSign, NotSign
  <2>. QED
    BY <2>1, <2>3, <2>4
<1>2. ASSUME NEW key \in 31..127 PROVE Printable(key)
  <2>. DEFINE c == IF key = 31 THEN PoundSign ELSE IF key = 127 THEN NotSign ELSE key
  <2>1. c \in 32..NotSign
    BY DEF PoundSign, NotSign
  <2>2. /\ c = 163 => key = 31
        /\ c \in 32..126 => key = c
        /\ c = 172 => key = 127
        /\ c = 163 \/ c \in 32..126 \/ c = 172
    BY DEF PoundSign, NotSign
  <2>. HIDE DEF c
  <2>3. key_to_u8(<<"Char", c>>) = key
    <3>1. key_to_u8(<<"Char", c>>) =
             IF c = PoundSign THEN 31
             ELSE IF c \in 32..126 THEN c
             ELSE IF c = NotSign THEN 127 ELSE NoKey
      BY <2>1, CharKeys
    <3>. QED
      BY <2>2, <3>1 DEF PoundSign, NotSign
  <2>4. c \in Characters
    BY <2>1, <2>3 DEF Characters, NoKey
  <2>. QED
    BY <2>3, <2>4 DEF Printable
<1>3. \A key : Printable(key) => key \in 31..127
  BY <1>1 DEF Printable
<1>4. \A key \in 0..255 : u8_to_printable_char(key) # NoChar <=> key \in 31..127
  BY DEF u8_to_printable_char, NoChar, PoundSign, NotSign
<1>. QED
  BY <1>1, <1>2, <1>3, <1>4 DEF NoKey

(* What a store sends is no message that the CPU has halted. *)
LEMMA StoreSends ==
    ASSUME ui_ch \in Seq(Commands), NEW cell \in Cells, NEW value \in 0..255
    PROVE  /\ store(cell, value) =>
                \/ ui_ch' = ui_ch /\ ~Printable(value)
                \/ /\ Printable(value)
                   /\ ui_ch' = Append(ui_ch, [set |-> "char", at |-> At(cell),
                                              to |-> u8_to_printable_char(value)])
           /\ store(CELLS + cell, value) =>
                ui_ch' = Append(ui_ch, [set |-> "fg", at |-> At(cell), to |-> rgb(value)])
           /\ store(2 * CELLS + cell, value) =>
                ui_ch' = Append(ui_ch, [set |-> "bg", at |-> At(cell), to |-> rgb(value)])
           /\ [set |-> "char", at |-> At(cell), to |-> u8_to_printable_char(value)]
                \in Commands \ {CPUHalted}
           /\ [set |-> "fg", at |-> At(cell), to |-> rgb(value)] \in Commands \ {CPUHalted}
           /\ [set |-> "bg", at |-> At(cell), to |-> rgb(value)] \in Commands \ {CPUHalted}
<1>. DEFINE char == [set |-> "char", at |-> At(cell), to |-> u8_to_printable_char(value)]
            fg == [set |-> "fg", at |-> At(cell), to |-> rgb(value)]
            bg == [set |-> "bg", at |-> At(cell), to |-> rgb(value)]
<1>1. /\ At(cell) \in Positions
      /\ u8_to_printable_char(value) \in Codes
  BY Position, CharRange DEF Codes
<1>2. rgb(value) \in Colours
  BY ColourRange
<1>3. char \in Commands /\ fg \in Commands /\ bg \in Commands
  BY <1>1, <1>2 DEF Commands
<1>4. char # CPUHalted /\ fg # CPUHalted /\ bg # CPUHalted
  <2>1. char.set = "char" /\ fg.set = "fg" /\ bg.set = "bg" /\ CPUHalted.set = "halted"
    BY DEF CPUHalted
  <2>. HIDE DEF char, fg, bg
  <2>. QED
    BY <2>1
<1>5. value \in Nat
  OBVIOUS
<1>6. Printable(value) <=> u8_to_printable_char(value) # NoChar
  BY Letters
<1>7. /\ DisplayCommands(cell, value) =
           IF u8_to_printable_char(value) = NoChar THEN <<>> ELSE <<char>>
      /\ DisplayCommands(CELLS + cell, value) = <<fg>>
      /\ DisplayCommands(2 * CELLS + cell, value) = <<bg>>
  BY <1>5, CommandSent
<1>. HIDE DEF char, fg, bg
<1>8. /\ ui_ch \o <<>> = ui_ch
      /\ ui_ch \o <<char>> = Append(ui_ch, char)
      /\ ui_ch \o <<fg>> = Append(ui_ch, fg)
      /\ ui_ch \o <<bg>> = Append(ui_ch, bg)
  BY <1>3, ConcatFacts
<1>9. store(cell, value) => \/ ui_ch' = ui_ch /\ ~Printable(value)
                            \/ Printable(value) /\ ui_ch' = Append(ui_ch, char)
  BY <1>6, <1>7, <1>8 DEF store
<1>10. /\ store(CELLS + cell, value) => ui_ch' = Append(ui_ch, fg)
       /\ store(2 * CELLS + cell, value) => ui_ch' = Append(ui_ch, bg)
  BY <1>7, <1>8 DEF store
<1>. QED
  BY <1>3, <1>4, <1>9, <1>10 DEF char, fg, bg

(* A store keeps the type of the channel to the UI. *)
LEMMA StoreType ==
    ASSUME ui_ch \in Seq(Commands), NEW cell \in Cells, NEW value \in 0..255,
           \/ store(cell, value)
           \/ store(CELLS + cell, value)
           \/ store(2 * CELLS + cell, value)
    PROVE  ui_ch' \in Seq(Commands)
<1>1. ASSUME NEW c \in Commands, ui_ch' = Append(ui_ch, c) PROVE ui_ch' \in Seq(Commands)
  BY <1>1, AppendFacts
<1>. QED
  BY <1>1, StoreSends

(* Every instruction of the guest kernel preserves the types. *)
LEMMA GuestTypes == IdleTypes /\ Guest /\ TypeOK' => IdleTypes'
<1>. SUFFICES ASSUME IdleTypes, Guest, TypeOK' PROVE IdleTypes'
  OBVIOUS
<1>0. IdleTypeOK /\ ChannelTypes /\ ScreenTypes
  BY DEF IdleTypes
<1>1. /\ cursor \in Cells /\ seen \in [key : 0..255, metadata : 0..3]
      /\ seen.key \in 0..255 /\ seen.metadata \in 0..255 /\ 16 * seen.metadata \in 0..255
  <2>1. cursor \in Cells /\ seen \in [key : 0..255, metadata : 0..3]
    BY <1>0 DEF IdleTypeOK
  <2>2. seen.key \in 0..255 /\ seen.metadata \in 0..3
    BY <2>1
  <2>. QED
    BY <2>1, <2>2
<1>. USE <1>0 DEF IdleTypes, IdleTypeOK, ChannelTypes, ScreenTypes, listenerVars,
             keyboardVars, screenVars, consoleVars, historyVars
<1>2. CASE LoopMasks \/ LoopTests \/ LoopServes \/ LoopUnmasks \/ LoopPauses
  <2>1. /\ at' \in {"mask", "test", "serve", "char", "fg", "bg", "halt", "unmask", "pause"}
        /\ work' \in BOOLEAN
    BY <1>2 DEF LoopMasks, LoopTests, LoopServes, LoopUnmasks, LoopPauses
  <2>2. UNCHANGED <<handler, seen, cursor, echoed, consoleVars, keys, last>>
    BY <1>2 DEF Guest, LoopMasks, LoopTests, LoopServes, LoopUnmasks, LoopPauses
  <2>. QED
    BY <2>1, <2>2
<1>3. CASE LoopSetsChar
  <2>1. ui_ch' \in Seq(Commands)
    BY <1>1, <1>3, StoreType DEF LoopSetsChar
  <2>. QED
    BY <1>3, <2>1 DEF Guest, LoopSetsChar, store
<1>4. CASE LoopSetsFg
  <2>1. ui_ch' \in Seq(Commands)
    BY <1>1, <1>4, StoreType DEF LoopSetsFg
  <2>. QED
    BY <1>4, <2>1 DEF Guest, LoopSetsFg, store
<1>5. CASE LoopSetsBg
  <2>1. ui_ch' \in Seq(Commands)
    BY <1>1, <1>5, StoreType DEF LoopSetsBg
  <2>2. cursor' \in Cells
    BY <1>5, ScreenSize DEF LoopSetsBg, Cells
  <2>3. echoed' \in [Cells -> [letter : Codes, metadata : {Untouched} \cup 0..3]]
    BY SMTT(30), <1>1, <1>5 DEF LoopSetsBg, Echoed, Codes
  <2>. QED
    BY <1>5, <2>1, <2>2, <2>3 DEF Guest, LoopSetsBg, store
<1>6. CASE LoopHalts
  BY <1>6 DEF Guest, LoopHalts, guestVars
<1>7. CASE HandlerLoadsKey \/ HandlerLoadsMetadata \/ HandlerStores \/ HandlerReturns
  <2>1. /\ handler' \in {"key", "metadata", "store", "ireturn"}
        /\ work' \in BOOLEAN
    BY <1>7
    DEF HandlerLoadsKey, HandlerLoadsMetadata, HandlerStores, HandlerReturns
  <2>2. seen' \in [key : 0..255, metadata : 0..3]
    <3>1. load(0) \in 0..255 /\ load(1) \in 0..3
      BY DEF load
    <3>2. \/ seen' = seen
          \/ seen' = [seen EXCEPT !.key = load(0)]
          \/ seen' = [seen EXCEPT !.metadata = load(1)]
      BY <1>7
      DEF HandlerLoadsKey, HandlerLoadsMetadata, HandlerStores, HandlerReturns
    <3>. QED
      BY ZenonT(40), <1>1, <3>1, <3>2
  <2>3. UNCHANGED <<at, cursor, echoed, consoleVars, keys, last>>
    BY <1>7
    DEF Guest, HandlerLoadsKey, HandlerLoadsMetadata, HandlerStores, HandlerReturns
  <2>. QED
    BY <2>1, <2>2, <2>3
<1>. QED
  BY <1>2, <1>3, <1>4, <1>5, <1>6, <1>7 DEF Guest

(* Every step of the terminal preserves the types. *)
LEMMA TerminalTypes == IdleTypes /\ IdleTerminal /\ TypeOK' => IdleTypes'
<1>. SUFFICES ASSUME IdleTypes, IdleTerminal, TypeOK' PROVE IdleTypes'
  OBVIOUS
<1>0. IdleTypeOK /\ ChannelTypes /\ ScreenTypes
  BY DEF IdleTypes
<1>. USE <1>0 DEF IdleTypes, IdleTypeOK, ChannelTypes, ScreenTypes, listenerVars,
             keyboardVars, screenVars, consoleVars, guestVars
<1>10. /\ at' = at /\ handler' = handler /\ work' = work /\ seen' = seen /\ cursor' = cursor
       /\ echoed' = echoed /\ keys' = keys
  BY DEF IdleTerminal
<1>1. CASE ListenerReads
  <2>. DEFINE e == Head(typed)
              k == key_to_u8(e.code)
              m == Key(k, e.ctrl, e.alt)
  <2>1. e \in Events /\ typed' \in Seq(Events)
    BY <1>1, TailFacts DEF ListenerReads
  <2>2. ui_ch' \in Seq(Commands)
    <3>1. CPUHalted \in Commands
      BY DEF Commands
    <3>2. Append(ui_ch, CPUHalted) \in Seq(Commands)
      BY <3>1, AppendFacts
    <3>3. ui_ch' = ui_ch \/ ui_ch' = Append(ui_ch, CPUHalted)
      BY <1>1 DEF ListenerReads
    <3>. HIDE DEF e, k, m
    <3>. QED
      BY <3>2, <3>3
  <2>. /\ listener' = "check"
       /\ UNCHANGED <<join, keyboardVars, screenVars, guestVars, keys>>
    BY <1>1 DEF ListenerReads, IdleTerminal
  <2>3. CASE ~Quits(e) /\ k # NoKey
    <3>1. m \in KeyMessages /\ keyboard_ch' = Append(keyboard_ch, m)
      <4>1. m \in KeyMessages
        BY <2>1, <2>3, KeyMessage
      <4>2. keyboard_ch' = Append(keyboard_ch, m)
        BY <1>1, <2>3 DEF ListenerReads
      <4>. QED
        BY <4>1, <4>2
    <3>2. /\ keyboard_ch' \in Seq(KeyMessages)
          /\ Len(keyboard_ch') = Len(keyboard_ch) + 1
          /\ keyboard_ch'[Len(keyboard_ch')] = m
          /\ Len(keyboard_ch) \in Nat
      BY <3>1, AppendFacts
    <3>3. last' = Recorded(m)
      BY <3>2 DEF IdleTerminal, Recorded
    <3>4. last' \in [key : 0..255, metadata : 0..3]
      BY <3>1, <3>3, RecordedType
    <3>. HIDE DEF e, k, m
    <3>. QED
      BY <2>1, <2>2, <3>2, <3>4
  <2>4. CASE ~(~Quits(e) /\ k # NoKey)
    <3>1. keyboard_ch' = keyboard_ch /\ last' = last
      BY <1>1, <2>4 DEF ListenerReads, IdleTerminal
    <3>. HIDE DEF e, k, m
    <3>. QED
      BY <2>1, <2>2, <3>1
  <2>. QED
    BY <2>3, <2>4
<1>2. CASE ListenerChecks
  <2>1. last' = last
    BY <1>2 DEF ListenerChecks, IdleTerminal
  <2>. QED
    BY <1>2, <2>1 DEF IdleTerminal, ListenerChecks
<1>3. CASE KeyReceived
  <2>1. /\ Head(keyboard_ch) \in KeyMessages
        /\ keyboard_ch' \in Seq(KeyMessages)
        /\ Len(keyboard_ch') = Len(keyboard_ch) - 1
        /\ Len(keyboard_ch) \in Nat
    BY <1>3, TailFacts DEF KeyReceived
  <2>2. key_buffer' \in 0..255 /\ metadata_buffer' \in 0..3
    BY <1>3, <2>1, MetadataRange DEF KeyReceived, KeyMessages
  <2>3. last' = last
    BY <2>1 DEF IdleTerminal
  <2>. QED
    <3>1. /\ typed' = typed /\ listener' = listener /\ join' = join /\ keyboard' = keyboard
          /\ ui_ch' = ui_ch /\ char_buf' = char_buf /\ fg_buf' = fg_buf /\ bg_buf' = bg_buf
      BY <1>3 DEF KeyReceived
    <3>. QED
      BY <1>10, <2>1, <2>2, <2>3, <3>1
<1>4. CASE KeyboardJoins
  <2>1. /\ keyboard_ch' \in Seq(KeyMessages)
        /\ Len(keyboard_ch') = Len(keyboard_ch) - 1
        /\ Len(keyboard_ch) \in Nat
    BY <1>4, TailFacts DEF KeyboardJoins
  <2>2. last' = last
    BY <2>1 DEF IdleTerminal
  <2>. QED
    <3>1. /\ typed' = typed /\ listener' = listener /\ join' = join /\ keyboard' = "joined"
          /\ key_buffer' = key_buffer /\ metadata_buffer' = metadata_buffer
          /\ ui_ch' = ui_ch /\ char_buf' = char_buf /\ fg_buf' = fg_buf /\ bg_buf' = bg_buf
      BY <1>4 DEF KeyboardJoins
    <3>. QED
      BY <1>10, <2>1, <2>2, <3>1
<1>5. CASE UiDraws
  <2>. DEFINE c == Head(ui_ch)
              index == c.at.row * COLS + c.at.col
  <2>1. c \in Commands /\ c # CPUHalted /\ ui_ch' \in Seq(Commands)
    BY <1>5, TailFacts DEF UiDraws
  <2>2. char_buf' \in [Cells -> Codes]
    <3>1. c.set = "char" => c.to \in Codes
      BY <2>1 DEF Commands
    <3>2. char_buf' = IF c.set = "char" THEN [char_buf EXCEPT ![index] = c.to] ELSE char_buf
      BY <1>5 DEF UiDraws
    <3>. QED
      BY <3>1, <3>2
  <2>3. fg_buf' \in [Cells -> Colours]
    <3>1. c.set = "fg" => c.to \in Colours
      BY <2>1 DEF Commands
    <3>2. fg_buf' = IF c.set = "fg" THEN [fg_buf EXCEPT ![index] = c.to] ELSE fg_buf
      BY <1>5 DEF UiDraws
    <3>. QED
      BY <3>1, <3>2
  <2>4. bg_buf' \in [Cells -> Colours]
    <3>1. c.set = "bg" => c.to \in Colours
      BY <2>1 DEF Commands
    <3>2. bg_buf' = IF c.set = "bg" THEN [bg_buf EXCEPT ![index] = c.to] ELSE bg_buf
      BY <1>5 DEF UiDraws
    <3>. QED
      BY <3>1, <3>2
  <2>5. last' = last
    BY <1>5 DEF IdleTerminal, UiDraws
  <2>. QED
    <3>1. /\ typed' = typed /\ listener' = listener /\ join' = join /\ keyboard_ch' = keyboard_ch
          /\ keyboard' = keyboard /\ key_buffer' = key_buffer /\ metadata_buffer' = metadata_buffer
      BY <1>5 DEF UiDraws
    <3>. HIDE DEF c, index
    <3>. QED
      BY <1>10, <2>1, <2>2, <2>3, <2>4, <2>5, <3>1
<1>6. CASE UiLeavesLoop
  <2>1. ui_ch' \in Seq(Commands) /\ last' = last
    BY <1>6, TailFacts DEF UiLeavesLoop, IdleTerminal
  <2>. QED
    <3>1. /\ typed' = typed /\ listener' = listener /\ join' = TRUE /\ keyboard_ch' = keyboard_ch
          /\ keyboard' = keyboard /\ key_buffer' = key_buffer /\ metadata_buffer' = metadata_buffer
          /\ char_buf' = char_buf /\ fg_buf' = fg_buf /\ bg_buf' = bg_buf
      BY <1>6 DEF UiLeavesLoop
    <3>. QED
      BY <1>10, <2>1, <3>1
<1>7. CASE UiReturns
  <2>1. last' = last
    BY <1>7 DEF IdleTerminal, UiReturns
  <2>. QED
    <3>1. /\ typed' = typed /\ listener' = listener /\ join' = join /\ keyboard_ch' = keyboard_ch
          /\ keyboard' = keyboard /\ key_buffer' = key_buffer /\ metadata_buffer' = metadata_buffer
          /\ ui_ch' = ui_ch /\ char_buf' = char_buf /\ fg_buf' = fg_buf /\ bg_buf' = bg_buf
      BY <1>7 DEF UiReturns
    <3>. QED
      BY <1>10, <2>1, <3>1
<1>. QED
  BY <1>1, <1>2, <1>3, <1>4, <1>5, <1>6, <1>7 DEF IdleTerminal, Terminal

(* The user, the CPU's interrupt check and its life cycle. *)
LEMMA OtherTypes ==
    IdleTypes /\ TypeOK' /\ (UserTypes \/ (ConsoleLifecycle /\ UNCHANGED idleVars)
                              \/ UNCHANGED <<consoleVars, idleVars>>)
      => IdleTypes'
<1>. SUFFICES ASSUME IdleTypes, TypeOK',
                     \/ UserTypes \/ (ConsoleLifecycle /\ UNCHANGED idleVars)
                     \/ UNCHANGED <<consoleVars, idleVars>>
             PROVE  IdleTypes'
  OBVIOUS
<1>0. IdleTypeOK /\ ChannelTypes /\ ScreenTypes
  BY DEF IdleTypes
<1>. USE <1>0 DEF IdleTypes, IdleTypeOK, ChannelTypes, ScreenTypes, listenerVars,
             keyboardVars, screenVars, consoleVars, guestVars, historyVars, idleVars
<1>1. CASE UserTypes
  <2>1. PICK e \in Events : typed' = Append(typed, e)
    BY <1>1 DEF UserTypes
  <2>2. typed' \in Seq(Events)
    BY <2>1, AppendFacts
  <2>3. keys' \in 0..KeyPresses
    BY <1>1, KeyPressesAssumption DEF UserTypes
  <2>. QED
    BY <1>1, <2>2, <2>3 DEF UserTypes
<1>2. CASE ConsoleStart /\ UNCHANGED idleVars
  BY <1>2 DEF ConsoleStart
<1>3. CASE ConsoleHalted /\ UNCHANGED idleVars
  <2>1. CPUHalted \in Commands
    BY DEF Commands
  <2>2. ui_ch' \in Seq(Commands)
    BY <1>3, <2>1, AppendFacts DEF ConsoleHalted
  <2>. QED
    BY <1>3, <2>2 DEF ConsoleHalted
<1>4. CASE KeyboardStop /\ UNCHANGED idleVars
  <2>1. JoinThread \in KeyMessages
    BY DEF JoinThread, Key, KeyMessages, NoKey
  <2>2. keyboard_ch' \in Seq(KeyMessages)
    BY <1>4, <2>1, AppendFacts DEF KeyboardStop
  <2>. QED
    BY <1>4, <2>2 DEF KeyboardStop
<1>5. CASE UNCHANGED <<consoleVars, idleVars>>
  BY <1>5
<1>. QED
  BY <1>1, <1>2, <1>3, <1>4, <1>5 DEF ConsoleLifecycle, KeyboardStopped

(* Every step of the machine preserves the types. *)
LEMMA NextIdleTypes == IdleTypes /\ [NextIdle]_allVars => IdleTypes'
<1>. SUFFICES ASSUME IdleTypes, [NextIdle]_allVars PROVE IdleTypes'
  OBVIOUS
<1>1. TypeOK'
  BY NextIdleIsCpuStep, CpuStepType DEF IdleTypes, IdleTypeOK
<1>2. CASE Guest
  BY <1>1, <1>2, GuestTypes
<1>3. CASE IdleTerminal
  BY <1>1, <1>3, TerminalTypes
<1>4. CASE \/ UserTypes \/ (ConsoleLifecycle /\ UNCHANGED idleVars)
           \/ UNCHANGED <<consoleVars, idleVars>>
  BY <1>1, <1>4, OtherTypes
<1>5. UNCHANGED allVars => UNCHANGED <<consoleVars, idleVars>>
  BY DEF allVars
<1>6. \/ Guest \/ IdleTerminal \/ UserTypes \/ (ConsoleLifecycle /\ UNCHANGED idleVars)
      \/ UNCHANGED <<consoleVars, idleVars>>
  BY <1>5 DEF NextIdle, IdleCpu, IdleTimer, IdleHost, AwaitsUser
<1>. QED
  BY <1>2, <1>3, <1>4, <1>6

(* The initial state has the types. *)
LEMMA InitIdleTypes == InitIdle => IdleTypes
<1>. SUFFICES ASSUME InitIdle PROVE IdleTypes
  OBVIOUS
<1>1. TypeOK
  BY EmptySeq DEF InitIdle, InitConsole, Init, TypeOK, Phases, Regions, Messages
<1>2. 0 \in Cells /\ KeyPresses \in 0..KeyPresses
  BY ScreenSize, KeyPressesAssumption DEF Cells
<1>3. /\ NothingSeen \in [key : 0..255, metadata : 0..3]
      /\ NeverEchoed \in [letter : Codes, metadata : {Untouched} \cup 0..3]
  BY DEF NothingSeen, NeverEchoed, NoKey, Codes
<1>4. rgb(63) \in Colours /\ rgb(0) \in Colours /\ 32 \in Codes
  BY ColourRange DEF Codes
<1>5. IdleTypeOK
  <2>1. /\ typed \in Seq(Events) /\ cursor \in Cells /\ keys \in 0..KeyPresses
        /\ seen \in [key : 0..255, metadata : 0..3]
    BY <1>2, <1>3, EmptySeq DEF InitIdle, InitConsole
  <2>. QED
    BY <1>1, <2>1 DEF InitIdle, InitConsole, IdleTypeOK
<1>6. ChannelTypes
  BY <1>3, EmptySeq DEF InitIdle, InitConsole, ChannelTypes
<1>7. ScreenTypes
  BY <1>3, <1>4, EmptySeq DEF InitIdle, InitConsole, ScreenTypes
<1>. QED
  BY <1>5, <1>6, <1>7 DEF IdleTypes

(* Every variable of the machine, its channels and its screen included,    *)
(* keeps its type in every behaviour.                                      *)
LEMMA TypesHold == IdleSpec => []IdleTypes
BY InitIdleTypes, NextIdleTypes, PTL DEF IdleSpec

(* The types that the model checker checks, for every screen and terminal. *)
THEOREM IdleTypesCorrect == IdleSpec => []IdleTypeOK
<1>1. IdleTypes => IdleTypeOK
  BY DEF IdleTypes
<1>. QED
  BY <1>1, TypesHold, PTL
-----------------------------------------------------------------------------
(***************************************************************************)
(* The idle loop does not sleep on work.                                   *)
(***************************************************************************)

(* Delivery of the only interrupt the guest enables. *)
LEMMA DeliverWakes ==
    ASSUME TypeOK, GuestInv, WakeInv, phase \in {"poll", "recv"},
           NEW i \in imr, NEW queue, Deliver(i, queue),
           latched' \subseteq latched, UNCHANGED <<loopVars, at, handler, work>>
    PROVE  GuestInv' /\ WakeInv'
<1>1. CASE FatalDelivery(queue)
  BY <1>1 DEF FatalDelivery, GuestInv, WakeInv, Runs, Looping
<1>2. CASE EnterHandler(i, queue)
  <2>1. Runs
    BY DEF Runs, Looping
  <2>2. /\ kernel_mode /\ InLoopCode /\ stack = <<>>
        /\ imr = OnlyKeyboard /\ i = INTERRUPT_KEYBOARD /\ at \in {"pause", "mask"}
    BY <2>1 DEF GuestInv, OnlyKeyboard
  <2>3. /\ stack' = <<[bit15 |-> TRUE, pc |-> KernelCode, imr |-> OnlyKeyboard]>>
        /\ imr' = {} /\ kernel_mode' = TRUE
        /\ pc' = INTERRUPT_KEYBOARD /\ phase' = "execute"
    <3>1. (flags15 \/ kernel_mode) = TRUE
      BY <2>2 DEF TypeOK
    <3>2. [bit15 |-> flags15 \/ kernel_mode, pc |-> pc, imr |-> imr]
             = [bit15 |-> TRUE, pc |-> KernelCode, imr |-> OnlyKeyboard]
      BY <2>2, <3>1 DEF InLoopCode
    <3>3. stack' = Append(stack, [bit15 |-> TRUE, pc |-> KernelCode, imr |-> OnlyKeyboard])
      BY <1>2, <3>2 DEF EnterHandler
    <3>4. \A f : Append(<<>>, f) = <<f>>
      OBVIOUS
    <3>5. stack' = <<[bit15 |-> TRUE, pc |-> KernelCode, imr |-> OnlyKeyboard]>>
      BY <2>2, <3>3, <3>4
    <3>. QED
      BY <1>2, <2>2, <3>5 DEF EnterHandler
  <2>4. InHandlerCode' /\ ~InLoopCode'
    BY <2>3, Numbers DEF InHandlerCode, InLoopCode
  <2>5. GuestInv'
    BY <2>2, <2>3, <2>4 DEF GuestInv
  <2>6. WakeInv'
    BY <2>3, <2>4 DEF WakeInv
  <2>. QED
    BY <2>5, <2>6
<1>. QED
  BY <1>1, <1>2 DEF Deliver

(* The interrupt check of a cycle preserves both invariants. *)
LEMMA PollWakes ==
    ASSUME TypeOK, GuestInv, WakeInv, Poll, UNCHANGED <<at, handler, work>>
    PROVE  GuestInv' /\ WakeInv'
<1>. USE DEF latchVars, regVars, loopVars
<1>1. CASE TakeLatched
  <2>1. PICK i \in latched \cap imr : latched' = latched \ {i} /\ Deliver(i, chan)
    BY <1>1 DEF TakeLatched
  <2>. QED
    BY <1>1, <2>1, DeliverWakes DEF TakeLatched
<1>2. CASE ReceiveEnabled
  BY <1>2, DeliverWakes DEF ReceiveEnabled
<1>3. CASE NoneLatched
  BY <1>3 DEF NoneLatched, GuestInv, WakeInv, Runs, Looping, InLoopCode, InHandlerCode
<1>4. CASE ReceiveDisabled
  BY <1>4 DEF ReceiveDisabled, GuestInv, WakeInv, Runs, Looping, InLoopCode, InHandlerCode
<1>5. CASE ReceiveJoin
  BY <1>5 DEF ReceiveJoin, GuestInv, WakeInv, Runs, Looping
<1>6. CASE NothingReceived
  BY <1>6 DEF NothingReceived, GuestInv, WakeInv, Runs, Looping, InLoopCode, InHandlerCode
<1>. QED
  BY <1>1, <1>2, <1>3, <1>4, <1>5, <1>6 DEF Poll

(* Every instruction of the guest preserves both invariants. *)
LEMMA GuestWakes ==
    ASSUME TypeOK, work \in BOOLEAN, GuestInv, WakeInv, Guest
    PROVE  GuestInv' /\ WakeInv'
<1>. USE DEF latchVars, regVars, loopVars, Completed, Privileged, Executing
<1>0. phase = "execute" /\ phase' \in {"poll", "halted"} /\ Runs /\ kernel_mode
  <2>1. phase = "execute" /\ phase' \in {"poll", "halted"}
    BY DEF Guest, LoopMasks, LoopTests, LoopServes, LoopSetsChar, LoopSetsFg, LoopSetsBg,
        LoopHalts, LoopUnmasks, LoopPauses, HandlerLoadsKey, HandlerLoadsMetadata,
        HandlerStores, HandlerReturns, WriteImr, OtherInstruction, Halt, Pause,
        SkippedPause, IReturn
  <2>. QED
    BY <2>1 DEF Runs, Looping, GuestInv
<1>1. CASE LoopMasks
  BY <1>0, <1>1, Numbers
  DEF LoopMasks, WriteImr, InLoop, GuestInv, WakeInv, InLoopCode, InHandlerCode,
      OnlyKeyboard
<1>2. CASE LoopTests
  BY <1>0, <1>2, Numbers
  DEF LoopTests, OtherInstruction, InLoop, GuestInv, WakeInv, InLoopCode, InHandlerCode
<1>3. CASE LoopServes
  BY <1>0, <1>3, Numbers
  DEF LoopServes, OtherInstruction, InLoop, GuestInv, WakeInv, InLoopCode, InHandlerCode
<1>4. CASE LoopSetsChar \/ LoopSetsFg \/ LoopSetsBg
  BY <1>0, <1>4, Numbers
  DEF LoopSetsChar, LoopSetsFg, LoopSetsBg, OtherInstruction, InLoop, GuestInv, WakeInv,
      InLoopCode, InHandlerCode
<1>5. CASE LoopHalts
  BY <1>5 DEF LoopHalts, Halt, GuestInv, WakeInv, Runs, Looping
<1>6. CASE LoopUnmasks
  BY <1>0, <1>6, Numbers
  DEF LoopUnmasks, WriteImr, InLoop, GuestInv, WakeInv, InLoopCode, InHandlerCode,
      OnlyKeyboard
<1>7. CASE LoopPauses
  BY <1>0, <1>7, Numbers
  DEF LoopPauses, Pause, SkippedPause, InLoop, GuestInv, WakeInv, InLoopCode, InHandlerCode
<1>8. CASE HandlerLoadsKey \/ HandlerLoadsMetadata \/ HandlerStores
  BY <1>0, <1>8, Numbers
  DEF HandlerLoadsKey, HandlerLoadsMetadata, HandlerStores, OtherInstruction, InHandler,
      GuestInv, WakeInv, InLoopCode, InHandlerCode
<1>9. CASE HandlerReturns
  <2>1. /\ stack = <<[bit15 |-> TRUE, pc |-> KernelCode, imr |-> OnlyKeyboard]>>
        /\ at \in {"pause", "mask"}
    BY <1>0, <1>9, Numbers DEF HandlerReturns, InHandler, GuestInv, InLoopCode
  <2>2. Len(stack) = 1 /\ SubSeq(stack, 1, Len(stack) - 1) = <<>>
    BY <2>1
  <2>3. /\ stack' = <<>> /\ imr' = OnlyKeyboard /\ pc' = KernelCode /\ kernel_mode'
        /\ phase' = "poll" /\ ~pausing' /\ skip_pause' /\ handler' = "key"
        /\ UNCHANGED <<at, work>>
    BY <1>0, <1>9, <2>1, <2>2 DEF HandlerReturns, IReturn
  <2>. QED
    BY <2>1, <2>3 DEF GuestInv, WakeInv, InLoopCode
<1>. QED
  BY <1>1, <1>2, <1>3, <1>4, <1>5, <1>6, <1>7, <1>8, <1>9 DEF Guest

(* What the other threads and the life cycle do to the CPU thread's state. *)
LEMMA StepKinds ==
    ASSUME [NextIdle]_allVars
    PROVE  \/ Guest
           \/ Poll /\ UNCHANGED <<consoleVars, idleVars>>
           \/ ConsoleLifecycle /\ UNCHANGED idleVars
           \/ IdleTerminal
           \/ UserTypes
           \/ UNCHANGED <<latchVars, regVars, loopVars, phase, consoleVars, idleVars>>
<1>1. UNCHANGED allVars => UNCHANGED <<latchVars, regVars, loopVars, phase, consoleVars, idleVars>>
  BY DEF allVars, vars
<1>2. IdleTimer \/ IdleHost
        => UNCHANGED <<latchVars, regVars, loopVars, phase, consoleVars, idleVars>>
  BY DEF IdleTimer, IdleHost, TimerCommand, HostStart, HostJoins
<1>. QED
  BY <1>1, <1>2 DEF NextIdle, IdleCpu, AwaitsUser

(* Every step preserves both invariants. *)
LEMMA NextWakes == IdleTypes /\ GuestInv /\ WakeInv /\ [NextIdle]_allVars => GuestInv' /\ WakeInv'
<1>. SUFFICES ASSUME IdleTypes, GuestInv, WakeInv, [NextIdle]_allVars
             PROVE  GuestInv' /\ WakeInv'
  OBVIOUS
<1>0. TypeOK /\ work \in BOOLEAN
  BY DEF IdleTypes, IdleTypeOK
<1>. USE DEF latchVars, regVars, loopVars
<1>1. CASE Guest
  BY <1>0, <1>1, GuestWakes
<1>2. CASE Poll /\ UNCHANGED idleVars
  BY <1>0, <1>2, PollWakes DEF idleVars, guestVars
<1>3. CASE ConsoleLifecycle /\ UNCHANGED idleVars
  <2>1. CASE ThreadStart
    BY <1>3, <2>1
    DEF ThreadStart, idleVars, guestVars, GuestInv, WakeInv, Runs, Looping, InLoopCode,
        InHandlerCode
  <2>2. CASE SendHalted \/ StopTimer \/ TimerJoined \/ StopMmu \/ KeyboardStop
    BY <2>2
    DEF SendHalted, StopTimer, TimerJoined, StopMmu, KeyboardStop, vars, GuestInv, WakeInv,
        Runs, Looping
  <2>. QED
    BY <1>3, <2>1, <2>2
    DEF ConsoleLifecycle, ConsoleStart, ConsoleHalted, KeyboardStopped
<1>4. CASE UNCHANGED <<latched, regVars, loopVars, phase, guestVars>>
  BY <1>4 DEF guestVars, GuestInv, WakeInv, Runs, InLoopCode, InHandlerCode
<1>5. IdleTerminal => UNCHANGED <<latched, regVars, loopVars, phase, guestVars>>
  BY DEF IdleTerminal, Terminal, ListenerReads, ListenerChecks, KeyReceived, KeyboardJoins,
         UiDraws, UiLeavesLoop, UiReturns, HostStops, DeviceInterrupt, vars
<1>6. UserTypes => UNCHANGED <<latched, regVars, loopVars, phase, guestVars>>
  BY DEF UserTypes, vars
<1>7. UNCHANGED <<latchVars, regVars, loopVars, phase, idleVars>>
        => UNCHANGED <<latched, regVars, loopVars, phase, guestVars>>
  BY DEF idleVars
<1>. QED
  BY <1>1, <1>2, <1>3, <1>4, <1>5, <1>6, <1>7, StepKinds

(* In the initial state the loop is about to start. *)
LEMMA InitWakes == InitIdle => GuestInv /\ WakeInv
BY DEF InitIdle, InitConsole, Init, GuestInv, WakeInv, InLoopCode, InHandlerCode, OnlyKeyboard

(* Both hold in every behaviour. *)
LEMMA WakesHold == IdleSpec => [](GuestInv /\ WakeInv)
BY InitWakes, NextWakes, TypesHold, PTL DEF IdleSpec

(* A CPU that sleeps has left no work behind, wherever the keyboard        *)
(* interrupt fell between the test for work and the PAUSE.                 *)
THEOREM WakeupsKept == IdleSpec => []NoLostWakeup
<1>1. WakeInv => NoLostWakeup
  BY DEF WakeInv, NoLostWakeup, Asleep, Runs, Looping
<1>. QED
  BY <1>1, WakesHold, PTL
-----------------------------------------------------------------------------
(***************************************************************************)
(* The guest sees the last key.                                            *)
(***************************************************************************)

(* A CPU thread that has left its loop does not come back. *)
LEMMA RunsOn == TypeOK /\ [NextIdle]_allVars /\ Runs' => Runs
<1>. SUFFICES ASSUME TypeOK, [NextIdle]_allVars, ~Runs PROVE ~Runs'
  OBVIOUS
<1>1. phase \notin Looping \cup {"new"}
  BY DEF Runs
<1>2. CASE Guest
  BY <1>1, <1>2
  DEF Guest, LoopMasks, LoopTests, LoopServes, LoopSetsChar, LoopSetsFg, LoopSetsBg,
      LoopHalts, LoopUnmasks, LoopPauses, HandlerLoadsKey, HandlerLoadsMetadata,
      HandlerStores, HandlerReturns, WriteImr, OtherInstruction, Halt, Pause,
      SkippedPause, IReturn, Executing, Privileged, Looping
<1>3. CASE Poll
  BY <1>1, <1>3
  DEF Poll, TakeLatched, NoneLatched, ReceiveDisabled, ReceiveEnabled, ReceiveJoin,
      NothingReceived, Looping
<1>4. CASE ConsoleLifecycle
  BY <1>1, <1>4
  DEF ConsoleLifecycle, ConsoleStart, ConsoleHalted, KeyboardStop, KeyboardStopped, vars,
      ThreadStart, SendHalted, StopTimer, TimerJoined, StopMmu, Runs, Looping
<1>5. CASE UNCHANGED phase
  BY <1>1, <1>5 DEF Runs
<1>6. IdleTerminal => UNCHANGED phase
  BY DEF IdleTerminal, Terminal, ListenerReads, ListenerChecks, KeyReceived, KeyboardJoins,
         UiDraws, UiLeavesLoop, UiReturns, HostStops, DeviceInterrupt, vars
<1>7. UserTypes => UNCHANGED phase
  BY DEF UserTypes, vars
<1>. QED
  BY <1>2, <1>3, <1>4, <1>5, <1>6, <1>7, StepKinds

(* A step of the terminal, seen from the keyboard. *)
LEMMA TerminalKinds ==
    ASSUME IdleTypes, IdleTerminal
    PROVE  \/ ListenerReads
           \/ KeyReceived
           \/ KeyboardJoins
           \/ /\ UNCHANGED <<latched, regVars, keyboard_ch, keyboardVars, last, guestVars>>
              /\ chan' = chan \/ chan' = Append(chan, JOIN_THREAD)
<1>1. CASE ListenerChecks \/ UiDraws \/ UiLeavesLoop \/ UiReturns
  <2>1. UNCHANGED <<keyboard_ch, keyboardVars, latched, regVars>>
    BY <1>1
    DEF ListenerChecks, UiDraws, UiLeavesLoop, UiReturns, consoleVars, vars, latchVars,
        HostStops
  <2>2. UNCHANGED <<last, guestVars>>
    BY <2>1 DEF IdleTerminal
  <2>3. chan' = chan \/ chan' = Append(chan, JOIN_THREAD)
    BY <1>1
    DEF ListenerChecks, UiDraws, UiLeavesLoop, UiReturns, vars, latchVars, HostStops, Send
  <2>. QED
    BY <2>1, <2>2, <2>3
<1>. QED
  BY <1>1 DEF IdleTerminal, Terminal

(* The last key stays in the channel until it is in the buffers. *)
LEMMA NextKeepsLast ==
    ASSUME IdleTypes, Runs, LastKeyKept, [NextIdle]_allVars
    PROVE  LastKeyKept'
<1>0. keyboard_ch \in Seq(KeyMessages) /\ typed \in Seq(Events)
  BY DEF IdleTypes, IdleTypeOK, ChannelTypes
<1>1. CASE UNCHANGED <<keyboard_ch, keyboardVars, last>>
  BY <1>1 DEF LastKeyKept, Buffered, keyboardVars
<1>2. CASE IdleTerminal /\ ListenerReads
  <2>. DEFINE e == Head(typed)
              k == key_to_u8(e.code)
              m == Key(k, e.ctrl, e.alt)
  <2>1. e \in Events
    BY <1>0, <1>2, TailFacts DEF ListenerReads
  <2>2. CASE ~Quits(e) /\ k # NoKey
    <3>1. m \in KeyMessages /\ m # JoinThread
      BY <2>1, <2>2, KeyMessage
    <3>2. keyboard_ch' = Append(keyboard_ch, m)
      BY <1>2, <2>2 DEF ListenerReads
    <3>3. /\ keyboard_ch' # <<>>
          /\ Len(keyboard_ch) \in Nat
          /\ Len(keyboard_ch') = Len(keyboard_ch) + 1
          /\ keyboard_ch'[Len(keyboard_ch')] = m
          /\ \A j \in 1..Len(keyboard_ch) : keyboard_ch'[j] = keyboard_ch[j]
      BY <1>0, <3>1, <3>2, AppendFacts
    <3>4. last' = Recorded(m)
      BY <1>2, <3>3 DEF IdleTerminal, Recorded
    <3>5. \A j \in 1..Len(keyboard_ch') : keyboard_ch'[j] # JoinThread
      BY <3>1, <3>3 DEF LastKeyKept
    <3>. HIDE DEF m
    <3>. QED
      BY <3>3, <3>4, <3>5 DEF LastKeyKept, Recorded
  <2>3. CASE ~(~Quits(e) /\ k # NoKey)
    <3>1. UNCHANGED <<keyboard_ch, last>>
      BY <1>2, <2>3 DEF ListenerReads, IdleTerminal
    <3>2. UNCHANGED keyboardVars
      BY <1>2 DEF ListenerReads
    <3>. QED
      BY <1>1, <3>1, <3>2
  <2>. QED
    BY <2>2, <2>3
<1>3. CASE IdleTerminal /\ KeyReceived
  <2>1. /\ Len(keyboard_ch) \in Nat \ {0}
        /\ Head(keyboard_ch) = keyboard_ch[1]
        /\ keyboard_ch' \in Seq(KeyMessages)
        /\ Len(keyboard_ch') = Len(keyboard_ch) - 1
        /\ \A j \in 1..Len(keyboard_ch') : keyboard_ch'[j] = keyboard_ch[j + 1]
    BY <1>0, <1>3, TailFacts DEF KeyReceived
  <2>2. last' = last /\ last = Recorded(keyboard_ch[Len(keyboard_ch)])
    BY <1>3, <2>1 DEF IdleTerminal, KeyReceived, LastKeyKept
  <2>3. \A j \in 1..Len(keyboard_ch') : keyboard_ch'[j] # JoinThread
    <3>1. \A j \in 1..Len(keyboard_ch') : j + 1 \in 1..Len(keyboard_ch)
      BY <2>1
    <3>. QED
      BY <2>1, <3>1 DEF LastKeyKept
  <2>4. CASE keyboard_ch' = <<>>
    <3>1. Len(keyboard_ch) = 1
      BY <2>1, <2>4
    <3>2. last = Recorded(Head(keyboard_ch))
      BY <2>1, <2>2, <3>1
    <3>. QED
      BY <1>3, <2>2, <2>3, <2>4, <3>2 DEF LastKeyKept, Buffered, Recorded, KeyReceived
  <2>5. CASE keyboard_ch' # <<>>
    <3>1. /\ Len(keyboard_ch') \in 1..Len(keyboard_ch')
          /\ Len(keyboard_ch') + 1 = Len(keyboard_ch)
      BY <2>1, <2>5, EmptySeq
    <3>2. keyboard_ch'[Len(keyboard_ch')] = keyboard_ch[Len(keyboard_ch)]
      BY <2>1, <3>1
    <3>. QED
      BY <2>2, <2>3, <2>5, <3>2 DEF LastKeyKept, Recorded
  <2>. QED
    BY <2>4, <2>5
<1>4. CASE KeyboardJoins
  <2>1. Len(keyboard_ch) \in Nat \ {0} /\ keyboard_ch[1] = JoinThread
    BY <1>0, <1>4, TailFacts DEF KeyboardJoins
  <2>. QED
    BY <2>1 DEF LastKeyKept
<1>5. Guest => UNCHANGED <<keyboard_ch, keyboardVars, last>>
  BY DEF Guest, LoopMasks, LoopTests, LoopServes, LoopSetsChar, LoopSetsFg, LoopSetsBg,
         LoopHalts, LoopUnmasks, LoopPauses, HandlerLoadsKey, HandlerLoadsMetadata,
         HandlerStores, HandlerReturns, store, consoleVars, historyVars
<1>6. (ConsoleLifecycle /\ UNCHANGED idleVars) => LastKeyKept'
  <2>. SUFFICES ASSUME ConsoleLifecycle, UNCHANGED idleVars PROVE LastKeyKept'
    OBVIOUS
  <2>1. ~KeyboardStop
    BY DEF KeyboardStop, Runs, Looping
  <2>2. UNCHANGED <<keyboard_ch, key_buffer, metadata_buffer, last>>
    BY <2>1
    DEF ConsoleLifecycle, ConsoleStart, ConsoleHalted, KeyboardStopped, consoleVars,
        keyboardVars, idleVars, historyVars
  <2>. QED
    BY <2>2 DEF LastKeyKept, Buffered
<1>7. UserTypes \/ UNCHANGED <<consoleVars, idleVars>>
         => UNCHANGED <<keyboard_ch, keyboardVars, last>>
  BY DEF UserTypes, consoleVars, idleVars, historyVars
<1>. QED
  BY <1>1, <1>2, <1>3, <1>4, <1>5, <1>6, <1>7, StepKinds, TerminalKinds

(* Until the buffers have been read, the guest is made to read them. *)
LEMMA NextReadDue ==
    ASSUME IdleTypes, GuestInv, Runs, Runs', LastKeyKept, ReadDue, [NextIdle]_allVars
    PROVE  ReadDue'
<1>0. TypeOK /\ seen \in [key : 0..255, metadata : 0..3]
  BY DEF IdleTypes, IdleTypeOK
<1>1. CASE Guest
  <2>1. UNCHANGED <<latchVars, keyboardVars>>
    BY <1>1
    DEF Guest, LoopMasks, LoopTests, LoopServes, LoopSetsChar, LoopSetsFg, LoopSetsBg,
        LoopHalts, LoopUnmasks, LoopPauses, HandlerLoadsKey, HandlerLoadsMetadata,
        HandlerStores, HandlerReturns, store, consoleVars, WriteImr, OtherInstruction, Halt,
        Pause, SkippedPause, IReturn
  <2>2. Pending' = Pending /\ Buffered' = Buffered
    BY <2>1 DEF Pending, Queued, Buffered, latchVars, keyboardVars
  <2>3. CASE HandlerLoadsKey
    BY <1>0, <2>1, <2>3
    DEF HandlerLoadsKey, OtherInstruction, regVars, InHandler, load, ReadDue, InHandlerCode,
        keyboardVars
  <2>4. CASE HandlerLoadsMetadata
    <3>1. INTERRUPT_KEYBOARD \in Pending \/ seen.key = key_buffer
      BY <2>4 DEF HandlerLoadsMetadata, InHandler, ReadDue, Buffered
    <3>2. seen' = [key |-> seen.key, metadata |-> metadata_buffer]
      BY <1>0, <2>4 DEF HandlerLoadsMetadata, load
    <3>. QED
      BY <2>2, <3>1, <3>2 DEF ReadDue, Buffered
  <2>5. CASE HandlerStores \/ HandlerReturns
    <3>1. handler \notin {"key", "metadata"} /\ seen' = seen
      BY <2>5 DEF HandlerStores, HandlerReturns, InHandler
    <3>. QED
      BY <2>2, <3>1 DEF ReadDue
  <2>6. CASE UNCHANGED <<seen, handler>> /\ pc = KernelCode
    BY <2>2, <2>6, Numbers DEF ReadDue, InHandlerCode
  <2>. QED
    BY <1>1, <2>3, <2>4, <2>5, <2>6
    DEF Guest, LoopMasks, LoopTests, LoopServes, LoopSetsChar, LoopSetsFg, LoopSetsBg,
        LoopHalts, LoopUnmasks, LoopPauses, InLoop, guestVars
<1>2. CASE Poll /\ UNCHANGED <<consoleVars, idleVars>>
  <2>1. UNCHANGED <<seen, handler, key_buffer, metadata_buffer>>
    BY <1>2 DEF consoleVars, keyboardVars, idleVars, guestVars
  <2>2. CASE INTERRUPT_KEYBOARD \in Pending
    <3>1. Next
      BY <1>2 DEF Next, CpuThread
    <3>2. \/ INTERRUPT_KEYBOARD \in Pending'
          \/ Entered(INTERRUPT_KEYBOARD)
      BY <1>0, <2>2, <3>1, NextKeepsPending, Numbers DEF Runs, Looping
    <3>3. CASE Entered(INTERRUPT_KEYBOARD)
      <4>1. pc' = INTERRUPT_KEYBOARD /\ Len(stack') = Len(stack) + 1
        BY <3>3 DEF Entered
      <4>2. stack' # stack
        BY <1>0, <4>1 DEF TypeOK
      <4>3. imr # {}
        BY <1>2, <4>2
        DEF Poll, TakeLatched, NoneLatched, ReceiveDisabled, ReceiveEnabled, ReceiveJoin,
            NothingReceived, regVars
      <4>4. handler = "key"
        BY <4>3 DEF GuestInv
      <4>. QED
        BY <2>1, <4>1, <4>4 DEF ReadDue, InHandlerCode
    <3>. QED
      BY <3>2, <3>3 DEF ReadDue
  <2>3. CASE InHandlerCode /\ handler \in {"key", "metadata"}
    <3>1. imr = {}
      BY <2>3, Numbers DEF GuestInv, InLoopCode, InHandlerCode
    <3>2. pc' = pc
      BY <1>2, <3>1
      DEF Poll, TakeLatched, NoneLatched, ReceiveDisabled, ReceiveEnabled, ReceiveJoin,
          NothingReceived, regVars
    <3>. QED
      BY <2>1, <2>2, <2>3, <3>2 DEF ReadDue, InHandlerCode, Buffered
  <2>4. CASE seen = Buffered
    BY <2>1, <2>4 DEF ReadDue, Buffered
  <2>. QED
    BY <2>2, <2>3, <2>4 DEF ReadDue
<1>3. CASE UNCHANGED <<latchVars, pc, seen, handler, key_buffer, metadata_buffer>>
  BY <1>3 DEF ReadDue, Pending, Queued, Buffered, InHandlerCode, latchVars
<1>4. CASE ConsoleLifecycle /\ UNCHANGED idleVars
  <2>1. UNCHANGED <<latchVars, pc, key_buffer, metadata_buffer>>
    BY <1>4
    DEF ConsoleLifecycle, ConsoleStart, ConsoleHalted, KeyboardStop, KeyboardStopped, vars,
        ThreadStart, SendHalted, StopTimer, TimerJoined, StopMmu, regVars, consoleVars,
        keyboardVars
  <2>. QED
    BY <1>3, <1>4, <2>1 DEF idleVars, guestVars
<1>5. CASE IdleTerminal
  <2>1. CASE ListenerReads
    BY <1>3, <1>5, <2>1
    DEF IdleTerminal, ListenerReads, vars, regVars, keyboardVars, guestVars
  <2>2. CASE KeyReceived
    <3>1. chan \in Seq(Messages) /\ INTERRUPT_KEYBOARD \in Messages
      BY <1>0, Numbers DEF TypeOK
    <3>2. chan' = Append(chan, INTERRUPT_KEYBOARD)
      BY <2>2 DEF KeyReceived, DeviceInterrupt, Send
    <3>3. /\ Len(chan) + 1 \in 1..Len(chan')
          /\ chan'[Len(chan) + 1] = INTERRUPT_KEYBOARD
      BY <3>1, <3>2, AppendFacts
    <3>. QED
      BY <3>3 DEF ReadDue, Pending, Queued
  <2>3. CASE KeyboardJoins
    BY <1>3, <1>5, <2>3
    DEF IdleTerminal, KeyboardJoins, vars, regVars, guestVars
  <2>4. CASE /\ UNCHANGED <<latched, regVars, keyboardVars, guestVars>>
             /\ chan' = Append(chan, JOIN_THREAD)
    <3>1. Pending \subseteq Pending'
      BY <1>0, <2>4, AppendKeepsPending DEF Messages
    <3>2. UNCHANGED <<pc, seen, handler, key_buffer, metadata_buffer>>
      BY <2>4 DEF regVars, keyboardVars, guestVars
    <3>. QED
      BY <3>1, <3>2 DEF ReadDue, Buffered, InHandlerCode
  <2>5. CASE UNCHANGED <<chan, latched, regVars, keyboardVars, guestVars>>
    BY <1>3, <2>5 DEF regVars, keyboardVars, guestVars, latchVars
  <2>. QED
    BY <1>5, <2>1, <2>2, <2>3, <2>4, <2>5, TerminalKinds
<1>6. CASE UserTypes
  BY <1>3, <1>6 DEF UserTypes, vars, regVars, keyboardVars, guestVars
<1>7. CASE UNCHANGED <<latchVars, regVars, consoleVars, idleVars>>
  BY <1>3, <1>7 DEF regVars, consoleVars, keyboardVars, idleVars, guestVars
<1>. QED
  BY <1>1, <1>2, <1>4, <1>5, <1>6, <1>7, StepKinds

(* Every step preserves the invariant of the last key. *)
LEMMA NextKey ==
    IdleTypes /\ GuestInv /\ KeyInv /\ [NextIdle]_allVars => KeyInv'
<1>. SUFFICES ASSUME IdleTypes, GuestInv, KeyInv, [NextIdle]_allVars, Runs'
             PROVE  LastKeyKept' /\ ReadDue'
  BY DEF KeyInv
<1>1. Runs
  BY RunsOn DEF IdleTypes, IdleTypeOK
<1>2. LastKeyKept /\ ReadDue
  BY <1>1 DEF KeyInv
<1>. QED
  BY <1>1, <1>2, NextKeepsLast, NextReadDue

(* No key has been sent and none has been seen in the initial state. *)
LEMMA InitKey == InitIdle => KeyInv
BY EmptySeq
DEF InitIdle, InitConsole, KeyInv, LastKeyKept, ReadDue, Buffered, NothingSeen, NoKey

(* The invariant of the last key holds in every behaviour. *)
LEMMA KeyHolds == IdleSpec => []KeyInv
BY InitKey, NextKey, TypesHold, WakesHold, PTL DEF IdleSpec

(* A CPU asleep with no key under way has read the last key typed and the  *)
(* metadata that belong to it, however its loads raced with the keyboard.  *)
THEOREM LastKeyRead == IdleSpec => []LastKeySeen
<1>1. ASSUME TypeOK, WakeInv, KeyInv PROVE LastKeySeen
  <2>. SUFFICES ASSUME Asleep, keyboard_ch = <<>> PROVE seen = last
    BY DEF LastKeySeen
  <2>1. Runs /\ phase = "recv" /\ pausing /\ chan = <<>>
    BY DEF Asleep, Runs, Looping
  <2>2. InLoopCode /\ INTERRUPT_KEYBOARD \notin latched
    <3>1. InLoopCode /\ imr = OnlyKeyboard /\ latched \cap imr = {}
      BY <1>1, <2>1 DEF WakeInv
    <3>. QED
      BY <3>1 DEF OnlyKeyboard
  <2>3. ~InHandlerCode
    BY <2>2, Numbers DEF InLoopCode, InHandlerCode
  <2>4. INTERRUPT_KEYBOARD \notin Pending
    <3>1. Queued = {}
      BY <2>1 DEF Queued
    <3>. QED
      BY <2>2, <3>1 DEF Pending
  <2>5. last = Buffered
    BY <1>1, <2>1 DEF KeyInv, LastKeyKept
  <2>6. ReadDue
    BY <1>1, <2>1 DEF KeyInv
  <2>. QED
    BY <2>3, <2>4, <2>5, <2>6 DEF ReadDue
<1>2. IdleTypes => TypeOK
  BY DEF IdleTypes, IdleTypeOK
<1>. QED
  BY <1>1, <1>2, KeyHolds, TypesHold, WakesHold, PTL
-----------------------------------------------------------------------------
(***************************************************************************)
(* The screen is complete when the guest has halted.                       *)
(***************************************************************************)

(* The colours of the four values of the metadata. *)
LEMMA MetadataColours ==
    \A m \in 0..3 : /\ rgb(m) = [r |-> 0, g |-> 0, b |-> 85 * m]
                    /\ rgb(16 * m) = [r |-> 85 * m, g |-> 0, b |-> 0]
BY DEF rgb

(* One command more in the channel. *)
LEMMA DrawnAppend ==
    ASSUME NEW ch \in Seq(Commands), NEW c \in Commands,
           NEW name, NEW buf, NEW cell, NEW v
    PROVE  /\ Sets(c, name, cell) /\ c.to = v => Drawn(Append(ch, c), name, buf, cell, v)
           /\ ~Sets(c, name, cell) /\ Drawn(ch, name, buf, cell, v)
                => Drawn(Append(ch, c), name, buf, cell, v)
<1>. DEFINE more == Append(ch, c)
<1>1. /\ Len(ch) \in Nat
      /\ Len(more) = Len(ch) + 1
      /\ more[Len(ch) + 1] = c
      /\ \A k \in 1..Len(ch) : more[k] = ch[k]
  BY AppendFacts
<1>. HIDE DEF more
<1>2. ASSUME Sets(c, name, cell), c.to = v PROVE Drawn(more, name, buf, cell, v)
  <2>1. /\ Len(more) \in 1..Len(more)
        /\ more[Len(more)] = c
        /\ (Len(more) + 1)..Len(more) = {}
    BY <1>1
  <2>. QED
    BY <1>2, <2>1 DEF Drawn
<1>3. ASSUME ~Sets(c, name, cell), Drawn(ch, name, buf, cell, v)
      PROVE  Drawn(more, name, buf, cell, v)
  <2>1. CASE (\A k \in 1..Len(ch) : ~Sets(ch[k], name, cell)) /\ buf[cell] = v
    <3>1. ASSUME NEW k \in 1..Len(more) PROVE ~Sets(more[k], name, cell)
      <4>1. k \in 1..Len(ch) \/ k = Len(ch) + 1
        BY <1>1
      <4>. QED
        BY <1>1, <1>3, <2>1, <4>1
    <3>. QED
      BY <2>1, <3>1 DEF Drawn
  <2>2. ASSUME NEW k \in 1..Len(ch), Sets(ch[k], name, cell), ch[k].to = v,
               \A j \in (k + 1)..Len(ch) : ~Sets(ch[j], name, cell)
        PROVE  Drawn(more, name, buf, cell, v)
    <3>1. k \in 1..Len(more) /\ more[k] = ch[k]
      BY <1>1
    <3>2. ASSUME NEW j \in (k + 1)..Len(more) PROVE ~Sets(more[j], name, cell)
      <4>1. CASE j \in (k + 1)..Len(ch)
        <5>1. more[j] = ch[j]
          BY <1>1, <4>1
        <5>. QED
          BY <2>2, <4>1, <5>1
      <4>2. CASE j = Len(ch) + 1
        BY <1>1, <1>3, <4>2
      <4>. QED
        BY <1>1, <4>1, <4>2
    <3>. QED
      BY <2>2, <3>1, <3>2 DEF Drawn
  <2>. QED
    BY <1>3, <2>1, <2>2 DEF Drawn
<1>. QED
  BY <1>2, <1>3 DEF more

(* The first command of the channel is drawn into the buffer. *)
LEMMA DrawnTail ==
    ASSUME NEW ch \in Seq(Commands), ch # <<>>,
           NEW name, NEW buf, NEW new, NEW cell, NEW v,
           Drawn(ch, name, buf, cell, v),
           Sets(Head(ch), name, cell) => new[cell] = Head(ch).to,
           ~Sets(Head(ch), name, cell) => new[cell] = buf[cell]
    PROVE  Drawn(Tail(ch), name, new, cell, v)
<1>. DEFINE rest == Tail(ch)
<1>1. /\ Len(ch) \in Nat \ {0}
      /\ Len(rest) = Len(ch) - 1
      /\ Head(ch) = ch[1]
      /\ \A k \in 1..Len(rest) : rest[k] = ch[k + 1]
  BY TailFacts
<1>. HIDE DEF rest
<1>2. CASE (\A k \in 1..Len(ch) : ~Sets(ch[k], name, cell)) /\ buf[cell] = v
  <2>1. \A k \in 1..Len(rest) : k + 1 \in 1..Len(ch)
    BY <1>1
  <2>2. 1 \in 1..Len(ch)
    BY <1>1
  <2>. QED
    BY <1>1, <1>2, <2>1, <2>2 DEF Drawn, rest
<1>3. ASSUME NEW k \in 1..Len(ch), Sets(ch[k], name, cell), ch[k].to = v,
             \A j \in (k + 1)..Len(ch) : ~Sets(ch[j], name, cell)
      PROVE  Drawn(rest, name, new, cell, v)
  <2>1. CASE k = 1
    <3>1. \A j \in 1..Len(rest) : j + 1 \in (k + 1)..Len(ch)
      BY <1>1, <2>1
    <3>2. \A j \in 1..Len(rest) : ~Sets(rest[j], name, cell)
      BY <1>1, <1>3, <3>1
    <3>. QED
      BY <1>1, <1>3, <2>1, <3>2 DEF Drawn
  <2>2. CASE k # 1
    <3>. DEFINE i == k - 1
    <3>1. i \in 1..Len(rest) /\ i + 1 = k
      BY <1>1, <2>2
    <3>. HIDE DEF i
    <3>2. rest[i] = ch[k]
      BY <1>1, <3>1
    <3>3. \A j \in (i + 1)..Len(rest) : j \in 1..Len(rest) /\ j + 1 \in (k + 1)..Len(ch)
      BY <1>1, <3>1
    <3>4. \A j \in (i + 1)..Len(rest) : ~Sets(rest[j], name, cell)
      BY <1>1, <1>3, <3>3
    <3>. QED
      BY <1>3, <3>1, <3>2, <3>4 DEF Drawn
  <2>. QED
    BY <2>1, <2>2
<1>. QED
  BY <1>2, <1>3 DEF Drawn, rest

(* The interrupt check sends at most an interrupt. *)
LEMMA PollInterrupts ==
    ASSUME Poll, chan \in Seq(Interrupts)
    PROVE  chan' \in Seq(Interrupts) /\ ~ReceiveJoin
<1>1. INTERRUPT_ILLEGAL_OPERATION \in Interrupts
  BY DEF INTERRUPT_ILLEGAL_OPERATION, Interrupts
<1>2. ASSUME NEW i, NEW queue \in Seq(Interrupts), Deliver(i, queue)
      PROVE  chan' \in Seq(Interrupts)
  BY SMTT(30), <1>1, <1>2, AppendFacts DEF Deliver, EnterHandler, FatalDelivery
<1>3. chan # <<>> => Head(chan) \in Interrupts /\ Tail(chan) \in Seq(Interrupts)
  BY TailFacts
<1>4. ~ReceiveJoin
  BY <1>3, JoinAssumption DEF ReceiveJoin
<1>5. CASE TakeLatched
  BY <1>2, <1>4, <1>5 DEF TakeLatched
<1>6. CASE ReceiveEnabled
  BY <1>2, <1>3, <1>4, <1>6 DEF ReceiveEnabled
<1>7. CASE NoneLatched \/ ReceiveDisabled \/ NothingReceived
  BY <1>3, <1>4, <1>7 DEF NoneLatched, ReceiveDisabled, NothingReceived, latchVars
<1>. QED
  BY <1>4, <1>5, <1>6, <1>7 DEF Poll

(* The instructions of the guest send no interrupt. *)
LEMMA GuestQuiet ==
    ASSUME Guest
    PROVE  /\ UNCHANGED <<latchVars, hostVars, join, quit>>
           /\ phase = "execute"
           /\ phase' = "poll" \/ (phase' = "halted" /\ LoopHalts)
BY DEF Guest, LoopMasks, LoopTests, LoopServes, LoopSetsChar, LoopSetsFg, LoopSetsBg,
       LoopHalts, LoopUnmasks, LoopPauses, HandlerLoadsKey, HandlerLoadsMetadata,
       HandlerStores, HandlerReturns, store, consoleVars, historyVars, WriteImr,
       OtherInstruction, Halt, Pause, SkippedPause, IReturn, Executing, Privileged, Completed

(* Every step: nothing asks the CPU to halt before the UI leaves its loop. *)
LEMMA NextHostWaits == HostWaits /\ [NextIdle]_allVars => HostWaits'
<1>. SUFFICES ASSUME HostWaits, [NextIdle]_allVars, ~join'
             PROVE  host' \in {"created", "ui"} /\ chan' \in Seq(Interrupts)
  BY DEF HostWaits
<1>1. CASE UNCHANGED <<chan, host, join>>
  BY <1>1 DEF HostWaits
<1>2. CASE Guest
  BY <1>1, <1>2, GuestQuiet DEF latchVars, hostVars
<1>3. CASE Poll /\ UNCHANGED <<consoleVars, idleVars>>
  <2>1. ~join /\ host' = host
    BY <1>3
    DEF consoleVars, Poll, TakeLatched, NoneLatched, ReceiveDisabled, ReceiveEnabled,
        ReceiveJoin, NothingReceived, hostVars
  <2>. QED
    BY <1>3, <2>1, PollInterrupts DEF HostWaits
<1>4. CASE ConsoleLifecycle
  BY <1>1, <1>4
  DEF ConsoleLifecycle, ConsoleStart, ConsoleHalted, KeyboardStop, KeyboardStopped, vars,
      ThreadStart, SendHalted, StopTimer, TimerJoined, StopMmu, latchVars, hostVars,
      consoleVars
<1>5. CASE KeyReceived
  <2>1. INTERRUPT_KEYBOARD \in Interrupts
    BY Numbers
  <2>2. ~join /\ host' = host /\ chan' = Append(chan, INTERRUPT_KEYBOARD)
    BY <1>5 DEF KeyReceived, DeviceInterrupt, Send, hostVars
  <2>. QED
    BY <2>1, <2>2, AppendFacts DEF HostWaits
<1>6. CASE ListenerReads \/ ListenerChecks \/ KeyboardJoins \/ UiDraws
  BY <1>1, <1>6
  DEF ListenerReads, ListenerChecks, KeyboardJoins, UiDraws, vars, latchVars, hostVars
<1>7. ~UiLeavesLoop /\ ~UiReturns
  BY DEF UiLeavesLoop, UiReturns, consoleVars
<1>8. CASE IdleTimer \/ UserTypes \/ UNCHANGED allVars
  BY <1>1, <1>8
  DEF IdleTimer, TimerCommand, UserTypes, allVars, vars, latchVars, hostVars, consoleVars
<1>9. CASE IdleHost
  BY <1>9 DEF IdleHost, HostStart, HostJoins, HostWaits, consoleVars, latchVars
<1>. QED
  BY <1>2, <1>3, <1>4, <1>5, <1>6, <1>7, <1>8, <1>9
  DEF NextIdle, IdleCpu, IdleTerminal, Terminal, AwaitsUser

(* The guest's instructions and the display, but for the stores. *)
LEMMA GuestKinds ==
    ASSUME GuestInv, Guest
    PROVE  \/ LoopSetsChar \/ LoopSetsFg \/ LoopSetsBg
           \/ /\ UNCHANGED <<ui_ch, screenVars, cursor, echoed>>
              /\ at \notin {"fg", "bg"}
              /\ at' \notin {"fg", "bg"}
<1>1. CASE LoopMasks \/ LoopTests \/ LoopServes \/ LoopHalts \/ LoopUnmasks \/ LoopPauses
  BY <1>1
  DEF LoopMasks, LoopTests, LoopServes, LoopHalts, LoopUnmasks, LoopPauses, InLoop,
      guestVars, consoleVars
<1>2. CASE HandlerLoadsKey \/ HandlerLoadsMetadata \/ HandlerStores \/ HandlerReturns
  <2>1. UNCHANGED <<ui_ch, screenVars, cursor, echoed, at>> /\ pc = INTERRUPT_KEYBOARD
    BY <1>2
    DEF HandlerLoadsKey, HandlerLoadsMetadata, HandlerStores, HandlerReturns, InHandler,
        consoleVars
  <2>2. Runs
    BY GuestQuiet DEF Runs, Looping
  <2>3. at \in {"pause", "mask"}
    BY <2>1, <2>2, Numbers DEF GuestInv, InLoopCode
  <2>. QED
    BY <2>1, <2>3
<1>. QED
  BY <1>1, <1>2 DEF Guest

(* The user's request to quit is remembered. *)
LEMMA QuitStays ==
    ASSUME IdleTypes, [NextIdle]_allVars, ~quit'
    PROVE  /\ ~quit
           /\ IdleTerminal /\ ListenerReads => ui_ch' = ui_ch
<1>1. CASE IdleTerminal
  <2>1. ~(quit \/ (typed' # typed /\ Quits(Head(typed))))
    BY <1>1 DEF IdleTerminal
  <2>2. ASSUME ListenerReads PROVE ui_ch' = ui_ch
    <3>1. typed' # typed
      <4>1. typed \in Seq(Events) /\ typed # <<>> /\ typed' = Tail(typed)
        BY <2>2 DEF IdleTypes, IdleTypeOK, ListenerReads
      <4>2. Len(typed) \in Nat /\ Len(typed') = Len(typed) - 1
        BY <4>1, TailFacts
      <4>. QED
        BY <4>2
    <3>. QED
      BY <2>1, <2>2, <3>1 DEF ListenerReads
  <2>. QED
    BY <2>1, <2>2
<1>2. CASE quit' = quit
  BY <1>1, <1>2
<1>3. Guest \/ UserTypes \/ UNCHANGED idleVars => quit' = quit
  BY GuestQuiet DEF UserTypes, historyVars, idleVars
<1>. QED
  BY <1>1, <1>2, <1>3, StepKinds

(* Every step keeps a halt the last command, and out of an echo. *)
LEMMA NextHaltLast ==
    IdleTypes /\ GuestInv /\ HostWaits /\ HaltLast /\ [NextIdle]_allVars => HaltLast'
<1>. SUFFICES ASSUME IdleTypes, GuestInv, HostWaits, HaltLast, [NextIdle]_allVars, ~quit'
             PROVE  /\ \A k \in 1..Len(ui_ch') :
                         ui_ch'[k] = CPUHalted
                           => k = Len(ui_ch') /\ ~Runs' /\ phase' # "halted"
                    /\ join' => ui_ch' = <<>> /\ ~Runs' /\ phase' # "halted"
                    /\ ~Runs' => at' \notin {"fg", "bg"}
  BY DEF HaltLast
<1>0. TypeOK /\ ui_ch \in Seq(Commands) /\ Len(ui_ch) \in Nat
  BY DEF IdleTypes, IdleTypeOK, ScreenTypes
<1>1. /\ \A k \in 1..Len(ui_ch) :
           ui_ch[k] = CPUHalted => k = Len(ui_ch) /\ ~Runs /\ phase # "halted"
      /\ join => ui_ch = <<>> /\ ~Runs /\ phase # "halted"
      /\ ~Runs => at \notin {"fg", "bg"}
  BY QuitStays DEF HaltLast
<1>2. CASE Guest
  <2>1. Runs /\ phase = "execute" /\ UNCHANGED join
    BY <1>2, GuestQuiet DEF Runs, Looping
  <2>2. ~join' /\ \A k \in 1..Len(ui_ch) : ui_ch[k] # CPUHalted
    BY <1>1, <2>1
  <2>3. CASE UNCHANGED ui_ch /\ at' \notin {"fg", "bg"}
    BY <2>2, <2>3
  <2>4. ASSUME NEW c \in Commands, c # CPUHalted, ui_ch' = Append(ui_ch, c)
        PROVE  \A k \in 1..Len(ui_ch') : ui_ch'[k] # CPUHalted
    BY <1>0, <2>2, <2>4, AppendFacts
  <2>5. ASSUME LoopSetsChar \/ LoopSetsFg \/ LoopSetsBg
        PROVE  \A k \in 1..Len(ui_ch') : ui_ch'[k] # CPUHalted
    <3>1. /\ cursor \in Cells /\ seen.key \in 0..255
          /\ seen.metadata \in 0..255 /\ 16 * seen.metadata \in 0..255
      <4>1. cursor \in Cells /\ seen \in [key : 0..255, metadata : 0..3]
        BY DEF IdleTypes, IdleTypeOK
      <4>. QED
        BY <4>1
    <3>2. CASE LoopSetsChar
      BY <1>0, <2>2, <2>4, <3>1, <3>2, StoreSends DEF LoopSetsChar
    <3>3. CASE LoopSetsFg
      BY <1>0, <2>4, <3>1, <3>3, StoreSends DEF LoopSetsFg
    <3>4. CASE LoopSetsBg
      BY <1>0, <2>4, <3>1, <3>4, StoreSends DEF LoopSetsBg
    <3>. QED
      BY <2>5, <3>2, <3>3, <3>4
  <2>6. CASE LoopSetsChar \/ LoopSetsFg \/ LoopSetsBg
    <3>1. Runs'
      BY <2>6
      DEF LoopSetsChar, LoopSetsFg, LoopSetsBg, OtherInstruction, Completed, Runs, Looping
    <3>. QED
      BY <2>2, <2>5, <2>6, <3>1
  <2>. QED
    BY <1>2, <2>3, <2>6, GuestKinds
<1>3. CASE Poll /\ UNCHANGED <<consoleVars, idleVars>>
  <2>1. UNCHANGED <<ui_ch, join, at>>
    BY <1>3 DEF consoleVars, idleVars, guestVars
  <2>2. Runs
    BY <1>3
    DEF Poll, TakeLatched, NoneLatched, ReceiveDisabled, ReceiveEnabled, ReceiveJoin,
        NothingReceived, Runs, Looping
  <2>3. ~join' /\ \A k \in 1..Len(ui_ch') : ui_ch'[k] # CPUHalted
    BY <1>1, <2>1, <2>2
  <2>4. ~ReceiveJoin
    BY <1>3, <2>1, <2>3, PollInterrupts DEF HostWaits
  <2>5. ASSUME ~Runs' PROVE imr # {}
    BY <1>3, <2>4, <2>5
    DEF Poll, TakeLatched, NoneLatched, ReceiveDisabled, ReceiveEnabled,
        NothingReceived, Runs, Looping
  <2>6. ASSUME ~Runs' PROVE at' \notin {"fg", "bg"}
    BY <2>1, <2>2, <2>5, <2>6 DEF GuestInv
  <2>. QED
    BY <2>3, <2>6
<1>4. CASE ConsoleLifecycle /\ UNCHANGED idleVars
  <2>0. UNCHANGED <<join, at>>
    BY <1>4
    DEF ConsoleLifecycle, ConsoleStart, ConsoleHalted, KeyboardStop, KeyboardStopped,
        consoleVars, idleVars, guestVars
  <2>1. CASE ConsoleStart
    <3>1. UNCHANGED ui_ch /\ Runs /\ Runs'
      BY <2>1 DEF ConsoleStart, ThreadStart, Runs, Looping
    <3>. QED
      BY <1>1, <2>0, <3>1
  <2>2. CASE ConsoleHalted
    <3>1. /\ phase = "halted" /\ phase' = "stop_timer" /\ ~Runs /\ ~Runs'
          /\ ui_ch' = Append(ui_ch, CPUHalted)
      BY <2>2 DEF ConsoleHalted, SendHalted, Runs, Looping
    <3>2. CPUHalted \in Commands
      BY DEF Commands
    <3>3. /\ Len(ui_ch') = Len(ui_ch) + 1
          /\ \A k \in 1..Len(ui_ch) : ui_ch'[k] = ui_ch[k]
      BY <1>0, <3>1, <3>2, AppendFacts
    <3>4. \A k \in 1..Len(ui_ch) : ui_ch[k] # CPUHalted
      BY <1>1, <3>1
    <3>5. \A k \in 1..Len(ui_ch') : ui_ch'[k] = CPUHalted => k = Len(ui_ch')
      BY <1>0, <3>3, <3>4
    <3>. QED
      BY <1>1, <2>0, <3>1, <3>5
  <2>3. CASE \/ StopTimer \/ TimerJoined \/ StopMmu \/ KeyboardStop
    <3>1. ~Runs /\ ~Runs' /\ phase' # "halted"
      BY <2>3
      DEF StopTimer, TimerJoined, StopMmu, KeyboardStop, Runs, Looping, vars
    <3>2. CASE UNCHANGED ui_ch
      BY <1>1, <2>0, <3>1, <3>2
    <3>. QED
      BY <1>4, <2>1, <2>2, <3>2
      DEF ConsoleLifecycle, KeyboardStop, KeyboardStopped, consoleVars
  <2>. QED
    BY <1>4, <2>1, <2>2, <2>3 DEF ConsoleLifecycle, KeyboardStopped
<1>5. CASE UNCHANGED <<ui_ch, join, at, phase>>
  BY <1>1, <1>5 DEF Runs
<1>6. CASE IdleTerminal
  <2>1. UNCHANGED <<at, phase>>
    BY <1>6
    DEF IdleTerminal, Terminal, ListenerReads, ListenerChecks, KeyReceived, KeyboardJoins,
        UiDraws, UiLeavesLoop, UiReturns, HostStops, DeviceInterrupt, vars, guestVars
  <2>2. CASE ListenerReads
    BY <1>5, <1>6, <2>1, <2>2, QuitStays DEF ListenerReads
  <2>3. CASE ListenerChecks \/ KeyReceived \/ KeyboardJoins \/ UiReturns
    BY <1>5, <2>1, <2>3
    DEF ListenerChecks, KeyReceived, KeyboardJoins, UiReturns, consoleVars
  <2>4. UiDraws \/ UiLeavesLoop =>
          /\ Len(ui_ch) \in Nat \ {0}
          /\ Head(ui_ch) = ui_ch[1]
          /\ ui_ch' \in Seq(Commands)
          /\ Len(ui_ch') = Len(ui_ch) - 1
          /\ \A k \in 1..Len(ui_ch') : ui_ch'[k] = ui_ch[k + 1]
    BY <1>0, TailFacts DEF UiDraws, UiLeavesLoop
  <2>5. CASE UiDraws
    <3>1. UNCHANGED join /\ ~join
      BY <2>5 DEF UiDraws
    <3>2. ASSUME NEW k \in 1..Len(ui_ch'), ui_ch'[k] = CPUHalted
          PROVE  k = Len(ui_ch') /\ ~Runs /\ phase # "halted"
      <4>1. k + 1 \in 1..Len(ui_ch) /\ ui_ch[k + 1] = CPUHalted
        BY <2>4, <2>5, <3>2
      <4>. QED
        BY <1>1, <2>4, <2>5, <4>1
    <3>. QED
      BY <1>1, <2>1, <3>1, <3>2 DEF Runs
  <2>6. CASE UiLeavesLoop
    <3>1. 1 \in 1..Len(ui_ch) /\ ui_ch[1] = CPUHalted
      BY <2>4, <2>6 DEF UiLeavesLoop
    <3>2. Len(ui_ch) = 1 /\ ~Runs /\ phase # "halted"
      BY <1>1, <3>1
    <3>3. ui_ch' = <<>>
      BY <2>4, <2>6, <3>2, EmptySeq
    <3>. QED
      BY <1>1, <2>1, <3>2, <3>3 DEF Runs
  <2>. QED
    BY <1>6, <2>2, <2>3, <2>5, <2>6 DEF IdleTerminal, Terminal
<1>7. UserTypes \/ UNCHANGED <<phase, consoleVars, idleVars>> => UNCHANGED <<ui_ch, join, at, phase>>
  BY DEF UserTypes, vars, consoleVars, idleVars, guestVars
<1>. QED
  BY <1>2, <1>3, <1>4, <1>5, <1>6, <1>7, StepKinds

(* Which cell a store sets. *)
LEMMA CellSet ==
    ASSUME NEW cell \in Cells, NEW other \in Cells, NEW name, NEW part, NEW value
    PROVE  Sets([set |-> name, at |-> At(cell), to |-> value], part, other)
             <=> name = part /\ cell = other
BY Position DEF Sets

(* A step that neither draws nor stores. *)
LEMMA SameScreen ==
    ASSUME ScreenDue, UNCHANGED <<ui_ch, screenVars, cursor, echoed>>,
           \/ UNCHANGED <<at, seen>>
           \/ at \notin {"fg", "bg"} /\ at' \notin {"fg", "bg"}
    PROVE  ScreenDue'
<1>1. \A cell : CharDue(cell)' = CharDue(cell)
  BY DEF CharDue
<1>2. \A cell : FgDue(cell)' = FgDue(cell)
  BY DEF FgDue
<1>3. \A cell : BgDue(cell)' = BgDue(cell)
  BY DEF BgDue
<1>. QED
  BY <1>1, <1>2, <1>3 DEF ScreenDue, screenVars, Drawn

(* A command sent to the UI. *)
LEMMA SentScreen ==
    ASSUME ScreenDue, ui_ch \in Seq(Commands), UNCHANGED screenVars,
           NEW c \in Commands, ui_ch' = Append(ui_ch, c),
           \A cell \in Cells :
             /\ IF Sets(c, "char", cell) THEN c.to = CharDue(cell)'
                                         ELSE CharDue(cell)' = CharDue(cell)
             /\ IF Sets(c, "fg", cell) THEN c.to = FgDue(cell)'
                                       ELSE FgDue(cell)' = FgDue(cell)
             /\ IF Sets(c, "bg", cell) THEN c.to = BgDue(cell)'
                                       ELSE BgDue(cell)' = BgDue(cell)
    PROVE  ScreenDue'
<1>. SUFFICES ASSUME NEW cell \in Cells
             PROVE  /\ Drawn(ui_ch', "char", char_buf', cell, CharDue(cell)')
                    /\ Drawn(ui_ch', "fg", fg_buf', cell, FgDue(cell)')
                    /\ Drawn(ui_ch', "bg", bg_buf', cell, BgDue(cell)')
  BY DEF ScreenDue
<1>1. /\ Drawn(ui_ch, "char", char_buf, cell, CharDue(cell))
      /\ Drawn(ui_ch, "fg", fg_buf, cell, FgDue(cell))
      /\ Drawn(ui_ch, "bg", bg_buf, cell, BgDue(cell))
  BY DEF ScreenDue
<1>2. char_buf' = char_buf /\ fg_buf' = fg_buf /\ bg_buf' = bg_buf
  BY DEF screenVars
<1>3. Drawn(ui_ch', "char", char_buf', cell, CharDue(cell)')
  BY <1>1, <1>2, DrawnAppend
<1>4. Drawn(ui_ch', "fg", fg_buf', cell, FgDue(cell)')
  BY <1>1, <1>2, DrawnAppend
<1>5. Drawn(ui_ch', "bg", bg_buf', cell, BgDue(cell)')
  BY <1>1, <1>2, DrawnAppend
<1>. QED
  BY <1>3, <1>4, <1>5

(* The three stores of an echo. *)
LEMMA EchoScreen ==
    ASSUME IdleTypes, ScreenDue, LoopSetsChar \/ LoopSetsFg \/ LoopSetsBg
    PROVE  ScreenDue'
<1>0. /\ ui_ch \in Seq(Commands) /\ cursor \in Cells
      /\ seen \in [key : 0..255, metadata : 0..3]
      /\ echoed \in [Cells -> [letter : Codes, metadata : {Untouched} \cup 0..3]]
  BY DEF IdleTypes, IdleTypeOK, ScreenTypes
<1>1. /\ seen.key \in 0..255 /\ seen.metadata \in 0..3 /\ seen.metadata # Untouched
      /\ seen.metadata \in 0..255 /\ 16 * seen.metadata \in 0..255
  <2>1. seen.key \in 0..255 /\ seen.metadata \in 0..3
    BY <1>0
  <2>. QED
    BY <2>1 DEF Untouched
<1>2. CASE LoopSetsChar
  <2>. DEFINE c == [set |-> "char", at |-> At(cursor), to |-> u8_to_printable_char(seen.key)]
  <2>1. /\ UNCHANGED <<screenVars, cursor, echoed, seen>>
        /\ at = "char" /\ at' = "fg" /\ store(cursor, seen.key)
    BY <1>2 DEF LoopSetsChar, InLoop, store
  <2>2. ASSUME NEW cell \in Cells
        PROVE  /\ FgDue(cell)' = FgDue(cell)
               /\ BgDue(cell)' = BgDue(cell)
               /\ cell # cursor \/ ~Printable(seen.key) => CharDue(cell)' = CharDue(cell)
               /\ cell = cursor /\ Printable(seen.key)
                    => CharDue(cell)' = u8_to_printable_char(seen.key)
    <3>1. FgDue(cell)' = FgDue(cell) /\ BgDue(cell)' = BgDue(cell)
      BY <2>1 DEF FgDue, BgDue
    <3>2. cell # cursor \/ ~Printable(seen.key) => CharDue(cell)' = CharDue(cell)
      BY <2>1 DEF CharDue
    <3>3. cell = cursor /\ Printable(seen.key)
            => CharDue(cell)' = u8_to_printable_char(seen.key)
      BY <1>1, <2>1, Letters DEF CharDue
    <3>. QED
      BY <3>1, <3>2, <3>3
  <2>3. CASE Printable(seen.key)
    <3>1. c \in Commands /\ ui_ch' = Append(ui_ch, c)
      BY <1>0, <1>1, <2>1, <2>3, StoreSends
    <3>2. \A cell \in Cells : /\ Sets(c, "char", cell) <=> cell = cursor
                              /\ ~Sets(c, "fg", cell) /\ ~Sets(c, "bg", cell)
      BY <1>0, CellSet
    <3>3. c.to = u8_to_printable_char(seen.key)
      OBVIOUS
    <3>. HIDE DEF c
    <3>. QED
      BY <1>0, <2>1, <2>2, <2>3, <3>1, <3>2, <3>3, SentScreen
  <2>4. CASE ~Printable(seen.key)
    <3>1. ui_ch' = ui_ch
      BY <1>0, <1>1, <2>1, <2>4, StoreSends
    <3>. QED
      BY <2>1, <2>2, <2>4, <3>1 DEF ScreenDue, screenVars, Drawn
  <2>. QED
    BY <2>3, <2>4
<1>3. CASE LoopSetsFg
  <2>. DEFINE c == [set |-> "fg", at |-> At(cursor), to |-> rgb(seen.metadata)]
  <2>1. /\ UNCHANGED <<screenVars, cursor, echoed, seen>>
        /\ at = "fg" /\ at' = "bg" /\ store(CELLS + cursor, seen.metadata)
    BY <1>3 DEF LoopSetsFg, InLoop, store
  <2>2. ASSUME NEW cell \in Cells
        PROVE  /\ CharDue(cell)' = CharDue(cell)
               /\ BgDue(cell)' = BgDue(cell)
               /\ cell # cursor => FgDue(cell)' = FgDue(cell)
               /\ cell = cursor => FgDue(cell)' = rgb(seen.metadata)
    <3>1. CharDue(cell)' = CharDue(cell) /\ BgDue(cell)' = BgDue(cell)
      BY <2>1 DEF CharDue, BgDue
    <3>2. /\ cell # cursor => FgDue(cell)' = FgDue(cell)
          /\ cell = cursor => FgDue(cell)' = rgb(seen.metadata)
      BY <1>1, <2>1 DEF FgDue
    <3>. QED
      BY <3>1, <3>2
  <2>3. c \in Commands /\ ui_ch' = Append(ui_ch, c)
    BY <1>0, <1>1, <2>1, StoreSends
  <2>4. \A cell \in Cells : /\ Sets(c, "fg", cell) <=> cell = cursor
                            /\ ~Sets(c, "char", cell) /\ ~Sets(c, "bg", cell)
    BY <1>0, CellSet
  <2>5. c.to = rgb(seen.metadata)
    OBVIOUS
  <2>. HIDE DEF c
  <2>. QED
    BY <1>0, <2>1, <2>2, <2>3, <2>4, <2>5, SentScreen
<1>4. CASE LoopSetsBg
  <2>. DEFINE c == [set |-> "bg", at |-> At(cursor), to |-> rgb(16 * seen.metadata)]
  <2>1. /\ UNCHANGED <<screenVars, seen>>
        /\ at = "bg" /\ at' = "mask" /\ store(2 * CELLS + cursor, 16 * seen.metadata)
        /\ echoed' = [echoed EXCEPT ![cursor] =
                         Echoed(echoed[cursor], seen.key, seen.metadata)]
    BY <1>4 DEF LoopSetsBg, InLoop, store
  <2>2. ASSUME NEW cell \in Cells
        PROVE  /\ CharDue(cell)' = CharDue(cell)
               /\ FgDue(cell)' = FgDue(cell)
               /\ cell # cursor => BgDue(cell)' = BgDue(cell)
               /\ cell = cursor => BgDue(cell)' = rgb(16 * seen.metadata)
    <3>1. /\ cell # cursor => echoed'[cell] = echoed[cell]
          /\ cell = cursor =>
               /\ echoed'[cell].letter =
                    IF Printable(seen.key) THEN seen.key ELSE echoed[cell].letter
               /\ echoed'[cell].metadata = seen.metadata
      BY <1>0, <2>1 DEF Echoed
    <3>2. CharDue(cell)' = CharDue(cell)
      BY <2>1, <3>1 DEF CharDue
    <3>3. FgDue(cell)' = FgDue(cell)
      BY <2>1, <3>1 DEF FgDue
    <3>4. /\ cell # cursor => BgDue(cell)' = BgDue(cell)
          /\ cell = cursor => BgDue(cell)' = rgb(16 * seen.metadata)
      BY <1>1, <3>1 DEF BgDue
    <3>. QED
      BY <3>2, <3>3, <3>4
  <2>3. c \in Commands /\ ui_ch' = Append(ui_ch, c)
    BY <1>0, <1>1, <2>1, StoreSends
  <2>4. \A cell \in Cells : /\ Sets(c, "bg", cell) <=> cell = cursor
                            /\ ~Sets(c, "char", cell) /\ ~Sets(c, "fg", cell)
    BY <1>0, CellSet
  <2>5. c.to = rgb(16 * seen.metadata)
    OBVIOUS
  <2>. HIDE DEF c
  <2>. QED
    BY <1>0, <2>1, <2>2, <2>3, <2>4, <2>5, SentScreen
<1>. QED
  BY <1>2, <1>3, <1>4

(* The UI draws the first command, or leaves its loop at it. *)
LEMMA DrawingScreen ==
    ASSUME ui_ch \in Seq(Commands), ScreenTypes, ScreenDue, UiDraws \/ UiLeavesLoop,
           UNCHANGED <<at, cursor, seen, echoed>>
    PROVE  ScreenDue'
<1>. DEFINE c == Head(ui_ch)
            index == c.at.row * COLS + c.at.col
<1>. SUFFICES ASSUME NEW cell \in Cells
             PROVE  /\ Drawn(ui_ch', "char", char_buf', cell, CharDue(cell)')
                    /\ Drawn(ui_ch', "fg", fg_buf', cell, FgDue(cell)')
                    /\ Drawn(ui_ch', "bg", bg_buf', cell, BgDue(cell)')
  BY DEF ScreenDue
<1>1. /\ CharDue(cell)' = CharDue(cell)
      /\ FgDue(cell)' = FgDue(cell)
      /\ BgDue(cell)' = BgDue(cell)
  BY DEF CharDue, FgDue, BgDue
<1>2. /\ Drawn(ui_ch, "char", char_buf, cell, CharDue(cell))
      /\ Drawn(ui_ch, "fg", fg_buf, cell, FgDue(cell))
      /\ Drawn(ui_ch, "bg", bg_buf, cell, BgDue(cell))
  BY DEF ScreenDue
<1>3. ui_ch # <<>> /\ ui_ch' = Tail(ui_ch)
  BY DEF UiDraws, UiLeavesLoop
<1>4. /\ char_buf' = IF c.set = "char" THEN [char_buf EXCEPT ![index] = c.to] ELSE char_buf
      /\ fg_buf' = IF c.set = "fg" THEN [fg_buf EXCEPT ![index] = c.to] ELSE fg_buf
      /\ bg_buf' = IF c.set = "bg" THEN [bg_buf EXCEPT ![index] = c.to] ELSE bg_buf
  <2>1. CASE UiDraws
    BY <2>1 DEF UiDraws
  <2>2. CASE UiLeavesLoop
    <3>1. c.set = "halted"
      BY <2>2 DEF UiLeavesLoop, CPUHalted
    <3>. QED
      BY <2>2, <3>1 DEF UiLeavesLoop, screenVars
  <2>. QED
    BY <2>1, <2>2
<1>5. \A name : Sets(c, name, cell) <=> c.set = name /\ index = cell
  BY DEF Sets
<1>6. cell \in DOMAIN char_buf /\ cell \in DOMAIN fg_buf /\ cell \in DOMAIN bg_buf
  BY DEF ScreenTypes
<1>. HIDE DEF c, index
<1>7. /\ char_buf'[cell] = IF Sets(c, "char", cell) THEN c.to ELSE char_buf[cell]
      /\ fg_buf'[cell] = IF Sets(c, "fg", cell) THEN c.to ELSE fg_buf[cell]
      /\ bg_buf'[cell] = IF Sets(c, "bg", cell) THEN c.to ELSE bg_buf[cell]
  BY <1>4, <1>5, <1>6
<1>8. Drawn(Tail(ui_ch), "char", char_buf', cell, CharDue(cell))
  BY <1>2, <1>3, <1>7, DrawnTail DEF c
<1>9. Drawn(Tail(ui_ch), "fg", fg_buf', cell, FgDue(cell))
  BY <1>2, <1>3, <1>7, DrawnTail DEF c
<1>10. Drawn(Tail(ui_ch), "bg", bg_buf', cell, BgDue(cell))
  BY <1>2, <1>3, <1>7, DrawnTail DEF c
<1>. QED
  BY <1>1, <1>3, <1>8, <1>9, <1>10

(* Every step keeps what the screen will show. *)
LEMMA NextScreen ==
    IdleTypes /\ GuestInv /\ ScreenInv /\ [NextIdle]_allVars => ScreenInv'
<1>. SUFFICES ASSUME IdleTypes, GuestInv, ScreenInv, [NextIdle]_allVars, ~quit'
             PROVE  ScreenDue'
  BY DEF ScreenInv
<1>0. ScreenDue /\ ui_ch \in Seq(Commands) /\ ScreenTypes
  BY QuitStays DEF ScreenInv, IdleTypes, ScreenTypes
<1>1. CASE UNCHANGED <<ui_ch, screenVars, at, seen, cursor, echoed>>
  BY <1>0, <1>1, SameScreen
<1>2. CASE Guest
  BY <1>0, <1>2, GuestKinds, EchoScreen, SameScreen
<1>3. CASE ConsoleHalted /\ UNCHANGED idleVars
  <2>1. CPUHalted \in Commands
    BY DEF Commands
  <2>2. \A cell : /\ ~Sets(CPUHalted, "char", cell)
                  /\ ~Sets(CPUHalted, "fg", cell)
                  /\ ~Sets(CPUHalted, "bg", cell)
    BY DEF Sets, CPUHalted
  <2>3. \A cell : /\ CharDue(cell)' = CharDue(cell)
                  /\ FgDue(cell)' = FgDue(cell)
                  /\ BgDue(cell)' = BgDue(cell)
    BY <1>3 DEF CharDue, FgDue, BgDue, idleVars, guestVars
  <2>4. ui_ch' = Append(ui_ch, CPUHalted) /\ UNCHANGED screenVars
    BY <1>3 DEF ConsoleHalted
  <2>. QED
    BY <1>0, <2>1, <2>2, <2>3, <2>4, SentScreen
<1>4. CASE ConsoleLifecycle /\ UNCHANGED idleVars
  BY <1>1, <1>3, <1>4
  DEF ConsoleLifecycle, ConsoleStart, KeyboardStop, KeyboardStopped, consoleVars, idleVars,
      guestVars
<1>5. CASE IdleTerminal
  <2>1. UNCHANGED <<at, seen, cursor, echoed>>
    BY <1>5 DEF IdleTerminal, guestVars
  <2>2. CASE ListenerReads
    BY <1>1, <1>5, <2>1, <2>2, QuitStays DEF ListenerReads
  <2>3. CASE UiDraws \/ UiLeavesLoop
    BY <1>0, <2>1, <2>3, DrawingScreen
  <2>4. CASE ListenerChecks \/ KeyReceived \/ KeyboardJoins \/ UiReturns
    BY <1>1, <2>1, <2>4
    DEF ListenerChecks, KeyReceived, KeyboardJoins, UiReturns, consoleVars
  <2>. QED
    BY <1>5, <2>2, <2>3, <2>4 DEF IdleTerminal, Terminal
<1>6. UserTypes \/ UNCHANGED <<consoleVars, idleVars>>
        => UNCHANGED <<ui_ch, screenVars, at, seen, cursor, echoed>>
  BY DEF UserTypes, consoleVars, idleVars, guestVars
<1>. QED
  BY <1>1, <1>2, <1>4, <1>5, <1>6, StepKinds

(* In the initial state the screen is blank and nothing has been echoed. *)
LEMMA InitScreen == InitIdle => HostWaits /\ HaltLast /\ ScreenInv
<1>. SUFFICES ASSUME InitIdle PROVE HostWaits /\ HaltLast /\ ScreenInv
  OBVIOUS
<1>1. HostWaits
  BY EmptySeq DEF InitIdle, InitConsole, Init, HostWaits
<1>2. ui_ch = <<>> /\ Len(ui_ch) = 0 /\ join = FALSE /\ Runs
  BY DEF InitIdle, InitConsole, Init, Runs
<1>3. HaltLast
  BY <1>2 DEF HaltLast
<1>4. ASSUME NEW cell \in Cells
      PROVE  /\ Drawn(ui_ch, "char", char_buf, cell, CharDue(cell))
             /\ Drawn(ui_ch, "fg", fg_buf, cell, FgDue(cell))
             /\ Drawn(ui_ch, "bg", bg_buf, cell, BgDue(cell))
  <2>1. at = "mask" /\ echoed[cell] = NeverEchoed
    BY DEF InitIdle
  <2>2. CharDue(cell) = 32 /\ FgDue(cell) = rgb(63) /\ BgDue(cell) = rgb(0)
    BY <2>1 DEF CharDue, FgDue, BgDue, NeverEchoed
  <2>3. char_buf[cell] = 32 /\ fg_buf[cell] = rgb(63) /\ bg_buf[cell] = rgb(0)
    BY DEF InitIdle, InitConsole
  <2>. QED
    BY <1>2, <2>2, <2>3 DEF Drawn
<1>. QED
  BY <1>1, <1>3, <1>4 DEF ScreenInv, ScreenDue

(* The invariants of the halt and of the screen hold in every behaviour. *)
LEMMA ScreenHolds == IdleSpec => [](HostWaits /\ HaltLast /\ ScreenInv)
BY InitScreen, NextHostWaits, NextHaltLast, NextScreen, TypesHold, WakesHold, PTL
DEF IdleSpec

(* When the UI has left its loop because the guest halted, every cell      *)
(* shows what was echoed there last, as it was typed.                      *)
THEOREM ScreenShowsEcho == IdleSpec => []ScreenComplete
<1>1. ASSUME IdleTypes, HaltLast, ScreenInv PROVE ScreenComplete
  <2>. SUFFICES ASSUME join, ~quit, NEW cell \in Cells PROVE Shows(cell, echoed[cell])
    BY DEF ScreenComplete
  <2>1. ui_ch = <<>> /\ at \notin {"fg", "bg"}
    BY <1>1 DEF HaltLast
  <2>2. /\ char_buf[cell] = CharDue(cell)
        /\ fg_buf[cell] = FgDue(cell)
        /\ bg_buf[cell] = BgDue(cell)
    <3>1. Len(ui_ch) = 0 /\ 1..Len(ui_ch) = {}
      BY <2>1
    <3>. QED
      BY <1>1, <3>1 DEF ScreenInv, ScreenDue, Drawn
  <2>. DEFINE e == echoed[cell]
  <2>3. e.letter \in 0..255 /\ e.metadata \in {Untouched} \cup 0..3
    BY <1>1 DEF IdleTypes, ScreenTypes, Codes
  <2>4. /\ CharDue(cell) = IF e.letter = NoKey THEN 32 ELSE u8_to_printable_char(e.letter)
        /\ FgDue(cell) = IF e.metadata = Untouched THEN rgb(63) ELSE rgb(e.metadata)
        /\ BgDue(cell) = IF e.metadata = Untouched THEN rgb(0) ELSE rgb(16 * e.metadata)
    BY <2>1 DEF CharDue, FgDue, BgDue
  <2>. HIDE DEF e
  <2>5. ASSUME NEW c \in Characters, key_to_u8(<<"Char", c>>) = e.letter
        PROVE  char_buf[cell] = c
    <3>1. e.letter # NoKey /\ u8_to_printable_char(e.letter) = c
      BY <2>5, Letters
    <3>. QED
      BY <2>2, <2>4, <3>1
  <2>6. e.letter = NoKey => char_buf[cell] = 32
    BY <2>2, <2>4
  <2>7. e.metadata # Untouched =>
          /\ fg_buf[cell] = [r |-> 0, g |-> 0, b |-> 85 * e.metadata]
          /\ bg_buf[cell] = [r |-> 85 * e.metadata, g |-> 0, b |-> 0]
    BY <2>2, <2>3, <2>4, MetadataColours
  <2>8. Shows(cell, e)
    BY <2>5, <2>6, <2>7 DEF Shows
  <2>. QED
    BY <2>8 DEF e
<1>. QED
  BY <1>1, ScreenHolds, TypesHold, PTL
=============================================================================
