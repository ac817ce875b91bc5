------------------------------- MODULE MCCpu -------------------------------
(***************************************************************************)
(* Instances of Cpu for TLC: two devices, or one and the timer, and a      *)
(* kernel that sets a few interrupt masks (handlers start with the empty   *)
(* one).                                                                   *)
(***************************************************************************)
EXTENDS Cpu

Join == 99

KernelMasks == {{}, {INTERRUPT_PAGE_FAULT, INTERRUPT_KEYBOARD, INTERRUPT_SYSCALL}}
StopMasks == {{INTERRUPT_ILLEGAL_OPERATION, INTERRUPT_KEYBOARD, INTERRUPT_TIMER}}
KeyboardAndDisk == {INTERRUPT_KEYBOARD, INTERRUPT_DISK_A}
Keyboard == {INTERRUPT_KEYBOARD}
OneFault == {INTERRUPT_ILLEGAL_OPERATION}
TwoFaults == {INTERRUPT_ILLEGAL_OPERATION, INTERRUPT_PAGE_FAULT}
=============================================================================
