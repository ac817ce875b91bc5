------------------------------ MODULE Console ------------------------------
(***************************************************************************)
(* The terminal around the CPU: the UI thread with its key listener, the   *)
(* keyboard controller and the display controller.                         *)
(*                                                                         *)
(* A key travels from the terminal through the listener to the keyboard's  *)
(* thread, which records it in two buffers the guest reads; a byte stored  *)
(* in the display's memory travels as a command to the UI, which draws it. *)
(* The UI thread is the host of Cpu: ui.run returns, and cpu.stop is       *)
(* called, when UICommand::CPUHalted was received and the listener joined. *)
(***************************************************************************)
EXTENDS Cpu

CONSTANTS
    Events,     \* the terminal's events: records with code, ctrl, alt, shift
    ROWS, COLS  \* of the display

CELLS == ROWS * COLS
Cells == 0..CELLS - 1

ASSUME EventsAssumption ==
    \A e \in Events : /\ DOMAIN e = {"code", "ctrl", "alt", "shift"}
                       /\ {e.ctrl, e.alt, e.shift} \subseteq BOOLEAN
ASSUME DisplayAssumption == ROWS \in Nat \ {0} /\ COLS \in Nat \ {0}

VARIABLES
    typed,            \* events typed and not yet read
    listener,         \* the key listener: "read", "check" or "returned"
    join,             \* the flag that asks it to return
    keyboard_ch,      \* KeyMessages sent and not yet received
    keyboard,         \* the keyboard controller's thread
    key_buffer,
    metadata_buffer,
    ui_ch,            \* UICommands sent and not yet received
    char_buf,
    fg_buf,
    bg_buf

listenerVars == <<typed, listener>>
keyboardVars == <<keyboard, key_buffer, metadata_buffer>>
screenVars == <<char_buf, fg_buf, bg_buf>>
consoleVars == <<listenerVars, join, keyboard_ch, keyboardVars, ui_ch, screenVars>>

-----------------------------------------------------------------------------
(***************************************************************************)
(* Conversions.  A KeyCode is a pair of its kind and a number: for "Char"  *)
(* the Unicode code point, for "F" the number of the function key.         *)
(***************************************************************************)
NamedKeys ==
    [Esc |-> 13, Backspace |-> 14, Enter |-> 15, Insert |-> 16, Delete |-> 17,
     Home |-> 18, End |-> 19, PageUp |-> 20, PageDown |-> 21, Tab |-> 22,
     Up |-> 23, Down |-> 24, Left |-> 25, Right |-> 26]

PoundSign == 163
NotSign == 172
NoKey == 0    \* None; the byte 0 is the code of no key

key_to_u8(code) ==
    CASE code[1] = "F" /\ code[2] \in 1..12 -> code[2]
      [] code[1] = "Char" /\ code[2] = PoundSign -> 31
      [] code[1] = "Char" /\ code[2] \in 32..126 -> code[2]
      [] code[1] = "Char" /\ code[2] = NotSign -> 127
      [] code[1] \in DOMAIN NamedKeys -> NamedKeys[code[1]]
      [] OTHER -> NoKey

NoChar == 0

(* Mutant: the two characters outside ASCII are drawn as they are. *)
u8_to_ascii(byte) == IF byte \in 31..127 THEN byte ELSE NoChar

u8_to_printable_char(byte) ==
    CASE byte = 31 -> PoundSign
      [] byte \in 32..126 -> byte
      [] byte = 127 -> NotSign
      [] OTHER -> NoChar

rgb(raw_byte) ==
    [r |-> 85 * ((raw_byte \div 16) % 4),
     g |-> 85 * ((raw_byte \div 4) % 4),
     b |-> 85 * (raw_byte % 4)]

-----------------------------------------------------------------------------
(* The two kinds of KeyMessage. *)
Key(key, ctrl, alt) == [key |-> key, ctrl |-> ctrl, alt |-> alt]
JoinThread == Key(NoKey, FALSE, FALSE)

Metadata(m) == (IF m.ctrl THEN 1 ELSE 0) + (IF m.alt THEN 2 ELSE 0)

CPUHalted == [set |-> "halted"]

(* UI::new, KeyboardController::new. *)
InitConsole ==
    /\ Init
    /\ typed = <<>>
    /\ listener = "read"
    /\ join = FALSE
    /\ keyboard_ch = <<>>
    /\ keyboard = "off"
    /\ key_buffer = 0
    /\ metadata_buffer = 0
    /\ ui_ch = <<>>
    /\ char_buf = [i \in Cells |-> 32]
    /\ fg_buf = [i \in Cells |-> rgb(63)]
    /\ bg_buf = [i \in Cells |-> rgb(0)]

-----------------------------------------------------------------------------
(***************************************************************************)
(* The key listener, a loop around event::read.                            *)
(***************************************************************************)
Quits(e) == e.code = <<"Char", 81>> /\ e.alt /\ e.shift

(* Mutant: an event that is no key of the machine goes back to the read. *)
ListenerReadsOn ==
    /\ host = "ui"
    /\ listener = "read"
    /\ typed # <<>>
    /\ LET e == Head(typed)
           k == key_to_u8(e.code)
       IN  /\ ui_ch' = IF Quits(e) THEN Append(ui_ch, CPUHalted) ELSE ui_ch
           /\ keyboard_ch' = IF ~Quits(e) /\ k # NoKey
                               THEN Append(keyboard_ch, Key(k, e.ctrl, e.alt))
                               ELSE keyboard_ch
           /\ listener' = IF k = NoKey THEN "read" ELSE "check"
    /\ typed' = Tail(typed)
    /\ UNCHANGED <<vars, join, keyboardVars, screenVars>>

ListenerReads ==
    /\ host = "ui"
    /\ listener = "read"
    /\ typed # <<>>
    /\ LET e == Head(typed)
           k == key_to_u8(e.code)
       IN  /\ ui_ch' = IF Quits(e) THEN Append(ui_ch, CPUHalted) ELSE ui_ch
           /\ keyboard_ch' = IF ~Quits(e) /\ k # NoKey
                               THEN Append(keyboard_ch, Key(k, e.ctrl, e.alt))
                               ELSE keyboard_ch
    /\ listener' = "check"
    /\ typed' = Tail(typed)
    /\ UNCHANGED <<vars, join, keyboardVars, screenVars>>

ListenerChecks ==
    /\ listener = "check"
    /\ listener' = IF join THEN "returned" ELSE "read"
    /\ UNCHANGED <<vars, typed, join, keyboard_ch, keyboardVars, ui_ch, screenVars>>

-----------------------------------------------------------------------------
(***************************************************************************)
(* The keyboard controller.  Its thread records the key and sends the      *)
(* interrupt under the lock that load takes as well.                       *)
(***************************************************************************)
(* Mutant: metadata is recorded only when there is any. *)
KeyReceivedPlain ==
    /\ keyboard = "on"
    /\ keyboard_ch # <<>>
    /\ Head(keyboard_ch) # JoinThread
    /\ keyboard_ch' = Tail(keyboard_ch)
    /\ key_buffer' = Head(keyboard_ch).key
    /\ metadata_buffer' = IF Metadata(Head(keyboard_ch)) = 0
                            THEN metadata_buffer
                            ELSE Metadata(Head(keyboard_ch))
    /\ DeviceInterrupt(INTERRUPT_KEYBOARD)
    /\ UNCHANGED <<listenerVars, join, keyboard, ui_ch, screenVars>>

KeyReceived ==
    /\ keyboard = "on"
    /\ keyboard_ch # <<>>
    /\ Head(keyboard_ch) # JoinThread
    /\ keyboard_ch' = Tail(keyboard_ch)
    /\ key_buffer' = Head(keyboard_ch).key
    /\ metadata_buffer' = Metadata(Head(keyboard_ch))
    /\ DeviceInterrupt(INTERRUPT_KEYBOARD)
    /\ UNCHANGED <<listenerVars, join, keyboard, ui_ch, screenVars>>

KeyboardJoins ==
    /\ keyboard = "on"
    /\ keyboard_ch # <<>>
    /\ Head(keyboard_ch) = JoinThread
    /\ keyboard_ch' = Tail(keyboard_ch)
    /\ keyboard' = "joined"
    /\ UNCHANGED <<vars, listenerVars, join, key_buffer, metadata_buffer,
                   ui_ch, screenVars>>

(* KeyboardController::load at addresses 0 and 1. *)
load(address) == IF address = 0 THEN key_buffer ELSE metadata_buffer

-----------------------------------------------------------------------------
(***************************************************************************)
(* The display controller: the UICommand sent for a store, if any.         *)
(***************************************************************************)
At(cell) == [row |-> cell \div COLS, col |-> cell % COLS]

DisplayCommands(address, value) ==
    CASE address < CELLS ->
           IF u8_to_printable_char(value) = NoChar
             THEN <<>>
             ELSE <<[set |-> "char", at |-> At(address),
                     to |-> u8_to_printable_char(value)]>>
      [] address \in CELLS..2 * CELLS - 1 ->
           <<[set |-> "fg", at |-> At(address - CELLS), to |-> rgb(value)]>>
      [] address \in 2 * CELLS..3 * CELLS - 1 ->
           <<[set |-> "bg", at |-> At(address - 2 * CELLS), to |-> rgb(value)]>>

store(address, value) ==
    /\ ui_ch' = ui_ch \o DisplayCommands(address, value)
    /\ UNCHANGED <<listenerVars, join, keyboard_ch, keyboardVars, screenVars>>

-----------------------------------------------------------------------------
(***************************************************************************)
(* The UI thread.                                                          *)
(***************************************************************************)
UiDraws ==
    /\ host = "ui"
    /\ ~join
    /\ ui_ch # <<>>
    /\ Head(ui_ch) # CPUHalted
    /\ LET c == Head(ui_ch)
           index == c.at.row * COLS + c.at.col
           Set(buf, name) ==
             IF c.set = name THEN [buf EXCEPT ![index] = c.to] ELSE buf
       IN  /\ char_buf' = Set(char_buf, "char")
           /\ fg_buf' = Set(fg_buf, "fg")
           /\ bg_buf' = Set(bg_buf, "bg")
    /\ ui_ch' = Tail(ui_ch)
    /\ UNCHANGED <<vars, listenerVars, join, keyboard_ch, keyboardVars>>

UiLeavesLoop ==
    /\ host = "ui"
    /\ ~join
    /\ ui_ch # <<>>
    /\ Head(ui_ch) = CPUHalted
    /\ ui_ch' = Tail(ui_ch)
    /\ join' = TRUE
    /\ UNCHANGED <<vars, listenerVars, keyboard_ch, keyboardVars, screenVars>>

(* The listener is joined, run returns, and cpu.stop sends JOIN_THREAD. *)
UiReturns ==
    /\ join
    /\ listener = "returned"
    /\ HostStops
    /\ UNCHANGED consoleVars

-----------------------------------------------------------------------------
(***************************************************************************)
(* The parts of the CPU thread's life cycle that reach the console.        *)
(***************************************************************************)
ConsoleStart ==
    /\ ThreadStart
    /\ keyboard' = "on"
    /\ UNCHANGED <<listenerVars, join, keyboard_ch, key_buffer, metadata_buffer,
                   ui_ch, screenVars>>

ConsoleHalted ==
    /\ SendHalted
    /\ ui_ch' = Append(ui_ch, CPUHalted)
    /\ UNCHANGED <<listenerVars, join, keyboard_ch, keyboardVars, screenVars>>

KeyboardStop ==
    /\ phase = "stop_mmu"
    /\ keyboard = "on"
    /\ \A k \in 1..Len(keyboard_ch) : keyboard_ch[k] # JoinThread
    /\ keyboard_ch' = Append(keyboard_ch, JoinThread)
    /\ UNCHANGED <<vars, listenerVars, join, keyboardVars, ui_ch, screenVars>>

KeyboardStopped ==
    /\ StopMmu
    /\ keyboard = "joined"
    /\ UNCHANGED consoleVars

ConsoleLifecycle ==
    \/ ConsoleStart
    \/ ConsoleHalted
    \/ (StopTimer \/ TimerJoined) /\ UNCHANGED consoleVars
    \/ KeyboardStop
    \/ KeyboardStopped

Terminal ==
    \/ ListenerReads
    \/ ListenerChecks
    \/ KeyReceived
    \/ KeyboardJoins
    \/ UiDraws
    \/ UiLeavesLoop
    \/ UiReturns
=============================================================================
