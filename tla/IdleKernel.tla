----------------------------- MODULE IdleKernel -----------------------------
(***************************************************************************)
(* A guest kernel on the whole machine: the idle loop that PAUSE is made   *)
(* for (the program of test_pause in cpu/tests.rs, turned into a loop).    *)
(* With interrupts masked it looks for work; when there is none it enables *)
(* the keyboard interrupt and executes PAUSE.  The interrupt handler reads *)
(* key and metadata, leaves work behind and returns.  To serve a key is to *)
(* echo it on the display, with colours that show the metadata, or for Esc *)
(* to halt.                                                                *)
(***************************************************************************)
EXTENDS Console

CONSTANT KeyPresses    \* how many events the user causes

ASSUME KeyPressesAssumption == KeyPresses \in Nat

VARIABLES
    at,       \* the next instruction of the idle loop
    handler,  \* the next instruction of the keyboard handler
    work,     \* memory: the handler ran and the loop has not noticed yet
    seen,     \* memory: the key and metadata the handler read
    cursor,   \* memory: the cell of the next echo
    keys,     \* events to come
    last,     \* history: the last key the keyboard controller was sent
    echoed,   \* history: what each cell is to show
    quit      \* history: the user has asked to quit

guestVars == <<at, handler, work, seen, cursor, echoed>>
historyVars == <<last, quit>>
idleVars == <<guestVars, keys, historyVars>>
allVars == <<vars, consoleVars, idleVars>>

NothingSeen == [key |-> NoKey, metadata |-> 0]

(* The characters that keys stand for; the last key with a character that  *)
(* was echoed in a cell, and the metadata of the last key of any kind.     *)
Characters == {c \in 32..NotSign : key_to_u8(<<"Char", c>>) # NoKey}
Printable(key) == \E c \in Characters : key_to_u8(<<"Char", c>>) = key
Untouched == -1
NeverEchoed == [letter |-> NoKey, metadata |-> Untouched]
Echoed(old, key, metadata) ==
    [letter |-> IF Printable(key) THEN key ELSE old.letter, metadata |-> metadata]
Escape == NamedKeys["Esc"]

IdleTypeOK ==
    /\ TypeOK
    /\ typed \in Seq(Events)
    /\ listener \in {"read", "check", "returned"}
    /\ join \in BOOLEAN
    /\ keyboard \in {"off", "on", "joined"}
    /\ key_buffer \in 0..255
    /\ metadata_buffer \in 0..3
    /\ at \in {"mask", "test", "serve", "char", "fg", "bg", "halt", "unmask", "pause"}
    /\ handler \in {"key", "metadata", "store", "ireturn"}
    /\ work \in BOOLEAN
    /\ seen \in [key : 0..255, metadata : 0..3]
    /\ cursor \in Cells
    /\ keys \in 0..KeyPresses

InitIdle ==
    /\ InitConsole
    /\ at = "mask"
    /\ handler = "key"
    /\ work = FALSE
    /\ seen = NothingSeen
    /\ cursor = 0
    /\ keys = KeyPresses
    /\ last = NothingSeen
    /\ echoed = [i \in Cells |-> NeverEchoed]
    /\ quit = FALSE

-----------------------------------------------------------------------------
InLoop(l) == pc = KernelCode /\ at = l
InHandler(l) == pc = INTERRUPT_KEYBOARD /\ handler = l

LoopMasks ==
    /\ InLoop("mask")
    /\ WriteImr({})
    /\ at' = "test"
    /\ UNCHANGED <<handler, work, seen, cursor, echoed, consoleVars>>
LoopTests ==
    /\ InLoop("test")
    /\ OtherInstruction
    /\ at' = IF work THEN "serve" ELSE "unmask"
    /\ UNCHANGED <<handler, work, seen, cursor, echoed, consoleVars>>
LoopServes ==
    /\ InLoop("serve")
    /\ OtherInstruction
    /\ work' = FALSE
    /\ at' = IF seen.key = Escape THEN "halt" ELSE "char"
    /\ UNCHANGED <<handler, seen, cursor, echoed, consoleVars>>
LoopSetsChar ==
    /\ InLoop("char")
    /\ OtherInstruction
    /\ store(cursor, seen.key)
    /\ at' = "fg"
    /\ UNCHANGED <<handler, work, seen, cursor, echoed>>
LoopSetsFg ==
    /\ InLoop("fg")
    /\ OtherInstruction
    /\ store(CELLS + cursor, seen.metadata)
    /\ at' = "bg"
    /\ UNCHANGED <<handler, work, seen, cursor, echoed>>
LoopSetsBg ==
    /\ InLoop("bg")
    /\ OtherInstruction
    /\ store(2 * CELLS + cursor, 16 * seen.metadata)
    /\ echoed' = [echoed EXCEPT ![cursor] = Echoed(@, seen.key, seen.metadata)]
    /\ cursor' = (cursor + 1) % CELLS
    /\ at' = "mask"
    /\ UNCHANGED <<handler, work, seen>>
LoopHalts ==
    /\ InLoop("halt")
    /\ Halt
    /\ UNCHANGED <<guestVars, consoleVars>>
LoopUnmasks ==
    /\ InLoop("unmask")
    /\ WriteImr({INTERRUPT_KEYBOARD})
    /\ at' = "pause"
    /\ UNCHANGED <<handler, work, seen, cursor, echoed, consoleVars>>
LoopPauses ==
    /\ InLoop("pause")
    /\ Pause \/ SkippedPause
    /\ at' = "mask"
    /\ UNCHANGED <<handler, work, seen, cursor, echoed, consoleVars>>

HandlerLoadsKey ==
    /\ InHandler("key")
    /\ OtherInstruction
    /\ seen' = [seen EXCEPT !.key = load(0)]
    /\ handler' = "metadata"
    /\ UNCHANGED <<at, work, cursor, echoed, consoleVars>>
HandlerLoadsMetadata ==
    /\ InHandler("metadata")
    /\ OtherInstruction
    /\ seen' = [seen EXCEPT !.metadata = load(1)]
    /\ handler' = "store"
    /\ UNCHANGED <<at, work, cursor, echoed, consoleVars>>
HandlerStores ==
    /\ InHandler("store")
    /\ OtherInstruction
    /\ work' = TRUE
    /\ handler' = "ireturn"
    /\ UNCHANGED <<at, seen, cursor, echoed, consoleVars>>
HandlerReturns ==
    /\ InHandler("ireturn")
    /\ IReturn
    /\ handler' = "key"
    /\ UNCHANGED <<at, work, seen, cursor, echoed, consoleVars>>

Guest ==
    /\ \/ LoopMasks
       \/ LoopTests
       \/ LoopServes
       \/ LoopSetsChar
       \/ LoopSetsFg
       \/ LoopSetsBg
       \/ LoopHalts
       \/ LoopUnmasks
       \/ LoopPauses
       \/ HandlerLoadsKey
       \/ HandlerLoadsMetadata
       \/ HandlerStores
       \/ HandlerReturns
    /\ UNCHANGED <<keys, historyVars>>

IdleCpu ==
    \/ Guest
    \/ Poll /\ UNCHANGED <<consoleVars, idleVars>>
    \/ ConsoleLifecycle /\ UNCHANGED idleVars

(***************************************************************************)
(* The other threads, with the history of what the listener has read.      *)
(***************************************************************************)
IdleTerminal ==
    /\ Terminal
    /\ last' = IF Len(keyboard_ch') > Len(keyboard_ch)
                 THEN LET m == keyboard_ch'[Len(keyboard_ch')]
                      IN  [key |-> m.key, metadata |-> Metadata(m)]
                 ELSE last
    /\ quit' = (quit \/ (typed' # typed /\ Quits(Head(typed))))
    /\ UNCHANGED <<guestVars, keys>>

IdleTimer == TimerCommand /\ UNCHANGED <<consoleVars, idleVars>>
IdleHost == (HostStart \/ HostJoins) /\ UNCHANGED <<consoleVars, idleVars>>

UserTypes ==
    /\ keys > 0
    /\ keys' = keys - 1
    /\ \E e \in Events : typed' = Append(typed, e)
    /\ UNCHANGED <<vars, guestVars, historyVars, listener, join, keyboard_ch,
                   keyboardVars, ui_ch, screenVars>>

Asleep == phase = "recv" /\ pausing /\ chan = <<>>
KeysDelivered == keyboard = "joined" \/ keyboard_ch = <<>>

(* Everyone waits for the user, who has stopped typing. *)
AwaitsUser ==
    /\ keys = 0
    /\ typed = <<>> /\ listener = "read"
    /\ Asleep \/ phase = "returned"
    /\ KeysDelivered
    /\ join \/ ui_ch = <<>>
    /\ UNCHANGED allVars

NextIdle ==
    \/ IdleCpu
    \/ IdleTerminal
    \/ IdleTimer
    \/ IdleHost
    \/ UserTypes
    \/ AwaitsUser
    \/ Terminated /\ UNCHANGED allVars

(* Every thread is scheduled; the user need not type. *)
IdleSpec ==
    /\ InitIdle
    /\ [][NextIdle]_allVars
    /\ WF_allVars(IdleCpu)
    /\ WF_allVars(IdleTerminal /\ (ListenerReads \/ ListenerChecks))
    /\ WF_allVars(IdleTerminal /\ (KeyReceived \/ KeyboardJoins))
    /\ WF_allVars(IdleTerminal /\ (UiDraws \/ UiLeavesLoop \/ UiReturns))
    /\ WF_allVars(IdleTimer)
    /\ WF_allVars(IdleHost)

-----------------------------------------------------------------------------
(* The idle loop never sleeps on work: when the CPU is blocked in PAUSE,   *)
(* the handler has left nothing behind, even if its interrupt fell between *)
(* the test and the PAUSE (cpu.rs:566-573, 644-645; instruction-set.md:126 *)
(* "this makes it possible to write race-condition free code").            *)
NoLostWakeup == Asleep => ~work

(* Keys may be overwritten before the guest reads them, and its two loads  *)
(* may mix two keys, but not for good: a CPU asleep, with no key under     *)
(* way, has read the last key typed and the metadata that belong to it     *)
(* (keyboard.rs:82-97, 119-126).                                           *)
LastKeySeen == Asleep /\ keyboard_ch = <<>> => seen = last

(* A key sent to the keyboard controller is eventually served by the idle  *)
(* loop, unless the CPU is stopped.  This needs finitely many key presses: *)
(* the receive loop of try_get_next has no bound, so senders that never    *)
(* pause could keep the CPU from executing instructions at all.            *)
KeysServed ==
    keyboard_ch # <<>> ~> (at = "serve" \/ phase \notin Looping \cup {"new"})

(* "Press any key to exit" (ui.rs:186): once the UI has left its loop, an  *)
(* event typed and not yet read, of whatever kind, makes the listener, the *)
(* UI, the keyboard thread and the CPU return and the machine stop         *)
(* (ui.rs:126-190, keyboard.rs:100-117, cpu.rs:380-409).                   *)
AnyKeyExits == join /\ host = "ui" /\ typed # <<>> ~> host = "stopped"

Shows(cell, e) ==
    /\ \A c \in Characters : key_to_u8(<<"Char", c>>) = e.letter => char_buf[cell] = c
    /\ e.letter = NoKey => char_buf[cell] = 32
    /\ e.metadata # Untouched =>
         /\ fg_buf[cell] = [r |-> 0, g |-> 0, b |-> 85 * e.metadata]
         /\ bg_buf[cell] = [r |-> 85 * e.metadata, g |-> 0, b |-> 0]

(* When the UI has left its loop because the guest halted, the screen      *)
(* holds everything the guest stored before: each cell shows, as it was    *)
(* typed, the last character echoed there, which a key without a character *)
(* has left alone, in the colours of the last key (display.rs:17-83,       *)
(* ui.rs:151-190, cpu.rs:384).                                             *)
ScreenComplete == join /\ ~quit => \A cell \in Cells : Shows(cell, echoed[cell])

-----------------------------------------------------------------------------
(***************************************************************************)
(* The inductive invariants behind the safety properties.                  *)
(***************************************************************************)
KeyMessages == [key : 0..255, ctrl : BOOLEAN, alt : BOOLEAN]

ChannelTypes ==
    /\ keyboard_ch \in Seq(KeyMessages)
    /\ last \in [key : 0..255, metadata : 0..3]

Runs == phase \in Looping \cup {"new"}
InLoopCode == pc = KernelCode
InHandlerCode == pc = INTERRUPT_KEYBOARD
OnlyKeyboard == {INTERRUPT_KEYBOARD}

(* Where the guest is.  The handler interrupts the loop only where the     *)
(* keyboard interrupt is enabled: before PAUSE and after it.               *)
GuestInv ==
    Runs =>
      /\ kernel_mode
      /\ \/ /\ InLoopCode
            /\ stack = <<>>
            /\ handler = "key"
            /\ imr \in {{}, OnlyKeyboard}
            /\ imr = OnlyKeyboard => at \in {"pause", "mask"}
            /\ at = "pause" => imr = OnlyKeyboard
         \/ /\ InHandlerCode
            /\ stack = <<[bit15 |-> TRUE, pc |-> KernelCode, imr |-> OnlyKeyboard]>>
            /\ imr = {}
            /\ at \in {"pause", "mask"}

(* The loop comes to PAUSE without work, or with the handler's IRETURN as  *)
(* its last instruction, which makes it skip the PAUSE; and nothing that   *)
(* is enabled is in the latch of a CPU that waits.                         *)
WakeInv ==
    Runs =>
      /\ InLoopCode /\ at = "unmask" => ~work
      /\ InLoopCode /\ at = "pause" /\ work => skip_pause
      /\ pausing /\ phase # "execute" =>
           InLoopCode /\ imr = OnlyKeyboard /\ at = "mask" /\ ~work
      /\ phase \in {"recv", "execute"} => latched \cap imr = {}

Buffered == [key |-> key_buffer, metadata |-> metadata_buffer]
Recorded(m) == [key |-> m.key, metadata |-> Metadata(m)]

(* The last key is in the channel, or in the buffers. *)
LastKeyKept ==
    /\ \A k \in 1..Len(keyboard_ch) : keyboard_ch[k] # JoinThread
    /\ keyboard_ch = <<>> => last = Buffered
    /\ keyboard_ch # <<>> => last = Recorded(keyboard_ch[Len(keyboard_ch)])

(* The buffers have been read, are being read, or an interrupt that makes  *)
(* the guest read them is still to be taken.                               *)
ReadDue ==
    \/ INTERRUPT_KEYBOARD \in Pending
    \/ InHandlerCode /\ handler = "key"
    \/ InHandlerCode /\ handler = "metadata" /\ seen.key = key_buffer
    \/ seen = Buffered

KeyInv == Runs => LastKeyKept /\ ReadDue

(* Types of what travels to the UI and of its buffers *)
Codes == 0..255
Colours == [r : 0..255, g : 0..255, b : 0..255]
Positions == [row : Nat, col : Nat]
Commands ==
    {CPUHalted} \cup [set : {"char"}, at : Positions, to : Codes]
      \cup [set : {"fg", "bg"}, at : Positions, to : Colours]

ScreenTypes ==
    /\ ui_ch \in Seq(Commands)
    /\ char_buf \in [Cells -> Codes]
    /\ fg_buf \in [Cells -> Colours]
    /\ bg_buf \in [Cells -> Colours]
    /\ echoed \in [Cells -> [letter : Codes, metadata : {Untouched} \cup 0..3]]

(* Until the UI has left its loop, nothing asks the CPU to halt. *)
HostWaits == ~join => host \in {"created", "ui"} /\ chan \in Seq(Interrupts)

(* A halt of the guest follows all its stores into the channel and is the  *)
(* last command there; it falls within no echo.                            *)
HaltLast ==
    ~quit =>
      /\ \A k \in 1..Len(ui_ch) :
           ui_ch[k] = CPUHalted => k = Len(ui_ch) /\ ~Runs /\ phase # "halted"
      /\ join => ui_ch = <<>> /\ ~Runs /\ phase # "halted"
      /\ ~Runs => at \notin {"fg", "bg"}

(* A cell of a buffer holds v when the UI has drawn the commands of ch.    *)
Sets(c, name, cell) == c.set = name /\ c.at.row * COLS + c.at.col = cell
Drawn(ch, name, buf, cell, v) ==
    \/ /\ \A k \in 1..Len(ch) : ~Sets(ch[k], name, cell)
       /\ buf[cell] = v
    \/ \E k \in 1..Len(ch) :
         /\ Sets(ch[k], name, cell) /\ ch[k].to = v
         /\ \A j \in (k + 1)..Len(ch) : ~Sets(ch[j], name, cell)

(* What was echoed, with what of the current echo has been stored          *)
CharDue(cell) ==
    LET letter == IF cell = cursor /\ at \in {"fg", "bg"} /\ Printable(seen.key)
                    THEN seen.key ELSE echoed[cell].letter
    IN  IF letter = NoKey THEN 32 ELSE u8_to_printable_char(letter)
FgDue(cell) ==
    LET m == IF cell = cursor /\ at = "bg" THEN seen.metadata ELSE echoed[cell].metadata
    IN  IF m = Untouched THEN rgb(63) ELSE rgb(m)
BgDue(cell) ==
    IF echoed[cell].metadata = Untouched THEN rgb(0) ELSE rgb(16 * echoed[cell].metadata)

ScreenDue ==
    \A cell \in Cells :
      /\ Drawn(ui_ch, "char", char_buf, cell, CharDue(cell))
      /\ Drawn(ui_ch, "fg", fg_buf, cell, FgDue(cell))
      /\ Drawn(ui_ch, "bg", bg_buf, cell, BgDue(cell))

ScreenInv == ~quit => ScreenDue

IdleTypes == IdleTypeOK /\ ChannelTypes /\ ScreenTypes
IdleInv == IdleTypes /\ GuestInv /\ WakeInv /\ KeyInv /\ HostWaits /\ HaltLast /\ ScreenInv
=============================================================================
