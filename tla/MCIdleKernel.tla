---------------------------- MODULE MCIdleKernel ----------------------------
(* IdleKernel for TLC: one device, the keyboard; two characters, a key     *)
(* without one, an event that is no key, and Alt+Shift+Q.                  *)
EXTENDS IdleKernel

Join == 99
Keyboard == {INTERRUPT_KEYBOARD}
None == {}

Event(code, ctrl, alt, shift) ==
    [code |-> code, ctrl |-> ctrl, alt |-> alt, shift |-> shift]

FewEvents ==
    {Event(<<"Char", 81>>, TRUE, FALSE, TRUE),
     Event(<<"Char", 163>>, FALSE, FALSE, FALSE),
     Event(<<"Esc", 0>>, FALSE, TRUE, FALSE),
     Event(<<"Resize", 0>>, FALSE, FALSE, FALSE),
     Event(<<"Char", 81>>, FALSE, TRUE, TRUE)}
=============================================================================
