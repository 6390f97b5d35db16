------------------------------ MODULE Pic8259 ------------------------------
(***************************************************************************)
(* One 8259A interrupt controller, as far as interrupts.cpp programs it:   *)
(* edge triggered, fixed priorities, non-specific end of interrupt.        *)
(* The chip is not part of the repository; this is the device its port     *)
(* writes are addressed to.                                                *)
(***************************************************************************)
EXTENDS Integers, FiniteSets

Lines == 0 .. 7

\* icw is the initialisation word the data port expects next, 0 when none.
Chip == [icw : {0, 2, 3, 4}, base : 0 .. 255,
         imr : SUBSET Lines, irr : SUBSET Lines, isr : SUBSET Lines]

\* The lines the set bits of a byte stand for.
BitWeight == <<1, 2, 4, 8, 16, 32, 64, 128>>
LinesOf(byte) == {n \in Lines : (byte \div BitWeight[n + 1]) % 2 = 1}

\* A line has the priority of its number; 0 is the highest.
Highest(lines) == CHOOSE n \in lines : \A m \in lines : n <= m

\* Requests that would interrupt: not masked, above all that is in service.
Pending(chip, irr) == {n \in irr \ chip.imr : \A s \in chip.isr : n < s}

\* An edge on a line is latched, whatever the mask.
Raise(chip, line) == [chip EXCEPT !.irr = @ \union {line}]
Lower(chip, line) == [chip EXCEPT !.irr = @ \ {line}]

\* The processor acknowledges a line.
Acknowledged(chip, line) ==
    [chip EXCEPT !.irr = @ \ {line}, !.isr = @ \union {line}]

\* The command port: 0x11 starts the initialisation and forgets every edge
\* latched so far; 0x20 ends the interrupt of the highest priority in service.
ICW1 == 17
EOI  == 32
Command(chip, byte) ==
    IF byte = ICW1
    THEN [chip EXCEPT !.icw = 2, !.imr = {}, !.irr = {}, !.isr = {}]
    ELSE [chip EXCEPT !.isr = IF byte = EOI /\ @ # {} THEN @ \ {Highest(@)} ELSE @]

\* The data port: the words of the initialisation in turn, then the mask.
Data(chip, byte) ==
    IF chip.icw = 0
    THEN [chip EXCEPT !.imr = LinesOf(byte)]
    ELSE [chip EXCEPT !.icw = IF @ = 4 THEN 0 ELSE @ + 1,
                      !.base = IF chip.icw = 2 THEN byte ELSE @]
=============================================================================
