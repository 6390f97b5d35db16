---------------------------- MODULE MCInterrupts ----------------------------
(***************************************************************************)
(* Instances of the interrupt model: two scancodes, up to two keys; of     *)
(* the other devices the timer (line 0 of the first controller), a serial  *)
(* port (4), the clock (line 0 of the second) and a disk (6).              *)
(***************************************************************************)
EXTENDS Interrupts

MCLeaderDevices   == {0, 4}
MCFollowerDevices == {0, 6}
=============================================================================
