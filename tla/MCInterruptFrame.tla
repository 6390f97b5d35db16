-------------------------- MODULE MCInterruptFrame --------------------------
(* Exceptions with and without an error code, an NMI and a request of either *)
(* controller, up to two inside one another, on a stack with room for them. *)
EXTENDS InterruptFrame

\* Stubs anywhere in memory: addresses whose four fields all differ.
MCStubAddress == [v \in Vectors |-> 27 + 37 * v]
=============================================================================
