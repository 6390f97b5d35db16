----------------------------- MODULE KernelText ------------------------------
(***************************************************************************)
(* The two formatters of the archived kernel side by side: a call of       *)
(* printf, or a number printed by the console.  What printf makes of a     *)
(* number is what the console's numbers are compared with.                 *)
(***************************************************************************)
EXTENDS CFormat, NumberText

\* printf when it has not been called.
PrintfIdle == /\ call = [fn |-> "none", means |-> <<>>, format |-> <<>>, args |-> <<>>,
                         count |-> 0, null |-> FALSE]
              /\ pc = "done" /\ device = "null" /\ maxlen = 0 /\ at = 1 /\ arg = 0
              /\ flags = {} /\ width = 0 /\ precision = 0 /\ num = NoNumber
              /\ idx = 0 /\ buffer = <<>> /\ sent = <<>>

TextInit == \/ Init /\ NumberIdle
            \/ PrintfIdle /\ NumberInit

TextNext == \/ Next /\ UNCHANGED numberVars
            \/ NumberNext /\ UNCHANGED vars

TextSpec == TextInit /\ [][TextNext]_<<vars, numberVars>>
                     /\ WF_<<vars, numberVars>>(TextNext)

\* The console prints a number as printf prints it with %lu, and a hexadecimal
\* one as it prints it behind "0x" with %lX, if the low half of the number is no
\* negative int: above that int_to_ascii_unsafe takes it for negative.
NumberShownAsPrintfWould ==
    (step = "done" /\ (job.fn = "uint64" => SignOfLowHalf >= 0))
      => shown = IF job.fn = "uint64"
                 THEN TextOf(Directive({}, NONE, NONE, <<"l">>, "u", job.number))
                 ELSE <<"0", "x">> \o TextOf(Directive({}, NONE, NONE, <<"l">>, "X", job.number))

\* Every call returns, of printf and of the console's number functions.
EveryCallReturns == <>(pc = "done" /\ step \in {"idle", "done"})
=============================================================================
