---------------------------- MODULE NumberText ------------------------------
(***************************************************************************)
(* The numbers the console prints (console.cpp 60-70, 187-225):            *)
(* console_kprint_uint64 and console_kprint_hex write the digits of a      *)
(* number into a buffer on the stack, the least significant one first,     *)
(* reverse them where they stand and print what they have.                 *)
(***************************************************************************)
EXTENDS MachineWords

CONSTANTS
    Numbers,        \* the numbers printed
    DECIMAL_BUFF,   \* the size of the buffer for a decimal number (21) ...
    HEX_BUFF        \* ... and for a hexadecimal one (19)

ASSUME NumberTextAssumption == Numbers \subseteq 0 .. LONG - 1

VARIABLES
    job,     \* the function called, "uint64" or "hex", and its argument
    step,    \* where it is
    n,       \* what is left of the number
    str,     \* the cells written at and behind numberbuff
    i,       \* the next cell
    start,   \* the pointers of reverse, as indexes
    end,
    shown    \* what has been given to console_kprint

numberVars == <<job, step, n, str, i, start, end, shown>>

NoJob == [fn |-> "none", number |-> 0]

NumberIdle == /\ job = NoJob /\ step = "idle" /\ n = 0 /\ str = <<>> /\ i = 0
              /\ start = 0 /\ end = 0 /\ shown = <<>>

NumberInit == /\ job \in [fn : {"uint64", "hex"}, number : Numbers]
              /\ step = "call" /\ n = 0 /\ str = <<>> /\ i = 0
              /\ start = 0 /\ end = 0 /\ shown = <<>>

\* c stored in cell k, wherever that is.
Store(k, c) == [j \in DOMAIN str \union {k} |-> IF j = k THEN c ELSE str[j]]

\* "sign": the argument as an int, its low half.
SignOfLowHalf == Signed(job.number, INT)

\* int_to_ascii_unsafe begins: below zero by its low half, it is negated whole.
BeginDecimal ==
    /\ step = "call" /\ job.fn = "uint64"
    /\ n' = IF SignOfLowHalf < 0 THEN Negated(job.number, LONG) ELSE job.number
    /\ step' = "digits"
    /\ UNCHANGED <<job, str, i, start, end, shown>>

\* int_to_hex_unsafe begins with "0x".
BeginHex ==
    /\ step = "call" /\ job.fn = "hex"
    /\ n' = job.number
    /\ str' = [k \in {0, 1} |-> IF k = 0 THEN "0" ELSE "x"]
    /\ i' = 2
    /\ step' = "digits"
    /\ UNCHANGED <<job, start, end, shown>>

Base == IF job.fn = "hex" THEN 16 ELSE 10

Digit ==
    /\ step = "digits"
    /\ str' = Store(i, DigitChar(n % Base, TRUE))
    /\ i' = i + 1
    /\ n' = n \div Base
    /\ step' = IF n' > 0 THEN "digits" ELSE IF job.fn = "uint64" THEN "sign" ELSE "end"
    /\ UNCHANGED <<job, start, end, shown>>

Sign ==
    /\ step = "sign"
    /\ IF SignOfLowHalf < 0 THEN str' = Store(i, "-") /\ i' = i + 1
                            ELSE UNCHANGED <<str, i>>
    /\ step' = "end"
    /\ UNCHANGED <<job, n, start, end, shown>>

\* Mutant: the prefix is reversed with the digits.
ReverseFromStart ==
    /\ step = "end"
    /\ str' = Store(i, NUL)
    /\ start' = 0
    /\ end' = i - 1
    /\ step' = "reverse"
    /\ UNCHANGED <<job, n, i, shown>>

\* The terminator, and what is to be reversed: all in front of it, "0x" left out.
End ==
    /\ step = "end"
    /\ str' = Store(i, NUL)
    /\ start' = IF job.fn = "hex" THEN 2 ELSE 0
    /\ end' = i - 1
    /\ step' = "reverse"
    /\ UNCHANGED <<job, n, i, shown>>

Swap ==
    /\ step = "reverse" /\ start < end
    /\ str' = [str EXCEPT ![start] = str[end], ![end] = str[start]]
    /\ start' = start + 1 /\ end' = end - 1
    /\ UNCHANGED <<job, step, n, i, shown>>

\* console_kprint prints up to the first NUL.
Kprint ==
    /\ step = "reverse" /\ start >= end
    /\ LET length == CHOOSE k \in DOMAIN str : str[k] = NUL
       IN  shown' = [k \in 1 .. length |-> str[k - 1]]
    /\ step' = "done"
    /\ UNCHANGED <<job, n, str, i, start, end>>

NumberNext == \/ BeginDecimal \/ BeginHex \/ Digit \/ Sign \/ End \/ Swap \/ Kprint

\* console.cpp 61 and 67: "-9223372036854775806" and "0x0000000000000000", the
\* texts the buffers are declared for, are the longest: nothing is written
\* behind the end of a buffer.
NumberFitsBuffer ==
    DOMAIN str \subseteq 0 .. (IF job.fn = "hex" THEN HEX_BUFF ELSE DECIMAL_BUFF) - 1
=============================================================================
