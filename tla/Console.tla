------------------------------ MODULE Console ------------------------------
(***************************************************************************)
(* printf on several cores: tfp_printf and tfp_format of src/printf.c,     *)
(* muart_init and muart_send of src/mini_uart.c.                           *)
(*                                                                         *)
(* Core Boot sets up the UART; the other cores are let in by the flag of   *)
(* configure_el1 (see Boot).  printflock is the abstract mutex Speenlock   *)
(* implements.  The UART is hardware: a FIFO that loses what is written    *)
(* while it is full, and sends the rest.  A register is the set of its     *)
(* bits that are 1.                                                        *)
(***************************************************************************)
EXTENDS Printf, SequencesExt

CONSTANTS Cores,     \* processor ids
          Boot,      \* the core that calls muart_init (id 0)
          Calls,     \* the calls of printf: records of the fields and the arguments
          MaxCalls,  \* bound: calls in all
          Depth,     \* characters the FIFO holds (8)
          BfSize,    \* size of bf in tfp_format (12)
          Firmware   \* what the firmware may have left in the registers

Bits == 0..31

ASSUME ConsoleConstants ==
    /\ Boot \in Cores
    /\ MaxCalls \in Nat
    /\ Depth \in Nat \ {0}
    /\ Firmware \subseteq SUBSET Bits

Shift(bits, n) == {b + n : b \in bits}     \* bits << n
Not(bits) == Bits \ bits                   \* ~bits

Detect == {"re_detect_enable", "fe_detect_enable", "hi_detect_enable", "lo_detect_enable",
           "async_re_detect", "async_fe_detect"}
Gpio == Detect \cup {"func_select", "pup_pdwn_cntrl"}
Aux == {"aux_enables", "cntl", "ier", "iir", "lcr", "mcr", "baud"}

printflock == "printflock"

VARIABLES
    regs,     \* the registers muart_init writes
    holders,  \* the holder of printflock
    at,       \* at[c]: the next step of core c
    call,     \* call[c]: the call of printf under way
    fmt, va,  \* fmt[c], va[c]: what is left of the format and of the arguments
    bf,       \* bf[c]: the buffer of the last conversion
    out,      \* out[c]: what putf has still to be called with
    fifo,     \* the characters the UART has still to send
    line,     \* history: the characters it has sent
    printed,  \* history: the calls that have returned
    calls     \* number of calls

format == <<call, fmt, va, bf, out>>
uart == <<fifo, line>>
vars == <<regs, holders, at, format, uart, printed, calls>>

Lock == INSTANCE SpinMutex WITH Locks <- {printflock}

Goto(c, from, to) ==
    /\ at[c] = from
    /\ at' = [at EXCEPT ![c] = to]

(* How a programmer writes a field: a character, or a conversion with its  *)
(* padding, width and argument.                                            *)
Written(f) ==
    IF "lit" \in DOMAIN f THEN <<f.lit>>
    ELSE <<"%">> \o (IF f.lz = 1 THEN <<"0">> ELSE <<>>)
                 \o (IF f.w = 0 THEN <<>> ELSE <<Decimal[f.w + 1]>>)
                 \o <<f.ch>>

Format(fields) == FlattenSeq([i \in DOMAIN fields |-> Written(fields[i])]) \o <<NUL>>

Arguments(fields) ==
    FlattenSeq([i \in DOMAIN fields |-> IF "arg" \in DOMAIN fields[i] THEN <<fields[i].arg>> ELSE <<>>])

(* What callers pass: a character, a conversion with the argument it       *)
(* takes, or another one.  Only the last can be cut off by the end.        *)
Fields ==
    LET digit == {"0", "1", "2", "3", "4", "5", "6", "7", "8", "9", "a", "A"}
    IN  [lit : STRING \ {NUL, "%"}]
        \cup [ch : {"d"}, w : 0..9, lz : {0, 1}, arg : (-(Word \div 2))..(Word \div 2 - 1)]
        \cup [ch : {"u", "x", "X"}, w : 0..9, lz : {0, 1}, arg : Int]
        \cup [ch : {"c"}, w : 0..9, lz : {0, 1}, arg : STRING \ {NUL}]
        \cup [ch : {"s"}, w : 0..9, lz : {0, 1}, arg : Seq(STRING \ {NUL})]
        \cup [ch : STRING \ (digit \cup {"d", "u", "x", "X", "c", "s"}), w : 0..9, lz : {0, 1}]

ASSUME CallsAssumption ==
    \A fields \in Calls :
        /\ fields \in Seq(Fields)
        /\ \A i \in 1..(Len(fields) - 1) : "ch" \in DOMAIN fields[i] => fields[i].ch # NUL

Init ==
    /\ \E bits \in Firmware : regs = [r \in Gpio \cup Aux |-> bits]
    /\ Lock!Init
    /\ at = [c \in Cores |-> IF c = Boot THEN "muart_init" ELSE "off"]
    /\ call = [c \in Cores |-> <<>>]
    /\ fmt = [c \in Cores |-> <<>>] /\ va = [c \in Cores |-> <<>>]
    /\ bf = [c \in Cores |-> <<>>] /\ out = [c \in Cores |-> <<>>]
    /\ fifo = <<>> /\ line = <<>>
    /\ printed = <<>> /\ calls = 0
-----------------------------------------------------------------------------
(* muart_init *)

(* The masks meant to clear the fields of two pins join two complements,   *)
(* so that they are all ones: the fields are not cleaned, the pulls and    *)
(* the detection of events not turned off, as mini_uart.c:20, 25 and 31    *)
(* say they are.                                                           *)
Masked(sel, field14, field15) == sel \cap (Not(field14) \cup Not(field15))

(* Faulty variant: the function select register is overwritten. *)
SelectAssigned(sel) == Shift({1}, 12) \cup Shift({1}, 15)

(* Faulty variant: the field of pin 15 is looked for outside the register. *)
SelectOutside(sel) == sel \cup Shift({1}, 12) \cup Shift({1}, 31)

(* Pins 14 and 15: alternative function 5, which is 2 *)
Select(sel) ==
    Masked(sel, Shift({0, 1, 2}, 12), Shift({0, 1, 2}, 15)) \cup Shift({1}, 12) \cup Shift({1}, 15)

(* What muart_init leaves in register r, which holds bits. *)
Programmed(r, bits) ==
    CASE r = "func_select" -> Select(bits)
      [] r = "pup_pdwn_cntrl" -> Masked(bits, Shift({0, 1}, 30), Shift({0, 1}, 28))
      [] r \in Detect -> Masked(bits, {14}, {15})
      [] r = "aux_enables" -> {0}
      [] r \in {"ier", "mcr"} -> {}
      [] r = "iir" -> bits \ Shift({0, 1}, 1)
      [] r = "lcr" -> {0, 1}                 \* 8 bit
      [] r = "baud" -> {1, 2, 3, 8}          \* 250000000 / (115200 * 8) - 1
      [] r = "cntl" -> {0, 1}                \* disabled first, enabled last

MuartInit ==
    /\ Goto(Boot, "muart_init", "init_printf")
    /\ regs' = [r \in DOMAIN regs |-> Programmed(r, regs[r])]
    /\ UNCHANGED <<holders, format, uart, printed, calls>>

(* stdout_putf = putc, and the end of the boot of core 0 *)
InitPrintf ==
    /\ at[Boot] = "init_printf"
    /\ at' = [c \in Cores |-> "idle"]
    /\ UNCHANGED <<regs, holders, format, uart, printed, calls>>
-----------------------------------------------------------------------------
(* tfp_printf and tfp_format *)

TfpPrintf(c, fields) ==
    /\ calls < MaxCalls
    /\ Goto(c, "idle", "acquire")
    /\ call' = [call EXCEPT ![c] = fields]
    /\ fmt' = [fmt EXCEPT ![c] = Format(fields)]
    /\ va' = [va EXCEPT ![c] = Arguments(fields)]
    /\ calls' = calls + 1
    /\ UNCHANGED <<regs, holders, bf, out, uart, printed>>

(* Faulty variant: tfp_printf without the lock. *)
AcquireNothing(c) ==
    /\ Goto(c, "acquire", "tfp_format")
    /\ UNCHANGED <<regs, holders, format, uart, printed, calls>>

Acquire(c) ==
    /\ Goto(c, "acquire", "tfp_format")
    /\ Lock!Take(c, printflock)
    /\ UNCHANGED <<regs, format, uart, printed, calls>>

(* One turn of the loop of tfp_format: text goes to putf, and rest and     *)
(* args are what is left.                                                  *)
Put(c, text, rest, args) ==
    /\ Goto(c, "tfp_format", IF text = <<>> THEN "tfp_format" ELSE "muart_send")
    /\ out' = [out EXCEPT ![c] = text]
    /\ fmt' = [fmt EXCEPT ![c] = rest]
    /\ va' = [va EXCEPT ![c] = args]
    /\ UNCHANGED <<regs, holders, call, uart, printed, calls>>

Literal(c) ==
    /\ fmt[c] # <<>> /\ Head(fmt[c]) \notin {NUL, "%"}
    /\ Put(c, <<Head(fmt[c])>>, Tail(fmt[c]), va[c])
    /\ UNCHANGED bf

(* 'u', 'd', 'x', 'X' *)
Number(c) ==
    /\ fmt[c] # <<>> /\ Head(fmt[c]) = "%"
    /\ \E dir \in {Directive(Tail(fmt[c]))} :
           /\ dir.ch \in {"u", "d", "x", "X"}
           /\ bf' = [bf EXCEPT ![c] = Convert(dir.ch, Head(va[c]))]
           /\ Put(c, putchw(dir.w, dir.lz, bf'[c]), dir.rest, Tail(va[c]))

(* 'c', 's', '%', and what is not a conversion, which is dropped *)
Text(c) ==
    /\ fmt[c] # <<>> /\ Head(fmt[c]) = "%"
    /\ \E dir \in {Directive(Tail(fmt[c]))} :
           \/ dir.ch = "c" /\ Put(c, <<Head(va[c])>>, dir.rest, Tail(va[c]))
           \/ dir.ch = "s" /\ Put(c, putchw(dir.w, 0, Head(va[c])), dir.rest, Tail(va[c]))
           \/ dir.ch = "%" /\ Put(c, <<"%">>, dir.rest, va[c])
           \/ /\ dir.ch \notin {"u", "d", "x", "X", "c", "s", "%", NUL}
              /\ Put(c, <<>>, dir.rest, va[c])
    /\ UNCHANGED bf

(* The end of the format, also in the middle of a conversion (abort) *)
Release(c) ==
    /\ Goto(c, "tfp_format", "idle")
    /\ \/ Head(fmt[c]) = NUL
       \/ Head(fmt[c]) = "%" /\ Directive(Tail(fmt[c])).ch = NUL
    /\ Lock!Give(c, printflock)
    /\ printed' = Append(printed, call[c])
    /\ call' = [call EXCEPT ![c] = <<>>] /\ bf' = [bf EXCEPT ![c] = <<>>]
    /\ fmt' = [fmt EXCEPT ![c] = <<>>] /\ va' = [va EXCEPT ![c] = <<>>]
    /\ UNCHANGED <<regs, out, uart, calls>>
-----------------------------------------------------------------------------
(* muart_send, and the UART *)

(* Faulty variant: the loop waits for the FIFO to be full. *)
PollWrong(c) ==
    /\ Goto(c, "muart_send", "io_reg")
    /\ Len(fifo) = Depth
    /\ UNCHANGED <<regs, holders, format, uart, printed, calls>>

(* Bit 5 of aux_mu_lsr_reg: there is room for a character. *)
Poll(c) ==
    /\ Goto(c, "muart_send", "io_reg")
    /\ Len(fifo) < Depth
    /\ UNCHANGED <<regs, holders, format, uart, printed, calls>>

IoReg(c) ==
    /\ Goto(c, "io_reg", IF Len(out[c]) = 1 THEN "tfp_format" ELSE "muart_send")
    /\ fifo' = IF Len(fifo) < Depth THEN Append(fifo, Head(out[c])) ELSE fifo
    /\ out' = [out EXCEPT ![c] = Tail(@)]
    /\ UNCHANGED <<regs, holders, call, fmt, va, bf, line, printed, calls>>

Transmit ==
    /\ regs["cntl"] = {0, 1}
    /\ fifo # <<>>
    /\ fifo' = Tail(fifo)
    /\ line' = Append(line, Head(fifo))
    /\ UNCHANGED <<regs, holders, at, format, printed, calls>>
-----------------------------------------------------------------------------
Inside(c) ==
    \/ Acquire(c)
    \/ Literal(c)
    \/ Number(c)
    \/ Text(c)
    \/ Release(c)
    \/ Poll(c)
    \/ IoReg(c)

Next ==
    \/ MuartInit
    \/ InitPrintf
    \/ \E c \in Cores, fields \in Calls : TfpPrintf(c, fields)
    \/ \E c \in Cores : Inside(c)
    \/ Transmit

Spec == Init /\ [][Next]_vars

(* A core inside printf goes on, and the UART sends.  The lock cannot be   *)
(* denied to a core for ever because the calls are bounded.                *)
FairSpec ==
    /\ Spec
    /\ WF_vars(Transmit)
    /\ \A c \in Cores : WF_vars(Inside(c))
-----------------------------------------------------------------------------
(* Properties *)

TypeOK ==
    /\ regs \in [Gpio \cup Aux -> SUBSET Bits]
    /\ \A c \in Cores : at[c] \in {"off", "muart_init", "init_printf", "idle", "acquire",
                                   "tfp_format", "muart_send", "io_reg"}
    /\ \A c \in Cores : call[c] \in Calls \cup {<<>>}
    /\ Len(fifo) <= Depth
    /\ calls \in 0..MaxCalls

(* Reference: the digits of n, from the last to the first. *)
Digits(n, base, chars) ==
    LET text[m \in 0..(Word - 1)] ==
            IF m < base THEN <<chars[m + 1]>>
            ELSE Append(text[m \div base], chars[(m % base) + 1])
    IN  text[n]

(* bf has room for the digits of the largest unsigned int, a sign and NUL. *)
ASSUME BfAssumption == BfSize \in Nat /\ Len(Digits(Word - 1, 10, Lower)) + 2 <= BfSize

(* Reference: what a field is to look like. *)
Rendered(f) ==
    IF "lit" \in DOMAIN f THEN <<f.lit>>
    ELSE LET abs == IF f.arg < 0 THEN -f.arg ELSE f.arg
             pattern == f.arg % Word
             text == CASE f.ch = "d" -> (IF f.arg < 0 THEN <<"-">> ELSE <<>>) \o Digits(abs, 10, Lower)
                       [] f.ch = "u" -> Digits(pattern, 10, Lower)
                       [] f.ch = "x" -> Digits(pattern, 16, Lower)
                       [] f.ch = "X" -> Digits(pattern, 16, Upper)
                       [] f.ch = "c" -> <<f.arg>>
                       [] f.ch = "s" -> f.arg
                       [] f.ch = "%" -> <<"%">>
                       [] OTHER -> <<>>
             fill == IF f.lz = 1 /\ f.ch # "s" THEN "0" ELSE " "
             width == IF f.ch \in {"u", "d", "x", "X", "s"} THEN f.w ELSE 0
         IN  [i \in 1..(width - Len(text)) |-> fill] \o text

Expected(fields) == FlattenSeq([i \in DOMAIN fields |-> Rendered(fields[i])])

(* Every message comes out whole, with the right digits and padding, not   *)
(* mixed with the message of another core and with no character lost in a  *)
(* full FIFO: at any time the output is that of the calls that returned,   *)
(* followed by the beginning of the one that holds the lock.               *)
OutputWhole ==
    LET before == FlattenSeq([i \in DOMAIN printed |-> Expected(printed[i])])
        inside == {c \in Cores : at[c] \in {"tfp_format", "muart_send", "io_reg"}}
    IN  \/ line \o fifo = before
        \/ \E c \in inside : IsPrefix(line \o fifo, before \o Expected(call[c]))
                             /\ IsPrefix(before, line \o fifo)

(* No conversion, the smallest int included, overruns the array bf. *)
BufferFits == \A c \in Cores : Len(bf[c]) + 1 <= BfSize

PinField == [r \in Gpio |-> CASE r = "func_select" -> 12..17
                              [] r = "pup_pdwn_cntrl" -> 28..31
                              [] r \in Detect -> {14, 15}]

(* muart_init rewrites registers that other pins share: it leaves the      *)
(* function, pull and event detection of every pin but 14 and 15 alone.    *)
(* What it does to 14 and 15 is not what its comments say: see Masked.     *)
OtherPins == [][\A r \in Gpio : regs'[r] \ PinField[r] = regs[r] \ PinField[r]]_regs

(* Every printf returns, and what it wrote is sent. *)
PrintfReturns == \A c \in Cores : at[c] = "acquire" ~> at[c] = "idle" /\ fifo = <<>>
=============================================================================
