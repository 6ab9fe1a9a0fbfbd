------------------------------- MODULE Printf -------------------------------
(***************************************************************************)
(* The conversions of src/printf.c (compiled without PRINTF_LONG_SUPPORT). *)
(* A text is a sequence of characters.  A format ends with NUL, and a      *)
(* result is the content of a buffer without its NUL.                      *)
(***************************************************************************)
EXTENDS Integers, Sequences

CONSTANT Word   \* values of an unsigned int (2^32)

ASSUME WordAssumption == Word \in Nat \ {0} /\ Word % 2 = 0

NUL == "NUL"
Decimal == <<"0", "1", "2", "3", "4", "5", "6", "7", "8", "9">>
Lower == Decimal \o <<"a", "b", "c", "d", "e", "f">>
Upper == Decimal \o <<"A", "B", "C", "D", "E", "F">>

(* while(num/d >= base) d*=base *)
Divisor(num, base) ==
    LET d[k \in 1..Word] == IF num \div k >= base THEN d[k * base] ELSE k
    IN  d[1]

(* Faulty variant: the divisor is one place too large, and leading zeros   *)
(* are written.                                                            *)
ui2aLeading(num, base, chars) ==
    LET digits[m \in 0..(Word - 1), d \in 0..(Word * base)] ==
            IF d = 0 THEN <<>>
            ELSE <<chars[(m \div d) + 1]>> \o digits[m % d, d \div base]
    IN  digits[num, Divisor(num, base) * base]

(* The second loop of ui2a, with its variables: n counts the digits that   *)
(* have been written.                                                      *)
ui2a(num, base, chars) ==
    LET digits[s \in [num : 0..(Word - 1), d : 0..Word, n : Nat]] ==
            IF s.d = 0 THEN <<>>
            ELSE LET dgt == s.num \div s.d
                     next(n) == digits[[num |-> s.num % s.d, d |-> s.d \div base, n |-> n]]
                 IN  IF s.n > 0 \/ dgt > 0 \/ s.d \div base = 0
                     THEN <<chars[dgt + 1]>> \o next(s.n + 1)
                     ELSE next(s.n)
    IN  digits[[num |-> num, d |-> Divisor(num, base), n |-> 0]]

(* num = -num wraps around for the smallest int. *)
i2a(num) ==
    IF num < 0 THEN <<"-">> \o ui2a((-num) % Word, 10, Lower) ELSE ui2a(num, 10, Lower)

a2d(ch) ==
    IF \E i \in DOMAIN Lower : ch \in {Lower[i], Upper[i]}
    THEN (CHOOSE i \in DOMAIN Lower : ch \in {Lower[i], Upper[i]}) - 1
    ELSE -1

(* A number at the start of src: the number, and the character behind it   *)
(* with what follows.  A digit that equals the base is taken as well.      *)
a2i(src, base) ==
    LET digit(i) == a2d(src[i]) \in 0..base
        end == CHOOSE i \in DOMAIN src : ~digit(i) /\ \A j \in 1..(i - 1) : digit(j)
        num[i \in 1..end] == IF i = 1 THEN 0 ELSE num[i - 1] * base + a2d(src[i - 1])
    IN  [num |-> num[end], rest |-> SubSeq(src, end, Len(src))]

(* The text bf in a field of n characters *)
putchw(n, z, bf) == [i \in 1..(n - Len(bf)) |-> IF z = 1 THEN "0" ELSE " "] \o bf

(* What tfp_format reads behind a '%': zero padding, width, and the        *)
(* conversion with what follows it.                                        *)
Directive(fmt) ==
    LET lz == IF Head(fmt) = "0" THEN 1 ELSE 0
        src == IF lz = 1 THEN Tail(fmt) ELSE fmt
        w == IF \E i \in DOMAIN Decimal : Head(src) = Decimal[i] THEN a2i(src, 10)
             ELSE [num |-> 0, rest |-> src]
    IN  [lz |-> lz, w |-> w.num, ch |-> Head(w.rest), rest |-> Tail(w.rest)]

(* The text of an integer *)
Convert(ch, num) ==
    CASE ch = "u" -> ui2a(num % Word, 10, Lower)
      [] ch = "d" -> i2a(num)
      [] ch = "x" -> ui2a(num % Word, 16, Lower)
      [] ch = "X" -> ui2a(num % Word, 16, Upper)
=============================================================================
