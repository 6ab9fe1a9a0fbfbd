--------------------------- MODULE ConsoleProofs ---------------------------
(***************************************************************************)
(* Proofs about Console for every number of cores, every set of calls and  *)
(* every depth of the FIFO. The first parts are about the conversions of   *)
(* Printf alone: ui2a writes the digits of its argument and they fit into  *)
(* the buffer of tfp_format; tfp_format reads each conversion as it was    *)
(* written in the format. Then come two invariants of the console, of the  *)
(* lock and of the messages, and what follows from them.                   *)
(***************************************************************************)
EXTENDS Console, SequenceTheorems, WellFoundedInduction, TLAPS

-----------------------------------------------------------------------------
(* Induction over sets of numbers *)

(* Every set of numbers that is not empty has a least member. *)
LEMMA LeastNat ==
    ASSUME NEW T \in SUBSET Nat, T # {}
    PROVE  \E x \in T : \A y \in T : x <= y
  <1>1. PICK x \in T : \A y \in T : ~(<<y, x>> \in OpToRel(<, Nat))
    BY NatLessThanWellFounded, WFMin
  <1>2. \A y, z \in Nat : <<y, z>> \in OpToRel(<, Nat) <=> y < z
    BY DEF OpToRel
  <1>3. \A y \in T : ~(y < x)
    BY <1>1, <1>2
  <1> QED
    BY <1>3

(* Course-of-values induction, with the statement as a set of numbers. *)
LEMMA Strong ==
    ASSUME NEW T, \A n \in Nat : (\A m \in Nat : m < n => m \in T) => n \in T
    PROVE  \A n \in Nat : n \in T
  <1> SUFFICES ASSUME {n \in Nat : n \notin T} # {} PROVE FALSE
    OBVIOUS
  <1>1. PICK x \in {n \in Nat : n \notin T} : \A y \in {n \in Nat : n \notin T} : x <= y
    BY LeastNat
  <1>2. \A m \in Nat : m < x => m \in T
    BY <1>1
  <1> QED
    BY <1>1, <1>2
-----------------------------------------------------------------------------
(* Division *)

(* The bases tfp_format passes to ui2a. *)
Bases == {10, 16}

(* What C's / and % give for numbers that are not negative. *)
LEMMA Quotient ==
    ASSUME NEW m \in Nat, NEW q \in Nat, q > 0
    PROVE  /\ m \div q \in Nat /\ m % q \in Nat
           /\ m = q * (m \div q) + (m % q) /\ m % q < q
  <1>1. m = (m \div q) * q + (m % q) /\ m % q \in 0..(q - 1) /\ m \div q \in Nat
    OBVIOUS
  <1>2. (m \div q) * q = q * (m \div q)
    BY <1>1
  <1>3. m = q * (m \div q) + (m % q)
    BY <1>1, <1>2, Zenon
  <1>4. m % q \in Nat /\ m % q < q
    BY <1>1
  <1> QED
    BY <1>1, <1>3, <1>4

(* No other quotient and remainder add up to m. *)
LEMMA QuotientUnique ==
    ASSUME NEW m \in Nat, NEW q \in Nat, NEW c \in Nat, NEW u \in Nat, u < q, m = q * c + u
    PROVE  m \div q = c /\ m % q = u
  OBVIOUS

(* Dividing by the base, and then by q *)
LEMMA Nested ==
    ASSUME NEW b \in Bases, NEW m \in Nat, NEW q \in Nat, q > 0
    PROVE  /\ m \div (b * q) = (m \div b) \div q
           /\ (m % (b * q)) \div b = (m \div b) % q
           /\ (m % (b * q)) % b = m % b
  <1> DEFINE n == m \div b  u == m % b  c == n \div q  v == n % q
  <1>1. b \in Nat /\ b > 0 /\ b * q \in Nat
    BY DEF Bases
  <1>2. n \in Nat /\ u \in Nat /\ m = b * n + u /\ u < b
    BY <1>1, Quotient
  <1>3. c \in Nat /\ v \in Nat /\ n = q * c + v /\ v < q
    BY <1>2, Quotient
  <1> HIDE DEF n, u, c, v
  <1>4. b * v + u \in Nat /\ b * v + u < b * q
    <2>1. CASE b = 10
      BY <1>2, <1>3, <2>1
    <2>2. CASE b = 16
      BY <1>2, <1>3, <2>2
    <2> QED
      BY <2>1, <2>2 DEF Bases
  <1>5. m = (b * q) * c + (b * v + u)
    <2>1. CASE b = 10
      BY <1>2, <1>3, <2>1
    <2>2. CASE b = 16
      BY <1>2, <1>3, <2>2
    <2> QED
      BY <2>1, <2>2 DEF Bases
  <1>6. m \div (b * q) = c /\ m % (b * q) = b * v + u
    <2>1. PICK p \in Nat : p = b * q
      BY <1>1
    <2>2. PICK w \in Nat : w = b * v + u
      BY <1>4
    <2>3. w < p /\ m = p * c + w
      BY <1>4, <1>5, <2>1, <2>2
    <2>4. m \div p = c /\ m % p = w
      BY <1>3, <2>3, QuotientUnique
    <2> QED
      BY <2>1, <2>2, <2>4
  <1>7. (b * v + u) \div b = v /\ (b * v + u) % b = u
    BY <1>1, <1>2, <1>3, <1>4, QuotientUnique
  <1> QED
    BY <1>6, <1>7 DEF n, u, c, v

(* Dividing by the base leaves a smaller number, and a digit. *)
LEMMA Smaller ==
    ASSUME NEW b \in Bases, NEW m \in Nat
    PROVE  /\ m \div b \in Nat /\ m % b \in 0..(b - 1)
           /\ m >= b => m \div b < m /\ m \div b >= 1
           /\ m > 0 => m \div b < m
  <1>1. CASE b = 10
    BY <1>1
  <1>2. CASE b = 16
    BY <1>2
  <1> QED
    BY <1>1, <1>2 DEF Bases
-----------------------------------------------------------------------------
(* The first loop of ui2a *)

(* d gives what the first loop of ui2a ends with, started with each k. *)
IsDivisor(d, num, b, from) ==
    d = [k \in from..Word |-> IF num \div k >= b THEN d[k * b] ELSE k]

(* While the first loop of ui2a goes on, d * base does not overflow. *)
LEMMA Multiple ==
    ASSUME NEW b \in Bases, NEW num \in 0..(Word - 1), NEW k \in Nat, k > 0, num \div k >= b
    PROVE  k * b \in Nat /\ k * b > k /\ k * b <= num /\ k * b < Word
  <1>1. num \in Nat /\ num < Word /\ Word \in Nat
    BY WordAssumption
  <1>2. CASE b = 10
    BY <1>1, <1>2
  <1>3. CASE b = 16
    BY <1>1, <1>3
  <1> QED
    BY <1>2, <1>3 DEF Bases

(* The first loop of ui2a ends: its recursive equation has a solution. *)
LEMMA DivisorExists ==
    ASSUME NEW b \in Bases, NEW num \in 0..(Word - 1)
    PROVE  \E d : IsDivisor(d, num, b, 1)
  <1> DEFINE T == {n \in Nat : n < Word => \E d : IsDivisor(d, num, b, Word - n)}
  <1>0. Word \in Nat /\ Word > 0
    BY WordAssumption
  <1>1. ASSUME NEW n \in Nat, \A m \in Nat : m < n => m \in T, n < Word
        PROVE  \E d : IsDivisor(d, num, b, Word - n)
    <2> DEFINE j == Word - n
    <2>1. j \in Nat /\ j > 0 /\ j <= Word
      BY <1>0, <1>1
    <2>2. PICK e : n > 0 => IsDivisor(e, num, b, j + 1)
      <3>1. CASE n > 0
        <4>1. n - 1 \in Nat /\ n - 1 < n /\ n - 1 < Word /\ Word - (n - 1) = j + 1
          BY <1>0, <1>1, <3>1
        <4>2. n - 1 \in T
          BY <1>1, <4>1
        <4> QED
          BY <4>1, <4>2
      <3> QED
        BY <3>1
    <2> DEFINE d == [k \in j..Word |->
                        IF k = j THEN IF num \div k >= b THEN e[k * b] ELSE k ELSE e[k]]
    <2>3. ASSUME NEW k \in j..Word
          PROVE  d[k] = IF num \div k >= b THEN d[k * b] ELSE k
      <3>1. k \in Nat /\ k > 0
        BY <2>1
      <3>2. num \div k >= b => k * b \in (j + 1)..Word /\ k * b # j
        <4>1. num \div k >= b => k * b \in Nat /\ k * b > k /\ k * b < Word
          BY <3>1, Multiple
        <4> QED
          BY <1>0, <2>1, <3>1, <4>1
      <3>3. CASE k = j
        BY <2>1, <3>2, <3>3
      <3>4. CASE k # j
        <4>1. n > 0 /\ k \in (j + 1)..Word
          BY <1>0, <1>1, <2>1, <3>4
        <4>2. e[k] = IF num \div k >= b THEN e[k * b] ELSE k
          BY <2>2, <4>1 DEF IsDivisor
        <4> QED
          BY <2>1, <3>2, <3>4, <4>2
      <3> QED
        BY <3>3, <3>4
    <2>4. d = [k \in j..Word |-> d[k]]
      OBVIOUS
    <2> HIDE DEF d
    <2>5. IsDivisor(d, num, b, j)
      BY <2>3, <2>4 DEF IsDivisor
    <2> QED
      BY <2>5
  <1>2. \A n \in Nat : n \in T
    <2> HIDE DEF T
    <2>1. \A n \in Nat : (\A m \in Nat : m < n => m \in T) => n \in T
      BY <1>1 DEF T
    <2> QED
      BY <2>1, Strong
  <1>3. Word - 1 \in Nat /\ Word - 1 < Word /\ Word - (Word - 1) = 1
    BY <1>0
  <1> QED
    BY <1>2, <1>3

(* Divisor is that solution. *)
LEMMA DivisorLoop ==
    ASSUME NEW b \in Bases, NEW num \in 0..(Word - 1)
    PROVE  \E d : IsDivisor(d, num, b, 1) /\ Divisor(num, b) = d[1]
  BY DivisorExists DEF Divisor, IsDivisor

(* For a number of one digit the loop leaves d at 1. *)
LEMMA DivisorSmall ==
    ASSUME NEW b \in Bases, NEW num \in 0..(Word - 1), num < b
    PROVE  Divisor(num, b) = 1
  <1>1. PICK d : IsDivisor(d, num, b, 1) /\ Divisor(num, b) = d[1]
    BY DivisorLoop
  <1>2. 1 \in 1..Word /\ num \div 1 = num
    BY WordAssumption
  <1> QED
    BY <1>1, <1>2 DEF IsDivisor, Bases

(* One more digit is one more turn of the loop. *)
LEMMA DivisorNext ==
    ASSUME NEW b \in Bases, NEW num \in 0..(Word - 1), num >= b
    PROVE  Divisor(num, b) = b * Divisor(num \div b, b)
  <1> DEFINE half == num \div b
  <1>0. Word \in Nat /\ Word > 0 /\ num \in Nat /\ b \in Nat /\ b > 1 /\ half \in 0..(Word - 1)
    BY WordAssumption, Smaller DEF Bases
  <1>1. PICK d : IsDivisor(d, num, b, 1) /\ Divisor(num, b) = d[1]
    BY DivisorLoop
  <1>2. PICK e : IsDivisor(e, half, b, 1) /\ Divisor(half, b) = e[1]
    BY <1>0, DivisorLoop
  <1> DEFINE T == {n \in Nat : \A k \in 1..Word :
                      k + n = Word /\ k * b <= Word => d[k * b] = b * e[k]}
  <1>3. ASSUME NEW n \in Nat, \A m \in Nat : m < n => m \in T
        PROVE  n \in T
    <2> SUFFICES ASSUME NEW k \in 1..Word, k + n = Word, k * b <= Word
                 PROVE  d[k * b] = b * e[k]
      OBVIOUS
    <2>1. k \in Nat /\ k > 0 /\ k * b \in 1..Word
      BY <1>0 DEF Bases
    <2>2. num \div (k * b) = half \div k
      <3>1. k * b = b * k
        BY <1>0, <2>1
      <3>2. num \div (b * k) = (num \div b) \div k
        BY <1>0, <2>1, Nested, ZenonT(40)
      <3> QED
        BY <3>1, <3>2
    <2>3. CASE half \div k >= b
      <3>1. k * b \in Nat /\ k * b > k /\ k * b <= half
        BY <1>0, <2>1, <2>3, Multiple
      <3>2. (k * b) * b \in Nat /\ (k * b) * b < Word
        BY <1>0, <2>1, <2>2, <2>3, Multiple
      <3>3. d[k * b] = d[(k * b) * b] /\ e[k] = e[k * b]
        BY <1>1, <1>2, <2>1, <2>2, <2>3 DEF IsDivisor
      <3>4. Word - k * b \in Nat /\ Word - k * b < n /\ k * b + (Word - k * b) = Word
        BY <1>0, <2>1, <3>1
      <3>5. d[(k * b) * b] = b * e[k * b]
        BY <1>3, <2>1, <3>2, <3>4
      <3> QED
        BY <3>3, <3>5
    <2>4. CASE ~(half \div k >= b)
      <3>1. d[k * b] = k * b /\ e[k] = k
        BY <1>1, <1>2, <2>1, <2>2, <2>4 DEF IsDivisor
      <3> QED
        BY <1>0, <2>1, <3>1
    <2> QED
      BY <2>3, <2>4
  <1>4. Word - 1 \in T
    <2> HIDE DEF T
    <2>1. \A n \in Nat : n \in T
      BY <1>3, Strong
    <2> QED
      BY <1>0, <2>1
  <1>5. d[1 * b] = b * e[1]
    BY <1>0, <1>4
  <1>6. d[1] = d[1 * b]
    BY <1>0, <1>1 DEF IsDivisor
  <1> QED
    BY <1>1, <1>2, <1>5, <1>6
-----------------------------------------------------------------------------
(* Powers of the base *)

(* p lists the powers of b up to q. *)
PowersTo(p, b, q) ==
    /\ p \in Seq(Nat) /\ Len(p) > 0 /\ p[1] = 1 /\ p[Len(p)] = q
    /\ \A i \in 1..(Len(p) - 1) : p[i + 1] = b * p[i]

Power(b, q) == \E p : PowersTo(p, b, q)

(* 1 is a power of the base. *)
LEMMA PowerOne == ASSUME NEW b PROVE Power(b, 1)
  <1>1. PowersTo(<<1>>, b, 1)
    BY DEF PowersTo
  <1> QED
    BY <1>1 DEF Power

(* The next power. *)
LEMMA PowerNext ==
    ASSUME NEW b \in Bases, NEW q \in Nat, Power(b, q)
    PROVE  Power(b, b * q)
  <1>1. PICK p : PowersTo(p, b, q)
    BY DEF Power
  <1>2. b * q \in Nat
    BY DEF Bases
  <1> DEFINE r == Append(p, b * q)
  <1>3. r \in Seq(Nat) /\ Len(r) = Len(p) + 1 /\ Len(p) \in Nat /\ Len(p) > 0
    BY <1>1, <1>2 DEF PowersTo
  <1>4. r[Len(p) + 1] = b * q /\ \A i \in 1..Len(p) : r[i] = p[i]
    BY <1>1, <1>2 DEF PowersTo
  <1> HIDE DEF r
  <1>5. \A i \in 1..(Len(r) - 1) : r[i + 1] = b * r[i]
    <2> SUFFICES ASSUME NEW i \in 1..Len(p) PROVE r[i + 1] = b * r[i]
      BY <1>3
    <2>1. CASE i = Len(p)
      BY <1>1, <1>3, <1>4, <2>1 DEF PowersTo
    <2>2. CASE i # Len(p)
      <3>1. i \in 1..(Len(p) - 1) /\ i + 1 \in 1..Len(p)
        BY <1>3, <2>2
      <3> QED
        BY <1>1, <1>4, <3>1 DEF PowersTo
    <2> QED
      BY <2>1, <2>2
  <1>6. PowersTo(r, b, b * q)
    BY <1>1, <1>3, <1>4, <1>5, SMTT(30) DEF PowersTo
  <1> QED
    BY <1>6 DEF Power

(* A power of the base is 1 or the base times a smaller power. *)
LEMMA PowerCases ==
    ASSUME NEW b \in Bases, NEW q, Power(b, q)
    PROVE  /\ q \in Nat /\ q >= 1
           /\ q = 1 \/ \E r \in Nat : Power(b, r) /\ r >= 1 /\ r < q /\ q = b * r
  <1>1. PICK p : PowersTo(p, b, q)
    BY DEF Power
  <1>2. p \in Seq(Nat) /\ Len(p) \in Nat /\ Len(p) > 0
    BY <1>1 DEF PowersTo
  <1>3. \A i \in Nat : i \in {n \in Nat : n \in 1..Len(p) => p[n] >= 1}
    <2> DEFINE T == {n \in Nat : n \in 1..Len(p) => p[n] >= 1}
    <2>1. ASSUME NEW n \in Nat, \A m \in Nat : m < n => m \in T, n \in 1..Len(p)
          PROVE  p[n] >= 1
      <3>1. CASE n = 1
        BY <1>1, <3>1 DEF PowersTo
      <3>2. CASE n # 1
        <4>1. /\ n - 1 \in Nat /\ n - 1 \in 1..(Len(p) - 1) /\ n - 1 \in 1..Len(p)
              /\ (n - 1) + 1 = n /\ n - 1 < n
          BY <1>2, <2>1, <3>2
        <4>2. p[n - 1] >= 1 /\ p[n] = b * p[n - 1] /\ p[n - 1] \in Nat
          BY <1>1, <1>2, <2>1, <4>1 DEF PowersTo
        <4> QED
          BY <4>2 DEF Bases
      <3> QED
        BY <3>1, <3>2
    <2> HIDE DEF T
    <2>2. \A n \in Nat : (\A m \in Nat : m < n => m \in T) => n \in T
      BY <2>1 DEF T
    <2> QED
      BY <2>2, Strong DEF T
  <1>4. \A i \in 1..Len(p) : p[i] \in Nat /\ p[i] >= 1
    BY <1>2, <1>3
  <1>5. q \in Nat /\ q >= 1
    BY <1>1, <1>2, <1>4 DEF PowersTo
  <1>6. CASE Len(p) = 1
    BY <1>1, <1>5, <1>6 DEF PowersTo
  <1>7. CASE Len(p) # 1
    <2>0. PICK n \in Nat : n >= 1 /\ Len(p) = n + 1
      <3>1. PICK k \in Nat : k = Len(p) /\ k > 0 /\ k # 1
        BY <1>2, <1>7
      <3>2. k - 1 \in Nat /\ k - 1 >= 1 /\ k = (k - 1) + 1
        BY <3>1
      <3> QED
        BY <3>1, <3>2
    <2> DEFINE s == SubSeq(p, 1, n)
    <2>1. n < Len(p) /\ n \in 1..Len(p) /\ n \in 1..(Len(p) - 1)
      BY <2>0
    <2>2. s \in Seq(Nat) /\ Len(s) = n /\ \A i \in 1..n : s[i] = p[i]
      BY <1>2, <2>0, <2>1
    <2> HIDE DEF s
    <2>3. \A i \in 1..(Len(s) - 1) : s[i + 1] = b * s[i]
      <3> SUFFICES ASSUME NEW i \in 1..(n - 1) PROVE s[i + 1] = b * s[i]
        BY <2>2
      <3>1. i \in 1..n /\ i + 1 \in 1..n /\ i \in 1..(Len(p) - 1)
        BY <2>0
      <3> QED
        BY <1>1, <2>2, <3>1 DEF PowersTo
    <2>4. PowersTo(s, b, p[n])
      BY <1>1, <2>0, <2>1, <2>2, <2>3 DEF PowersTo
    <2>5. q = b * p[n] /\ p[n] \in Nat /\ p[n] >= 1
      BY <1>1, <1>4, <2>0, <2>1 DEF PowersTo
    <2>6. p[n] < q
      BY <2>5 DEF Bases
    <2> QED
      BY <1>5, <2>4, <2>5, <2>6 DEF Power
  <1> QED
    BY <1>6, <1>7

(* What the first loop of ui2a leaves in d: the power of the base with     *)
(* which the first digit of num is found.                                  *)
LEMMA DivisorIsPower ==
    ASSUME NEW b \in Bases, NEW num \in 0..(Word - 1)
    PROVE  /\ Power(b, Divisor(num, b)) /\ Divisor(num, b) \in 1..Word
           /\ Divisor(num, b) = 1 \/ Divisor(num, b) <= num
           /\ num < b * Divisor(num, b)
  <1> DEFINE Fits(n, D) == Power(b, D) /\ D \in Nat /\ D >= 1 /\ (D = 1 \/ D <= n) /\ n < b * D
             T == {n \in Nat : n \in 0..(Word - 1) => Fits(n, Divisor(n, b))}
  <1>0. Word \in Nat /\ Word > 0
    BY WordAssumption
  <1>1. ASSUME NEW n \in Nat, \A m \in Nat : m < n => m \in T, n \in 0..(Word - 1)
        PROVE  Fits(n, Divisor(n, b))
    <2>1. CASE n < b
      <3>1. Fits(n, 1)
        BY <2>1, PowerOne DEF Bases
      <3> QED
        BY <1>1, <2>1, <3>1, DivisorSmall
    <2>2. CASE n >= b
      <3>1. n \div b \in Nat /\ n \div b < n /\ n \div b >= 1 /\ n \div b \in 0..(Word - 1)
        BY <1>0, <1>1, <2>2, Smaller
      <3>2. PICK D : D = Divisor(n \div b, b) /\ Fits(n \div b, D)
        BY <1>1, <3>1
      <3>3. Divisor(n, b) = b * D
        BY <1>1, <2>2, <3>2, DivisorNext
      <3>4. D \in Nat /\ D >= 1 /\ D <= n \div b /\ n \div b < b * D
        BY <3>1, <3>2
      <3>5. Power(b, b * D)
        BY <3>2, <3>4, PowerNext
      <3>6. b * D \in Nat /\ b * D >= 1 /\ b * D <= n /\ n < b * (b * D)
        <4>1. CASE b = 10
          BY <3>4, <4>1
        <4>2. CASE b = 16
          BY <3>4, <4>2
        <4> QED
          BY <4>1, <4>2 DEF Bases
      <3> QED
        BY <3>3, <3>5, <3>6
    <2> QED
      BY <2>1, <2>2 DEF Bases
  <1>2. num \in T
    <2> HIDE DEF T
    <2>1. \A n \in Nat : (\A m \in Nat : m < n => m \in T) => n \in T
      BY <1>1 DEF T
    <2> QED
      BY <1>0, <2>1, Strong
  <1> QED
    BY <1>0, <1>2
-----------------------------------------------------------------------------
(* The reference: digits from the last to the first *)

(* t gives the digits of every number up to top. *)
IsText(t, b, chars, top) ==
    t = [m \in 0..top |-> IF m < b THEN <<chars[m + 1]>>
                          ELSE Append(t[m \div b], chars[(m % b) + 1])]

(* The recursive equation of the reference has a solution. *)
LEMMA TextExists ==
    ASSUME NEW b \in Bases, NEW chars, NEW top \in Nat
    PROVE  \E t : IsText(t, b, chars, top)
  <1> DEFINE T == {n \in Nat : \E t : IsText(t, b, chars, n)}
  <1>1. ASSUME NEW n \in Nat, \A m \in Nat : m < n => m \in T
        PROVE  \E t : IsText(t, b, chars, n)
    <2>1. PICK e : n > 0 => IsText(e, b, chars, n - 1)
      <3>1. CASE n > 0
        <4>1. n - 1 \in Nat /\ n - 1 < n
          BY <3>1
        <4>2. n - 1 \in T
          BY <1>1, <4>1
        <4> QED
          BY <4>2
      <3> QED
        BY <3>1
    <2> DEFINE t == [m \in 0..n |-> IF m < n THEN e[m]
                                    ELSE IF m < b THEN <<chars[m + 1]>>
                                    ELSE Append(e[m \div b], chars[(m % b) + 1])]
    <2>2. ASSUME NEW m \in 0..n
          PROVE  t[m] = IF m < b THEN <<chars[m + 1]>> ELSE Append(t[m \div b], chars[(m % b) + 1])
      <3>1. m \in Nat /\ (m >= b => m \div b \in 0..n /\ m \div b < n)
        BY Smaller
      <3>2. m >= b => t[m \div b] = e[m \div b]
        BY <3>1
      <3>3. CASE m < n
        <4>1. n > 0 /\ m \in 0..(n - 1)
          BY <3>3
        <4>2. e[m] = IF m < b THEN <<chars[m + 1]>> ELSE Append(e[m \div b], chars[(m % b) + 1])
          BY <2>1, <4>1 DEF IsText
        <4>3. t[m] = e[m] /\ (m < b \/ m >= b)
          BY <3>1, <3>3 DEF Bases
        <4> QED
          BY <3>2, <4>2, <4>3
      <3>4. CASE m = n
        <4>1. (m < b \/ m >= b) /\ ~(m < n)
          BY <3>1, <3>4 DEF Bases
        <4>2. t[m] = IF m < b THEN <<chars[m + 1]>> ELSE Append(e[m \div b], chars[(m % b) + 1])
          BY <4>1
        <4> QED
          BY <3>2, <4>1, <4>2
      <3> QED
        BY <3>3, <3>4
    <2>3. t = [m \in 0..n |-> t[m]]
      OBVIOUS
    <2> HIDE DEF t
    <2>4. IsText(t, b, chars, n)
      BY <2>2, <2>3 DEF IsText
    <2> QED
      BY <2>4
  <1>2. top \in T
    <2> HIDE DEF T
    <2>1. \A n \in Nat : (\A m \in Nat : m < n => m \in T) => n \in T
      BY <1>1 DEF T
    <2> QED
      BY <2>1, Strong
  <1> QED
    BY <1>2

(* Digits is that solution. *)
LEMMA DigitsText ==
    ASSUME NEW b \in Bases, NEW chars
    PROVE  \E t : IsText(t, b, chars, Word - 1) /\ \A n : Digits(n, b, chars) = t[n]
  <1>1. Word - 1 \in Nat
    BY WordAssumption
  <1>2. \E t : IsText(t, b, chars, Word - 1)
    BY <1>1, TextExists
  <1> QED
    BY <1>2 DEF Digits, IsText

(* The equation of the reference, for one number. *)
LEMMA DigitsRule ==
    ASSUME NEW b \in Bases, NEW chars, NEW n \in 0..(Word - 1)
    PROVE  /\ n < b => Digits(n, b, chars) = <<chars[n + 1]>>
           /\ n >= b =>
                Digits(n, b, chars) = Append(Digits(n \div b, b, chars), chars[(n % b) + 1])
  <1>1. PICK t : IsText(t, b, chars, Word - 1) /\ \A m : Digits(m, b, chars) = t[m]
    BY DigitsText
  <1>2. t[n] = IF n < b THEN <<chars[n + 1]>> ELSE Append(t[n \div b], chars[(n % b) + 1])
    BY <1>1 DEF IsText
  <1>3. n < b \/ n >= b
    BY DEF Bases
  <1>4. n >= b => ~(n < b)
    BY DEF Bases
  <1> QED
    BY <1>1, <1>2, <1>3, <1>4

(* The two sets of digits of ui2a, and what a character may be. *)
Alphabets == {Lower, Upper}
Char ==
    STRING \cup {Lower[i] : i \in 1..16} \cup {Upper[i] : i \in 1..16}
           \cup {NUL, "-", " ", "0", "%", "d", "u", "x", "X", "c", "s"}

(* Every digit is a character. *)
LEMMA AlphabetChars ==
    ASSUME NEW chars \in Alphabets, NEW i \in 0..15
    PROVE  chars[i + 1] \in Char
  <1>1. i + 1 \in 1..16
    OBVIOUS
  <1> QED
    BY <1>1 DEF Alphabets, Char

(* A number is written with characters. *)
LEMMA DigitsType ==
    ASSUME NEW b \in Bases, NEW chars \in Alphabets, NEW num \in 0..(Word - 1)
    PROVE  Digits(num, b, chars) \in Seq(Char)
  <1> DEFINE T == {n \in Nat : n \in 0..(Word - 1) => Digits(n, b, chars) \in Seq(Char)}
  <1>0. Word \in Nat /\ Word > 0
    BY WordAssumption
  <1>1. ASSUME NEW n \in Nat, \A m \in Nat : m < n => m \in T, n \in 0..(Word - 1)
        PROVE  Digits(n, b, chars) \in Seq(Char)
    <2>1. CASE n < b
      <3>1. n \in 0..15
        BY <2>1 DEF Bases
      <3>2. chars[n + 1] \in Char
        BY <3>1, AlphabetChars
      <3>3. <<chars[n + 1]>> \in Seq(Char)
        BY <3>2
      <3> QED
        BY <1>1, <2>1, <3>3, DigitsRule
    <2>2. CASE n >= b
      <3>1. n \div b \in Nat /\ n \div b < n /\ n \div b \in 0..(Word - 1) /\ n % b \in 0..15
        BY <1>0, <1>1, <2>2, Smaller DEF Bases
      <3>2. chars[(n % b) + 1] \in Char
        BY <3>1, AlphabetChars
      <3>3. Digits(n \div b, b, chars) \in Seq(Char)
        BY <1>1, <3>1
      <3> QED
        BY <1>1, <2>2, <3>2, <3>3, DigitsRule
    <2> QED
      BY <2>1, <2>2 DEF Bases
  <1>2. num \in T
    <2> HIDE DEF T
    <2>1. \A n \in Nat : (\A m \in Nat : m < n => m \in T) => n \in T
      BY <1>1 DEF T
    <2> QED
      BY <1>0, <2>1, Strong
  <1> QED
    BY <1>2

(* No value has more digits than a larger one has in base 10. *)
LEMMA DigitsLength ==
    ASSUME NEW b \in Bases, NEW chars \in Alphabets, NEW num \in 0..(Word - 1)
    PROVE  Len(Digits(num, b, chars)) + 2 <= BfSize
  <1> DEFINE L(n) == Len(Digits(n, 10, Lower))
             T == {n \in Nat : n \in 0..(Word - 1) =>
                                 \A m \in 0..n : Len(Digits(m, b, chars)) <= L(n)}
  <1>0. Word \in Nat /\ Word > 0 /\ 10 \in Bases /\ Lower \in Alphabets
    BY WordAssumption DEF Bases, Alphabets
  <1>a. \A n \in 0..(Word - 1) : /\ Digits(n, 10, Lower) \in Seq(Char)
                                 /\ Digits(n, b, chars) \in Seq(Char)
    BY <1>0, DigitsType
  <1>b. \A n \in 0..(Word - 1) : L(n) \in Nat /\ Len(Digits(n, b, chars)) \in Nat
    BY <1>a
  <1>c. \A n \in 0..(Word - 1) : n >= 10 => L(n) = L(n \div 10) + 1
    <2> TAKE n \in 0..(Word - 1)
    <2> HAVE n >= 10
    <2>1. Digits(n, 10, Lower) = Append(Digits(n \div 10, 10, Lower), Lower[(n % 10) + 1])
      BY <1>0, DigitsRule
    <2>2. n \div 10 \in 0..(Word - 1)
      BY <1>0
    <2> QED
      BY <1>a, <2>1, <2>2
  <1>d. \A n \in 0..(Word - 1) :
          n >= b => Len(Digits(n, b, chars)) = Len(Digits(n \div b, b, chars)) + 1
    <2> TAKE n \in 0..(Word - 1)
    <2> HAVE n >= b
    <2>1. Digits(n, b, chars) = Append(Digits(n \div b, b, chars), chars[(n % b) + 1])
      BY <1>0, DigitsRule
    <2>2. n \div b \in 0..(Word - 1)
      BY <1>0, Smaller
    <2> QED
      BY <1>a, <2>1, <2>2
  <1>e. \A n \in 0..(Word - 1) : L(n) >= 1
    <2> TAKE n \in 0..(Word - 1)
    <2>1. CASE n < 10
      <3>1. Digits(n, 10, Lower) = <<Lower[n + 1]>>
        BY <1>0, <2>1, DigitsRule
      <3> QED
        BY <3>1
    <2>2. CASE n >= 10
      <3>1. n \div 10 \in 0..(Word - 1)
        BY <1>0
      <3> QED
        BY <1>b, <1>c, <2>2, <3>1
    <2> QED
      BY <2>1, <2>2
  <1>f. \A n \in 0..(Word - 1) : n < b => Len(Digits(n, b, chars)) = 1
    BY DigitsRule
  <1> HIDE DEF L
  <1>1. ASSUME NEW n \in Nat, \A m \in Nat : m < n => m \in T, n \in 0..(Word - 1), NEW m \in 0..n
        PROVE  Len(Digits(m, b, chars)) <= L(n)
    <2>0. m \in 0..(Word - 1)
      BY <1>0, <1>1
    <2>1. CASE m < b
      BY <1>b, <1>e, <1>f, <1>1, <2>0, <2>1
    <2>2. CASE m >= b
      <3>1. n >= 10 /\ n \div 10 \in Nat /\ n \div 10 < n /\ n \div 10 \in 0..(Word - 1)
        BY <1>0, <1>1, <2>2 DEF Bases
      <3>2. m \div b \in 0..(n \div 10)
        <4>1. CASE b = 10
          BY <1>1, <4>1
        <4>2. CASE b = 16
          BY <1>1, <4>2
        <4> QED
          BY <4>1, <4>2 DEF Bases
      <3>3. m \div b \in 0..(Word - 1)
        BY <1>0, <3>1, <3>2
      <3>4. Len(Digits(m \div b, b, chars)) <= L(n \div 10)
        BY <1>1, <3>1, <3>2
      <3>5. L(n) = L(n \div 10) + 1 /\ L(n \div 10) \in Nat
        BY <1>b, <1>c, <1>1, <3>1
      <3>6. /\ Len(Digits(m, b, chars)) = Len(Digits(m \div b, b, chars)) + 1
            /\ Len(Digits(m \div b, b, chars)) \in Nat
        BY <1>b, <1>d, <2>0, <2>2, <3>3
      <3> QED
        BY <3>4, <3>5, <3>6
    <2> QED
      BY <2>1, <2>2 DEF Bases
  <1>2. Word - 1 \in T
    <2> HIDE DEF T
    <2>1. \A n \in Nat : (\A m \in Nat : m < n => m \in T) => n \in T
      BY <1>1 DEF T
    <2> QED
      BY <1>0, <2>1, Strong
  <1>3. Len(Digits(num, b, chars)) <= L(Word - 1) /\ L(Word - 1) \in Nat
    BY <1>0, <1>b, <1>2
  <1> QED
    BY <1>b, <1>3, BfAssumption DEF L
-----------------------------------------------------------------------------
(* The second loop of ui2a *)

(* The variables of the second loop of ui2a: num, d and n. *)
State(top) == [num : 0..(Word - 1), d : 0..top, n : Nat]
At(num, d, n) == [num |-> num, d |-> d, n |-> n]

(* What one turn of the loop writes, and all the turns after it. *)
Turn(f, b, chars, s) ==
    IF s.d = 0 THEN <<>>
    ELSE IF s.n > 0 \/ s.num \div s.d > 0 \/ s.d \div b = 0
    THEN <<chars[(s.num \div s.d) + 1]>> \o f[At(s.num % s.d, s.d \div b, s.n + 1)]
    ELSE f[At(s.num % s.d, s.d \div b, s.n)]

(* f gives what the second loop of ui2a writes from each of its states. *)
IsLoop(f, b, chars, top) == f = [s \in State(top) |-> Turn(f, b, chars, s)]

(* A turn goes on with a smaller divisor. *)
LEMMA TurnState ==
    ASSUME NEW b \in Bases, NEW top \in Nat, NEW s \in State(top), s.d # 0
    PROVE  /\ s.d \in Nat /\ s.d \div b \in Nat /\ s.d \div b < s.d
           /\ \A n \in Nat : At(s.num % s.d, s.d \div b, n) \in State(s.d - 1)
           /\ s.n \in Nat /\ s.n + 1 \in Nat
  <1>1. s.num \in 0..(Word - 1) /\ s.d \in 0..top /\ s.n \in Nat
    BY DEF State
  <1>2. s.d \in Nat /\ s.d > 0 /\ s.num \in Nat /\ Word \in Nat /\ s.num < Word
    BY <1>1, WordAssumption
  <1>3. s.d \div b \in Nat /\ s.d \div b < s.d
    BY <1>2, Smaller
  <1>4. s.num % s.d \in Nat /\ s.num % s.d <= s.num
    <2> DEFINE r == s.num % s.d
               q == s.num \div s.d
    <2>1. q \in Nat /\ r \in Nat /\ s.num = s.d * q + r
      BY <1>2, Quotient
    <2> HIDE DEF q, r
    <2>2. s.d * q \in Nat
      BY <1>2, <2>1
    <2>3. r <= s.num
      BY <1>2, <2>1, <2>2
    <2> QED
      BY <2>1, <2>3 DEF r
  <1>5. s.num % s.d \in 0..(Word - 1) /\ s.d \div b \in 0..(s.d - 1)
    BY <1>2, <1>3, <1>4
  <1> QED
    BY <1>1, <1>2, <1>3, <1>5 DEF State, At

(* The second loop of ui2a ends: its recursive equation has a solution. *)
LEMMA LoopExists ==
    ASSUME NEW b \in Bases, NEW chars, NEW top \in Nat
    PROVE  \E f : IsLoop(f, b, chars, top)
  <1> DEFINE T == {k \in Nat : \E f : IsLoop(f, b, chars, k)}
  <1>1. ASSUME NEW k \in Nat, \A m \in Nat : m < k => m \in T
        PROVE  \E f : IsLoop(f, b, chars, k)
    <2>1. PICK e : k > 0 => IsLoop(e, b, chars, k - 1)
      <3>1. CASE k > 0
        <4>1. k - 1 \in Nat /\ k - 1 < k
          BY <3>1
        <4>2. k - 1 \in T
          BY <1>1, <4>1
        <4> QED
          BY <4>2
      <3> QED
        BY <3>1
    <2> DEFINE f == [s \in State(k) |-> Turn(e, b, chars, s)]
    <2>2. ASSUME NEW s \in State(k), s.d < k PROVE f[s] = e[s]
      <3>1. s.d \in Nat /\ k > 0 /\ s.d \in 0..(k - 1)
        BY <2>2 DEF State
      <3>2. s \in State(k - 1)
        BY <2>2, <3>1 DEF State
      <3>3. e[s] = Turn(e, b, chars, s)
        BY <2>1, <3>1, <3>2 DEF IsLoop
      <3> QED
        BY <3>3
    <2>3. ASSUME NEW s \in State(k)
          PROVE  f[s] = Turn(f, b, chars, s)
      <3>1. f[s] = Turn(e, b, chars, s)
        OBVIOUS
      <3> HIDE DEF f
      <3>2. CASE s.d = 0
        BY <3>1, <3>2 DEF Turn
      <3>3. CASE s.d # 0
        <4>1. /\ s.d \in Nat /\ s.d \in 1..k /\ s.n \in Nat /\ s.n + 1 \in Nat
              /\ \A n \in Nat : At(s.num % s.d, s.d \div b, n) \in State(s.d - 1)
          BY <3>3, TurnState DEF State
        <4>2. ASSUME NEW n \in Nat
              PROVE  f[At(s.num % s.d, s.d \div b, n)] = e[At(s.num % s.d, s.d \div b, n)]
          <5>1. PICK u : u = At(s.num % s.d, s.d \div b, n)
            OBVIOUS
          <5>2. u \in State(s.d - 1)
            BY <4>1, <5>1
          <5>3. PICK j \in Nat : j = s.d - 1 /\ j < k
            BY <4>1
          <5>4. u \in State(j)
            BY <5>2, <5>3
          <5>5. u.num \in 0..(Word - 1) /\ u.d \in 0..j /\ u.n \in Nat /\ u = At(u.num, u.d, u.n)
            BY <5>4 DEF State, At
          <5>6. u.d \in 0..k /\ u.d < k
            BY <5>3, <5>5
          <5>7. u \in State(k)
            BY <5>5, <5>6 DEF State, At
          <5> QED
            BY <2>2, <5>1, <5>6, <5>7
        <4> QED
          BY <3>1, <4>1, <4>2 DEF Turn
      <3> QED
        BY <3>2, <3>3
    <2>4. f = [s \in State(k) |-> f[s]]
      OBVIOUS
    <2> HIDE DEF f
    <2>5. IsLoop(f, b, chars, k)
      BY <2>3, <2>4 DEF IsLoop
    <2> QED
      BY <2>5
  <1>2. top \in T
    <2> HIDE DEF T
    <2>1. \A n \in Nat : (\A m \in Nat : m < n => m \in T) => n \in T
      BY <1>1 DEF T
    <2> QED
      BY <2>1, Strong
  <1> QED
    BY <1>2

(* ui2a is that solution, started with the divisor of the first loop. *)
LEMMA Ui2aLoop ==
    ASSUME NEW b \in Bases, NEW chars
    PROVE  \E f : /\ IsLoop(f, b, chars, Word)
                  /\ \A num : ui2a(num, b, chars) = f[At(num, Divisor(num, b), 0)]
  <1>1. \E f : IsLoop(f, b, chars, Word)
    BY LoopExists, WordAssumption
  <1> QED
    BY <1>1 DEF ui2a, IsLoop, Turn, At, State

(* The steps of the loop *)
LEMMA LoopEnd ==
    ASSUME NEW b, NEW chars, NEW f, IsLoop(f, b, chars, Word),
           NEW num \in 0..(Word - 1), NEW n \in Nat
    PROVE  f[At(num, 0, n)] = <<>>
  <1>1. At(num, 0, n) \in State(Word) /\ At(num, 0, n).d = 0
    BY WordAssumption DEF State, At
  <1> QED
    BY <1>1 DEF IsLoop, Turn

(* The condition under which a turn of the loop writes a digit. *)
Goes(num, d, n, b) == n > 0 \/ num >= d \/ d \div b = 0

(* A turn that writes a digit. *)
LEMMA LoopStep ==
    ASSUME NEW b \in Bases, NEW chars, NEW f, IsLoop(f, b, chars, Word),
           NEW num \in 0..(Word - 1), NEW d \in 1..Word, NEW n \in Nat, Goes(num, d, n, b)
    PROVE  f[At(num, d, n)] = <<chars[(num \div d) + 1]>> \o f[At(num % d, d \div b, n + 1)]
  <1> DEFINE s == At(num, d, n)
  <1>1. s \in State(Word)
    BY WordAssumption DEF State, At
  <1>2. s.num = num /\ s.d = d /\ s.n = n
    BY DEF At
  <1> HIDE DEF s
  <1>3. num >= d => num \div d > 0
    <2>1. num \in Nat /\ d \in Nat /\ d > 0
      BY WordAssumption
    <2> QED
      BY <2>1
  <1>4. d # 0
    BY WordAssumption
  <1>5. f[s] = Turn(f, b, chars, s)
    BY <1>1 DEF IsLoop
  <1>6. n > 0 \/ num \div d > 0 \/ d \div b = 0
    BY <1>3 DEF Goes
  <1> QED
    BY <1>2, <1>4, <1>5, <1>6 DEF Turn, s
-----------------------------------------------------------------------------
(* The last digit can be split off: what is written of m from the divisor  *)
(* b * q on is what is written of m \div b from q on, and the digit m % b. *)
Splits(f, b, chars, q) ==
    \A m \in 0..(Word - 1), n, k \in Nat :
       m < b * (b * q) /\ (n > 0 \/ m >= b * q) /\ (k > 0 \/ m >= b * q) =>
          /\ f[At(m \div b, q, k)] \in Seq(Char)
          /\ f[At(m, b * q, n)] = Append(f[At(m \div b, q, k)], chars[(m % b) + 1])

(* The last digit can be split off whatever the power the loop is at. *)
LEMMA LastDigit ==
    ASSUME NEW b \in Bases, NEW chars \in Alphabets, NEW f, IsLoop(f, b, chars, Word)
    PROVE  \A q \in Nat : Power(b, q) /\ b * q <= Word => Splits(f, b, chars, q)
  <1> DEFINE T == {q \in Nat : Power(b, q) /\ b * q <= Word => Splits(f, b, chars, q)}
  <1>0. Word \in Nat /\ Word > 0 /\ b \in Nat /\ b > 1
    BY WordAssumption DEF Bases
  <1>1. ASSUME NEW q \in Nat, \A r \in Nat : r < q => r \in T, Power(b, q), b * q <= Word,
               NEW m \in 0..(Word - 1), NEW n \in Nat, NEW k \in Nat,
               m < b * (b * q), n > 0 \/ m >= b * q, k > 0 \/ m >= b * q
        PROVE  /\ f[At(m \div b, q, k)] \in Seq(Char)
               /\ f[At(m, b * q, n)] = Append(f[At(m \div b, q, k)], chars[(m % b) + 1])
    <2>h. PICK h : h = m \div b
      OBVIOUS
    <2>t. PICK top : top = h \div q
      OBVIOUS
    <2>1. /\ m \in Nat /\ q >= 1 /\ b * q \in Nat /\ b * q >= 1
          /\ (b * q) \div b = q /\ q <= b * q /\ q <= Word
      <3>1. q >= 1 /\ m \in Nat
        BY <1>0, <1>1, PowerCases
      <3>2. CASE b = 10
        BY <1>0, <1>1, <3>1, <3>2
      <3>3. CASE b = 16
        BY <1>0, <1>1, <3>1, <3>3
      <3> QED
        BY <3>2, <3>3 DEF Bases
    <2>2. h \in Nat /\ h \in 0..(Word - 1) /\ h < b * q /\ (m >= b * q => h >= q) /\ m % b \in 0..15
      <3>1. m \in Nat /\ m < Word
        BY <1>0
      <3>2. CASE b = 10
        BY <1>0, <1>1, <2>h, <2>1, <3>1, <3>2
      <3>3. CASE b = 16
        BY <1>0, <1>1, <2>h, <2>1, <3>1, <3>3
      <3> QED
        BY <3>2, <3>3 DEF Bases
    <2>3. /\ m \div (b * q) = top /\ (m % (b * q)) \div b = h % q /\ (m % (b * q)) % b = m % b
          /\ top \in Nat /\ h % q \in Nat /\ h % q < q
      <3>1. q > 0
        BY <2>1
      <3>2. /\ m \div (b * q) = (m \div b) \div q /\ (m % (b * q)) \div b = (m \div b) % q
            /\ (m % (b * q)) % b = m % b
        BY <2>1, <3>1, Nested
      <3>3. top \in Nat /\ h % q \in Nat /\ h % q < q
        BY <2>t, <2>2, <3>1, Quotient
      <3> QED
        BY <2>h, <2>t, <3>2, <3>3
    <2>4. m % (b * q) \in Nat /\ m % (b * q) < b * q /\ m % (b * q) \in 0..(Word - 1)
      <3>1. PICK p \in Nat : p = b * q /\ p > 0 /\ p <= Word
        BY <1>1, <2>1
      <3>2. m % p \in Nat /\ m % p < p
        BY <2>1, <3>1, Quotient
      <3>3. m % p \in 0..(Word - 1)
        BY <1>0, <3>1, <3>2
      <3> QED
        BY <3>1, <3>2, <3>3
    <2>5. top < b
      <3>1. h = q * top + (h % q)
        BY <2>t, <2>1, <2>2, Quotient
      <3>2. h < b * q /\ top \in Nat /\ h % q \in Nat
        BY <2>2, <2>3
      <3>3. CASE b = 10
        BY <2>1, <3>1, <3>2, <3>3
      <3>4. CASE b = 16
        BY <2>1, <3>1, <3>2, <3>4
      <3> QED
        BY <3>3, <3>4 DEF Bases
    <2>6. chars[top + 1] \in Char /\ chars[(m % b) + 1] \in Char
      <3>1. top \in 0..15
        BY <2>3, <2>5 DEF Bases
      <3> QED
        BY <2>2, <3>1, AlphabetChars
    <2>7. f[At(m, b * q, n)] = <<chars[top + 1]>> \o f[At(m % (b * q), q, n + 1)]
      <3>1. PICK p \in 1..Word : p = b * q
        BY <1>0, <1>1, <2>1
      <3>2. f[At(m, p, n)] = <<chars[(m \div p) + 1]>> \o f[At(m % p, p \div b, n + 1)]
        <4>1. Goes(m, p, n, b)
          BY <1>1, <3>1 DEF Goes
        <4> QED
          BY <4>1, LoopStep
      <3> QED
        BY <2>1, <2>3, <3>1, <3>2
    <2>8. k > 0 \/ h >= q
      BY <1>1, <2>2
    <2>9. f[At(h, q, k)] = <<chars[top + 1]>> \o f[At(h % q, q \div b, k + 1)]
      <3>1. q \in 1..Word
        BY <1>0, <2>1
      <3>2. f[At(h, q, k)] = <<chars[(h \div q) + 1]>> \o f[At(h % q, q \div b, k + 1)]
        <4>1. Goes(h, q, k, b)
          BY <2>8 DEF Goes
        <4> QED
          BY <2>2, <3>1, <4>1, LoopStep
      <3> QED
        BY <2>t, <3>2
    <2>10. CASE q = 1
      <3>1. q \div b = 0 /\ h % q = 0 /\ 0 \in 0..(Word - 1)
        BY <1>0, <2>2, <2>3, <2>10 DEF Bases
      <3>2. f[At(h % q, q \div b, k + 1)] = <<>>
        BY <3>1, LoopEnd
      <3>3. f[At(h, q, k)] = <<chars[top + 1]>>
        BY <2>9, <3>2
      <3>4. PICK r \in 0..(Word - 1) : r = m % (b * q) /\ r < b /\ r = m % b
        <4>1. b * q = b
          BY <1>0, <2>10
        <4> QED
          BY <2>4, <4>1
      <3>5. f[At(r, q, n + 1)] = <<chars[(r \div q) + 1]>> \o f[At(r % q, q \div b, (n + 1) + 1)]
        <4>1. q \in 1..Word /\ n + 1 \in Nat /\ Goes(r, q, n + 1, b)
          BY <1>0, <2>1 DEF Goes
        <4> QED
          <5>1. PICK e \in 1..Word, j \in Nat : e = q /\ j = n + 1 /\ Goes(r, e, j, b)
            BY <4>1
          <5>2. f[At(r, e, j)] = <<chars[(r \div e) + 1]>> \o f[At(r % e, e \div b, j + 1)]
            <6>1. Goes(r, e, j, b)
              BY <5>1
            <6> QED
              BY <6>1, LoopStep
          <5> QED
            BY <5>1, <5>2
      <3>6. r % q = 0 /\ r \div q = r /\ (n + 1) + 1 \in Nat
        BY <2>10, WordAssumption
      <3>7. f[At(r % q, q \div b, (n + 1) + 1)] = <<>>
        BY <3>1, <3>6, LoopEnd
      <3>8. f[At(r, q, n + 1)] = <<chars[(m % b) + 1]>>
        BY <3>4, <3>5, <3>6, <3>7
      <3> QED
        <4>1. f[At(m, b * q, n)] = <<chars[top + 1]>> \o <<chars[(m % b) + 1]>>
          BY <2>7, <3>4, <3>8
        <4>2. <<chars[top + 1]>> \in Seq(Char)
          BY <2>6
        <4>3. <<chars[top + 1]>> \o <<chars[(m % b) + 1]>> =
                Append(<<chars[top + 1]>>, chars[(m % b) + 1])
          BY <2>6
        <4> QED
          BY <2>h, <3>3, <4>1, <4>2, <4>3
    <2>11. CASE q # 1
      <3>1. PICK r \in Nat : Power(b, r) /\ r >= 1 /\ r < q /\ q = b * r
        BY <1>1, <2>11, PowerCases
      <3>2. q \div b = r /\ b * r <= Word
        <4>1. CASE b = 10
          BY <2>1, <3>1, <4>1
        <4>2. CASE b = 16
          BY <2>1, <3>1, <4>2
        <4> QED
          BY <4>1, <4>2 DEF Bases
      <3>3. Splits(f, b, chars, r)
        BY <1>1, <3>1, <3>2
      <3>4. PICK z \in 0..(Word - 1) : z = m % (b * q)
        BY <2>4
      <3>5. z < b * (b * r) /\ z \div b = h % q /\ z % b = m % b
        BY <2>3, <2>4, <3>1, <3>4
      <3>6. /\ f[At(h % q, r, k + 1)] \in Seq(Char)
            /\ f[At(z, b * r, n + 1)] = Append(f[At(h % q, r, k + 1)], chars[(m % b) + 1])
        <4>1. n + 1 \in Nat /\ n + 1 > 0 /\ k + 1 \in Nat /\ k + 1 > 0
          OBVIOUS
        <4> QED
          BY <3>3, <3>5, <4>1, ZenonT(40) DEF Splits
      <3>7. f[At(h, q, k)] = <<chars[top + 1]>> \o f[At(h % q, r, k + 1)]
        BY <2>9, <3>2
      <3>8. f[At(m, b * q, n)] =
              <<chars[top + 1]>> \o Append(f[At(h % q, r, k + 1)], chars[(m % b) + 1])
        BY <2>7, <3>1, <3>4, <3>6
      <3>9. f[At(h, q, k)] \in Seq(Char)
        BY <2>6, <3>6, <3>7
      <3>10. PICK w \in Seq(Char) : w = f[At(h % q, r, k + 1)]
        BY <3>6
      <3>11. <<chars[top + 1]>> \o Append(w, chars[(m % b) + 1]) =
               Append(<<chars[top + 1]>> \o w, chars[(m % b) + 1])
        BY <2>6
      <3> QED
        BY <2>h, <3>7, <3>8, <3>9, <3>10, <3>11
    <2> QED
      BY <2>10, <2>11
  <1>2. \A q \in Nat : q \in T
    <2>0. ASSUME NEW q \in Nat, \A r \in Nat : r < q => r \in T, Power(b, q), b * q <= Word
          PROVE  Splits(f, b, chars, q)
      <3> HIDE DEF T
      <3> QED
        BY <1>1, <2>0 DEF Splits
    <2> HIDE DEF T
    <2>1. \A q \in Nat : (\A r \in Nat : r < q => r \in T) => q \in T
      BY <2>0 DEF T
    <2> QED
      BY <2>1, Strong
  <1> QED
    BY <1>2

(* ui2a writes the digits of its argument. *)
LEMMA Ui2aDigits ==
    ASSUME NEW b \in Bases, NEW chars \in Alphabets, NEW num \in 0..(Word - 1)
    PROVE  ui2a(num, b, chars) = Digits(num, b, chars)
  <1>0. Word \in Nat /\ Word > 0
    BY WordAssumption
  <1>1. PICK f : /\ IsLoop(f, b, chars, Word)
                 /\ \A n : ui2a(n, b, chars) = f[At(n, Divisor(n, b), 0)]
    BY Ui2aLoop
  <1> DEFINE T == {n \in Nat : n \in 0..(Word - 1) =>
                                 f[At(n, Divisor(n, b), 0)] = Digits(n, b, chars)}
  <1>2. ASSUME NEW n \in Nat, \A m \in Nat : m < n => m \in T, n \in 0..(Word - 1)
        PROVE  f[At(n, Divisor(n, b), 0)] = Digits(n, b, chars)
    <2>1. CASE n < b
      <3>1. Divisor(n, b) = 1 /\ Digits(n, b, chars) = <<chars[n + 1]>>
        BY <1>2, <2>1, DivisorSmall, DigitsRule
      <3>2. 1 \in 1..Word /\ 1 \div b = 0 /\ n \div 1 = n /\ n % 1 = 0 /\ 0 \in 0..(Word - 1)
        BY <1>0 DEF Bases
      <3>3. f[At(n, 1, 0)] = <<chars[n + 1]>> \o f[At(0, 0, 0 + 1)]
        <4>1. f[At(n, 1, 0)] = <<chars[(n \div 1) + 1]>> \o f[At(n % 1, 1 \div b, 0 + 1)]
          <5>1. Goes(n, 1, 0, b)
            BY <3>2 DEF Goes
          <5>2. PICK d \in 1..Word, i \in Nat : d = 1 /\ i = 0 /\ Goes(n, d, i, b)
            BY <3>2, <5>1
          <5>3. f[At(n, d, i)] = <<chars[(n \div d) + 1]>> \o f[At(n % d, d \div b, i + 1)]
            BY <1>1, <1>2, <5>2, LoopStep
          <5> QED
            BY <5>2, <5>3
        <4> QED
          BY <3>2, <4>1
      <3>4. f[At(0, 0, 0 + 1)] = <<>>
        BY <1>1, <3>2, LoopEnd
      <3> QED
        BY <3>1, <3>3, <3>4
    <2>2. CASE n >= b
      <3> DEFINE D == Divisor(n \div b, b)
      <3>1. n \div b \in Nat /\ n \div b < n /\ n \div b >= 1 /\ n \div b \in 0..(Word - 1)
        BY <1>0, <1>2, <2>2, Smaller
      <3>2. Divisor(n, b) = b * D
        BY <1>2, <2>2, DivisorNext
      <3>3. Power(b, D) /\ D \in Nat /\ D >= 1 /\ D <= n \div b
        BY <1>0, <3>1, DivisorIsPower
      <3>4. f[At(n \div b, D, 0)] = Digits(n \div b, b, chars)
        BY <1>2, <3>1
      <3>5. b * D \in Nat /\ b * D <= Word /\ n >= b * D
        BY <1>0, <1>2, <3>2, <3>3, DivisorIsPower DEF Bases
      <3>6. n < b * (b * D)
        BY <1>2, <3>2, DivisorIsPower
      <3> HIDE DEF D
      <3>7. f[At(n, b * D, 0)] = Append(f[At(n \div b, D, 0)], chars[(n % b) + 1])
        <4>1. PICK q \in Nat : q = D /\ Power(b, q) /\ b * q <= Word /\ n < b * (b * q) /\ n >= b * q
          BY <3>3, <3>5, <3>6
        <4>2. Splits(f, b, chars, q)
          BY <1>1, <4>1, LastDigit
        <4> QED
          BY <1>2, <4>1, <4>2 DEF Splits
      <3>8. Digits(n, b, chars) = Append(Digits(n \div b, b, chars), chars[(n % b) + 1])
        BY <1>2, <2>2, DigitsRule
      <3> QED
        BY <3>2, <3>4, <3>7, <3>8
    <2> QED
      BY <2>1, <2>2 DEF Bases
  <1>3. num \in T
    <2> HIDE DEF T
    <2>1. \A n \in Nat : (\A m \in Nat : m < n => m \in T) => n \in T
      BY <1>2 DEF T
    <2> QED
      BY <1>0, <2>1, Strong
  <1> QED
    BY <1>1, <1>3
-----------------------------------------------------------------------------
(* Conversions *)

(* The conversions of integers, with the arguments callers may pass. *)
Ints == [ch : {"d"}, w : 0..9, lz : {0, 1}, arg : (-(Word \div 2))..(Word \div 2 - 1)]
Unsigned == [ch : {"u", "x", "X"}, w : 0..9, lz : {0, 1}, arg : Int]

(* ui2a writes the digits of its argument, and they fit. *)
LEMMA Ui2aFits ==
    ASSUME NEW b \in Bases, NEW chars \in Alphabets, NEW num \in 0..(Word - 1)
    PROVE  /\ ui2a(num, b, chars) = Digits(num, b, chars)
           /\ Digits(num, b, chars) \in Seq(Char)
           /\ Len(Digits(num, b, chars)) \in Nat
           /\ Len(Digits(num, b, chars)) + 2 <= BfSize
  <1>1. Digits(num, b, chars) \in Seq(Char)
    BY DigitsType
  <1> QED
    BY <1>1, Ui2aDigits, DigitsLength

(* The bits of an int, read as an unsigned number. *)
LEMMA Pattern ==
    ASSUME NEW n \in Int
    PROVE  n % Word \in 0..(Word - 1)
  BY WordAssumption

(* i2a negates in unsigned arithmetic: the least int is no exception. *)
LEMMA Half ==
    ASSUME NEW n \in (-(Word \div 2))..(Word \div 2 - 1)
    PROVE  /\ n \in Int
           /\ n < 0 => -n \in 0..(Word - 1) /\ (-n) % Word = -n
           /\ n >= 0 => n \in 0..(Word - 1)
  <1>1. Word \in Nat /\ Word > 0 /\ Word % 2 = 0
    BY WordAssumption
  <1>2. Word \div 2 \in Nat /\ Word \div 2 < Word
    BY <1>1
  <1>3. n \in Int /\ n >= -(Word \div 2) /\ n < Word \div 2
    BY <1>2
  <1>4. n < 0 => -n \in 0..(Word - 1)
    BY <1>1, <1>2, <1>3
  <1>5. n < 0 => (-n) % Word = -n
    <2> HAVE n < 0
    <2>1. PICK p \in 0..(Word - 1) : p = -n
      BY <1>4
    <2>2. p % Word = p
      BY <1>1
    <2> QED
      BY <2>1, <2>2
  <1> QED
    BY <1>1, <1>2, <1>3, <1>4, <1>5

(* The text of an integer is what the field is to look like, and fits. *)
LEMMA ConvertUnsigned ==
    ASSUME NEW n \in Int
    PROVE  /\ Convert("u", n) = Digits(n % Word, 10, Lower)
           /\ Convert("x", n) = Digits(n % Word, 16, Lower)
           /\ Convert("X", n) = Digits(n % Word, 16, Upper)
           /\ \A ch \in {"u", "x", "X"} : /\ Convert(ch, n) \in Seq(Char)
                                          /\ Len(Convert(ch, n)) + 1 <= BfSize
  <1>1. PICK p \in 0..(Word - 1) : p = n % Word
    BY Pattern
  <1>2. 10 \in Bases /\ 16 \in Bases /\ Lower \in Alphabets /\ Upper \in Alphabets
    BY DEF Bases, Alphabets
  <1>3. \A b \in Bases, chars \in Alphabets :
          /\ ui2a(p, b, chars) = Digits(p, b, chars)
          /\ Digits(p, b, chars) \in Seq(Char)
          /\ Len(Digits(p, b, chars)) \in Nat
          /\ Len(Digits(p, b, chars)) + 2 <= BfSize
    BY Ui2aFits
  <1>4. /\ Convert("u", n) = ui2a(p, 10, Lower)
        /\ Convert("x", n) = ui2a(p, 16, Lower)
        /\ Convert("X", n) = ui2a(p, 16, Upper)
    BY <1>1 DEF Convert
  <1>5. /\ Convert("u", n) = Digits(p, 10, Lower)
        /\ Convert("x", n) = Digits(p, 16, Lower)
        /\ Convert("X", n) = Digits(p, 16, Upper)
    BY <1>2, <1>3, <1>4
  <1>6. \A b \in Bases, chars \in Alphabets : Len(Digits(p, b, chars)) + 1 <= BfSize
    BY <1>3, BfAssumption
  <1>7. \A ch \in {"u", "x", "X"} : \E b \in Bases, chars \in Alphabets :
          Convert(ch, n) = Digits(p, b, chars)
    BY <1>2, <1>5
  <1>8. \A ch \in {"u", "x", "X"} : Convert(ch, n) \in Seq(Char) /\ Len(Convert(ch, n)) + 1 <= BfSize
    BY <1>3, <1>6, <1>7
  <1> QED
    BY <1>1, <1>5, <1>8

(* The same for %d, whose text has one character more. *)
LEMMA ConvertSigned ==
    ASSUME NEW n \in (-(Word \div 2))..(Word \div 2 - 1)
    PROVE  /\ n < 0 => Convert("d", n) = <<"-">> \o Digits(-n, 10, Lower)
           /\ n >= 0 => Convert("d", n) = Digits(n, 10, Lower)
           /\ Convert("d", n) \in Seq(Char)
           /\ Len(Convert("d", n)) + 1 <= BfSize
           /\ n \in Int
  <1>0. n \in Int /\ (n < 0 \/ n >= 0)
    BY Half
  <1>1. 10 \in Bases /\ Lower \in Alphabets
    BY DEF Bases, Alphabets
  <1>2. \A p \in 0..(Word - 1) :
          /\ ui2a(p, 10, Lower) = Digits(p, 10, Lower)
          /\ Digits(p, 10, Lower) \in Seq(Char)
          /\ Len(Digits(p, 10, Lower)) \in Nat
          /\ Len(Digits(p, 10, Lower)) + 2 <= BfSize
    BY <1>1, Ui2aFits
  <1>3. CASE n < 0
    <2>1. PICK p \in 0..(Word - 1) : p = -n /\ (-n) % Word = p
      BY <1>3, Half
    <2>2. Convert("d", n) = <<"-">> \o ui2a(p, 10, Lower)
      BY <1>3, <2>1 DEF Convert, i2a
    <2>3. Convert("d", n) = <<"-">> \o Digits(p, 10, Lower)
      BY <1>2, <2>2
    <2>4. PICK t \in Seq(Char) : t = Digits(p, 10, Lower) /\ Len(t) + 2 <= BfSize
      BY <1>2
    <2>5. "-" \in Char
      BY DEF Char
    <2>6. <<"-">> \o t \in Seq(Char) /\ Len(<<"-">> \o t) = Len(t) + 1
      BY <2>5
    <2>7. Len(<<"-">> \o t) + 1 <= BfSize
      BY <2>4, <2>6, BfAssumption
    <2>8. Convert("d", n) = <<"-">> \o Digits(-n, 10, Lower)
      BY <2>1, <2>3
    <2>9. Convert("d", n) = <<"-">> \o t
      BY <2>3, <2>4
    <2>10. ~(n >= 0)
      BY <1>0, <1>3
    <2> QED
      BY <1>0, <2>6, <2>7, <2>8, <2>9, <2>10
  <1>4. CASE n >= 0
    <2>1. n \in 0..(Word - 1) /\ ~(n < 0)
      BY <1>0, <1>4, Half
    <2>2. Convert("d", n) = ui2a(n, 10, Lower)
      BY <2>1 DEF Convert, i2a
    <2>3. Convert("d", n) = Digits(n, 10, Lower)
      BY <1>2, <2>1, <2>2
    <2>4. Len(Digits(n, 10, Lower)) + 1 <= BfSize
      BY <1>2, <2>1, BfAssumption
    <2> QED
      BY <1>0, <1>2, <2>1, <2>3, <2>4
  <1> QED
    BY <1>0, <1>3, <1>4

(* putchw *)
LEMMA Padded ==
    ASSUME NEW n \in 0..9, NEW z \in {0, 1}, NEW t \in Seq(Char)
    PROVE  putchw(n, z, t) \in Seq(Char)
  <1>1. Len(t) \in Nat /\ n - Len(t) \in Int
    OBVIOUS
  <1>2. PICK k \in Nat : 1..(n - Len(t)) = 1..k
    <2>1. CASE n - Len(t) >= 0
      BY <1>1, <2>1
    <2>2. CASE n - Len(t) < 0
      <3>1. 1..(n - Len(t)) = 1..0
        BY <1>1, <2>2
      <3> QED
        BY <3>1
    <2> QED
      BY <1>1, <2>1, <2>2
  <1>3. "0" \in Char /\ " " \in Char
    BY DEF Char
  <1>4. PICK x \in Char : x = IF z = 1 THEN "0" ELSE " "
    BY <1>3
  <1>5. PICK p \in Seq(Char) : p = [i \in 1..k |-> x]
    <2>1. [i \in 1..k |-> x] \in [1..k -> Char]
      OBVIOUS
    <2>2. [i \in 1..k |-> x] \in Seq(Char)
      BY <2>1, SeqDef
    <2> QED
      BY <2>2
  <1>6. putchw(n, z, t) = p \o t
    BY <1>2, <1>4, <1>5 DEF putchw
  <1> QED
    BY <1>6

(* The conversions of integers *)
LEMMA RenderedNumber ==
    ASSUME NEW f \in Ints \cup Unsigned
    PROVE  /\ Rendered(f) = putchw(f.w, f.lz, Convert(f.ch, f.arg))
           /\ Rendered(f) \in Seq(Char)
           /\ Len(Convert(f.ch, f.arg)) + 1 <= BfSize
           /\ Convert(f.ch, f.arg) \in Seq(Char)
  <1>1. /\ f.w \in 0..9 /\ f.lz \in {0, 1} /\ "lit" \notin DOMAIN f
        /\ \/ f.ch = "d" /\ f.arg \in (-(Word \div 2))..(Word \div 2 - 1)
           \/ f.ch \in {"u", "x", "X"} /\ f.arg \in Int
    BY DEF Ints, Unsigned
  <1>2. f.arg \in Int /\ Convert(f.ch, f.arg) \in Seq(Char) /\ Len(Convert(f.ch, f.arg)) + 1 <= BfSize
    <2>1. CASE f.ch = "d" /\ f.arg \in (-(Word \div 2))..(Word \div 2 - 1)
      BY <2>1, ConvertSigned
    <2>2. CASE f.ch \in {"u", "x", "X"} /\ f.arg \in Int
      BY <2>2, ConvertUnsigned
    <2> QED
      BY <1>1, <2>1, <2>2
  <1>3. Rendered(f) = putchw(f.w, f.lz, Convert(f.ch, f.arg))
    <2>1. CASE f.ch = "d" /\ f.arg \in (-(Word \div 2))..(Word \div 2 - 1)
      <3>1. Convert(f.ch, f.arg) = (IF f.arg < 0 THEN <<"-">> ELSE <<>>)
                \o Digits(IF f.arg < 0 THEN -f.arg ELSE f.arg, 10, Lower)
        <4>1. CASE f.arg < 0
          BY <2>1, <4>1, ConvertSigned
        <4>2. CASE ~(f.arg < 0)
          <5>1. f.arg >= 0 /\ f.arg \in Int
            BY <1>2, <4>2
          <5>2. Convert(f.ch, f.arg) = Digits(f.arg, 10, Lower) /\ Digits(f.arg, 10, Lower) \in Seq(Char)
            BY <2>1, <5>1, ConvertSigned
          <5> QED
            BY <4>2, <5>2
        <4> QED
          BY <4>1, <4>2
      <3> QED
        BY <1>1, <2>1, <3>1 DEF Rendered, putchw
    <2>2. CASE f.ch \in {"u", "x", "X"} /\ f.arg \in Int
      <3>1. /\ f.ch = "u" => Convert(f.ch, f.arg) = Digits(f.arg % Word, 10, Lower)
            /\ f.ch = "x" => Convert(f.ch, f.arg) = Digits(f.arg % Word, 16, Lower)
            /\ f.ch = "X" => Convert(f.ch, f.arg) = Digits(f.arg % Word, 16, Upper)
        BY <2>2, ConvertUnsigned
      <3>2. CASE f.ch = "u"
        BY <1>1, <3>1, <3>2 DEF Rendered, putchw
      <3>3. CASE f.ch = "x"
        BY <1>1, <3>1, <3>3 DEF Rendered, putchw
      <3>4. CASE f.ch = "X"
        BY <1>1, <3>1, <3>4 DEF Rendered, putchw
      <3> QED
        BY <2>2, <3>2, <3>3, <3>4
    <2> QED
      BY <1>1, <2>1, <2>2
  <1> QED
    BY <1>1, <1>2, <1>3, Padded
-----------------------------------------------------------------------------
(* Texts that are put together from the texts of their parts *)

(* w is applied to every part, and the texts are put together. *)
Map(w, fs) == [i \in DOMAIN fs |-> w[fs[i]]]
Flat(w, fs) == FlattenSeq(Map(w, fs))

(* The recursion by which FlattenSeq puts texts together. *)
IsFold(g, m, n) == g = [i \in 1..n |-> IF i = 1 THEN m[i] ELSE g[i - 1] \o m[i]]

(* The recursive equation of FlattenSeq has a solution. *)
LEMMA FoldExists ==
    ASSUME NEW m, NEW top \in Nat
    PROVE  \E g : IsFold(g, m, top)
  <1> DEFINE T == {n \in Nat : \E g : IsFold(g, m, n)}
  <1>1. ASSUME NEW n \in Nat, \A k \in Nat : k < n => k \in T
        PROVE  \E g : IsFold(g, m, n)
    <2>1. PICK e : n > 0 => IsFold(e, m, n - 1)
      <3>1. CASE n > 0
        <4>1. n - 1 \in Nat /\ n - 1 < n
          BY <3>1
        <4>2. n - 1 \in T
          BY <1>1, <4>1
        <4> QED
          BY <4>2
      <3> QED
        BY <3>1
    <2> DEFINE g == [i \in 1..n |-> IF i = 1 THEN m[i] ELSE e[i - 1] \o m[i]]
    <2>2. ASSUME NEW i \in 1..n
          PROVE  g[i] = IF i = 1 THEN m[i] ELSE g[i - 1] \o m[i]
      <3>1. CASE i = 1
        BY <3>1
      <3>2. CASE i # 1
        <4>1. PICK j \in 1..(n - 1) : j = i - 1
          BY <3>2
        <4>2. n > 0 /\ j \in 1..n
          BY <4>1
        <4>3. e[j] = IF j = 1 THEN m[j] ELSE e[j - 1] \o m[j]
          BY <2>1, <4>2 DEF IsFold
        <4>4. g[j] = e[j]
          BY <4>2, <4>3
        <4>5. g[i] = e[j] \o m[i]
          BY <3>2, <4>1
        <4> QED
          BY <3>2, <4>1, <4>4, <4>5
      <3> QED
        BY <3>1, <3>2
    <2>3. g = [i \in 1..n |-> g[i]]
      OBVIOUS
    <2> HIDE DEF g
    <2>4. IsFold(g, m, n)
      BY <2>2, <2>3 DEF IsFold
    <2> QED
      BY <2>4
  <1>2. top \in T
    <2> HIDE DEF T
    <2>1. \A n \in Nat : (\A k \in Nat : k < n => k \in T) => n \in T
      BY <1>1 DEF T
    <2> QED
      BY <2>1, Strong
  <1> QED
    BY <1>2

(* The solution for a sequence extends the one for its beginning. *)
LEMMA FoldSame ==
    ASSUME NEW m, NEW n \in Nat, NEW g, IsFold(g, m, n),
           NEW q, NEW k \in Nat, NEW h, IsFold(h, q, k), k <= n,
           \A i \in 1..k : m[i] = q[i]
    PROVE  \A i \in 1..k : g[i] = h[i]
  <1> DEFINE T == {i \in Nat : i \in 1..k => g[i] = h[i]}
  <1>1. ASSUME NEW i \in Nat, \A j \in Nat : j < i => j \in T, i \in 1..k
        PROVE  g[i] = h[i]
    <2>1. i \in 1..n
      BY <1>1
    <2>2. /\ g[i] = IF i = 1 THEN m[i] ELSE g[i - 1] \o m[i]
          /\ h[i] = IF i = 1 THEN q[i] ELSE h[i - 1] \o q[i]
      BY <1>1, <2>1 DEF IsFold
    <2>3. CASE i = 1
      BY <1>1, <2>2, <2>3
    <2>4. CASE i # 1
      <3>1. i - 1 \in Nat /\ i - 1 < i /\ i - 1 \in 1..k
        BY <1>1, <2>4
      <3>2. g[i - 1] = h[i - 1]
        BY <1>1, <3>1
      <3> QED
        BY <1>1, <2>2, <2>4, <3>2
    <2> QED
      BY <2>3, <2>4
  <1>2. \A i \in Nat : i \in T
    <2> HIDE DEF T
    <2>1. \A i \in Nat : (\A j \in Nat : j < i => j \in T) => i \in T
      BY <1>1 DEF T
    <2> QED
      BY <2>1, Strong
  <1> QED
    BY <1>2

(* w gives the text of every part. *)
Texts(w, F, S) == w \in [F -> Seq(S)]

(* The texts of the parts, one by one. *)
LEMMA MapType ==
    ASSUME NEW F, NEW S, NEW w, Texts(w, F, S), NEW fs \in Seq(F)
    PROVE  /\ Map(w, fs) \in Seq(Seq(S))
           /\ Len(Map(w, fs)) = Len(fs)
           /\ \A i \in 1..Len(fs) : Map(w, fs)[i] = w[fs[i]] /\ fs[i] \in F
  <1>1. DOMAIN fs = 1..Len(fs) /\ Len(fs) \in Nat
    OBVIOUS
  <1>2. \A i \in 1..Len(fs) : fs[i] \in F
    OBVIOUS
  <1>3. Map(w, fs) \in [1..Len(fs) -> Seq(S)]
    BY <1>1, <1>2 DEF Map, Texts
  <1>4. Map(w, fs) \in Seq(Seq(S))
    <2>0. PICK R : R = Seq(S)
      OBVIOUS
    <2>1. PICK n \in Nat : n = Len(fs) /\ R = Seq(S)
      BY <1>1, <2>0
    <2>2. Map(w, fs) \in [1..n -> R]
      BY <1>3, <2>1
    <2>3. Map(w, fs) \in Seq(R)
      BY <2>2, SeqDef
    <2> QED
      BY <2>1, <2>3
  <1>5. Len(Map(w, fs)) = Len(fs)
    BY <1>1, <1>3, <1>4
  <1> QED
    BY <1>1, <1>2, <1>4, <1>5 DEF Map

(* Flat by way of the recursion of FlattenSeq. *)
LEMMA FlatFold ==
    ASSUME NEW F, NEW S, NEW w, Texts(w, F, S), NEW fs \in Seq(F)
    PROVE  /\ Len(fs) = 0 => Flat(w, fs) = <<>>
           /\ Len(fs) # 0 => \E g : IsFold(g, Map(w, fs), Len(fs)) /\ Flat(w, fs) = g[Len(fs)]
  <1>1. Map(w, fs) \in Seq(Seq(S)) /\ Len(Map(w, fs)) = Len(fs) /\ Len(fs) \in Nat
    BY MapType
  <1>2. CASE Len(fs) = 0
    <2>1. Flat(w, fs) = Map(w, fs)
      BY <1>1, <1>2 DEF Flat, FlattenSeq
    <2>2. Map(w, fs) = <<>>
      BY <1>1, <1>2
    <2> QED
      BY <1>2, <2>1, <2>2
  <1>3. CASE Len(fs) # 0
    <2>1. \E g : IsFold(g, Map(w, fs), Len(fs))
      BY <1>1, FoldExists
    <2> QED
      BY <1>1, <1>3, <2>1 DEF Flat, FlattenSeq, IsFold
  <1> QED
    BY <1>2, <1>3

(* No parts have no text. *)
LEMMA FlatEmpty ==
    ASSUME NEW F, NEW S, NEW w, Texts(w, F, S)
    PROVE  Flat(w, <<>>) = <<>>
  <1>1. PICK e \in Seq(F) : e = <<>>
    BY EmptySeq
  <1>2. Len(e) = 0
    BY <1>1
  <1>3. Flat(w, e) = <<>>
    BY <1>2, FlatFold
  <1> QED
    BY <1>1, <1>3

(* The text of a last part comes last. *)
LEMMA FlatLast ==
    ASSUME NEW F, NEW S, NEW w, Texts(w, F, S), NEW fs \in Seq(F), NEW f \in F
    PROVE  Flat(w, Append(fs, f)) = Flat(w, fs) \o w[f]
  <1>1. PICK n \in Nat : n = Len(fs)
    OBVIOUS
  <1>2. PICK gs \in Seq(F) : gs = Append(fs, f)
    <2>1. Append(fs, f) \in Seq(F)
      OBVIOUS
    <2> QED
      BY <2>1
  <1>3. Len(gs) = n + 1 /\ gs[n + 1] = f /\ \A i \in 1..n : gs[i] = fs[i]
    BY <1>1, <1>2
  <1>4. /\ Map(w, gs)[n + 1] = w[f]
        /\ \A i \in 1..n : Map(w, gs)[i] = Map(w, fs)[i]
    <2>1. \A i \in 1..(n + 1) : Map(w, gs)[i] = w[gs[i]]
      <3>1. \A i \in 1..Len(gs) : Map(w, gs)[i] = w[gs[i]]
        BY MapType
      <3> QED
        BY <1>3, <3>1
    <2>2. \A i \in 1..n : Map(w, fs)[i] = w[fs[i]]
      BY <1>1, MapType
    <2> QED
      BY <1>3, <2>1, <2>2
  <1>5. PICK g : IsFold(g, Map(w, gs), n + 1) /\ Flat(w, gs) = g[n + 1]
    BY <1>3, FlatFold
  <1>6. g[n + 1] = IF n + 1 = 1 THEN Map(w, gs)[n + 1] ELSE g[(n + 1) - 1] \o Map(w, gs)[n + 1]
    <2>1. n + 1 \in 1..(n + 1)
      OBVIOUS
    <2> QED
      BY <1>5, <2>1 DEF IsFold
  <1>7. w[f] \in Seq(S)
    BY DEF Texts
  <1>8. CASE n = 0
    <2>1. Flat(w, fs) = <<>>
      BY <1>1, <1>8, FlatFold
    <2>2. g[n + 1] = w[f]
      BY <1>4, <1>6, <1>8
    <2>3. <<>> \o w[f] = w[f]
      BY <1>7, ConcatEmptySeq
    <2> QED
      BY <1>2, <1>5, <2>1, <2>2, <2>3
  <1>9. CASE n # 0
    <2>1. PICK h : IsFold(h, Map(w, fs), n) /\ Flat(w, fs) = h[n]
      BY <1>1, <1>9, FlatFold
    <2>2. n \in 1..n /\ n <= n + 1 /\ n + 1 \in Nat
      BY <1>9
    <2>3. g[n] = h[n]
      BY <1>4, <1>5, <2>1, <2>2, FoldSame
    <2>4. g[n + 1] = g[n] \o w[f]
      <3>1. n + 1 # 1 /\ (n + 1) - 1 = n
        BY <1>9
      <3> QED
        BY <1>4, <1>6, <3>1
    <2> QED
      BY <1>2, <1>5, <2>1, <2>3, <2>4
  <1> QED
    BY <1>8, <1>9

(* Induction over sequences *)
LEMMA SeqInduction ==
    ASSUME NEW F, NEW T, <<>> \in T, \A s \in Seq(F), e \in F : s \in T => Append(s, e) \in T
    PROVE  Seq(F) \subseteq T
  <1> DEFINE U == {n \in Nat : \A s \in Seq(F) : Len(s) = n => s \in T}
  <1>1. ASSUME NEW n \in Nat, \A k \in Nat : k < n => k \in U, NEW s \in Seq(F), Len(s) = n
        PROVE  s \in T
    <2>1. CASE s = <<>>
      BY <2>1
    <2>2. CASE s # <<>>
      <3>1. PICK r \in Seq(F), e \in F : s = Append(r, e)
        BY <2>2, SequenceEmptyOrAppend
      <3>2. Len(r) \in Nat /\ Len(r) < n
        BY <1>1, <3>1
      <3>3. r \in T
        BY <1>1, <3>2
      <3> QED
        BY <3>1, <3>3
    <2> QED
      BY <2>1, <2>2
  <1>2. \A n \in Nat : n \in U
    <2> HIDE DEF U
    <2>1. \A n \in Nat : (\A k \in Nat : k < n => k \in U) => n \in U
      BY <1>1 DEF U
    <2> QED
      BY <2>1, Strong
  <1> QED
    BY <1>2

(* Flat is a text. *)
LEMMA FlatType ==
    ASSUME NEW F, NEW S, NEW w, Texts(w, F, S), NEW fs \in Seq(F)
    PROVE  Flat(w, fs) \in Seq(S)
  <1> DEFINE T == {s \in Seq(F) : Flat(w, s) \in Seq(S)}
  <1>1. <<>> \in T
    <2>1. Flat(w, <<>>) = <<>>
      BY FlatEmpty
    <2> QED
      BY <2>1, EmptySeq
  <1>2. ASSUME NEW s \in Seq(F), NEW e \in F, s \in T PROVE Append(s, e) \in T
    <2>1. w[e] \in Seq(S) /\ Flat(w, s) \in Seq(S) /\ Append(s, e) \in Seq(F)
      BY <1>2 DEF Texts
    <2>2. Flat(w, s) \o w[e] \in Seq(S)
      BY <2>1, ConcatProperties
    <2>3. Flat(w, Append(s, e)) = Flat(w, s) \o w[e]
      BY FlatLast
    <2> QED
      BY <2>1, <2>2, <2>3
  <1> HIDE DEF T
  <1>3. fs \in T
    BY <1>1, <1>2, SeqInduction
  <1> QED
    BY <1>3 DEF T

(* The texts of two sequences of parts follow each other. *)
LEMMA FlatConcat ==
    ASSUME NEW F, NEW S, NEW w, Texts(w, F, S), NEW fs \in Seq(F), NEW gs \in Seq(F)
    PROVE  Flat(w, fs \o gs) = Flat(w, fs) \o Flat(w, gs)
  <1> DEFINE T == {s \in Seq(F) : Flat(w, fs \o s) = Flat(w, fs) \o Flat(w, s)}
  <1>1. <<>> \in T
    <2>1. <<>> \in Seq(F) /\ fs \o <<>> = fs
      BY ConcatEmptySeq
    <2>2. Flat(w, <<>>) = <<>> /\ Flat(w, fs) \in Seq(S)
      BY FlatEmpty, FlatType
    <2>3. Flat(w, fs) \o <<>> = Flat(w, fs)
      BY <2>2, ConcatEmptySeq
    <2> QED
      BY <2>1, <2>2, <2>3
  <1>2. ASSUME NEW s \in Seq(F), NEW e \in F, s \in T PROVE Append(s, e) \in T
    <2>1. /\ Append(s, e) \in Seq(F) /\ fs \o Append(s, e) = Append(fs \o s, e) /\ fs \o s \in Seq(F)
      OBVIOUS
    <2>2. /\ Flat(w, fs \o Append(s, e)) = Flat(w, fs \o s) \o w[e]
          /\ Flat(w, Append(s, e)) = Flat(w, s) \o w[e]
      <3>1. PICK r \in Seq(F) : r = fs \o s
        BY <2>1
      <3>2. Flat(w, Append(r, e)) = Flat(w, r) \o w[e] /\ Flat(w, Append(s, e)) = Flat(w, s) \o w[e]
        BY FlatLast
      <3> QED
        BY <2>1, <3>1, <3>2
    <2>3. Flat(w, fs) \in Seq(S) /\ Flat(w, s) \in Seq(S) /\ w[e] \in Seq(S)
      BY FlatType DEF Texts
    <2>4. (Flat(w, fs) \o Flat(w, s)) \o w[e] = Flat(w, fs) \o (Flat(w, s) \o w[e])
      <3>1. PICK x \in Seq(S), y \in Seq(S), z \in Seq(S) : x = Flat(w, fs) /\ y = Flat(w, s) /\ z = w[e]
        BY <2>3
      <3>2. (x \o y) \o z = x \o (y \o z)
        BY ConcatAssociative, SMTT(30)
      <3> QED
        BY <3>1, <3>2
    <2>5. Flat(w, fs \o s) = Flat(w, fs) \o Flat(w, s)
      BY <1>2
    <2> QED
      BY <2>1, <2>2, <2>4, <2>5
  <1> HIDE DEF T
  <1>3. gs \in T
    BY <1>1, <1>2, SeqInduction
  <1> QED
    BY <1>3 DEF T

(* The text of a first part comes first. *)
LEMMA FlatFirst ==
    ASSUME NEW F, NEW S, NEW w, Texts(w, F, S), NEW f \in F, NEW gs \in Seq(F)
    PROVE  Flat(w, Cons(f, gs)) = w[f] \o Flat(w, gs)
  <1>1. <<f>> \in Seq(F) /\ <<>> \in Seq(F) /\ <<f>> = Append(<<>>, f)
    OBVIOUS
  <1>2. Flat(w, <<f>>) = <<>> \o w[f]
    <2>1. PICK e \in Seq(F) : e = <<>>
      BY <1>1
    <2>2. Flat(w, Append(e, f)) = Flat(w, e) \o w[f]
      BY FlatLast
    <2>3. Flat(w, <<>>) = <<>>
      BY FlatEmpty
    <2> QED
      BY <1>1, <2>1, <2>2, <2>3
  <1>3. <<>> \o w[f] = w[f]
    BY ConcatEmptySeq DEF Texts
  <1>4. PICK e \in Seq(F) : e = <<f>>
    BY <1>1
  <1>5. Flat(w, e \o gs) = Flat(w, e) \o Flat(w, gs)
    BY FlatConcat
  <1> QED
    BY <1>2, <1>3, <1>4, <1>5 DEF Cons
-----------------------------------------------------------------------------
(* How tfp_format reads a conversion *)

(* The digits of ui2a and of a2d, one by one. *)
LowerIs == <<"0", "1", "2", "3", "4", "5", "6", "7", "8", "9", "a", "b", "c", "d", "e", "f">>
UpperIs == <<"0", "1", "2", "3", "4", "5", "6", "7", "8", "9", "A", "B", "C", "D", "E", "F">>
(* The characters a2i takes for digits of a width: it stops at a digit     *)
(* larger than the base, so that "a" and "A" go through in base 10.        *)
DigitChars == {"0", "1", "2", "3", "4", "5", "6", "7", "8", "9", "a", "A"}

(* Concatenation, character by character. *)
IsJoin(x, y, z) ==
    /\ Len(z) = Len(x) + Len(y)
    /\ \A i \in 1..Len(z) : z[i] = IF i <= Len(x) THEN x[i] ELSE y[i - Len(x)]

(* A sequence is the concatenation of two if it is so one by one. *)
LEMMA Joined ==
    ASSUME NEW S, NEW x \in Seq(S), NEW y \in Seq(S), NEW z \in Seq(S), IsJoin(x, y, z)
    PROVE  x \o y = z
  <1>1. PICK u \in Seq(S) : u = x \o y
    BY ConcatProperties
  <1>2. Len(u) = Len(z) /\ \A i \in 1..Len(u) : u[i] = z[i]
    BY <1>1, ConcatProperties DEF IsJoin
  <1>3. u = z
    BY <1>2, SeqEqual
  <1> QED
    BY <1>1, <1>3

(* The definitions of Printf give these characters. *)
LEMMA AlphabetsAre == Lower = LowerIs /\ Upper = UpperIs
  <1> DEFINE S == {"0", "1", "2", "3", "4", "5", "6", "7", "8", "9", "a", "b", "c", "d", "e", "f",
                   "A", "B", "C", "D", "E", "F"}
             lo == <<"a", "b", "c", "d", "e", "f">>
             up == <<"A", "B", "C", "D", "E", "F">>
  <1>1. Decimal \in Seq(S) /\ Len(Decimal) = 10
    BY DEF Decimal
  <1>2. lo \in Seq(S) /\ Len(lo) = 6 /\ up \in Seq(S) /\ Len(up) = 6
    OBVIOUS
  <1>3. LowerIs \in Seq(S) /\ Len(LowerIs) = 16 /\ UpperIs \in Seq(S) /\ Len(UpperIs) = 16
    BY DEF LowerIs, UpperIs
  <1>4. \A i \in 1..16 : /\ LowerIs[i] = IF i <= 10 THEN Decimal[i] ELSE lo[i - 10]
                         /\ UpperIs[i] = IF i <= 10 THEN Decimal[i] ELSE up[i - 10]
    BY DEF LowerIs, UpperIs, Decimal
  <1> HIDE DEF S, lo, up
  <1>5. Decimal \o lo = LowerIs
    <2>1. IsJoin(Decimal, lo, LowerIs)
      BY <1>1, <1>2, <1>3, <1>4 DEF IsJoin
    <2> QED
      BY <1>1, <1>2, <1>3, <2>1, Joined
  <1>6. Decimal \o up = UpperIs
    <2>1. IsJoin(Decimal, up, UpperIs)
      BY <1>1, <1>2, <1>3, <1>4 DEF IsJoin
    <2> QED
      BY <1>1, <1>2, <1>3, <2>1, Joined
  <1> QED
    BY <1>5, <1>6 DEF Lower, Upper, lo, up

(* a2d inverts what ui2a writes for one decimal digit. *)
LEMMA DecimalValue ==
    ASSUME NEW w \in 0..9
    PROVE  a2d(Decimal[w + 1]) = w
  <1>1. w + 1 \in 1..16 /\ DOMAIN LowerIs = 1..16
    BY DEF LowerIs
  <1>2. Decimal[w + 1] = LowerIs[w + 1]
    BY DEF Decimal, LowerIs
  <1>3. \A i \in 1..16 : Decimal[w + 1] \in {LowerIs[i], UpperIs[i]} => i = w + 1
    BY DEF Decimal, LowerIs, UpperIs
  <1>4. (CHOOSE i \in 1..16 : Decimal[w + 1] \in {LowerIs[i], UpperIs[i]}) = w + 1
    BY <1>1, <1>2, <1>3
  <1>5. \E i \in 1..16 : Decimal[w + 1] \in {LowerIs[i], UpperIs[i]}
    BY <1>1, <1>2
  <1>6. a2d(Decimal[w + 1]) = (CHOOSE i \in 1..16 : Decimal[w + 1] \in {LowerIs[i], UpperIs[i]}) - 1
    BY <1>1, <1>5, AlphabetsAre DEF a2d
  <1>7. PICK j : j = CHOOSE i \in 1..16 : Decimal[w + 1] \in {LowerIs[i], UpperIs[i]}
    OBVIOUS
  <1>8. j = w + 1 /\ a2d(Decimal[w + 1]) = j - 1
    BY <1>4, <1>6, <1>7
  <1> QED
    BY <1>8

(* Nothing else is taken for a digit. *)
LEMMA NoDigit ==
    ASSUME NEW ch, ch \notin DigitChars
    PROVE  /\ a2d(ch) \notin 0..10
           /\ \A i \in 1..10 : ch # Decimal[i]
  <1>1. DOMAIN LowerIs = 1..16
    BY DEF LowerIs
  <1>2. \A i \in 1..16 : ch \in {LowerIs[i], UpperIs[i]} => i > 11
    BY DEF LowerIs, UpperIs, DigitChars
  <1>3. CASE \E i \in 1..16 : ch \in {LowerIs[i], UpperIs[i]}
    <2>1. PICK i \in 1..16 : i = CHOOSE j \in 1..16 : ch \in {LowerIs[j], UpperIs[j]}
      BY <1>3
    <2>2. ch \in {LowerIs[i], UpperIs[i]}
      BY <1>3, <2>1
    <2>3. a2d(ch) = i - 1
      BY <1>1, <1>3, <2>1, AlphabetsAre DEF a2d
    <2> QED
      BY <1>2, <2>2, <2>3 DEF Decimal, DigitChars
  <1>4. CASE ~ \E i \in 1..16 : ch \in {LowerIs[i], UpperIs[i]}
    <2>1. a2d(ch) = -1
      BY <1>1, <1>4, AlphabetsAre DEF a2d
    <2> QED
      BY <2>1 DEF Decimal, DigitChars
  <1> QED
    BY <1>3, <1>4

(* A width of one digit *)
LEMMA WidthRead ==
    ASSUME NEW w \in 0..9, NEW ch \in Char, ch \notin DigitChars, NEW src \in Seq(Char),
           Len(src) >= 2, src[1] = Decimal[w + 1], src[2] = ch
    PROVE  a2i(src, 10).num = w /\ a2i(src, 10).rest = Tail(src)
  <1> DEFINE digit(i) == a2d(src[i]) \in 0..10
             end == CHOOSE i \in DOMAIN src : ~digit(i) /\ \A j \in 1..(i - 1) : digit(j)
  <1>1. DOMAIN src = 1..Len(src) /\ Len(src) \in Nat /\ 2 \in DOMAIN src
    OBVIOUS
  <1>2. digit(1) /\ ~digit(2)
    <2>1. a2d(src[1]) = w
      BY DecimalValue
    <2>2. a2d(src[2]) \notin 0..10
      BY NoDigit
    <2> QED
      BY <2>1, <2>2
  <1>3. \A i \in DOMAIN src : ~digit(i) /\ (\A j \in 1..(i - 1) : digit(j)) => i = 2
    <2> SUFFICES ASSUME NEW i \in DOMAIN src, ~digit(i), \A j \in 1..(i - 1) : digit(j), i # 2
                 PROVE  FALSE
      OBVIOUS
    <2> HIDE DEF digit
    <2>1. i \in Nat /\ i >= 1
      BY <1>1
    <2>2. i # 1
      BY <1>2
    <2>3. 2 \in 1..(i - 1)
      BY <2>1, <2>2
    <2> QED
      BY <1>2, <2>3
  <1>4. \A j \in 1..(2 - 1) : digit(j)
    <2> HIDE DEF digit
    <2>1. \A j \in 1..(2 - 1) : j = 1
      OBVIOUS
    <2> QED
      BY <1>2, <2>1
  <1>5. end = 2
    <2> HIDE DEF digit
    <2> QED
      BY <1>1, <1>2, <1>3, <1>4
  <1> DEFINE IsNum(g) == g = [i \in 1..2 |-> IF i = 1 THEN 0 ELSE g[i - 1] * 10 + a2d(src[i - 1])]
  <1>6. \E g : IsNum(g)
    <2> DEFINE g == [i \in 1..2 |-> IF i = 1 THEN 0 ELSE w]
    <2>1. a2d(src[1]) = w
      BY DecimalValue
    <2>2. ASSUME NEW i \in 1..2
          PROVE  g[i] = IF i = 1 THEN 0 ELSE g[i - 1] * 10 + a2d(src[i - 1])
      <3>1. CASE i = 1
        BY <3>1
      <3>2. CASE i = 2
        <4>1. g[1] = 0 /\ g[2] = w
          OBVIOUS
        <4> HIDE DEF g
        <4>2. i - 1 = 1 /\ i # 1 /\ 0 * 10 + w = w
          BY <3>2
        <4> QED
          BY <2>1, <3>2, <4>1, <4>2
      <3> QED
        BY <3>1, <3>2
    <2>3. g = [i \in 1..2 |-> g[i]]
      OBVIOUS
    <2> HIDE DEF g
    <2>4. IsNum(g)
      BY <2>2, <2>3
    <2> QED
      BY <2>4
  <1>7. a2i(src, 10) = [num |-> (CHOOSE g : IsNum(g))[2], rest |-> SubSeq(src, 2, Len(src))]
    <2>1. a2i(src, 10) = [num |-> (CHOOSE g : g = [i \in 1..end |->
                                      IF i = 1 THEN 0 ELSE g[i - 1] * 10 + a2d(src[i - 1])])[end],
                          rest |-> SubSeq(src, end, Len(src))]
      BY DEF a2i
    <2> HIDE DEF end
    <2> QED
      BY <1>5, <2>1
  <1>8. PICK g : g = CHOOSE h : IsNum(h)
    OBVIOUS
  <1>9. IsNum(g)
    BY <1>6, <1>8
  <1>10. g[1] = 0 /\ g[2] = g[2 - 1] * 10 + a2d(src[2 - 1])
    BY <1>9
  <1>11. g[2] = w
    <2>1. a2d(src[1]) = w
      BY DecimalValue
    <2>2. 2 - 1 = 1 /\ 0 * 10 + w = w
      OBVIOUS
    <2> QED
      BY <1>10, <2>1, <2>2
  <1>12. Tail(src) = SubSeq(src, 2, Len(src))
    <2>1. src # <<>>
      OBVIOUS
    <2> QED
      BY <2>1, TailIsSubSeq
  <1> QED
    BY <1>7, <1>8, <1>11, <1>12, SMTT(30)
-----------------------------------------------------------------------------
(* The kinds of fields *)
Lits == [lit : STRING \ {NUL, "%"}]
Chars == [ch : {"c"}, w : 0..9, lz : {0, 1}, arg : STRING \ {NUL}]
Strings == [ch : {"s"}, w : 0..9, lz : {0, 1}, arg : Seq(STRING \ {NUL})]
Others ==
    [ch : STRING \ (DigitChars \cup {"d", "u", "x", "X", "c", "s"}), w : 0..9, lz : {0, 1}]
Conversions == Ints \cup Unsigned \cup Chars \cup Strings \cup Others

(* These are the fields CallsAssumption allows. *)
LEMMA FieldKinds == Fields = Lits \cup Conversions
  BY DEF Fields, Lits, Conversions, Ints, Unsigned, Chars, Strings, Others, DigitChars

(* What the conversions have in common. *)
LEMMA ConversionParts ==
    ASSUME NEW f \in Conversions
    PROVE  /\ "lit" \notin DOMAIN f
           /\ f.w \in 0..9 /\ f.lz \in {0, 1}
           /\ f.ch \in Char /\ f.ch \notin DigitChars
  <1>1. "lit" \notin DOMAIN f /\ f.w \in 0..9 /\ f.lz \in {0, 1}
    BY DEF Conversions, Ints, Unsigned, Chars, Strings, Others
  <1>2. \/ f.ch \in {"d", "u", "x", "X", "c", "s"}
        \/ f.ch \in STRING /\ f.ch \notin DigitChars
    BY DEF Conversions, Ints, Unsigned, Chars, Strings, Others
  <1>3. f.ch \in Char /\ f.ch \notin DigitChars
    BY <1>2 DEF Char, DigitChars
  <1> QED
    BY <1>1, <1>3

(* What is known of a sequence with one more element in front. *)
LEMMA ConsParts ==
    ASSUME NEW S, NEW e \in S, NEW s \in Seq(S)
    PROVE  /\ Cons(e, s) \in Seq(S) /\ Cons(e, s) # <<>>
           /\ Head(Cons(e, s)) = e /\ Tail(Cons(e, s)) = s
           /\ Len(Cons(e, s)) = Len(s) + 1 /\ Cons(e, s)[1] = e
           /\ Len(s) >= 1 => Cons(e, s)[2] = s[1]
  <1>1. PICK x \in Seq(S) : x = <<e>>
    <2>1. <<e>> \in Seq(S)
      OBVIOUS
    <2> QED
      BY <2>1
  <1>2. Len(x) = 1 /\ x[1] = e
    BY <1>1
  <1>3. /\ x \o s \in Seq(S) /\ Len(x \o s) = Len(s) + 1
        /\ \A i \in 1..(Len(s) + 1) : (x \o s)[i] = IF i <= 1 THEN x[i] ELSE s[i - 1]
    <2>1. /\ x \o s \in Seq(S) /\ Len(x \o s) = Len(x) + Len(s)
          /\ \A i \in 1..(Len(x) + Len(s)) : (x \o s)[i] = IF i <= Len(x) THEN x[i] ELSE s[i - Len(x)]
      BY ConcatProperties
    <2>2. Len(x) + Len(s) = Len(s) + 1
      BY <1>2
    <2> QED
      BY <1>2, <2>1, <2>2
  <1>4. PICK u \in Seq(S) : u = x \o s
    BY <1>3
  <1>5. Len(u) = Len(s) + 1 /\ u[1] = e /\ \A i \in 1..Len(s) : u[i + 1] = s[i]
    BY <1>2, <1>3, <1>4
  <1>6. u # <<>> /\ Head(u) = e /\ Tail(u) \in Seq(S) /\ Len(Tail(u)) = Len(s)
        /\ \A i \in 1..Len(s) : Tail(u)[i] = u[i + 1]
    BY <1>5
  <1>7. Tail(u) = s
    BY <1>5, <1>6, SeqEqual
  <1>8. u = Cons(e, s)
    BY <1>1, <1>4 DEF Cons
  <1> QED
    <2>1. /\ u \in Seq(S) /\ u # <<>> /\ Head(u) = e /\ Tail(u) = s
          /\ Len(u) = Len(s) + 1 /\ u[1] = e /\ (Len(s) >= 1 => u[2] = s[1])
      <3>1. Len(s) >= 1 => 1 \in 1..Len(s) /\ 1 + 1 = 2
        OBVIOUS
      <3> QED
        BY <1>5, <1>6, <1>7, <3>1
    <2> QED
      BY <1>8, <2>1

(* Concatenation, with its definition hidden *)
Join(x, y) == x \o y

(* Concatenation is associative. *)
LEMMA JoinLaws ==
    ASSUME NEW S, NEW x \in Seq(S), NEW y \in Seq(S)
    PROVE  /\ Join(x, y) \in Seq(S)
           /\ \A z \in Seq(S) : Join(Join(x, y), z) = Join(x, Join(y, z))
  BY ConcatAssociative DEF Join

(* A width that is not 0 does not begin like the flag for zeros. *)
LEMMA DecimalChars == \A w \in 0..9 : Decimal[w + 1] \in Char /\ (w # 0 => Decimal[w + 1] # "0")
  <1> TAKE w \in 0..9
  <1>1. Decimal[w + 1] = LowerIs[w + 1] /\ w + 1 \in 1..16
    BY DEF Decimal, LowerIs
  <1>2. Decimal[w + 1] \in Char
    BY <1>1, AlphabetsAre DEF Char
  <1>3. w # 0 => Decimal[w + 1] # "0"
    BY DEF Decimal
  <1> QED
    BY <1>2, <1>3

(* The part of Directive that reads the width. *)
Width(src) ==
    IF \E i \in DOMAIN Decimal : Head(src) = Decimal[i]
    THEN a2i(src, 10)
    ELSE [num |-> 0, rest |-> src]

(* A width is written unless it is 0. *)
Sized(w, text) == (IF w = 0 THEN <<>> ELSE <<Decimal[w + 1]>>) \o text

(* src is read as the width w and the conversion ch, with rest after it. *)
ReadAs(src, w, ch, rest) ==
    /\ src \in Seq(Char) /\ src # <<>> /\ Head(src) # "0"
    /\ Width(src).num = w /\ Head(Width(src).rest) = ch /\ Tail(Width(src).rest) = rest

(* A width, or none, in front of the conversion *)
LEMMA ReadWidth ==
    ASSUME NEW w \in 0..9, NEW ch \in Char, ch \notin DigitChars, NEW rest \in Seq(Char)
    PROVE  ReadAs(Sized(w, Cons(ch, rest)), w, ch, rest)
  <1>s. PICK src : src = Sized(w, Cons(ch, rest))
    OBVIOUS
  <1>0. DOMAIN Decimal = 1..10
    BY DEF Decimal
  <1>1. PICK t \in Seq(Char) : t = Cons(ch, rest)
    <2>1. Cons(ch, rest) \in Seq(Char)
      BY ConsParts
    <2> QED
      BY <2>1
  <1>2. t # <<>> /\ Head(t) = ch /\ Tail(t) = rest /\ t[1] = ch /\ Len(t) = Len(rest) + 1
    BY <1>1, ConsParts, ZenonT(40)
  <1>3. CASE w = 0
    <2>1. src = t
      BY <1>s, <1>1, <1>3, ConcatEmptySeq DEF Sized
    <2>2. \A i \in 1..10 : ch # Decimal[i]
      BY NoDigit
    <2>3. Width(src) = [num |-> 0, rest |-> src]
      BY <1>0, <1>2, <2>1, <2>2 DEF Width
    <2>4. ch # "0"
      BY DEF DigitChars
    <2> QED
      BY <1>s, <1>2, <1>3, <2>1, <2>3, <2>4 DEF ReadAs
  <1>4. CASE w # 0
    <2>1. PICK d \in Char : d = Decimal[w + 1] /\ d # "0"
      BY <1>4, DecimalChars
    <2>2. src = Cons(d, t)
      BY <1>s, <1>1, <1>4, <2>1 DEF Cons, Sized
    <2>3. /\ Cons(d, t) \in Seq(Char) /\ Cons(d, t) # <<>>
          /\ Head(Cons(d, t)) = d /\ Tail(Cons(d, t)) = t
          /\ Len(Cons(d, t)) = Len(t) + 1 /\ Cons(d, t)[1] = d
          /\ Len(t) >= 1 => Cons(d, t)[2] = t[1]
      BY ConsParts
    <2>4. src \in Seq(Char) /\ src # <<>> /\ Head(src) = d /\ Tail(src) = t /\ src[1] = d
      BY <2>2, <2>3
    <2>5. Len(src) >= 2 /\ src[2] = ch
      <3>1. Len(t) >= 1 /\ Len(t) \in Nat
        BY <1>2
      <3>2. src[2] = t[1] /\ Len(src) = Len(t) + 1
        BY <2>2, <2>3, <3>1
      <3> QED
        BY <1>2, <3>1, <3>2
    <2>6. a2i(src, 10).num = w /\ a2i(src, 10).rest = t
      <3>1. src[1] = Decimal[w + 1]
        BY <2>1, <2>4
      <3>2. a2i(src, 10).num = w /\ a2i(src, 10).rest = Tail(src)
        BY <2>4, <2>5, <3>1, WidthRead, ZenonT(30)
      <3> QED
        BY <2>4, <3>2
    <2>7. Width(src) = a2i(src, 10)
      <3>1. w + 1 \in 1..10
        OBVIOUS
      <3> QED
        BY <1>0, <2>1, <2>4, <3>1 DEF Width
    <2> QED
      BY <1>s, <1>2, <2>1, <2>4, <2>6, <2>7 DEF ReadAs
  <1> QED
    BY <1>3, <1>4

(* tfp_format reads a conversion as it was written. *)
LEMMA DirectiveReads ==
    ASSUME NEW f \in Conversions, NEW rest \in Seq(Char)
    PROVE  /\ Written(f) \in Seq(Char)
           /\ Written(f) \o rest # <<>> /\ Head(Written(f) \o rest) = "%"
           /\ Directive(Tail(Written(f) \o rest)) =
                [lz |-> f.lz, w |-> f.w, ch |-> f.ch, rest |-> rest]
  <1>1. /\ "lit" \notin DOMAIN f /\ f.w \in 0..9 /\ f.lz \in {0, 1}
        /\ f.ch \in Char /\ f.ch \notin DigitChars
    BY ConversionParts
  <1>2. "%" \in Char /\ "0" \in Char
    BY DEF Char
  <1>3. PICK p \in Seq(Char) : p = <<"%">>
    <2>1. <<"%">> \in Seq(Char)
      BY <1>2
    <2> QED
      BY <2>1
  <1>4. PICK z \in Seq(Char) : z = IF f.lz = 1 THEN <<"0">> ELSE <<>>
    <2>1. <<"0">> \in Seq(Char) /\ <<>> \in Seq(Char)
      BY <1>2
    <2> QED
      BY <2>1
  <1>5. PICK d \in Seq(Char) : d = IF f.w = 0 THEN <<>> ELSE <<Decimal[f.w + 1]>>
    <2>1. <<Decimal[f.w + 1]>> \in Seq(Char) /\ <<>> \in Seq(Char)
      BY <1>1, DecimalChars
    <2> QED
      BY <2>1
  <1>6. PICK c \in Seq(Char) : c = <<f.ch>>
    <2>1. <<f.ch>> \in Seq(Char)
      BY <1>1
    <2> QED
      BY <2>1
  <1>7. Written(f) = Join(Join(Join(p, z), d), c)
    BY <1>1, <1>3, <1>4, <1>5, <1>6 DEF Written, Join
  <1>9. /\ Join(Join(Join(Join(p, z), d), c), rest) = Join(p, Join(z, Join(d, Join(c, rest))))
        /\ Join(Join(Join(p, z), d), c) \in Seq(Char)
        /\ Join(z, Join(d, Join(c, rest))) \in Seq(Char) /\ Join(d, Join(c, rest)) \in Seq(Char)
    <2>1. /\ Join(p, z) \in Seq(Char) /\ Join(Join(p, z), d) \in Seq(Char)
          /\ Join(Join(Join(p, z), d), c) \in Seq(Char)
      BY JoinLaws
    <2>2. Join(c, rest) \in Seq(Char) /\ Join(d, Join(c, rest)) \in Seq(Char)
          /\ Join(z, Join(d, Join(c, rest))) \in Seq(Char)
      BY JoinLaws
    <2>3. Join(Join(Join(Join(p, z), d), c), rest) = Join(Join(Join(p, z), d), Join(c, rest))
      BY <2>1, <2>2, JoinLaws
    <2>4. Join(Join(Join(p, z), d), Join(c, rest)) = Join(Join(p, z), Join(d, Join(c, rest)))
      BY <2>1, <2>2, JoinLaws
    <2>5. Join(Join(p, z), Join(d, Join(c, rest))) = Join(p, Join(z, Join(d, Join(c, rest))))
      BY <2>1, <2>2, JoinLaws
    <2> QED
      BY <2>1, <2>2, <2>3, <2>4, <2>5
  <1>8. Written(f) \in Seq(Char)
    BY <1>7, <1>9
  <1>10. PICK src \in Seq(Char) : src = Join(d, Join(c, rest))
    BY <1>9
  <1>11. /\ src # <<>> /\ Head(src) # "0"
         /\ Width(src).num = f.w /\ Head(Width(src).rest) = f.ch /\ Tail(Width(src).rest) = rest
    <2>1. src = Sized(f.w, Cons(f.ch, rest))
      BY <1>5, <1>6, <1>10 DEF Sized, Cons, Join
    <2>2. PICK w \in 0..9, ch \in Char : w = f.w /\ ch = f.ch
      BY <1>1
    <2>3. ch \notin DigitChars
      BY <1>1, <2>2
    <2>4. ReadAs(Sized(w, Cons(ch, rest)), w, ch, rest)
      BY <2>3, ReadWidth
    <2> QED
      BY <2>1, <2>2, <2>4 DEF ReadAs
  <1>12. PICK t \in Seq(Char) : t = Join(z, src)
    BY <1>9, <1>10
  <1>13. Written(f) \o rest = Cons("%", t)
    <2>1. Join(Written(f), rest) = Join(p, t)
      BY <1>7, <1>9, <1>10, <1>12
    <2> QED
      BY <1>3, <2>1 DEF Cons, Join
  <1>14. /\ Written(f) \o rest # <<>> /\ Head(Written(f) \o rest) = "%"
         /\ Tail(Written(f) \o rest) = t
    BY <1>2, <1>13, ConsParts
  <1>15. Directive(t) = [lz |-> f.lz, w |-> f.w, ch |-> f.ch, rest |-> rest]
    <2>1. CASE f.lz = 1
      <3>1. t = Cons("0", src)
        BY <1>4, <1>12, <2>1 DEF Cons, Join
      <3>2. Head(t) = "0" /\ Tail(t) = src
        <4>1. PICK zero \in Char : zero = "0"
          BY <1>2
        <4>2. Head(Cons(zero, src)) = zero /\ Tail(Cons(zero, src)) = src
          BY ConsParts
        <4> QED
          BY <3>1, <4>1, <4>2
      <3>3. Directive(t) = [lz |-> 1, w |-> Width(src).num,
                            ch |-> Head(Width(src).rest), rest |-> Tail(Width(src).rest)]
        BY <3>2 DEF Directive, Width
      <3> QED
        BY <1>11, <2>1, <3>3
    <2>2. CASE f.lz = 0
      <3>1. t = src
        BY <1>4, <1>12, <2>2, ConcatEmptySeq DEF Join
      <3>2. Directive(t) = [lz |-> 0, w |-> Width(src).num,
                            ch |-> Head(Width(src).rest), rest |-> Tail(Width(src).rest)]
        BY <1>11, <3>1 DEF Directive, Width
      <3> QED
        BY <1>11, <2>2, <3>2
    <2> QED
      BY <1>1, <2>1, <2>2
  <1> QED
    BY <1>8, <1>14, <1>15
-----------------------------------------------------------------------------
(* What the other fields are to look like *)

(* A width of 0 pads nothing. *)
LEMMA NoPadding ==
    ASSUME NEW t \in Seq(Char), NEW x
    PROVE  [i \in 1..(0 - Len(t)) |-> x] \o t = t
  <1>1. 1..(0 - Len(t)) = 1..0
    <2>1. Len(t) \in Nat
      OBVIOUS
    <2> QED
      BY <2>1
  <1>2. [i \in 1..0 |-> x] \in Seq(Char) /\ [i \in 1..0 |-> x] = <<>>
    <2>1. [i \in 1..0 |-> x] \in [1..0 -> Char] /\ 0 \in Nat
      OBVIOUS
    <2>2. [i \in 1..0 |-> x] \in Seq(Char)
      BY <2>1, SeqDef
    <2>3. Len([i \in 1..0 |-> x]) = 0
      BY <2>1, <2>2
    <2> QED
      BY <2>2, <2>3, EmptySeq
  <1> QED
    BY <1>1, <1>2, ConcatEmptySeq

(* A literal character is written and shown as it is. *)
LEMMA RenderedLit ==
    ASSUME NEW f \in Lits
    PROVE  /\ Rendered(f) = <<f.lit>> /\ Written(f) = <<f.lit>> /\ <<f.lit>> \in Seq(Char)
           /\ f.lit \in Char /\ f.lit \notin {NUL, "%"}
           /\ "ch" \notin DOMAIN f /\ "arg" \notin DOMAIN f
  <1>1. /\ "lit" \in DOMAIN f /\ f.lit \in STRING /\ f.lit \notin {NUL, "%"}
        /\ "ch" \notin DOMAIN f /\ "arg" \notin DOMAIN f
    BY DEF Lits
  <1>2. f.lit \in Char
    BY <1>1 DEF Char
  <1> QED
    BY <1>1, <1>2 DEF Rendered, Written

(* %c shows its argument. *)
LEMMA RenderedChar ==
    ASSUME NEW f \in Chars
    PROVE  /\ Rendered(f) = <<f.arg>> /\ <<f.arg>> \in Seq(Char)
           /\ f.ch = "c" /\ "arg" \in DOMAIN f /\ "ch" \in DOMAIN f /\ f.arg \in STRING
  <1>1. /\ "lit" \notin DOMAIN f /\ "arg" \in DOMAIN f /\ "ch" \in DOMAIN f
        /\ f.ch = "c" /\ f.arg \in STRING
    BY DEF Chars
  <1>2. f.arg \in Char
    BY <1>1 DEF Char
  <1>3. <<f.arg>> \in Seq(Char)
    BY <1>2
  <1>4. PICK fill : Rendered(f) = [i \in 1..(0 - Len(<<f.arg>>)) |-> fill] \o <<f.arg>>
    BY <1>1 DEF Rendered
  <1> QED
    BY <1>1, <1>3, <1>4, NoPadding

(* %s shows its argument, padded with blanks. *)
LEMMA RenderedString ==
    ASSUME NEW f \in Strings
    PROVE  /\ Rendered(f) = putchw(f.w, 0, f.arg) /\ Rendered(f) \in Seq(Char)
           /\ f.ch = "s" /\ "arg" \in DOMAIN f /\ "ch" \in DOMAIN f /\ f.arg \in Seq(STRING)
  <1>1. /\ "lit" \notin DOMAIN f /\ "arg" \in DOMAIN f /\ "ch" \in DOMAIN f
        /\ f.ch = "s" /\ f.arg \in Seq(STRING \ {NUL}) /\ f.w \in 0..9
    BY DEF Strings
  <1>2. PICK t \in Seq(STRING \ {NUL}) : t = f.arg
    BY <1>1
  <1>3. STRING \ {NUL} \subseteq STRING /\ STRING \ {NUL} \subseteq Char
    BY DEF Char
  <1>4. t \in Seq(STRING) /\ t \in Seq(Char)
    BY <1>3, SeqMonotonic
  <1>5. Rendered(f) = putchw(f.w, 0, f.arg)
    <2>1. Rendered(f) = [i \in 1..(f.w - Len(f.arg)) |-> " "] \o f.arg
      BY <1>1 DEF Rendered
    <2>2. putchw(f.w, 0, f.arg) = [i \in 1..(f.w - Len(f.arg)) |-> " "] \o f.arg
      <3>1. 0 # 1
        OBVIOUS
      <3> QED
        BY <3>1 DEF putchw
    <2> QED
      BY <2>1, <2>2
  <1>6. putchw(f.w, 0, t) \in Seq(Char)
    BY <1>1, <1>4, Padded
  <1> QED
    BY <1>1, <1>2, <1>4, <1>5, <1>6

(* %% shows a percent sign; any other conversion is ignored. *)
LEMMA RenderedOther ==
    ASSUME NEW f \in Others
    PROVE  /\ f.ch = "%" => Rendered(f) = <<"%">>
           /\ f.ch # "%" => Rendered(f) = <<>>
           /\ Rendered(f) \in Seq(Char)
           /\ f.ch \notin {"u", "d", "x", "X", "c", "s"}
           /\ "arg" \notin DOMAIN f /\ "ch" \in DOMAIN f
  <1>1. /\ "lit" \notin DOMAIN f /\ "arg" \notin DOMAIN f /\ "ch" \in DOMAIN f
        /\ f.ch \notin {"u", "d", "x", "X", "c", "s"}
    BY DEF Others
  <1>2. <<"%">> \in Seq(Char) /\ <<>> \in Seq(Char)
    BY DEF Char
  <1>3. CASE f.ch = "%"
    <2>1. PICK fill : Rendered(f) = [i \in 1..(0 - Len(<<"%">>)) |-> fill] \o <<"%">>
      BY <1>1, <1>3 DEF Rendered
    <2>2. Rendered(f) = <<"%">>
      BY <1>2, <2>1, NoPadding
    <2> QED
      BY <1>1, <1>2, <1>3, <2>2
  <1>4. CASE f.ch # "%"
    <2>1. PICK fill : Rendered(f) = [i \in 1..(0 - Len(<<>>)) |-> fill] \o <<>>
      BY <1>1, <1>4 DEF Rendered
    <2>2. Rendered(f) = <<>>
      BY <1>2, <2>1, NoPadding
    <2> QED
      BY <1>1, <1>2, <1>4, <2>2
  <1> QED
    BY <1>3, <1>4

(* What the callers pass, and what one field takes of it. *)
Values == Int \cup STRING \cup Seq(STRING)
Argument(f) == IF "arg" \in DOMAIN f THEN <<f.arg>> ELSE <<>>

(* Each field has a format, a text and at most one argument. *)
LEMMA FieldTypes ==
    ASSUME NEW f \in Fields
    PROVE  /\ Written(f) \in Seq(Char)
           /\ Rendered(f) \in Seq(Char)
           /\ Argument(f) \in Seq(Values)
  <1>1. CASE f \in Lits
    <2>1. Argument(f) = <<>>
      BY <1>1, RenderedLit DEF Argument
    <2>2. Written(f) \in Seq(Char) /\ Rendered(f) \in Seq(Char)
      BY <1>1, RenderedLit
    <2>3. <<>> \in Seq(Values)
      BY EmptySeq
    <2> QED
      BY <2>1, <2>2, <2>3
  <1>2. CASE f \in Conversions
    <2>1. Written(f) \in Seq(Char)
      <3>1. <<>> \in Seq(Char)
        OBVIOUS
      <3> QED
        BY <1>2, <3>1, DirectiveReads
    <2>2. CASE f \in Ints \cup Unsigned
      <3>1. "arg" \in DOMAIN f /\ f.arg \in Int
        <4>1. \A n \in (-(Word \div 2))..(Word \div 2 - 1) : n \in Int
          BY Half
        <4> QED
          BY <2>2, <4>1 DEF Ints, Unsigned
      <3>2. f.arg \in Values
        BY <3>1 DEF Values
      <3>3. Argument(f) \in Seq(Values)
        BY <3>1, <3>2 DEF Argument
      <3> QED
        BY <2>1, <2>2, <3>3, RenderedNumber
    <2>3. CASE f \in Chars
      <3>1. "arg" \in DOMAIN f /\ f.arg \in Values
        BY <2>3, RenderedChar DEF Values
      <3>2. Argument(f) \in Seq(Values)
        BY <3>1 DEF Argument
      <3> QED
        BY <2>1, <2>3, <3>2, RenderedChar
    <2>4. CASE f \in Strings
      <3>1. "arg" \in DOMAIN f /\ f.arg \in Values
        BY <2>4, RenderedString DEF Values
      <3>2. Argument(f) \in Seq(Values)
        BY <3>1 DEF Argument
      <3> QED
        BY <2>1, <2>4, <3>2, RenderedString
    <2>5. CASE f \in Others
      <3>1. Argument(f) = <<>>
        BY <2>5, RenderedOther DEF Argument
      <3> QED
        BY <2>1, <2>5, <3>1, RenderedOther
    <2> QED
      BY <1>2, <2>2, <2>3, <2>4, <2>5 DEF Conversions
  <1> QED
    BY <1>1, <1>2, FieldKinds
-----------------------------------------------------------------------------
(* Formats, arguments and messages, field by field *)

(* The operators on fields as functions, so that Flat can take them. *)
WrittenOf == [f \in Fields |-> Written(f)]
RenderedOf == [f \in Fields |-> Rendered(f)]
ArgumentOf == [f \in Fields |-> Argument(f)]

(* These functions give sequences. *)
LEMMA FieldTexts ==
    /\ Texts(WrittenOf, Fields, Char)
    /\ Texts(RenderedOf, Fields, Char)
    /\ Texts(ArgumentOf, Fields, Values)
    /\ \A f \in Fields : /\ WrittenOf[f] = Written(f) /\ RenderedOf[f] = Rendered(f)
                         /\ ArgumentOf[f] = Argument(f)
  BY FieldTypes DEF Texts, WrittenOf, RenderedOf, ArgumentOf

(* Format, Expected and Arguments put the parts of the fields together. *)
LEMMA FlatFields ==
    ASSUME NEW fs \in Seq(Fields)
    PROVE  /\ Format(fs) = Flat(WrittenOf, fs) \o <<NUL>>
           /\ Expected(fs) = Flat(RenderedOf, fs)
           /\ Arguments(fs) = Flat(ArgumentOf, fs)
  <1>1. \A i \in DOMAIN fs : fs[i] \in Fields
    OBVIOUS
  <1>2. Map(WrittenOf, fs) = [i \in DOMAIN fs |-> Written(fs[i])]
    BY <1>1, FieldTexts DEF Map
  <1>3. Map(RenderedOf, fs) = [i \in DOMAIN fs |-> Rendered(fs[i])]
    BY <1>1, FieldTexts DEF Map
  <1>4. Map(ArgumentOf, fs) =
          [i \in DOMAIN fs |-> IF "arg" \in DOMAIN fs[i] THEN <<fs[i].arg>> ELSE <<>>]
    BY <1>1, FieldTexts DEF Map, Argument
  <1> QED
    BY <1>2, <1>3, <1>4 DEF Flat, Format, Expected, Arguments

(* A format is a text. *)
LEMMA FormatType ==
    ASSUME NEW fs \in Seq(Fields)
    PROVE  Format(fs) \in Seq(Char)
  <1>1. Flat(WrittenOf, fs) \in Seq(Char)
    BY FieldTexts, FlatType
  <1>2. <<NUL>> \in Seq(Char)
    BY DEF Char
  <1>3. Flat(WrittenOf, fs) \o <<NUL>> \in Seq(Char)
    BY <1>1, <1>2, ConcatProperties
  <1> QED
    BY <1>3, FlatFields

(* The format of no fields is the terminating NUL. *)
LEMMA FormatEmpty == Format(<<>>) = <<NUL>>
  <1>1. PICK e \in Seq(Fields) : e = <<>>
    BY EmptySeq
  <1>2. Flat(WrittenOf, <<>>) = <<>>
    BY FieldTexts, FlatEmpty
  <1>3. Format(e) = Flat(WrittenOf, e) \o <<NUL>>
    BY FlatFields
  <1>4. <<NUL>> \in Seq({NUL})
    OBVIOUS
  <1>5. <<>> \o <<NUL>> = <<NUL>>
    BY <1>4, ConcatEmptySeq
  <1> QED
    BY <1>1, <1>2, <1>3, <1>5

(* A format begins with its first field. *)
LEMMA FormatFirst ==
    ASSUME NEW f \in Fields, NEW rest \in Seq(Fields)
    PROVE  Format(Cons(f, rest)) = Written(f) \o Format(rest)
  <1>1. PICK fs \in Seq(Fields) : fs = Cons(f, rest)
    BY ConsParts
  <1>2. Flat(WrittenOf, Cons(f, rest)) = WrittenOf[f] \o Flat(WrittenOf, rest)
    <2>1. Texts(WrittenOf, Fields, Char)
      BY FieldTexts
    <2> QED
      BY <2>1, FlatFirst
  <1>3. Flat(WrittenOf, fs) = Written(f) \o Flat(WrittenOf, rest)
    BY <1>1, <1>2, FieldTexts
  <1>4. /\ Format(fs) = Flat(WrittenOf, fs) \o <<NUL>>
        /\ Format(rest) = Flat(WrittenOf, rest) \o <<NUL>>
    BY FlatFields
  <1>5. Flat(WrittenOf, rest) \in Seq(Char) /\ Written(f) \in Seq(Char) /\ <<NUL>> \in Seq(Char)
    <2>1. Flat(WrittenOf, rest) \in Seq(Char)
      BY FieldTexts, FlatType
    <2>2. <<NUL>> \in Seq(Char)
      BY DEF Char
    <2> QED
      BY <2>1, <2>2, FieldTypes
  <1>6. PICK x \in Seq(Char), y \in Seq(Char), z \in Seq(Char) :
          x = Written(f) /\ y = Flat(WrittenOf, rest) /\ z = <<NUL>>
    BY <1>5
  <1>7. (x \o y) \o z = x \o (y \o z)
    BY ConcatAssociative
  <1> QED
    BY <1>1, <1>3, <1>4, <1>6, <1>7

(* The arguments begin with the one of the first field, if it has one. *)
LEMMA ArgumentsFirst ==
    ASSUME NEW f \in Fields, NEW rest \in Seq(Fields)
    PROVE  /\ Arguments(rest) \in Seq(Values)
           /\ "arg" \in DOMAIN f => /\ f.arg \in Values
                                    /\ Arguments(Cons(f, rest)) = Cons(f.arg, Arguments(rest))
           /\ "arg" \notin DOMAIN f => Arguments(Cons(f, rest)) = Arguments(rest)
  <1>1. PICK fs \in Seq(Fields) : fs = Cons(f, rest)
    BY ConsParts
  <1>2. Flat(ArgumentOf, Cons(f, rest)) = ArgumentOf[f] \o Flat(ArgumentOf, rest)
    <2>1. Texts(ArgumentOf, Fields, Values)
      BY FieldTexts
    <2> QED
      BY <2>1, FlatFirst
  <1>3. Flat(ArgumentOf, rest) \in Seq(Values) /\ Argument(f) \in Seq(Values)
    BY FieldTexts, FlatType, FieldTypes
  <1>4. Arguments(fs) = Flat(ArgumentOf, fs) /\ Arguments(rest) = Flat(ArgumentOf, rest)
    BY FlatFields
  <1>5. Arguments(fs) = Argument(f) \o Arguments(rest)
    BY <1>1, <1>2, <1>4, FieldTexts
  <1>6. CASE "arg" \in DOMAIN f
    <2>1. Argument(f) = <<f.arg>>
      BY <1>6 DEF Argument
    <2>2. f.arg \in Values
      <3>1. 1 \in 1..Len(<<f.arg>>) /\ <<f.arg>>[1] = f.arg
        OBVIOUS
      <3>2. <<f.arg>> \in Seq(Values)
        BY <1>3, <2>1
      <3> QED
        BY <3>1, <3>2, ElementOfSeq
    <2> QED
      BY <1>1, <1>3, <1>4, <1>5, <1>6, <2>1, <2>2 DEF Cons
  <1>7. CASE "arg" \notin DOMAIN f
    <2>1. Argument(f) = <<>>
      BY <1>7 DEF Argument
    <2>2. <<>> \o Arguments(rest) = Arguments(rest)
      BY <1>3, <1>4, ConcatEmptySeq
    <2> QED
      BY <1>1, <1>3, <1>4, <1>5, <1>7, <2>1, <2>2
  <1> QED
    BY <1>6, <1>7

(* A message is a text. *)
LEMMA ExpectedType ==
    ASSUME NEW fs \in Seq(Fields)
    PROVE  Expected(fs) \in Seq(Char)
  BY FieldTexts, FlatType, FlatFields

(* The message of no fields is empty. *)
LEMMA ExpectedEmpty == Expected(<<>>) = <<>>
  <1>1. PICK e \in Seq(Fields) : e = <<>>
    BY EmptySeq
  <1>2. Expected(e) = Flat(RenderedOf, e)
    BY FlatFields
  <1>3. Flat(RenderedOf, <<>>) = <<>>
    BY FieldTexts, FlatEmpty
  <1> QED
    BY <1>1, <1>2, <1>3

(* A last field adds its text to the message. *)
LEMMA ExpectedLast ==
    ASSUME NEW fs \in Seq(Fields), NEW f \in Fields
    PROVE  Expected(Append(fs, f)) = Expected(fs) \o Rendered(f)
  <1>1. PICK gs \in Seq(Fields) : gs = Append(fs, f)
    BY AppendProperties
  <1>2. Expected(gs) = Flat(RenderedOf, gs) /\ Expected(fs) = Flat(RenderedOf, fs)
    BY FlatFields
  <1>3. Flat(RenderedOf, Append(fs, f)) = Flat(RenderedOf, fs) \o RenderedOf[f]
    BY FieldTexts, FlatLast
  <1> QED
    BY <1>1, <1>2, <1>3, FieldTexts

(* The fields done and the fields to do make up the message. *)
LEMMA ExpectedConcat ==
    ASSUME NEW fs \in Seq(Fields), NEW gs \in Seq(Fields)
    PROVE  Expected(fs \o gs) = Expected(fs) \o Expected(gs)
  <1>1. PICK hs \in Seq(Fields) : hs = fs \o gs
    BY ConcatProperties
  <1>2. /\ Expected(hs) = Flat(RenderedOf, hs) /\ Expected(fs) = Flat(RenderedOf, fs)
        /\ Expected(gs) = Flat(RenderedOf, gs)
    BY FlatFields
  <1>3. Flat(RenderedOf, fs \o gs) = Flat(RenderedOf, fs) \o Flat(RenderedOf, gs)
    <2>1. Texts(RenderedOf, Fields, Char)
      BY FieldTexts
    <2> QED
      BY <2>1, FlatConcat
  <1> QED
    BY <1>1, <1>2, <1>3

(* The messages of the calls that have returned *)
Before(p) == FlattenSeq([i \in DOMAIN p |-> Expected(p[i])])
ExpectedOf == [fields \in Calls |-> Expected(fields)]

(* The messages of a sequence of calls, as Flat gives them. *)
LEMMA CallTexts ==
    /\ Texts(ExpectedOf, Calls, Char)
    /\ \A p \in Seq(Calls) : Before(p) = Flat(ExpectedOf, p)
  <1>1. \A fields \in Calls : Expected(fields) \in Seq(Char)
    BY CallsAssumption, ExpectedType
  <1>2. ASSUME NEW p \in Seq(Calls) PROVE Before(p) = Flat(ExpectedOf, p)
    <2>1. \A i \in DOMAIN p : p[i] \in Calls
      OBVIOUS
    <2>2. Map(ExpectedOf, p) = [i \in DOMAIN p |-> Expected(p[i])]
      BY <2>1 DEF Map, ExpectedOf
    <2> QED
      BY <2>2 DEF Flat, Before
  <1> QED
    BY <1>1, <1>2 DEF Texts, ExpectedOf

(* A call that returns adds its message. *)
LEMMA BeforeProperties ==
    ASSUME NEW p \in Seq(Calls), NEW fields \in Calls
    PROVE  /\ Before(p) \in Seq(Char)
           /\ Before(Append(p, fields)) = Before(p) \o Expected(fields)
  <1>1. PICK q \in Seq(Calls) : q = Append(p, fields)
    BY AppendProperties
  <1>2. Before(p) = Flat(ExpectedOf, p) /\ Before(q) = Flat(ExpectedOf, q)
    BY CallTexts
  <1>3. /\ Flat(ExpectedOf, p) \in Seq(Char)
        /\ Flat(ExpectedOf, Append(p, fields)) = Flat(ExpectedOf, p) \o ExpectedOf[fields]
    BY CallTexts, FlatType, FlatLast
  <1> QED
    BY <1>1, <1>2, <1>3 DEF ExpectedOf

(* No call, no message. *)
LEMMA BeforeEmpty == Before(<<>>) = <<>>
  <1>1. PICK q \in Seq(Calls) : q = <<>>
    BY EmptySeq
  <1>2. Before(q) = Flat(ExpectedOf, q)
    BY CallTexts
  <1>3. Flat(ExpectedOf, <<>>) = <<>>
    BY CallTexts, FlatEmpty
  <1> QED
    BY <1>1, <1>2, <1>3
-----------------------------------------------------------------------------
(* The invariant of the lock and of the registers *)

(* Where a core can be: inside printf with the lock held, starting the     *)
(* device, or running.                                                     *)
Printing == {"tfp_format", "muart_send", "io_reg"}
Starting == {"off", "muart_init", "init_printf"}
Running == {"idle", "acquire"} \cup Printing

(* The variables stay in their domains. *)
Types ==
    /\ regs \in [Gpio \cup Aux -> SUBSET Bits]
    /\ holders \in [{printflock} -> SUBSET Cores]
    /\ at \in [Cores -> Starting \cup Running]
    /\ call \in [Cores -> Calls \cup {<<>>}]
    /\ calls \in 0..MaxCalls
    /\ \E S : fifo \in Seq(S)
    /\ Len(fifo) <= Depth

(* muart_init runs while the other cores are off. *)
SetUpAlone ==
    at[Boot] \in {"muart_init", "init_printf"} => \A c \in Cores \ {Boot} : at[c] = "off"

(* A core between the acquire and the release is the only holder. *)
OneInside == \A c \in Cores : at[c] \in Printing => holders[printflock] = {c}

(* What muart_send has seen in the status register is still true when it   *)
(* writes the character: another core may not have filled the FIFO.        *)
RoomInFifo == \A c \in Cores : at[c] = "io_reg" => Len(fifo) < Depth

(* The invariant of the lock, the registers and the room in the FIFO. *)
IInv == Types /\ SetUpAlone /\ OneInside /\ RoomInFifo
-----------------------------------------------------------------------------
(* The registers *)

(* Each mask of muart_init has all its bits set. *)
LEMMA MaskedIsIdentity ==
    ASSUME NEW sel \in SUBSET Bits, NEW a, NEW b, a \cap b = {}
    PROVE  Masked(sel, a, b) = sel
  BY DEF Masked, Not

(* The bits muart_init shifts into place. *)
LEMMA PinBits ==
    /\ Shift({0, 1, 2}, 12) = {12, 13, 14} /\ Shift({0, 1, 2}, 15) = {15, 16, 17}
    /\ Shift({0, 1}, 30) = {30, 31} /\ Shift({0, 1}, 28) = {28, 29}
    /\ Shift({1}, 12) = {13} /\ Shift({1}, 15) = {16} /\ Shift({0, 1}, 1) = {1, 2}
  BY DEF Shift

(* What muart_init leaves in the registers of the pins *)
LEMMA PinRegisters ==
    ASSUME Types, MuartInit
    PROVE  /\ regs'["func_select"] = regs["func_select"] \cup {13, 16}
           /\ \A r \in Gpio \ {"func_select"} : regs'[r] = regs[r]
  <1>1. \A r \in Gpio : r \in DOMAIN regs /\ regs[r] \in SUBSET Bits
    BY DEF Types
  <1>2. regs'["func_select"] = Select(regs["func_select"])
    BY <1>1 DEF MuartInit, Programmed, Gpio, Detect
  <1>3. Select(regs["func_select"]) = regs["func_select"] \cup {13, 16}
    <2>1. Masked(regs["func_select"], {12, 13, 14}, {15, 16, 17}) = regs["func_select"]
      BY <1>1, MaskedIsIdentity DEF Gpio
    <2> QED
      BY <2>1, PinBits DEF Select
  <1>4. regs'["pup_pdwn_cntrl"] = regs["pup_pdwn_cntrl"]
    <2>1. regs'["pup_pdwn_cntrl"] = Masked(regs["pup_pdwn_cntrl"], {30, 31}, {28, 29})
      BY <1>1, PinBits DEF MuartInit, Programmed, Gpio, Detect
    <2> QED
      BY <1>1, <2>1, MaskedIsIdentity DEF Gpio
  <1>5. ASSUME NEW r \in Detect PROVE regs'[r] = regs[r]
    <2>1. r \in Gpio /\ r # "func_select" /\ r # "pup_pdwn_cntrl"
      BY DEF Detect, Gpio
    <2>2. regs'[r] = Masked(regs[r], {14}, {15})
      BY <1>1, <2>1 DEF MuartInit, Programmed, Detect
    <2> QED
      BY <1>1, <2>1, <2>2, MaskedIsIdentity
  <1> QED
    BY <1>2, <1>3, <1>4, <1>5 DEF Gpio
-----------------------------------------------------------------------------
(* The invariant *)

(* It holds at power on, *)
LEMMA InitInv == Init => IInv
  <1> SUFFICES ASSUME Init PROVE IInv
    OBVIOUS
  <1>1. fifo \in Seq({}) /\ Len(fifo) = 0 /\ 0 <= Depth
    BY ConsoleConstants DEF Init
  <1>2. Types
    BY <1>1, ConsoleConstants DEF Init, Types, Lock!Init, Starting, Running
  <1>3. \A c \in Cores : at[c] \notin Printing
    BY DEF Init, Printing
  <1> QED
    BY <1>2, <1>3 DEF Init, IInv, SetUpAlone, OneInside, RoomInFifo, Printing

(* muart_init keeps it, *)
LEMMA MuartInitInv ==
    ASSUME IInv, MuartInit
    PROVE  IInv'
  <1>1. regs' \in [Gpio \cup Aux -> SUBSET Bits]
    <2>1. DOMAIN regs = Gpio \cup Aux /\ \A r \in Gpio \cup Aux : regs[r] \subseteq Bits
      BY DEF IInv, Types
    <2>2. \A r \in Gpio : regs'[r] \in SUBSET Bits
      <3>1. {13, 16} \subseteq Bits
        BY DEF Bits
      <3> QED
        BY <2>1, <3>1, PinRegisters DEF IInv
    <2>3. ASSUME NEW r \in Aux PROVE regs'[r] \in SUBSET Bits
      <3>1. regs'[r] \in {{0}, {}, regs[r] \ Shift({0, 1}, 1), {0, 1}, {1, 2, 3, 8}}
        BY <2>1 DEF MuartInit, Programmed, Aux, Detect
      <3>2. {0} \subseteq Bits /\ {0, 1} \subseteq Bits /\ {1, 2, 3, 8} \subseteq Bits
        BY DEF Bits
      <3>3. regs[r] \ Shift({0, 1}, 1) \subseteq Bits
        BY <2>1
      <3> QED
        BY <3>1, <3>2, <3>3
    <2>4. regs' = [r \in Gpio \cup Aux |-> Programmed(r, regs[r])]
      BY <2>1 DEF MuartInit
    <2> QED
      BY <2>2, <2>3, <2>4
  <1> USE DEF MuartInit, Goto, uart, format
  <1>2. at' \in [Cores -> Starting \cup Running]
    BY ConsoleConstants DEF IInv, Types, Starting
  <1>3. Types'
    BY <1>1, <1>2 DEF IInv, Types
  <1> QED
    BY <1>2, <1>3, ConsoleConstants DEF IInv, Types, SetUpAlone, OneInside, RoomInFifo, Printing

(* A step that only moves a core on inside printf *)
LEMMA StepInv ==
    ASSUME IInv, NEW c \in Cores, NEW to \in {"tfp_format", "muart_send"},
           at[c] = "tfp_format", at' = [at EXCEPT ![c] = to],
           UNCHANGED <<regs, holders, call, uart, calls>>
    PROVE  IInv'
  <1>1. Types'
    BY DEF IInv, Types, uart, Running, Printing
  <1>2. SetUpAlone'
    BY ConsoleConstants DEF IInv, Types, SetUpAlone
  <1> QED
    BY <1>1, <1>2 DEF IInv, Types, OneInside, RoomInFifo, Printing, uart

(* every step keeps it, *)
LEMMA NextInv == IInv /\ [Next]_vars => IInv'
  <1> SUFFICES ASSUME IInv, [Next]_vars PROVE IInv'
    OBVIOUS
  <1>1. CASE MuartInit
    BY <1>1, MuartInitInv
  <1>2. CASE InitPrintf
    <2> USE <1>2 DEF InitPrintf, uart, format
    <2>1. Types'
      BY DEF IInv, Types, Running
    <2> QED
      BY <2>1, ConsoleConstants DEF IInv, SetUpAlone, OneInside, RoomInFifo, Printing
  <1>3. ASSUME NEW c \in Cores, NEW fields \in Calls, TfpPrintf(c, fields) PROVE IInv'
    <2> USE <1>3 DEF TfpPrintf, Goto, uart
    <2>1. calls' \in 0..MaxCalls
      BY ConsoleConstants DEF IInv, Types
    <2>2. Types'
      BY <2>1 DEF IInv, Types, Running
    <2>3. SetUpAlone'
      BY ConsoleConstants DEF IInv, Types, SetUpAlone
    <2> QED
      BY <2>2, <2>3 DEF IInv, Types, OneInside, RoomInFifo, Printing
  <1>4. ASSUME NEW c \in Cores, Acquire(c) PROVE IInv'
    <2> USE <1>4 DEF Acquire, Goto, uart, format, Lock!Take
    <2>1. holders[printflock] = {} /\ holders' \in [{printflock} -> SUBSET Cores]
          /\ holders'[printflock] = {c}
      BY DEF IInv, Types
    <2>2. Types'
      BY <2>1 DEF IInv, Types, Running, Printing
    <2>3. SetUpAlone'
      BY ConsoleConstants DEF IInv, Types, SetUpAlone
    <2>4. \A d \in Cores \ {c} : at'[d] \notin Printing
      BY <2>1 DEF IInv, Types, OneInside
    <2>5. OneInside' /\ RoomInFifo'
      BY <2>1, <2>4 DEF IInv, Types, OneInside, RoomInFifo, Printing
    <2> QED
      BY <2>2, <2>3, <2>5 DEF IInv
  <1>5. ASSUME NEW c \in Cores, Literal(c) \/ Number(c) \/ Text(c) PROVE IInv'
    <2>1. PICK text, rest, args : Put(c, text, rest, args)
      BY <1>5 DEF Literal, Number, Text
    <2> QED
      BY <2>1, StepInv DEF Put, Goto
  <1>6. ASSUME NEW c \in Cores, Release(c) PROVE IInv'
    <2> USE <1>6 DEF Release, Goto, uart, Lock!Give
    <2>1. holders[printflock] = {c} /\ holders' \in [{printflock} -> SUBSET Cores]
      BY DEF IInv, Types
    <2>2. Types'
      BY <2>1 DEF IInv, Types, Running
    <2>3. SetUpAlone'
      BY ConsoleConstants DEF IInv, Types, SetUpAlone
    <2>4. \A d \in Cores : at'[d] \notin Printing
      BY <2>1 DEF IInv, Types, OneInside, Printing
    <2> QED
      BY <2>2, <2>3, <2>4 DEF IInv, OneInside, RoomInFifo, Printing
  <1>7. ASSUME NEW c \in Cores, Poll(c) PROVE IInv'
    <2> USE <1>7 DEF Poll, Goto, uart, format
    <2>1. Types'
      BY DEF IInv, Types, Running, Printing
    <2>2. SetUpAlone'
      BY ConsoleConstants DEF IInv, Types, SetUpAlone
    <2> QED
      BY <2>1, <2>2 DEF IInv, Types, OneInside, RoomInFifo, Printing
  <1>8. ASSUME NEW c \in Cores, IoReg(c) PROVE IInv'
    <2> USE <1>8 DEF IoReg, Goto
    <2>1. PICK S : fifo \in Seq(S)
      BY DEF IInv, Types
    <2>2. Len(fifo) < Depth /\ fifo' = Append(fifo, Head(out[c]))
      BY DEF IInv, RoomInFifo
    <2>3. fifo \in Seq(S \cup {Head(out[c])})
      BY <2>1, SeqMonotonic
    <2>4. fifo' \in Seq(S \cup {Head(out[c])}) /\ Len(fifo') = Len(fifo) + 1
      BY <2>2, <2>3
    <2>5. Len(fifo') <= Depth
      BY <2>1, <2>2, <2>4, ConsoleConstants
    <2>6. at' \in [Cores -> Starting \cup Running]
      BY DEF IInv, Types, Running, Printing
    <2>7. Types'
      BY <2>4, <2>5, <2>6 DEF IInv, Types
    <2>8. SetUpAlone'
      BY ConsoleConstants DEF IInv, Types, SetUpAlone
    <2>9. OneInside'
      BY DEF IInv, Types, OneInside, Printing
    <2>10. \A d \in Cores : at'[d] # "io_reg"
      BY DEF IInv, Types, OneInside, Printing
    <2> QED
      BY <2>7, <2>8, <2>9, <2>10 DEF IInv, RoomInFifo
  <1>9. CASE Transmit
    <2> USE <1>9 DEF Transmit, format
    <2>1. PICK S : fifo \in Seq(S)
      BY DEF IInv, Types
    <2>2. fifo' \in Seq(S) /\ Len(fifo') < Len(fifo)
      BY <2>1
    <2>3. Len(fifo) \in Nat /\ Len(fifo') \in Nat /\ Depth \in Nat
      BY <2>1, <2>2, ConsoleConstants
    <2>4. Types'
      BY <2>2, <2>3 DEF IInv, Types
    <2> QED
      BY <2>2, <2>3, <2>4 DEF IInv, SetUpAlone, OneInside, RoomInFifo
  <1>10. CASE UNCHANGED vars
    BY <1>10 DEF IInv, Types, SetUpAlone, OneInside, RoomInFifo, vars, uart, format
  <1> QED
    BY <1>1, <1>2, <1>3, <1>4, <1>5, <1>6, <1>7, <1>8, <1>9, <1>10 DEF Next, Inside

(* and so it always holds. *)
LEMMA AlwaysInv == Spec => []IInv
  BY InitInv, NextInv, PTL DEF Spec
-----------------------------------------------------------------------------
(* The variables stay in their domains: in particular the FIFO never holds *)
(* more characters than it has room for.                                   *)
THEOREM TypeCorrect == Spec => []TypeOK
  <1>1. IInv => TypeOK
    BY DEF IInv, Types, TypeOK, Starting, Running, Printing
  <1> QED
    BY <1>1, AlwaysInv, PTL

(* One core at a time is between the acquire and the release of printf.    *)
OnePrinter ==
    \A c, d \in Cores : at[c] \in Printing /\ at[d] \in Printing => c = d

(* A character is never written into a full FIFO, which would lose it: the *)
(* room muart_send has seen in its status register is still there when it  *)
(* writes, because no other core can be in printf.                         *)
THEOREM NothingLost == Spec => [](OnePrinter /\ RoomInFifo)
  <1>1. IInv => OnePrinter /\ RoomInFifo
    BY DEF IInv, OneInside, OnePrinter
  <1> QED
    BY <1>1, AlwaysInv, PTL

(* muart_init leaves the function, pull and event detection of every pin   *)
(* but 14 and 15 alone, and nothing else writes these registers.           *)
THEOREM OtherPinsKept == Spec => OtherPins
  <1> DEFINE Kept == \A r \in Gpio : regs'[r] \ PinField[r] = regs[r] \ PinField[r]
  <1>1. IInv /\ [Next]_vars => [Kept]_regs
    <2> SUFFICES ASSUME IInv, Next, regs' # regs PROVE Kept
      BY DEF vars
    <2>1. MuartInit
      BY DEF Next, Inside, InitPrintf, TfpPrintf, Acquire, Literal, Number, Text, Put, Release,
             Poll, IoReg, Transmit
    <2>2. /\ regs'["func_select"] = regs["func_select"] \cup {13, 16}
          /\ \A r \in Gpio \ {"func_select"} : regs'[r] = regs[r]
      BY <2>1, PinRegisters DEF IInv
    <2>3. PinField["func_select"] = 12..17
      BY DEF PinField, Gpio, Detect
    <2>4. {13, 16} \subseteq 12..17
      OBVIOUS
    <2> QED
      BY <2>2, <2>3, <2>4
  <1> QED
    BY <1>1, AlwaysInv, PTL DEF Spec, OtherPins
-----------------------------------------------------------------------------
(* One turn of the loop of tfp_format *)

(* A literal field in front: its character is put, no argument is used. *)
LEMMA ReadLit ==
    ASSUME NEW f \in Lits, NEW rest \in Seq(Fields)
    PROVE  /\ Format(Cons(f, rest)) # <<>>
           /\ Head(Format(Cons(f, rest))) = f.lit /\ Tail(Format(Cons(f, rest))) = Format(rest)
           /\ Head(Format(Cons(f, rest))) \notin {NUL, "%"}
           /\ Arguments(Cons(f, rest)) = Arguments(rest)
           /\ Rendered(f) = <<f.lit>>
  <1>0. f \in Fields
    BY FieldKinds
  <1>1. PICK t \in Seq(Char) : t = Format(rest)
    BY FormatType
  <1>2. PICK e \in Char : e = f.lit
    BY RenderedLit
  <1>3. Format(Cons(f, rest)) = Cons(e, t)
    BY <1>0, <1>1, <1>2, FormatFirst, RenderedLit DEF Cons
  <1>4. Cons(e, t) # <<>> /\ Head(Cons(e, t)) = e /\ Tail(Cons(e, t)) = t
    BY ConsParts
  <1> QED
    BY <1>0, <1>1, <1>2, <1>3, <1>4, ArgumentsFirst, RenderedLit

(* A conversion in front: the directive is read as it was written. *)
LEMMA ReadConversion ==
    ASSUME NEW f \in Conversions, NEW rest \in Seq(Fields)
    PROVE  /\ Format(Cons(f, rest)) # <<>> /\ Head(Format(Cons(f, rest))) = "%"
           /\ Directive(Tail(Format(Cons(f, rest)))) =
                [lz |-> f.lz, w |-> f.w, ch |-> f.ch, rest |-> Format(rest)]
  <1>0. f \in Fields
    BY FieldKinds
  <1>1. PICK t \in Seq(Char) : t = Format(rest)
    BY FormatType
  <1>2. Format(Cons(f, rest)) = Written(f) \o t
    BY <1>0, <1>1, FormatFirst
  <1>3. /\ Written(f) \o t # <<>> /\ Head(Written(f) \o t) = "%"
        /\ Directive(Tail(Written(f) \o t)) = [lz |-> f.lz, w |-> f.w, ch |-> f.ch, rest |-> t]
    BY DirectiveReads
  <1> QED
    BY <1>1, <1>2, <1>3

(* A field that takes an argument finds its own in front. *)
LEMMA ReadArgument ==
    ASSUME NEW f \in Fields, NEW rest \in Seq(Fields), "arg" \in DOMAIN f
    PROVE  /\ Head(Arguments(Cons(f, rest))) = f.arg
           /\ Tail(Arguments(Cons(f, rest))) = Arguments(rest)
  <1>1. PICK e \in Values, t \in Seq(Values) : e = f.arg /\ t = Arguments(rest)
    BY ArgumentsFirst
  <1>2. Arguments(Cons(f, rest)) = Cons(e, t)
    BY <1>1, ArgumentsFirst
  <1>3. Head(Cons(e, t)) = e /\ Tail(Cons(e, t)) = t
    BY ConsParts
  <1> QED
    BY <1>1, <1>2, <1>3

(* A conversion fills the buffer with a text that fits. *)
Converts(c) ==
    \/ bf' = bf
    \/ \E t \in Seq(Char) : Len(t) + 1 <= BfSize /\ bf' = [bf EXCEPT ![c] = t]

(* The next field of a format decides which action is taken, and the       *)
(* action puts what the field is to look like.                             *)
LEMMA TurnPuts ==
    ASSUME NEW c \in Cores, NEW f \in Fields, NEW rest \in Seq(Fields),
           fmt[c] = Format(Cons(f, rest)), va[c] = Arguments(Cons(f, rest)),
           Literal(c) \/ Number(c) \/ Text(c), c \in DOMAIN bf
    PROVE  Put(c, Rendered(f), Format(rest), Arguments(rest)) /\ Converts(c)
  <1>1. CASE f \in Lits
    <2>1. /\ Head(fmt[c]) = f.lit /\ Tail(fmt[c]) = Format(rest) /\ Head(fmt[c]) # "%"
          /\ va[c] = Arguments(rest) /\ Rendered(f) = <<f.lit>>
      BY <1>1, ReadLit
    <2>2. Literal(c)
      BY <2>1 DEF Number, Text
    <2>3. Put(c, <<Head(fmt[c])>>, Tail(fmt[c]), va[c]) /\ Converts(c)
      BY <2>2 DEF Literal, Converts
    <2> QED
      BY <2>1, <2>3
  <1>2. CASE f \in Conversions
    <2>1. PICK dir : dir = [lz |-> f.lz, w |-> f.w, ch |-> f.ch, rest |-> Format(rest)]
      OBVIOUS
    <2>2. Head(fmt[c]) = "%" /\ Directive(Tail(fmt[c])) = dir
      BY <1>2, <2>1, ReadConversion
    <2>3. dir.lz = f.lz /\ dir.w = f.w /\ dir.ch = f.ch /\ dir.rest = Format(rest)
      BY <2>1
    <2>4. Number(c) \/ Text(c)
      BY <2>2 DEF Literal
    <2>5. Number(c) => /\ f.ch \in {"u", "d", "x", "X"}
                       /\ bf' = [bf EXCEPT ![c] = Convert(f.ch, Head(va[c]))]
                       /\ Put(c, putchw(f.w, f.lz, bf'[c]), Format(rest), Tail(va[c]))
      BY <2>2, <2>3 DEF Number
    <2>t. Text(c) => Converts(c)
      BY DEF Text, Converts
    <2>6. Text(c) => \/ f.ch = "c" /\ Put(c, <<Head(va[c])>>, Format(rest), Tail(va[c]))
                     \/ f.ch = "s" /\ Put(c, putchw(f.w, 0, Head(va[c])), Format(rest), Tail(va[c]))
                     \/ f.ch = "%" /\ Put(c, <<"%">>, Format(rest), va[c])
                     \/ /\ f.ch \notin {"u", "d", "x", "X", "c", "s", "%", NUL}
                        /\ Put(c, <<>>, Format(rest), va[c])
      BY <2>2, <2>3 DEF Text
    <2>7. CASE f \in Chars
      <3>1. f.ch = "c" /\ "arg" \in DOMAIN f /\ Rendered(f) = <<f.arg>>
        BY <2>7, RenderedChar
      <3>2. Put(c, <<Head(va[c])>>, Format(rest), Tail(va[c])) /\ Converts(c)
        BY <2>t, <2>4, <2>5, <2>6, <3>1
      <3> QED
        BY <3>1, <3>2, ReadArgument
    <2>8. CASE f \in Strings
      <3>1. f.ch = "s" /\ "arg" \in DOMAIN f /\ Rendered(f) = putchw(f.w, 0, f.arg)
        BY <2>8, RenderedString
      <3>2. Put(c, putchw(f.w, 0, Head(va[c])), Format(rest), Tail(va[c])) /\ Converts(c)
        BY <2>t, <2>4, <2>5, <2>6, <3>1
      <3> QED
        BY <3>1, <3>2, ReadArgument
    <2>9. CASE f \in Others
      <3>1. /\ f.ch \notin {"u", "d", "x", "X", "c", "s"} /\ va[c] = Arguments(rest)
            /\ f.ch = "%" => Rendered(f) = <<"%">>
            /\ f.ch # "%" => Rendered(f) = <<>>
        BY <2>9, RenderedOther, ArgumentsFirst
      <3>2. CASE f.ch = "%"
        <4>1. Put(c, <<"%">>, Format(rest), va[c]) /\ Converts(c)
          BY <2>t, <2>4, <2>5, <2>6, <3>2
        <4> QED
          BY <3>1, <3>2, <4>1
      <3>3. CASE f.ch # "%"
        <4>1. Put(c, <<>>, Format(rest), va[c]) /\ Converts(c)
          BY <2>t, <2>4, <2>5, <2>6, <3>1, <3>3
        <4> QED
          BY <3>1, <3>3, <4>1
      <3> QED
        BY <3>2, <3>3
    <2>10. CASE f \in Ints \cup Unsigned
      <3>1. f.ch \in {"u", "d", "x", "X"} /\ "arg" \in DOMAIN f
        BY <2>10 DEF Ints, Unsigned
      <3>2. /\ bf' = [bf EXCEPT ![c] = Convert(f.ch, Head(va[c]))]
            /\ Put(c, putchw(f.w, f.lz, bf'[c]), Format(rest), Tail(va[c]))
        BY <2>4, <2>5, <2>6, <3>1
      <3>3. Head(va[c]) = f.arg /\ Tail(va[c]) = Arguments(rest)
        BY <3>1, ReadArgument
      <3>4. PICK t \in Seq(Char) : t = Convert(f.ch, f.arg) /\ Len(t) + 1 <= BfSize
                                  /\ Rendered(f) = putchw(f.w, f.lz, t)
        BY <2>10, RenderedNumber
      <3>5. bf' = [bf EXCEPT ![c] = t] /\ bf'[c] = t
        BY <3>2, <3>3, <3>4
      <3>6. Converts(c)
        BY <3>4, <3>5 DEF Converts
      <3> QED
        BY <3>2, <3>3, <3>4, <3>5, <3>6
    <2> QED
      BY <1>2, <2>7, <2>8, <2>9, <2>10 DEF Conversions
  <1> QED
    BY <1>1, <1>2, FieldKinds

(* What has been written to the device, sent or still in the FIFO *)
Sent == line \o fifo

(* A character that enters the FIFO comes after all others. *)
LEMMA AppendBehind ==
    ASSUME NEW a \in Seq(Char), NEW b \in Seq(Char), NEW e \in Char
    PROVE  a \o Append(b, e) = Append(a \o b, e)
  OBVIOUS

(* Moving a character from one sequence to the end of another keeps        *)
(* their order.                                                            *)
LEMMA MoveHead ==
    ASSUME NEW a \in Seq(Char), NEW b \in Seq(Char), b # <<>>
    PROVE  /\ Append(a, Head(b)) \o Tail(b) = a \o b
           /\ Head(b) \in Char /\ Tail(b) \in Seq(Char) /\ Append(a, Head(b)) \in Seq(Char)
           /\ Len(b) \in Nat /\ (Len(b) = 1 <=> Tail(b) = <<>>)
  <1>1. Head(b) \in Char /\ Tail(b) \in Seq(Char) /\ Append(a, Head(b)) \in Seq(Char)
    OBVIOUS
  <1>2. PICK e \in Char, t \in Seq(Char) : e = Head(b) /\ t = Tail(b)
    BY <1>1
  <1>3. /\ Append(a, e) \in Seq(Char) /\ Len(Append(a, e)) = Len(a) + 1
        /\ Append(a, e)[Len(a) + 1] = e /\ \A i \in 1..Len(a) : Append(a, e)[i] = a[i]
    BY AppendProperties
  <1>4. Len(t) = Len(b) - 1 /\ b[1] = e /\ \A i \in 1..Len(t) : t[i] = b[i + 1]
    BY <1>2
  <1>5. PICK u \in Seq(Char), v \in Seq(Char) : u = Append(a, e) \o t /\ v = a \o b
    <2>1. Append(a, e) \o t \in Seq(Char) /\ a \o b \in Seq(Char)
      BY <1>3, ConcatProperties
    <2> QED
      BY <2>1
  <1>6. /\ Len(u) = Len(Append(a, e)) + Len(t)
        /\ \A i \in 1..(Len(Append(a, e)) + Len(t)) :
             u[i] = IF i <= Len(Append(a, e)) THEN Append(a, e)[i] ELSE t[i - Len(Append(a, e))]
    BY <1>3, <1>5, ConcatProperties
  <1>7. /\ Len(v) = Len(a) + Len(b)
        /\ \A i \in 1..(Len(a) + Len(b)) : v[i] = IF i <= Len(a) THEN a[i] ELSE b[i - Len(a)]
    BY <1>5, ConcatProperties
  <1>8. Len(a) \in Nat /\ Len(b) \in Nat /\ Len(t) \in Nat
    OBVIOUS
  <1>9. Len(u) = Len(v)
    BY <1>3, <1>4, <1>6, <1>7, <1>8
  <1>10. ASSUME NEW i \in 1..Len(u) PROVE u[i] = v[i]
    <2>1. /\ i \in 1..(Len(Append(a, e)) + Len(t)) /\ i \in 1..(Len(a) + Len(b)) /\ i \in Nat
      BY <1>6, <1>7, <1>9
    <2>2. CASE i <= Len(a)
      <3>1. i <= Len(Append(a, e)) /\ i \in 1..Len(a)
        BY <1>3, <1>8, <2>1, <2>2
      <3> QED
        BY <1>3, <1>6, <1>7, <2>1, <2>2, <3>1
    <2>3. CASE i = Len(a) + 1
      <3>1. i <= Len(Append(a, e)) /\ ~(i <= Len(a)) /\ i - Len(a) = 1
        BY <1>3, <1>8, <2>3
      <3> QED
        BY <1>3, <1>4, <1>6, <1>7, <2>1, <2>3, <3>1
    <2>4. CASE i > Len(a) + 1
      <3>1. PICK j \in 1..Len(t) : j = i - (Len(a) + 1)
        BY <1>3, <1>6, <1>8, <2>1, <2>4
      <3>2. u[i] = t[j]
        BY <1>3, <1>6, <1>8, <2>1, <2>4, <3>1
      <3>3. v[i] = b[j + 1]
        BY <1>7, <1>8, <2>1, <2>4, <3>1
      <3> QED
        BY <1>4, <3>2, <3>3
    <2> QED
      BY <1>8, <2>1, <2>2, <2>3, <2>4
  <1>11. u = v
    BY <1>9, <1>10, SeqEqual
  <1>12. Len(b) = 1 <=> Tail(b) = <<>>
    <2>1. Len(t) = 0 <=> t = <<>>
      BY EmptySeq
    <2> QED
      BY <1>2, <1>4, <1>8, <2>1
  <1> QED
    BY <1>1, <1>2, <1>5, <1>8, <1>11, <1>12

(* A sequence is a prefix of its concatenation with another. *)
LEMMA PrefixOfConcat ==
    ASSUME NEW a \in Seq(Char), NEW b \in Seq(Char)
    PROVE  IsPrefix(a, a \o b)
  <1>1. PICK u \in Seq(Char) : u = a \o b
    BY ConcatProperties
  <1>2. /\ Len(a) \in Nat /\ Len(b) \in Nat /\ Len(u) = Len(a) + Len(b)
        /\ \A i \in 1..Len(a) : u[i] = a[i] /\ a[i] \in Char
    BY <1>1
  <1>3. Len(a) <= Len(u)
    BY <1>2
  <1>4. SubSeq(a, 1, Len(a)) = SubSeq(u, 1, Len(a))
    <2>1. /\ SubSeq(a, 1, Len(a)) \in Seq(Char) /\ Len(SubSeq(a, 1, Len(a))) = Len(a)
          /\ SubSeq(u, 1, Len(a)) \in Seq(Char) /\ Len(SubSeq(u, 1, Len(a))) = Len(a)
          /\ \A i \in 1..Len(a) : SubSeq(a, 1, Len(a))[i] = a[i] /\ SubSeq(u, 1, Len(a))[i] = u[i]
      BY <1>2
    <2> QED
      BY <1>2, <2>1, SeqEqual
  <1> QED
    BY <1>1, <1>3, <1>4 DEF IsPrefix
-----------------------------------------------------------------------------
(* The invariant of the messages *)

(* The steps of a core that has characters left to send. *)
Sending == {"muart_send", "io_reg"}

(* The variables that hold texts. *)
MTypes ==
    /\ line \in Seq(Char) /\ fifo \in Seq(Char)
    /\ printed \in Seq(Calls)
    /\ DOMAIN fmt = Cores /\ DOMAIN va = Cores
    /\ out \in [Cores -> Seq(Char)]
    /\ bf \in [Cores -> Seq(Char)]

(* A core inside printf works on one of the calls. *)
Called == \A c \in Cores : at[c] \in {"acquire"} \cup Printing => call[c] \in Calls

(* tfp_format goes on only when all it has put has been sent. *)
Emptied == \A c \in Cores : out[c] # <<>> <=> at[c] \in Sending

(* A core that waits for the lock has its format and arguments whole. *)
Ready ==
    \A c \in Cores : at[c] = "acquire" => fmt[c] = Format(call[c]) /\ va[c] = Arguments(call[c])

(* In the middle of a call: some fields are done, the others are still in  *)
(* the format with their arguments; of the text of those done, x has been  *)
(* sent after the messages of all earlier calls and the rest is in out.    *)
Progress(c, done, todo, x) ==
    /\ call[c] = done \o todo
    /\ fmt[c] = Format(todo) /\ va[c] = Arguments(todo)
    /\ x \o out[c] = Expected(done)
    /\ Sent = Before(printed) \o x

Underway(c) == \E done, todo \in Seq(Fields), x \in Seq(Char) : Progress(c, done, todo, x)

(* Between the calls, what was sent is the messages of the calls that      *)
(* have returned.                                                          *)
Quiet == (\A c \in Cores : at[c] \notin Printing) => Sent = Before(printed)

(* The invariant of the messages. *)
MInv ==
    /\ MTypes /\ BufferFits /\ Called /\ Emptied /\ Ready
    /\ \A c \in Cores : at[c] \in Printing => Underway(c)
    /\ Quiet

(* The terminating NUL of an empty text fits into bf. *)
LEMMA EmptyFits == 0 + 1 <= BfSize
  <1>1. 10 \in Bases /\ Lower \in Alphabets /\ Word - 1 \in 0..(Word - 1)
    BY WordAssumption DEF Bases, Alphabets
  <1>2. Len(Digits(Word - 1, 10, Lower)) \in Nat
    BY <1>1, Ui2aFits
  <1> QED
    BY <1>2, BfAssumption

(* It holds at power on. *)
LEMMA MInit == Init => MInv
  <1> SUFFICES ASSUME Init PROVE MInv
    OBVIOUS
  <1>1. <<>> \in Seq(Char) /\ <<>> \in Seq(Calls)
    BY EmptySeq
  <1>2. MTypes
    BY <1>1 DEF Init, MTypes
  <1>3. BufferFits
    BY EmptyFits DEF Init, BufferFits
  <1>4. \A c \in Cores : at[c] \in {"muart_init", "off"}
    BY DEF Init
  <1>5. Called /\ Emptied /\ Ready /\ \A c \in Cores : at[c] \notin Printing
    BY <1>4 DEF Init, Called, Emptied, Ready, Printing, Sending
  <1>6. Sent = Before(printed)
    <2>1. <<>> \o <<>> = <<>>
      BY <1>1, ConcatEmptySeq
    <2> QED
      BY <2>1, BeforeEmpty DEF Init, Sent
  <1> QED
    BY <1>2, <1>3, <1>5, <1>6 DEF MInv, Quiet

(* A step that leaves alone what the cores inside printf work with *)
LEMMA OthersProgress ==
    ASSUME NEW c \in Cores, Underway(c), call'[c] = call[c], fmt'[c] = fmt[c], va'[c] = va[c],
           out'[c] = out[c], Sent' = Sent, printed' = printed
    PROVE  Underway(c)'
  <1>1. PICK done \in Seq(Fields), todo \in Seq(Fields), x \in Seq(Char) : Progress(c, done, todo, x)
    BY DEF Underway
  <1>2. Progress(c, done, todo, x)'
    BY <1>1 DEF Progress
  <1> QED
    BY <1>2 DEF Underway

(* Only one core is inside printf. *)
LEMMA Alone ==
    ASSUME IInv, NEW c \in Cores, at[c] \in Printing, NEW d \in Cores, at[d] \in Printing
    PROVE  d = c
  BY DEF IInv, OneInside

(* Nothing is printed while the device is set up. *)
LEMMA MStart ==
    ASSUME IInv, MInv, MuartInit \/ InitPrintf
    PROVE  MInv'
  <1>1. \A c \in Cores : at[c] \in Starting /\ at'[c] \notin {"acquire"} \cup Printing
    <2>1. at[Boot] \in {"muart_init", "init_printf"} /\ \A c \in Cores \ {Boot} : at[c] = "off"
      BY DEF IInv, SetUpAlone, MuartInit, InitPrintf, Goto
    <2>2. \A c \in Cores : at'[c] \in {"off", "init_printf", "idle"}
      <3>1. CASE MuartInit
        BY <2>1, <3>1, ConsoleConstants DEF MuartInit, Goto, IInv, Types
      <3>2. CASE InitPrintf
        BY <3>2 DEF InitPrintf
      <3> QED
        BY <3>1, <3>2
    <2> QED
      BY <2>1, <2>2 DEF Starting, Printing
  <1>2. UNCHANGED <<call, fmt, va, bf, out, fifo, line, printed>>
    BY DEF MuartInit, InitPrintf, format, uart
  <1>3. MTypes' /\ BufferFits'
    BY <1>2 DEF MInv, MTypes, BufferFits
  <1>4. Called' /\ Ready'
    BY <1>1 DEF Called, Ready, Printing
  <1>5. Emptied'
    BY <1>1, <1>2 DEF MInv, Emptied, Sending, Starting, Printing
  <1>6. Quiet'
    BY <1>1, <1>2 DEF MInv, Quiet, Sent, Starting, Printing
  <1> QED
    BY <1>1, <1>3, <1>4, <1>5, <1>6 DEF MInv

(* A call takes its format and arguments to the lock. *)
LEMMA MTfpPrintf ==
    ASSUME IInv, MInv, NEW c \in Cores, NEW fields \in Calls, TfpPrintf(c, fields)
    PROVE  MInv'
  <1>1. /\ at[c] = "idle" /\ at' = [at EXCEPT ![c] = "acquire"]
        /\ call' = [call EXCEPT ![c] = fields]
        /\ fmt' = [fmt EXCEPT ![c] = Format(fields)]
        /\ va' = [va EXCEPT ![c] = Arguments(fields)]
        /\ UNCHANGED <<bf, out, fifo, line, printed>>
    BY DEF TfpPrintf, Goto, uart
  <1>2. /\ DOMAIN at = Cores /\ DOMAIN call = Cores /\ DOMAIN fmt = Cores /\ DOMAIN va = Cores
    BY DEF IInv, Types, MInv, MTypes
  <1>3. /\ at'[c] = "acquire" /\ call'[c] = fields
        /\ fmt'[c] = Format(fields) /\ va'[c] = Arguments(fields)
        /\ \A d \in Cores \ {c} : /\ at'[d] = at[d] /\ call'[d] = call[d]
                                  /\ fmt'[d] = fmt[d] /\ va'[d] = va[d]
        /\ DOMAIN fmt' = Cores /\ DOMAIN va' = Cores
    BY <1>1, <1>2
  <1>4. MTypes' /\ BufferFits'
    BY <1>1, <1>3 DEF MInv, MTypes, BufferFits
  <1>5. Called' /\ Ready'
    BY <1>3 DEF MInv, Called, Ready
  <1>6. Emptied'
    BY <1>1, <1>3 DEF MInv, Emptied, Sending
  <1>7. Sent' = Sent
    BY <1>1 DEF Sent
  <1>8. \A d \in Cores : at[d] \in Printing <=> at'[d] \in Printing
    BY <1>1, <1>3 DEF Printing
  <1>9. ASSUME NEW d \in Cores, at'[d] \in Printing PROVE Underway(d)'
    <2>1. d # c /\ at[d] \in Printing
      BY <1>3, <1>8, <1>9 DEF Printing
    <2>2. Underway(d)
      BY <2>1 DEF MInv
    <2> QED
      BY <1>1, <1>3, <1>7, <2>1, <2>2, OthersProgress
  <1>10. Quiet'
    BY <1>1, <1>7, <1>8 DEF MInv, Quiet
  <1> QED
    BY <1>4, <1>5, <1>6, <1>9, <1>10 DEF MInv

(* With the lock taken, no field is done and nothing is sent. *)
LEMMA MAcquire ==
    ASSUME IInv, MInv, NEW c \in Cores, Acquire(c)
    PROVE  MInv'
  <1>1. /\ at[c] = "acquire" /\ at' = [at EXCEPT ![c] = "tfp_format"] /\ holders[printflock] = {}
        /\ UNCHANGED <<call, fmt, va, bf, out, fifo, line, printed>>
    BY DEF Acquire, Goto, uart, format, Lock!Take
  <1>2. at'[c] = "tfp_format" /\ \A d \in Cores \ {c} : at'[d] = at[d]
    BY <1>1 DEF IInv, Types
  <1>3. \A d \in Cores : at[d] \notin Printing
    BY <1>1 DEF IInv, OneInside
  <1>4. MTypes' /\ BufferFits' /\ Called' /\ Ready' /\ Emptied'
    <2>1. MTypes' /\ BufferFits'
      BY <1>1 DEF MInv, MTypes, BufferFits
    <2>2. Called' /\ Ready'
      BY <1>1, <1>2 DEF MInv, Called, Ready, Printing
    <2>3. Emptied'
      BY <1>1, <1>2 DEF MInv, Emptied, Sending
    <2> QED
      BY <2>1, <2>2, <2>3
  <1>5. Underway(c)'
    <2>1. call[c] \in Calls /\ fmt[c] = Format(call[c]) /\ va[c] = Arguments(call[c]) /\ out[c] = <<>>
      BY <1>1 DEF MInv, Called, Ready, Emptied, Sending
    <2>2. PICK todo \in Seq(Fields) : todo = call[c]
      BY <2>1, CallsAssumption
    <2>3. <<>> \in Seq(Fields) /\ <<>> \in Seq(Char) /\ <<>> \o todo = todo /\ <<>> \o <<>> = <<>>
      BY EmptySeq, ConcatEmptySeq
    <2>4. Sent = Before(printed)
      BY <1>3 DEF MInv, Quiet
    <2>5. Before(printed) \o <<>> = Before(printed)
      <3>1. Before(printed) \in Seq(Char)
        BY <2>1, BeforeProperties DEF MInv, MTypes
      <3> QED
        BY <3>1, ConcatEmptySeq
    <2>6. Progress(c, <<>>, todo, <<>>)'
      BY <1>1, <2>1, <2>2, <2>3, <2>4, <2>5, ExpectedEmpty DEF Progress, Sent
    <2> QED
      BY <2>3, <2>6 DEF Underway
  <1>6. \A d \in Cores : at'[d] \in Printing => d = c
    BY <1>2, <1>3
  <1>7. Quiet'
    BY <1>2 DEF Quiet, Printing
  <1> QED
    BY <1>4, <1>5, <1>6, <1>7 DEF MInv

(* The next field moves from those to do to those done. *)
LEMMA FirstField ==
    ASSUME NEW done \in Seq(Fields), NEW todo \in Seq(Fields), todo # <<>>
    PROVE  \E f \in Fields, rest \in Seq(Fields) :
             /\ todo = Cons(f, rest)
             /\ done \o todo = Append(done, f) \o rest
             /\ Append(done, f) \in Seq(Fields)
  <1>1. Head(todo) \in Fields /\ Tail(todo) \in Seq(Fields)
    BY HeadTailProperties
  <1>2. PICK f \in Fields, rest \in Seq(Fields) : f = Head(todo) /\ rest = Tail(todo)
    BY <1>1
  <1>3. todo = <<f>> \o rest
    <2>1. PICK n \in Nat : n = Len(todo) /\ n >= 1
      OBVIOUS
    <2>2. SubSeq(todo, 1, n) = todo /\ Tail(todo) = SubSeq(todo, 2, n) /\ Head(todo) = todo[1]
      BY <2>1, SubSeqFull, TailIsSubSeq
    <2>3. SubSeq(todo, 1, n) = <<todo[1]>> \o SubSeq(todo, 1 + 1, n)
      <3>1. 1 \in 1..Len(todo) /\ n \in 1..Len(todo)
        BY <2>1
      <3> QED
        BY <3>1, SubSeqRecursiveFirst
    <2>4. 1 + 1 = 2
      OBVIOUS
    <2> QED
      BY <1>2, <2>2, <2>3, <2>4
  <1>4. PICK one \in Seq(Fields) : one = <<f>>
    <2>1. <<f>> \in Seq(Fields)
      OBVIOUS
    <2> QED
      BY <2>1
  <1>5. (done \o one) \o rest = done \o (one \o rest)
    BY ConcatAssociative
  <1>6. Append(done, f) = done \o <<f>> /\ Append(done, f) \in Seq(Fields)
    BY AppendIsConcat, AppendProperties
  <1> QED
    BY <1>3, <1>4, <1>5, <1>6 DEF Cons

(* Literal, Number and Text *)
LEMMA MTurn ==
    ASSUME IInv, MInv, NEW c \in Cores, Literal(c) \/ Number(c) \/ Text(c)
    PROVE  MInv'
  <1>0. at[c] = "tfp_format" /\ fmt[c] # <<>> /\ Head(fmt[c]) # NUL
    <2>1. at[c] = "tfp_format" /\ fmt[c] # <<>>
      BY DEF Literal, Number, Text, Put, Goto
    <2>2. Literal(c) => Head(fmt[c]) # NUL
      BY DEF Literal
    <2>3. Number(c) \/ Text(c) => Head(fmt[c]) = "%"
      BY DEF Number, Text
    <2>4. "%" # NUL
      BY DEF NUL
    <2> QED
      BY <2>1, <2>2, <2>3, <2>4
  <1>1. PICK done \in Seq(Fields), todo \in Seq(Fields), x \in Seq(Char) : Progress(c, done, todo, x)
    BY <1>0 DEF MInv, Underway, Printing
  <1>2. todo # <<>>
    <2>1. Head(<<NUL>>) = NUL
      OBVIOUS
    <2> QED
      BY <1>0, <1>1, <2>1, FormatEmpty DEF Progress
  <1>3. PICK f \in Fields, rest \in Seq(Fields) :
             /\ todo = Cons(f, rest)
             /\ done \o todo = Append(done, f) \o rest
             /\ Append(done, f) \in Seq(Fields)
    BY <1>2, FirstField
  <1>4. Put(c, Rendered(f), Format(rest), Arguments(rest)) /\ Converts(c)
    <2>1. fmt[c] = Format(Cons(f, rest)) /\ va[c] = Arguments(Cons(f, rest)) /\ c \in DOMAIN bf
      BY <1>1, <1>3 DEF Progress, MInv, MTypes
    <2> QED
      BY <2>1, TurnPuts
  <1>5. /\ at' = [at EXCEPT ![c] = IF Rendered(f) = <<>> THEN "tfp_format" ELSE "muart_send"]
        /\ out' = [out EXCEPT ![c] = Rendered(f)]
        /\ fmt' = [fmt EXCEPT ![c] = Format(rest)]
        /\ va' = [va EXCEPT ![c] = Arguments(rest)]
        /\ UNCHANGED <<call, fifo, line, printed>>
    BY <1>4 DEF Put, Goto, uart
  <1>6. Rendered(f) \in Seq(Char)
    BY FieldTypes
  <1>7. /\ DOMAIN at = Cores /\ DOMAIN out = Cores /\ DOMAIN fmt = Cores /\ DOMAIN va = Cores
    BY DEF IInv, Types, MInv, MTypes
  <1>8. /\ at'[c] = IF Rendered(f) = <<>> THEN "tfp_format" ELSE "muart_send"
        /\ out'[c] = Rendered(f) /\ fmt'[c] = Format(rest) /\ va'[c] = Arguments(rest)
        /\ \A d \in Cores \ {c} : /\ at'[d] = at[d] /\ out'[d] = out[d]
                                  /\ fmt'[d] = fmt[d] /\ va'[d] = va[d]
        /\ DOMAIN fmt' = Cores /\ DOMAIN va' = Cores
    BY <1>5, <1>7
  <1>9. bf' \in [Cores -> Seq(Char)] /\ BufferFits'
    <2>1. CASE bf' = bf
      BY <2>1 DEF MInv, MTypes, BufferFits
    <2>2. CASE \E t \in Seq(Char) : Len(t) + 1 <= BfSize /\ bf' = [bf EXCEPT ![c] = t]
      <3>1. PICK t \in Seq(Char) : Len(t) + 1 <= BfSize /\ bf' = [bf EXCEPT ![c] = t]
        BY <2>2
      <3>2. bf'[c] = t /\ \A d \in Cores \ {c} : bf'[d] = bf[d]
        BY <3>1 DEF MInv, MTypes
      <3>3. bf' \in [Cores -> Seq(Char)]
        BY <3>1 DEF MInv, MTypes
      <3> QED
        BY <3>1, <3>2, <3>3 DEF MInv, BufferFits
    <2> QED
      BY <1>4, <2>1, <2>2 DEF Converts
  <1>10. MTypes'
    BY <1>5, <1>6, <1>8, <1>9 DEF MInv, MTypes
  <1>11. Called' /\ Ready'
    BY <1>0, <1>5, <1>8 DEF MInv, Called, Ready, Printing
  <1>12. Emptied'
    BY <1>0, <1>8 DEF MInv, Emptied, Sending
  <1>13. Underway(c)'
    <2>1. out[c] = <<>>
      BY <1>0 DEF MInv, Emptied, Sending
    <2>2. x = Expected(done)
      <3>1. x \o <<>> = x
        BY ConcatEmptySeq
      <3> QED
        BY <1>1, <2>1, <3>1 DEF Progress
    <2>3. x \o Rendered(f) = Expected(Append(done, f))
      BY <2>2, ExpectedLast
    <2>4. Progress(c, Append(done, f), rest, x)'
      BY <1>1, <1>3, <1>5, <1>8, <2>3 DEF Progress, Sent
    <2> QED
      BY <1>3, <2>4 DEF Underway
  <1>14. at'[c] \in Printing /\ \A d \in Cores : at'[d] \in Printing => d = c
    <2>1. \A d \in Cores : at[d] \in Printing => d = c
      BY <1>0, Alone DEF Printing
    <2> QED
      BY <1>8, <2>1 DEF Printing
  <1>15. Quiet'
    BY <1>14 DEF Quiet
  <1> QED
    BY <1>9, <1>10, <1>11, <1>12, <1>13, <1>14, <1>15 DEF MInv

(* At the NUL all fields are done: the message of the call is whole. A     *)
(* format that stops in the middle of a directive is one of these.         *)
LEMMA MRelease ==
    ASSUME IInv, MInv, NEW c \in Cores, Release(c)
    PROVE  MInv'
  <1>0. /\ at[c] = "tfp_format" /\ at' = [at EXCEPT ![c] = "idle"]
        /\ \/ Head(fmt[c]) = NUL
           \/ Head(fmt[c]) = "%" /\ Directive(Tail(fmt[c])).ch = NUL
        /\ printed' = Append(printed, call[c])
        /\ call' = [call EXCEPT ![c] = <<>>] /\ bf' = [bf EXCEPT ![c] = <<>>]
        /\ fmt' = [fmt EXCEPT ![c] = <<>>] /\ va' = [va EXCEPT ![c] = <<>>]
        /\ UNCHANGED <<out, fifo, line>>
    BY DEF Release, Goto, uart
  <1>1. PICK done \in Seq(Fields), todo \in Seq(Fields), x \in Seq(Char) : Progress(c, done, todo, x)
    BY <1>0 DEF MInv, Underway, Printing
  <1>2. call[c] \in Calls /\ out[c] = <<>> /\ printed \in Seq(Calls)
    BY <1>0 DEF MInv, MTypes, Called, Emptied, Sending, Printing
  <1>3. x = Expected(done)
    <2>1. x \o <<>> = x
      BY ConcatEmptySeq
    <2> QED
      BY <1>1, <1>2, <2>1 DEF Progress
  <1>4. Expected(todo) = <<>>
    <2>1. CASE todo = <<>>
      BY <2>1, ExpectedEmpty
    <2>2. CASE todo # <<>>
      <3>1. PICK f \in Fields, rest \in Seq(Fields) :
                 /\ todo = Cons(f, rest)
                 /\ done \o todo = Append(done, f) \o rest
                 /\ Append(done, f) \in Seq(Fields)
        BY <2>2, FirstField
      <3>2. fmt[c] = Format(Cons(f, rest))
        BY <1>1, <3>1 DEF Progress
      <3>3. f \in Conversions
        <4>1. f \in Lits => Head(fmt[c]) \notin {NUL, "%"}
          BY <3>2, ReadLit
        <4> QED
          BY <1>0, <4>1, FieldKinds
      <3>4. f.ch = NUL
        <4>1. Head(fmt[c]) = "%" /\ Directive(Tail(fmt[c])).ch = f.ch
          BY <3>2, <3>3, ReadConversion
        <4>2. "%" # NUL
          BY DEF NUL
        <4> QED
          BY <1>0, <4>1, <4>2
      <3>5. f \in Others
        BY <3>3, <3>4 DEF Conversions, Ints, Unsigned, Chars, Strings, NUL
      <3>6. Rendered(f) = <<>> /\ "ch" \in DOMAIN f
        BY <3>4, <3>5, RenderedOther DEF NUL
      <3>7. rest = <<>>
        <4>1. SUFFICES ASSUME rest # <<>> PROVE FALSE
          OBVIOUS
        <4>2. PICK fields \in Calls : fields = call[c]
          BY <1>2
        <4>3. /\ fields \in Seq(Fields)
              /\ \A i \in 1..(Len(fields) - 1) : "ch" \in DOMAIN fields[i] => fields[i].ch # NUL
          BY CallsAssumption
        <4>4. PICK gs \in Seq(Fields) : gs = Append(done, f)
          BY <3>1
        <4>5. fields = gs \o rest
          BY <1>1, <3>1, <4>2, <4>4 DEF Progress
        <4>6. Len(gs) = Len(done) + 1 /\ gs[Len(gs)] = f /\ Len(gs) \in Nat /\ Len(gs) >= 1
          BY <4>4, AppendProperties
        <4>7. Len(rest) \in Nat /\ Len(rest) >= 1
          BY <4>1
        <4>8. Len(fields) = Len(gs) + Len(rest) /\ fields[Len(gs)] = f
          <5>1. PICK k \in Nat : k = Len(gs) /\ k >= 1 /\ k <= Len(gs)
            BY <4>6
          <5>2. /\ Len(gs \o rest) = Len(gs) + Len(rest)
                /\ \A i \in 1..(Len(gs) + Len(rest)) :
                     (gs \o rest)[i] = IF i <= Len(gs) THEN gs[i] ELSE rest[i - Len(gs)]
            BY ConcatProperties
          <5>3. k \in 1..(Len(gs) + Len(rest))
            BY <4>7, <5>1
          <5>4. (gs \o rest)[k] = gs[k]
            BY <5>1, <5>2, <5>3
          <5> QED
            BY <4>5, <4>6, <5>1, <5>2, <5>4
        <4>9. Len(gs) \in 1..(Len(fields) - 1)
          BY <4>6, <4>7, <4>8
        <4> QED
          BY <3>4, <3>6, <4>3, <4>8, <4>9
      <3>8. todo = Append(<<>>, f)
        BY <3>1, <3>7 DEF Cons
      <3>9. PICK e \in Seq(Fields) : e = <<>>
        BY EmptySeq
      <3>10. Expected(Append(e, f)) = Expected(e) \o Rendered(f)
        BY ExpectedLast
      <3>11. <<>> \in Seq(Char) /\ <<>> \o <<>> = <<>>
        BY EmptySeq, ConcatEmptySeq
      <3> QED
        BY <3>6, <3>8, <3>9, <3>10, <3>11, ExpectedEmpty
    <2> QED
      BY <2>1, <2>2
  <1>5. Expected(call[c]) = x
    <2>1. Expected(done \o todo) = Expected(done) \o Expected(todo)
      BY ExpectedConcat
    <2>2. x \o <<>> = x
      BY ConcatEmptySeq
    <2> QED
      BY <1>1, <1>3, <1>4, <2>1, <2>2 DEF Progress
  <1>6. Sent' = Before(printed')
    <2>1. Before(Append(printed, call[c])) = Before(printed) \o Expected(call[c])
      BY <1>2, BeforeProperties
    <2>2. Sent = Before(printed) \o x /\ Sent' = Sent
      BY <1>0, <1>1 DEF Progress, Sent
    <2> QED
      BY <1>0, <1>5, <2>1, <2>2
  <1>7. /\ DOMAIN at = Cores /\ DOMAIN call = Cores /\ DOMAIN fmt = Cores /\ DOMAIN va = Cores
        /\ bf \in [Cores -> Seq(Char)]
    BY DEF IInv, Types, MInv, MTypes
  <1>8. /\ at'[c] = "idle" /\ bf'[c] = <<>>
        /\ \A d \in Cores \ {c} : /\ at'[d] = at[d] /\ call'[d] = call[d]
                                  /\ fmt'[d] = fmt[d] /\ va'[d] = va[d] /\ bf'[d] = bf[d]
        /\ DOMAIN fmt' = Cores /\ DOMAIN va' = Cores
    BY <1>0, <1>7
  <1>9. MTypes' /\ BufferFits'
    <2>1. bf' \in [Cores -> Seq(Char)]
      <3>1. <<>> \in Seq(Char)
        BY EmptySeq
      <3> QED
        BY <1>0, <1>7, <3>1
    <2>2. printed' \in Seq(Calls)
      BY <1>0, <1>2, AppendProperties
    <2>3. MTypes'
      BY <1>0, <1>8, <2>1, <2>2 DEF MInv, MTypes
    <2>4. BufferFits'
      <3>1. Len(bf'[c]) + 1 <= BfSize
        <4>1. Len(<<>>) = 0
          OBVIOUS
        <4> QED
          BY <1>8, <4>1, EmptyFits
      <3>2. \A d \in Cores \ {c} : Len(bf'[d]) + 1 <= BfSize
        BY <1>8 DEF MInv, BufferFits
      <3> QED
        BY <3>1, <3>2 DEF BufferFits
    <2> QED
      BY <2>3, <2>4
  <1>10. Called' /\ Ready' /\ Emptied'
    BY <1>0, <1>8 DEF MInv, Called, Ready, Emptied, Printing, Sending
  <1>11. \A d \in Cores : at'[d] \notin Printing
    <2>1. \A d \in Cores : at[d] \in Printing => d = c
      BY <1>0, Alone DEF Printing
    <2> QED
      BY <1>8, <2>1 DEF Printing
  <1> QED
    BY <1>6, <1>9, <1>10, <1>11 DEF MInv, Quiet

(* Waiting for room in the FIFO changes nothing. *)
LEMMA MPoll ==
    ASSUME IInv, MInv, NEW c \in Cores, Poll(c)
    PROVE  MInv'
  <1>1. /\ at[c] = "muart_send" /\ at' = [at EXCEPT ![c] = "io_reg"]
        /\ UNCHANGED <<call, fmt, va, bf, out, fifo, line, printed>>
    BY DEF Poll, Goto, uart, format
  <1>2. at'[c] = "io_reg" /\ \A d \in Cores \ {c} : at'[d] = at[d]
    BY <1>1 DEF IInv, Types
  <1>3. MTypes' /\ BufferFits'
    BY <1>1 DEF MInv, MTypes, BufferFits
  <1>4. Called' /\ Ready' /\ Emptied'
    BY <1>1, <1>2 DEF MInv, Called, Ready, Emptied, Printing, Sending
  <1>5. \A d \in Cores : at[d] \in Printing <=> at'[d] \in Printing
    BY <1>1, <1>2 DEF Printing
  <1>6. Sent' = Sent
    BY <1>1 DEF Sent
  <1>7. ASSUME NEW d \in Cores, at'[d] \in Printing PROVE Underway(d)'
    <2>1. Underway(d)
      BY <1>5, <1>7 DEF MInv
    <2> QED
      BY <1>1, <1>6, <2>1, OthersProgress
  <1>8. Quiet'
    BY <1>1, <1>5, <1>6 DEF MInv, Quiet
  <1> QED
    BY <1>3, <1>4, <1>7, <1>8 DEF MInv

(* The write of a character to io_reg: the FIFO has room, because no       *)
(* other core has written since the poll.                                  *)
LEMMA MIoReg ==
    ASSUME IInv, MInv, NEW c \in Cores, IoReg(c)
    PROVE  MInv'
  <1>0. /\ at[c] = "io_reg"
        /\ at' = [at EXCEPT ![c] = IF Len(out[c]) = 1 THEN "tfp_format" ELSE "muart_send"]
        /\ fifo' = IF Len(fifo) < Depth THEN Append(fifo, Head(out[c])) ELSE fifo
        /\ out' = [out EXCEPT ![c] = Tail(@)]
        /\ UNCHANGED <<call, fmt, va, bf, line, printed>>
    BY DEF IoReg, Goto
  <1>1. PICK done \in Seq(Fields), todo \in Seq(Fields), x \in Seq(Char) : Progress(c, done, todo, x)
    BY <1>0 DEF MInv, Underway, Printing
  <1>2. fifo' = Append(fifo, Head(out[c]))
    BY <1>0 DEF IInv, RoomInFifo
  <1>3. PICK o \in Seq(Char) : o = out[c] /\ o # <<>>
    BY <1>0 DEF MInv, MTypes, Emptied, Sending
  <1>4. /\ Append(x, Head(o)) \o Tail(o) = x \o o
        /\ Head(o) \in Char /\ Tail(o) \in Seq(Char) /\ Append(x, Head(o)) \in Seq(Char)
        /\ Len(o) = 1 <=> Tail(o) = <<>>
    BY <1>3, MoveHead
  <1>5. /\ DOMAIN at = Cores /\ out \in [Cores -> Seq(Char)] /\ line \in Seq(Char) /\ fifo \in Seq(Char)
        /\ printed \in Seq(Calls) /\ call[c] \in Calls
    BY <1>0 DEF IInv, Types, MInv, MTypes, Called, Printing
  <1>6. /\ at'[c] = (IF Len(o) = 1 THEN "tfp_format" ELSE "muart_send") /\ out'[c] = Tail(o)
        /\ \A d \in Cores \ {c} : at'[d] = at[d] /\ out'[d] = out[d]
        /\ out' \in [Cores -> Seq(Char)]
    BY <1>0, <1>3, <1>4, <1>5
  <1>7. fifo' \in Seq(Char)
    BY <1>2, <1>3, <1>4, <1>5, AppendProperties
  <1>8. MTypes' /\ BufferFits'
    BY <1>0, <1>6, <1>7 DEF MInv, MTypes, BufferFits
  <1>9. Called' /\ Ready'
    BY <1>0, <1>6 DEF MInv, Called, Ready, Printing
  <1>10. Emptied'
    BY <1>4, <1>6 DEF MInv, Emptied, Sending
  <1>11. Underway(c)'
    <2>1. PICK e \in Char, y \in Seq(Char) : e = Head(o) /\ y = Append(x, e)
      BY <1>4
    <2>2. Sent' = Append(Sent, e)
      <3>1. line \o Append(fifo, e) = Append(line \o fifo, e)
        BY <1>5, AppendBehind
      <3> QED
        BY <1>0, <1>2, <1>3, <2>1, <3>1 DEF Sent
    <2>3. Before(printed) \o y = Append(Before(printed) \o x, e)
      <3>1. PICK b \in Seq(Char) : b = Before(printed)
        BY <1>5, BeforeProperties
      <3>2. b \o Append(x, e) = Append(b \o x, e)
        BY AppendBehind
      <3> QED
        BY <2>1, <3>1, <3>2
    <2>4. y \o out'[c] = Expected(done)
      BY <1>1, <1>3, <1>4, <1>6, <2>1 DEF Progress
    <2>5. Sent' = Before(printed') \o y
      BY <1>0, <1>1, <2>2, <2>3 DEF Progress
    <2>6. Progress(c, done, todo, y)'
      BY <1>0, <1>1, <2>4, <2>5 DEF Progress
    <2> QED
      BY <2>6 DEF Underway
  <1>12. at'[c] \in Printing /\ \A d \in Cores : at'[d] \in Printing => d = c
    <2>1. \A d \in Cores : at[d] \in Printing => d = c
      BY <1>0, Alone DEF Printing
    <2> QED
      BY <1>6, <2>1 DEF Printing
  <1>13. Quiet'
    BY <1>12 DEF Quiet
  <1> QED
    BY <1>8, <1>9, <1>10, <1>11, <1>12, <1>13 DEF MInv

(* The device sends from the FIFO without changing what was written. *)
LEMMA MTransmit ==
    ASSUME IInv, MInv, Transmit
    PROVE  MInv'
  <1>1. /\ fifo # <<>> /\ fifo' = Tail(fifo) /\ line' = Append(line, Head(fifo))
        /\ UNCHANGED <<at, call, fmt, va, bf, out, printed>>
    BY DEF Transmit, format
  <1>2. line \in Seq(Char) /\ fifo \in Seq(Char)
    BY DEF MInv, MTypes
  <1>3. fifo' \in Seq(Char) /\ line' \in Seq(Char) /\ Sent' = Sent
    BY <1>1, <1>2, MoveHead DEF Sent
  <1>4. MTypes' /\ BufferFits'
    BY <1>1, <1>3 DEF MInv, MTypes, BufferFits
  <1>5. Called' /\ Ready' /\ Emptied'
    BY <1>1 DEF MInv, Called, Ready, Emptied
  <1>6. ASSUME NEW d \in Cores, at'[d] \in Printing PROVE Underway(d)'
    <2>1. Underway(d)
      BY <1>1, <1>6 DEF MInv
    <2> QED
      BY <1>1, <1>3, <2>1, OthersProgress
  <1>7. Quiet'
    BY <1>1, <1>3 DEF MInv, Quiet
  <1> QED
    BY <1>4, <1>5, <1>6, <1>7 DEF MInv

(* A step that changes none of the variables. *)
LEMMA MStutter ==
    ASSUME MInv, UNCHANGED vars
    PROVE  MInv'
  <1>1. UNCHANGED <<at, call, fmt, va, bf, out, fifo, line, printed>>
    BY DEF vars, format, uart
  <1>2. MTypes' /\ BufferFits' /\ Called' /\ Ready' /\ Emptied' /\ Quiet'
    BY <1>1 DEF MInv, MTypes, BufferFits, Called, Ready, Emptied, Quiet, Sent
  <1>3. Sent' = Sent
    BY <1>1 DEF Sent
  <1>4. ASSUME NEW d \in Cores, at'[d] \in Printing PROVE Underway(d)'
    <2>1. Underway(d)
      BY <1>1, <1>4 DEF MInv
    <2> QED
      BY <1>1, <1>3, <2>1, OthersProgress
  <1> QED
    BY <1>2, <1>4 DEF MInv

(* Every step keeps the invariant, *)
LEMMA MNext == IInv /\ MInv /\ [Next]_vars => MInv'
  <1> SUFFICES ASSUME IInv, MInv, [Next]_vars PROVE MInv'
    OBVIOUS
  <1>1. CASE MuartInit \/ InitPrintf
    BY <1>1, MStart
  <1>2. CASE \E c \in Cores, fields \in Calls : TfpPrintf(c, fields)
    BY <1>2, MTfpPrintf
  <1>3. CASE \E c \in Cores : Inside(c)
    BY <1>3, MAcquire, MTurn, MRelease, MPoll, MIoReg DEF Inside
  <1>4. CASE Transmit
    BY <1>4, MTransmit
  <1>5. CASE UNCHANGED vars
    BY <1>5, MStutter
  <1> QED
    BY <1>1, <1>2, <1>3, <1>4, <1>5 DEF Next

(* and so it always holds. *)
LEMMA AlwaysMInv == Spec => []MInv
  BY MInit, MNext, AlwaysInv, PTL DEF Spec

(* Whatever the calls are, each number that a conversion of the messages   *)
(* writes into the buffer bf of tfp_format fits, its sign and the          *)
(* terminating NUL included (BufferFits).                                  *)
THEOREM BufferNotOverrun == Spec => []BufferFits
  <1>1. MInv => BufferFits
    BY DEF MInv
  <1> QED
    BY <1>1, AlwaysMInv, PTL

(* What has been written is whole messages: those of the calls that have   *)
(* returned, in the order of the lock, and the beginning of the one in     *)
(* progress. This holds for every interleaving of the cores with each      *)
(* other and with the device, every depth of the FIFO and all calls that   *)
(* CallsAssumption allows (OutputWhole). A message is what its fields are  *)
(* to look like, so the loop of tfp_format and its conversions are right.  *)
THEOREM MessagesWhole == Spec => []OutputWhole
  <1>1. IInv /\ MInv => OutputWhole
    <2> SUFFICES ASSUME IInv, MInv PROVE OutputWhole
      OBVIOUS
    <2>1. CASE \A c \in Cores : at[c] \notin Printing
      <3>1. line \o fifo = Before(printed)
        BY <2>1 DEF MInv, Quiet, Sent
      <3> QED
        BY <3>1 DEF OutputWhole, Before
    <2>2. ASSUME NEW c \in Cores, at[c] \in Printing PROVE OutputWhole
      <3>1. PICK done \in Seq(Fields), todo \in Seq(Fields), x \in Seq(Char) : Progress(c, done, todo, x)
        BY <2>2 DEF MInv, Underway
      <3>2. call[c] \in Calls /\ printed \in Seq(Calls) /\ out[c] \in Seq(Char)
        BY <2>2 DEF MInv, MTypes, Called
      <3>3. PICK b \in Seq(Char) : b = Before(printed)
        BY <3>2, BeforeProperties
      <3>4. PICK o \in Seq(Char) : o = out[c]
        BY <3>2
      <3>5. PICK y \in Seq(Char) : y = Expected(todo)
        BY ExpectedType
      <3>6. line \o fifo = Join(b, x) /\ Join(x, o) = Expected(done)
        BY <3>1, <3>3, <3>4 DEF Progress, Sent, Join
      <3>7. Expected(call[c]) = Join(Join(x, o), y)
        <4>1. Expected(done \o todo) = Expected(done) \o Expected(todo)
          BY ExpectedConcat
        <4> QED
          BY <3>1, <3>5, <3>6, <4>1 DEF Progress, Join
      <3>8. Join(b, Join(Join(x, o), y)) = Join(Join(b, x), Join(o, y))
            /\ Join(o, y) \in Seq(Char) /\ Join(b, x) \in Seq(Char)
        <4>1. Join(o, y) \in Seq(Char) /\ Join(b, x) \in Seq(Char)
          BY JoinLaws
        <4>2. Join(Join(x, o), y) = Join(x, Join(o, y))
          BY JoinLaws
        <4>3. Join(Join(b, x), Join(o, y)) = Join(b, Join(x, Join(o, y)))
          BY <4>1, JoinLaws
        <4> QED
          BY <4>1, <4>2, <4>3
      <3>9. PICK s \in Seq(Char), r \in Seq(Char) : s = Join(b, x) /\ r = Join(o, y)
        BY <3>8
      <3>10. IsPrefix(s, s \o r) /\ IsPrefix(b, b \o x)
        BY PrefixOfConcat
      <3>11. IsPrefix(line \o fifo, b \o Expected(call[c])) /\ IsPrefix(b, line \o fifo)
        <4>1. s \o r = b \o Expected(call[c]) /\ line \o fifo = s /\ b \o x = s
          BY <3>6, <3>7, <3>8, <3>9 DEF Join
        <4> QED
          BY <3>10, <4>1
      <3> QED
        BY <2>2, <3>3, <3>11 DEF OutputWhole, Before, Printing
    <2> QED
      BY <2>1, <2>2
  <1> QED
    BY <1>1, AlwaysInv, AlwaysMInv, PTL
=============================================================================
