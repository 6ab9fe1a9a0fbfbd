---------------------------- MODULE TimerProofs ----------------------------
(***************************************************************************)
(* Proofs about Timer for every number of cores, every width of the        *)
(* registers, every period long enough for a recharge, and both models of  *)
(* the interrupt controller.                                               *)
(***************************************************************************)
EXTENDS Timer, TLAPS

Register == 0..(Word - 1)

(* Core 0 programs the timer alone; then all cores go on.                  *)
Booting ==
    /\ at[Boot] \in Recharging \cup {"completed"}
    /\ caller[Boot] = "sys_timer_init"
    /\ \A c \in Cores \ {Boot} : at[c] = "off"

Running ==
    /\ \A c \in Cores : at[c] \notin {"off", "completed"}
    /\ \A c \in Cores : at[c] \in Handling \cup {"ask"} => caller[c] \in Handlers
    /\ \A c \in Cores : at[c] \in Handling => c \in active

Control ==
    /\ TypeOK
    /\ Booting \/ Running
    /\ \A c \in Cores : from[c] = "run"
    /\ oneOfN => \A c, k \in active : c = k

(* In the 1-N model: how far the counter is from the value a recharge has  *)
(* read, and what it has written.                                          *)
RechargeUnderWay ==
    \A c \in Cores :
        /\ at[c] \in {"write", "clear"} =>
              (counter - cl[c]) % Word = since /\ since <= MaxDelay
        /\ at[c] = "clear" => compare = (cl[c] + Recharge) % Word

TickSet == Idle /\ ~status => (compare - counter) % Word = Recharge - since /\ since < Recharge

OnTime == Idle /\ status => since = Recharge

Alone == RechargeUnderWay /\ TickSet /\ OnTime

(* In the N-N model a core that still has to clear the status may find the *)
(* sum of another core in the compare register, which that core read at    *)
(* most MaxDelay ticks before it wrote it.                                 *)
RechargesUnderWay ==
    \A c \in Cores :
        /\ at[c] \in {"write", "clear"} => (counter - cl[c]) % Word <= MaxDelay
        /\ at[c] = "clear" =>
              /\ (compare - counter) % Word <= Recharge
              /\ ((compare - counter) % Word) + ((counter - cl[c]) % Word) >= Recharge - MaxDelay

TickAhead == Idle /\ ~status => (compare - counter) % Word \in 1..Recharge

Mixed == RechargesUnderWay /\ TickAhead

IInv ==
    /\ Control
    /\ oneOfN => Alone
    /\ ~oneOfN => Mixed
-----------------------------------------------------------------------------
(* Arithmetic modulo Word *)

LEMMA Sizes == Word \in Nat /\ Word >= 2 /\ Recharge \in Register /\ 1 \in Register
  BY TimerConstants DEF Register

LEMMA ModRange == ASSUME NEW a \in Int PROVE a % Word \in Register
  BY Sizes DEF Register

LEMMA ModDifference ==
    ASSUME NEW a \in Register, NEW b \in Register
    PROVE  (a - b) % Word = IF a >= b THEN a - b ELSE a - b + Word
  <1>1. CASE a >= b
    BY <1>1, Sizes DEF Register
  <1>2. CASE a < b
    BY <1>2, Sizes DEF Register
  <1> QED BY <1>1, <1>2 DEF Register

LEMMA ModSum ==
    ASSUME NEW a \in Register, NEW b \in Register
    PROVE  (a + b) % Word = IF a + b < Word THEN a + b ELSE a + b - Word
  <1>1. CASE a + b < Word
    BY <1>1, Sizes DEF Register
  <1>2. CASE a + b >= Word
    BY <1>2, Sizes DEF Register
  <1> QED BY <1>1, <1>2, Sizes DEF Register

(* One tick takes the counter a step away from a value it has passed ...   *)
LEMMA TickAway ==
    ASSUME NEW a \in Register, NEW b \in Register, (a - b) % Word < Word - 1
    PROVE  (((a + 1) % Word) - b) % Word = ((a - b) % Word) + 1
  <1> DEFINE next == (a + 1) % Word
             old == (a - b) % Word
             new == (next - b) % Word
  <1>1. next \in Register /\ next = IF a + 1 < Word THEN a + 1 ELSE a + 1 - Word
    <2>1. a + 1 \in Int
      BY DEF Register
    <2> QED BY <2>1, Sizes, ModSum, ModRange
  <1>2. old = IF a >= b THEN a - b ELSE a - b + Word
    BY ModDifference
  <1>3. old < Word - 1
    OBVIOUS
  <1> HIDE DEF next, old
  <1>4. new = IF next >= b THEN next - b ELSE next - b + Word
    BY <1>1, ModDifference
  <1> HIDE DEF new
  <1>5. new = old + 1
    BY <1>1, <1>2, <1>3, <1>4, Sizes DEF Register
  <1> QED BY <1>5, Zenon DEF new, old, next

(* ... and a step nearer to a value that is ahead.                         *)
LEMMA TickNearer ==
    ASSUME NEW a \in Register, NEW b \in Register, (b - a) % Word > 0
    PROVE  (b - ((a + 1) % Word)) % Word = ((b - a) % Word) - 1
  <1> DEFINE next == (a + 1) % Word
             old == (b - a) % Word
             new == (b - next) % Word
  <1>1. next \in Register /\ next = IF a + 1 < Word THEN a + 1 ELSE a + 1 - Word
    <2>1. a + 1 \in Int
      BY DEF Register
    <2> QED BY <2>1, Sizes, ModSum, ModRange
  <1>2. old = IF b >= a THEN b - a ELSE b - a + Word
    BY ModDifference
  <1>3. old > 0
    OBVIOUS
  <1> HIDE DEF next, old
  <1>4. new = IF b >= next THEN b - next ELSE b - next + Word
    BY <1>1, ModDifference
  <1> HIDE DEF new
  <1>5. new = old - 1
    BY <1>1, <1>2, <1>3, <1>4, Sizes DEF Register
  <1> QED BY <1>5, Zenon DEF new, old, next

LEMMA Met == ASSUME NEW a \in Register, NEW b \in Register
             PROVE  (b - a) % Word = 0 <=> a = b
  BY ModDifference, Sizes DEF Register

(* What is left of the period when the counter is past the value read.     *)
LEMMA Remaining ==
    ASSUME NEW a \in Register, NEW b \in Register, (a - b) % Word <= Recharge
    PROVE  (((b + Recharge) % Word) - a) % Word = Recharge - ((a - b) % Word)
  <1> DEFINE sum == (b + Recharge) % Word
             past == (a - b) % Word
             left == (sum - a) % Word
  <1>1. sum \in Register /\ sum = IF b + Recharge < Word THEN b + Recharge ELSE b + Recharge - Word
    <2>1. b + Recharge \in Int
      BY Sizes DEF Register
    <2> QED BY <2>1, Sizes, ModSum, ModRange
  <1>2. past = IF a >= b THEN a - b ELSE a - b + Word
    BY ModDifference
  <1>3. past <= Recharge
    OBVIOUS
  <1> HIDE DEF sum, past
  <1>4. left = IF sum >= a THEN sum - a ELSE sum - a + Word
    BY <1>1, ModDifference
  <1> HIDE DEF left
  <1>5. left = Recharge - past
    BY <1>1, <1>2, <1>3, <1>4, Sizes DEF Register
  <1> QED BY <1>5, Zenon DEF left, past, sum
-----------------------------------------------------------------------------
LEMMA InitIInv == Init => IInv
  <1> SUFFICES ASSUME Init PROVE IInv
    OBVIOUS
  <1>1. TypeOK
    <2>1. since \in 0..Recharge /\ cl \in [Cores -> Register]
      BY Sizes DEF Init, Register
    <2> QED BY <2>1 DEF Init, TypeOK, Handling, Recharging, Handlers, Booted, Register
  <1>2. Booting
    BY TimerConstants DEF Init, Booting, Recharging
  <1>3. ~Idle
    BY <1>2, TimerConstants DEF Idle, Booting, Init, Recharging
  <1>4. RechargeUnderWay /\ RechargesUnderWay
    BY DEF Init, RechargeUnderWay, RechargesUnderWay
  <1>5. Control
    BY <1>1, <1>2 DEF Control, Init
  <1> QED BY <1>3, <1>4, <1>5 DEF IInv, Alone, Mixed, TickSet, OnTime, TickAhead

(* The model of the controller does not change. *)
LEMMA Fixed == [Next]_vars => oneOfN' = oneOfN
  BY DEF Next, Inside, TakeAny, vars, Tick, Complete, LocalInit, TurnOnd, Mask, Unmask, ReadCounter, WriteCompare,
     ClearStatus, TakeIrq, Ask, Schedule, Eoi

LEMMA StepControl == Control /\ [Next]_vars => Control'
  <1> SUFFICES ASSUME Control, [Next]_vars PROVE Control'
    OBVIOUS
  <1>t. /\ TypeOK /\ (Booting \/ Running)
        /\ \A c \in Cores : from[c] = "run"
        /\ oneOfN => \A c, k \in active : c = k
        /\ oneOfN' = oneOfN
    BY Fixed DEF Control
  <1> USE DEF timer
  <1>1. CASE Tick
    <2>1. counter' \in Register /\ status' \in BOOLEAN /\ since' \in 0..Recharge
      <3>1. counter + 1 \in Int
        BY <1>t DEF TypeOK
      <3>2. counter' \in Register
        BY <1>1, <3>1, ModRange DEF Tick
      <3>3. status' \in BOOLEAN
        BY <1>1 DEF Tick
      <3>4. since' \in 0..Recharge
        BY <1>1, <1>t, TimerConstants DEF Tick, TypeOK
      <3> QED BY <3>2, <3>3, <3>4
    <2>2. UNCHANGED <<compare, active, distributor, at, caller, from, cl>>
      BY <1>1 DEF Tick
    <2> QED BY <1>t, <2>1, <2>2 DEF Control, TypeOK, Booting, Running, Register
  <1>2. ASSUME NEW c \in Cores, ReadCounter(c) \/ WriteCompare(c) PROVE Control'
    <2>1. /\ \/ at[c] = "read" /\ at' = [at EXCEPT ![c] = "write"]
             \/ at[c] = "write" /\ at' = [at EXCEPT ![c] = "clear"]
          /\ UNCHANGED <<active, distributor, status, counter, caller, from>>
      BY <1>2 DEF ReadCounter, WriteCompare, Goto
    <2>2. compare' \in Register /\ cl' \in [Cores -> Register] /\ since' \in 0..Recharge
      <3>1. cl[c] + Recharge \in Int
        BY <1>t, TimerConstants DEF TypeOK
      <3>2. CASE ReadCounter(c)
        <4>1. compare' = compare /\ cl' = [cl EXCEPT ![c] = counter] /\ since' = 0
          BY <3>2 DEF ReadCounter
        <4> QED BY <1>t, <4>1, TimerConstants DEF TypeOK, Register
      <3>3. CASE WriteCompare(c)
        <4>1. compare' = (cl[c] + Recharge) % Word /\ UNCHANGED <<cl, since>>
          BY <3>3 DEF WriteCompare
        <4> QED BY <1>t, <3>1, <4>1, ModRange DEF TypeOK, Register
      <3> QED BY <1>2, <3>2, <3>3
    <2>3. TypeOK'
      BY <1>t, <2>1, <2>2 DEF TypeOK, Handling, Recharging, Register
    <2>4. (Booting \/ Running)'
      BY <1>t, <2>1 DEF Booting, Running, Recharging, Handling, TypeOK
    <2> QED BY <1>t, <2>1, <2>3, <2>4 DEF Control
  <1>3. ASSUME NEW c \in Cores, ClearStatus(c) PROVE Control'
    <2>1. /\ at[c] = "clear" /\ at' = [at EXCEPT ![c] = Recharged(c)]
          /\ status' = FALSE
          /\ UNCHANGED <<counter, compare, since, active, distributor, caller, from, cl>>
      BY <1>3 DEF ClearStatus, Goto
    <2>2. \/ Booting /\ c = Boot /\ Recharged(c) = "completed"
          \/ Running /\ Recharged(c) \in {"schedule", "eoi"}
      BY <1>t, <2>1 DEF Booting, Running, Recharged, Handling, Recharging, Handlers, TypeOK
    <2>3. TypeOK'
      BY <1>t, <2>1, <2>2 DEF TypeOK, Handling, Booted
    <2>4. (Booting \/ Running)'
      BY <1>t, <2>1, <2>2 DEF Booting, Running, Recharging, Handling, TypeOK
    <2> QED BY <1>t, <2>1, <2>3, <2>4 DEF Control
  <1>4. CASE Complete
    <2>1. TypeOK'
      BY <1>t, <1>4 DEF Complete, TypeOK, Booted
    <2>2. Running'
      BY <1>t, <1>4 DEF Complete, Running, Handling, Recharging
    <2> QED BY <1>t, <1>4, <2>1, <2>2 DEF Control, Complete
  <1>5. ASSUME NEW c \in Cores, LocalInit(c) \/ Mask(c) \/ Unmask(c) \/ (c = Boot /\ TurnOnd) PROVE Control'
    <2>1. /\ at[c] \in {"gic400_local_init", "gic400_turn_ond", "masked", "run"}
          /\ \E p \in {"gic400_turn_ond", "masked", "run"} : at' = [at EXCEPT ![c] = p]
          /\ distributor' \in {distributor, TRUE, FALSE}
          /\ UNCHANGED <<timer, active, caller, from, cl>>
      BY <1>5 DEF LocalInit, Mask, Unmask, TurnOnd, Goto
    <2>2. TypeOK'
      BY <1>t, <2>1 DEF TypeOK, Booted
    <2>3. Running
      BY <1>t, <2>1 DEF Booting, Recharging
    <2>4. Running'
      BY <1>t, <2>1, <2>3 DEF Running, Handling, Recharging, TypeOK
    <2> QED BY <1>t, <2>1, <2>2, <2>4 DEF Control
  <1>6. ASSUME NEW c \in Cores, NEW handler \in Handlers, TakeIrq(c, handler) PROVE Control'
    <2>1. Running
      BY <1>t, <1>6 DEF TakeIrq, Booting, Recharging
    <2>2. at[c] = "run"
      BY <1>6, <2>1 DEF TakeIrq, Running, Signalled, Handling
    <2>3. /\ at' = [at EXCEPT ![c] = "ask"] /\ caller' = [caller EXCEPT ![c] = handler]
          /\ from' = [from EXCEPT ![c] = "run"]
          /\ UNCHANGED <<timer, active, distributor, cl>>
      BY <1>6, <2>2 DEF TakeIrq
    <2>4. TypeOK'
      BY <1>t, <2>3 DEF TypeOK
    <2>5. Running'
      BY <1>t, <2>1, <2>2, <2>3 DEF Running, Handling, Recharging, TypeOK
    <2> QED BY <1>t, <2>3, <2>4, <2>5 DEF Control, TypeOK
  <1>7. ASSUME NEW c \in Cores, Ask(c) PROVE Control'
    <2>1. /\ at[c] = "ask" /\ UNCHANGED <<timer, distributor, caller, from, cl>>
          /\ \/ /\ oneOfN => active = {}
                /\ active' = active \cup {c} /\ at' = [at EXCEPT ![c] = "read"]
             \/ active' = active /\ at' = [at EXCEPT ![c] = "run"]
      BY <1>t, <1>7 DEF Ask, Signalled
    <2>2. Running
      BY <1>t, <2>1 DEF Booting, Recharging
    <2>3. TypeOK'
      BY <1>t, <2>1 DEF TypeOK, Handling, Recharging
    <2>4. Running'
      BY <1>t, <2>1, <2>2 DEF Running, Handling, Recharging, TypeOK
    <2>5. oneOfN => \A k, j \in active' : k = j
      BY <1>t, <2>1
    <2> QED BY <1>t, <2>1, <2>3, <2>4, <2>5 DEF Control
  <1>8. ASSUME NEW c \in Cores, Schedule(c) \/ Eoi(c) PROVE Control'
    <2>1. /\ UNCHANGED <<timer, distributor, caller, from, cl>>
          /\ \/ at[c] = "schedule" /\ at' = [at EXCEPT ![c] = "eoi"] /\ active' = active
             \/ at[c] = "eoi" /\ at' = [at EXCEPT ![c] = "run"] /\ active' = active \ {c}
      BY <1>t, <1>8 DEF Schedule, Eoi, Goto
    <2>2. Running
      BY <1>t, <2>1 DEF Booting, Recharging
    <2>3. TypeOK'
      BY <1>t, <2>1 DEF TypeOK, Handling
    <2>4. Running'
      BY <1>t, <2>1, <2>2 DEF Running, Handling, Recharging, TypeOK
    <2>5. oneOfN => \A k, j \in active' : k = j
      BY <1>t, <2>1
    <2> QED BY <1>t, <2>1, <2>3, <2>4, <2>5 DEF Control
  <1>9. CASE UNCHANGED vars
    BY <1>t, <1>9 DEF vars, Control, TypeOK, Booting, Running
  <1> QED BY <1>1, <1>2, <1>3, <1>4, <1>5, <1>6, <1>7, <1>8, <1>9, TimerConstants DEF Next, Inside, TakeAny
-----------------------------------------------------------------------------
(* The steps that are not part of a recharge leave the timer alone. *)
Other ==
    /\ UNCHANGED timer
    /\ UNCHANGED cl
    /\ \A c \in Cores : at'[c] \in Recharging => at'[c] = at[c] \/ at'[c] = "read"
    /\ \A c \in Cores : at[c] \in Recharging => at'[c] = at[c]

LEMMA Steps ==
    ASSUME Control, [Next]_vars
    PROVE  \/ Tick
           \/ \E c \in Cores : ReadCounter(c) \/ WriteCompare(c) \/ ClearStatus(c)
           \/ Other
  <1>t. TypeOK /\ (Booting \/ Running) /\ \A c \in Cores : from[c] = "run"
    BY DEF Control
  <1>1. ASSUME Complete PROVE Other
    <2>1. Idle
      BY <1>t, <1>1, TimerConstants DEF Complete, Idle, Booting, Running, Recharging
    <2> QED BY <1>1, <2>1 DEF Complete, Other, Idle, Recharging, timer
  <1>2. ASSUME TurnOnd PROVE Other
    BY <1>t, <1>2, TimerConstants DEF TurnOnd, Goto, Other, Recharging, timer, TypeOK
  <1>3. ASSUME NEW c \in Cores, LocalInit(c) \/ Mask(c) \/ Unmask(c) PROVE Other
    BY <1>t, <1>3 DEF LocalInit, Mask, Unmask, Goto, Other, Recharging, timer, TypeOK
  <1>4. ASSUME NEW c \in Cores, NEW handler \in Handlers, TakeIrq(c, handler) PROVE Other
    BY <1>t, <1>4 DEF TakeIrq, Other, Recharging, timer, TypeOK
  <1>5. ASSUME NEW c \in Cores, Ask(c) PROVE Other
    BY <1>t, <1>5 DEF Ask, Other, Recharging, timer, TypeOK
  <1>6. ASSUME NEW c \in Cores, Schedule(c) \/ Eoi(c) PROVE Other
    BY <1>t, <1>6 DEF Schedule, Eoi, Goto, Other, Recharging, timer, TypeOK
  <1>7. ASSUME UNCHANGED vars PROVE Other
    BY <1>7 DEF vars, timer, Other
  <1> QED BY <1>1, <1>2, <1>3, <1>4, <1>5, <1>6, <1>7 DEF Next, Inside, TakeAny

(* What a step of the timer and of sys_timer_recharge does, without the    *)
(* parts of the state that matter to Control only.                         *)
LEMMA TickEffect ==
    ASSUME TypeOK, Tick
    PROVE  /\ counter' = (counter + 1) % Word /\ counter' \in Register
           /\ UNCHANGED <<compare, at, cl>>
           /\ since' = IF since < Recharge THEN since + 1 ELSE since
           /\ status' = (status \/ counter' = compare)
  <1>1. counter + 1 \in Int
    BY DEF TypeOK
  <1> QED BY <1>1, ModRange DEF Tick

LEMMA ReadEffect ==
    ASSUME NEW c, ReadCounter(c)
    PROVE  /\ at[c] = "read" /\ at' = [at EXCEPT ![c] = "write"]
           /\ cl' = [cl EXCEPT ![c] = counter] /\ since' = 0
           /\ UNCHANGED <<counter, compare, status>>
  BY DEF ReadCounter, Goto

LEMMA WriteEffect ==
    ASSUME NEW c, WriteCompare(c)
    PROVE  /\ at[c] = "write" /\ at' = [at EXCEPT ![c] = "clear"]
           /\ compare' = (cl[c] + Recharge) % Word
           /\ UNCHANGED <<counter, status, since, cl>>
  BY DEF WriteCompare, Goto

LEMMA ClearEffect ==
    ASSUME Control, NEW c \in Cores, ClearStatus(c)
    PROVE  /\ at[c] = "clear" /\ status' = FALSE
           /\ at' = [at EXCEPT ![c] = at'[c]] /\ at'[c] \notin Recharging
           /\ UNCHANGED <<counter, compare, since, cl>>
  <1>1. TypeOK /\ (Booting \/ Running)
    BY DEF Control
  <1>2. caller[c] \in Handlers \cup {"sys_timer_init"}
    BY <1>1 DEF TypeOK
  <1>3. at[c] = "clear" /\ at' = [at EXCEPT ![c] = Recharged(c)] /\ status' = FALSE
        /\ UNCHANGED <<counter, compare, since, cl>>
    BY DEF ClearStatus, Goto
  <1>4. Recharged(c) \notin Recharging
    BY <1>2 DEF Recharged, Handlers, Recharging
  <1> QED BY <1>1, <1>3, <1>4 DEF TypeOK
-----------------------------------------------------------------------------
(* The 1-N model *)

(* One core at a time recharges. *)
LEMMA OneRecharges ==
    ASSUME oneOfN, Control, NEW c \in Cores, NEW k \in Cores,
           at[c] \in Recharging, at[k] \in Recharging
    PROVE  c = k
  BY DEF Control, Booting, Running, Recharging, Handling

LEMMA StepAlone == oneOfN /\ Control /\ Alone /\ [Next]_vars => Alone'
  <1> SUFFICES ASSUME oneOfN, Control, Alone, [Next]_vars PROVE Alone'
    OBVIOUS
  <1>t. TypeOK /\ RechargeUnderWay /\ TickSet /\ OnTime
    BY DEF Alone, Control
  <1>c. counter \in Register /\ compare \in Register /\ cl \in [Cores -> Register]
    BY <1>t DEF TypeOK, Register
  <1>1. CASE Tick
    <2>1. /\ counter' = (counter + 1) % Word /\ counter' \in Register
          /\ UNCHANGED <<compare, at, cl>>
          /\ since' = IF since < Recharge THEN since + 1 ELSE since
      BY <1>1, <1>t, TickEffect
    <2>4. RechargeUnderWay'
      <3> SUFFICES ASSUME NEW c \in Cores, at[c] \in {"write", "clear"}
                   PROVE  /\ (counter' - cl[c]) % Word = since' /\ since' <= MaxDelay
                          /\ at[c] = "clear" => compare = (cl[c] + Recharge) % Word
        BY <2>1 DEF RechargeUnderWay
      <3>1. (counter - cl[c]) % Word = since /\ since < MaxDelay
        BY <1>1, <1>t DEF Tick, RechargeUnderWay
      <3>2. since' = since + 1 /\ since < Word - 1 /\ since' <= MaxDelay
        BY <1>t, <2>1, <3>1, TimerConstants DEF TypeOK
      <3>3. (counter' - cl[c]) % Word = since + 1
        BY <1>c, <2>1, <3>1, <3>2, TickAway
      <3> QED BY <1>t, <3>2, <3>3 DEF RechargeUnderWay
    <2>5. Idle' <=> Idle
      BY <2>1 DEF Idle
    <2>6. CASE Idle /\ ~status
      <3>1. (compare - counter) % Word = Recharge - since /\ since < Recharge /\ since \in Nat /\ Recharge \in Nat
        BY <1>t, <2>6, TimerConstants DEF TickSet, TypeOK
      <3>2. (compare - counter') % Word = Recharge - since - 1
        <4>1. (compare - counter) % Word > 0
          BY <3>1
        <4>2. (compare - ((counter + 1) % Word)) % Word = ((compare - counter) % Word) - 1
          BY <1>c, <4>1, TickNearer
        <4> QED BY <2>1, <3>1, <4>2
      <3>3. status' <=> Recharge - since - 1 = 0
        BY <1>1, <1>c, <2>1, <2>6, <3>2, Met DEF Tick
      <3>4. since' = since + 1
        BY <2>1, <3>1
      <3>5. TickSet' /\ OnTime'
        BY <2>1, <3>1, <3>2, <3>3, <3>4 DEF TickSet, OnTime
      <3> QED BY <2>4, <3>5 DEF Alone
    <2>7. CASE Idle /\ status
      <3>1. status'
        BY <1>1, <2>7, Zenon DEF Tick
      <3>2. since' = Recharge
        BY <1>t, <2>1, <2>7, TimerConstants DEF OnTime
      <3> QED BY <2>4, <3>1, <3>2 DEF Alone, TickSet, OnTime
    <2>8. CASE ~Idle
      BY <2>4, <2>5, <2>8 DEF Alone, TickSet, OnTime
    <2> QED BY <2>6, <2>7, <2>8
  <1>2. ASSUME NEW c \in Cores, ReadCounter(c) PROVE Alone'
    <2>1. /\ at[c] = "read" /\ at' = [at EXCEPT ![c] = "write"]
          /\ cl' = [cl EXCEPT ![c] = counter] /\ since' = 0
          /\ UNCHANGED <<counter, compare, status>>
      BY <1>2, ReadEffect
    <2>4. RechargeUnderWay'
      <3>1. \A k \in Cores \ {c} : at'[k] \notin {"write", "clear"}
        BY <1>t, <2>1, OneRecharges DEF Recharging, TypeOK
      <3>2. (counter - cl'[c]) % Word = 0
        BY <1>c, <2>1, Met
      <3> QED BY <1>t, <2>1, <3>1, <3>2, TimerConstants DEF RechargeUnderWay, TypeOK
    <2>5. ~Idle'
      BY <1>t, <2>1 DEF Idle, Recharging, TypeOK
    <2> QED BY <2>4, <2>5 DEF Alone, TickSet, OnTime
  <1>3. ASSUME NEW c \in Cores, WriteCompare(c) PROVE Alone'
    <2>1. /\ at[c] = "write" /\ at' = [at EXCEPT ![c] = "clear"]
          /\ compare' = (cl[c] + Recharge) % Word
          /\ UNCHANGED <<counter, status, since, cl>>
      BY <1>3, WriteEffect
    <2>4. RechargeUnderWay'
      <3>1. \A k \in Cores \ {c} : at'[k] \notin {"write", "clear"}
        BY <1>t, <2>1, OneRecharges DEF Recharging, TypeOK
      <3> QED BY <1>t, <2>1, <3>1 DEF RechargeUnderWay, TypeOK
    <2>5. ~Idle'
      BY <1>t, <2>1 DEF Idle, Recharging, TypeOK
    <2> QED BY <2>4, <2>5 DEF Alone, TickSet, OnTime
  <1>4. ASSUME NEW c \in Cores, ClearStatus(c) PROVE Alone'
    <2>1. /\ at[c] = "clear" /\ status' = FALSE
          /\ at' = [at EXCEPT ![c] = at'[c]] /\ at'[c] \notin Recharging
          /\ UNCHANGED <<counter, compare, since, cl>>
      BY <1>4, ClearEffect
    <2>5. \A k \in Cores : at'[k] \notin Recharging
      BY <1>t, <2>1, OneRecharges DEF Recharging, TypeOK
    <2>6. /\ since <= MaxDelay /\ (counter - cl[c]) % Word = since
          /\ compare = (cl[c] + Recharge) % Word
      BY <1>t, <2>1 DEF RechargeUnderWay
    <2>7. (compare - counter) % Word = Recharge - since /\ since < Recharge
      <3>1. (counter - cl[c]) % Word <= Recharge /\ since < Recharge
        BY <1>t, <2>6, TimerConstants DEF TypeOK
      <3> QED BY <1>c, <2>6, <3>1, Remaining
    <2>8. RechargeUnderWay'
      BY <2>5 DEF RechargeUnderWay, Recharging
    <2> QED BY <2>1, <2>7, <2>8 DEF Alone, TickSet, OnTime
  <1>5. CASE Other
    <2>1. RechargeUnderWay'
      BY <1>t, <1>5 DEF Other, timer, RechargeUnderWay, Recharging
    <2>2. Idle' => Idle
      BY <1>5 DEF Other, Idle
    <2> QED BY <1>t, <1>5, <2>1, <2>2 DEF Other, timer, Alone, TickSet, OnTime
  <1> QED BY <1>1, <1>2, <1>3, <1>4, <1>5, Steps
-----------------------------------------------------------------------------
(* The N-N model *)

LEMMA StepMixed == ~oneOfN /\ Control /\ Mixed /\ [Next]_vars => Mixed'
  <1> SUFFICES ASSUME ~oneOfN, Control, Mixed, [Next]_vars PROVE Mixed'
    OBVIOUS
  <1>t. TypeOK /\ RechargesUnderWay /\ TickAhead
    BY DEF Mixed, Control
  <1>c. counter \in Register /\ compare \in Register /\ cl \in [Cores -> Register]
    BY <1>t DEF TypeOK, Register
  <1>d. /\ MaxDelay \in Nat /\ Recharge \in Nat /\ Word \in Nat
        /\ MaxDelay + MaxDelay < Recharge /\ Recharge < Word
    BY TimerConstants
  <1>m. /\ (compare - counter) % Word \in Register
        /\ \A c \in Cores : (counter - cl[c]) % Word \in Register
    <2>1. compare - counter \in Int /\ \A c \in Cores : counter - cl[c] \in Int
      BY <1>c DEF Register
    <2> QED BY <2>1, ModRange
  <1> USE DEF Register
  <1>1. CASE Tick
    <2>1. /\ counter' = (counter + 1) % Word /\ counter' \in Register
          /\ UNCHANGED <<compare, at, cl>>
          /\ status' = (status \/ counter' = compare)
      BY <1>1, <1>t, TickEffect
    <2>2. ASSUME (compare - counter) % Word > 0
          PROVE  (compare - counter') % Word = ((compare - counter) % Word) - 1
      BY <1>c, <2>1, <2>2, TickNearer
    <2>3. ASSUME NEW c \in Cores, at[c] \in {"write", "clear"}
          PROVE  /\ (counter - cl[c]) % Word < MaxDelay
                 /\ (counter' - cl[c]) % Word = ((counter - cl[c]) % Word) + 1
      <3>1. (counter - cl[c]) % Word < MaxDelay
        BY <1>1, <2>3 DEF Tick
      <3>2. (counter - cl[c]) % Word < Word - 1
        BY <1>d, <1>m, <3>1
      <3> QED BY <1>c, <2>1, <3>1, <3>2, TickAway
    <2>4. RechargesUnderWay'
      <3> SUFFICES ASSUME NEW c \in Cores, at[c] \in {"write", "clear"}
                   PROVE  /\ (counter' - cl[c]) % Word <= MaxDelay
                          /\ at[c] = "clear" =>
                                /\ (compare - counter') % Word <= Recharge
                                /\ ((compare - counter') % Word) + ((counter' - cl[c]) % Word) >= Recharge - MaxDelay
        BY <2>1 DEF RechargesUnderWay
      <3> DEFINE gap == (compare - counter) % Word
                 past == (counter - cl[c]) % Word
      <3>1. past < MaxDelay /\ (counter' - cl[c]) % Word = past + 1 /\ past \in Register /\ gap \in Register
        BY <1>m, <2>3
      <3>2. CASE at[c] = "clear"
        <4>1. gap <= Recharge /\ gap + past >= Recharge - MaxDelay
          BY <1>t, <3>2 DEF RechargesUnderWay
        <4>2. gap > 0
          <5> HIDE DEF gap, past
          <5> QED BY <1>d, <3>1, <4>1
        <4>3. (compare - counter') % Word = gap - 1
          BY <2>2, <4>2
        <4> HIDE DEF gap, past
        <4> QED BY <1>d, <3>1, <4>1, <4>3
      <3>3. CASE at[c] # "clear"
        <4> HIDE DEF past
        <4> QED BY <1>d, <3>1, <3>3
      <3> QED BY <3>2, <3>3
    <2>5. TickAhead'
      <3> SUFFICES ASSUME Idle, ~status' PROVE (compare - counter') % Word \in 1..Recharge
        BY <2>1 DEF TickAhead, Idle
      <3> DEFINE gap == (compare - counter) % Word
      <3>1. gap \in 1..Recharge
        BY <1>t, <2>1 DEF TickAhead
      <3>2. (compare - counter') % Word = gap - 1
        BY <1>d, <2>2, <3>1
      <3>3. (compare - counter') % Word # 0
        BY <1>c, <2>1, Met
      <3> HIDE DEF gap
      <3> QED BY <1>d, <3>1, <3>2, <3>3
    <2> QED BY <2>4, <2>5 DEF Mixed
  <1>2. ASSUME NEW c \in Cores, ReadCounter(c) PROVE Mixed'
    <2>1. /\ at[c] = "read" /\ at' = [at EXCEPT ![c] = "write"]
          /\ cl' = [cl EXCEPT ![c] = counter]
          /\ UNCHANGED <<counter, compare, status>>
      BY <1>2, ReadEffect
    <2>2. (counter - cl'[c]) % Word = 0
      BY <1>c, <2>1, Met
    <2>3. RechargesUnderWay'
      BY <1>t, <1>d, <2>1, <2>2 DEF RechargesUnderWay, TypeOK
    <2>4. ~Idle'
      BY <1>t, <2>1 DEF Idle, Recharging, TypeOK
    <2> QED BY <2>3, <2>4 DEF Mixed, TickAhead
  <1>3. ASSUME NEW c \in Cores, WriteCompare(c) PROVE Mixed'
    <2>1. /\ at[c] = "write" /\ at' = [at EXCEPT ![c] = "clear"]
          /\ compare' = (cl[c] + Recharge) % Word
          /\ UNCHANGED <<counter, status, cl>>
      BY <1>3, WriteEffect
    <2>2. (counter - cl[c]) % Word <= MaxDelay
      BY <1>t, <2>1 DEF RechargesUnderWay
    <2>3. (compare' - counter) % Word = Recharge - ((counter - cl[c]) % Word)
      <3>1. (counter - cl[c]) % Word <= Recharge
        BY <1>d, <1>m, <2>2
      <3> QED BY <1>c, <2>1, <3>1, Remaining
    <2>4. (compare' - counter) % Word <= Recharge /\ (compare' - counter) % Word >= Recharge - MaxDelay
      <3> DEFINE past == (counter - cl[c]) % Word
      <3>1. past <= MaxDelay /\ past \in Register /\ (compare' - counter) % Word = Recharge - past
        BY <1>m, <2>2, <2>3
      <3> HIDE DEF past
      <3> QED BY <1>d, <3>1
    <2>5. RechargesUnderWay'
      <3> SUFFICES ASSUME NEW k \in Cores, at'[k] \in {"write", "clear"}
                   PROVE  /\ (counter - cl[k]) % Word <= MaxDelay
                          /\ (compare' - counter) % Word <= Recharge
                          /\ ((compare' - counter) % Word) + ((counter - cl[k]) % Word) >= Recharge - MaxDelay
        BY <2>1 DEF RechargesUnderWay
      <3>1. (counter - cl[k]) % Word <= MaxDelay
        BY <1>t, <2>1, <2>2 DEF RechargesUnderWay, TypeOK
      <3> DEFINE gap == (compare' - counter) % Word
                 past == (counter - cl[k]) % Word
      <3>2. gap <= Recharge /\ gap >= Recharge - MaxDelay /\ past \in Register /\ gap \in Int
        BY <1>m, <1>d, <2>3, <2>4
      <3> HIDE DEF gap, past
      <3>3. gap + past >= Recharge - MaxDelay
        BY <1>d, <3>2
      <3> QED BY <3>1, <3>2, <3>3 DEF gap, past
    <2>6. ~Idle'
      BY <1>t, <2>1 DEF Idle, Recharging, TypeOK
    <2> QED BY <2>5, <2>6 DEF Mixed, TickAhead
  <1>4. ASSUME NEW c \in Cores, ClearStatus(c) PROVE Mixed'
    <2>1. /\ at[c] = "clear" /\ status' = FALSE
          /\ at' = [at EXCEPT ![c] = at'[c]] /\ at'[c] \notin Recharging
          /\ UNCHANGED <<counter, compare, cl>>
      BY <1>4, ClearEffect
    <2>2. (compare - counter) % Word \in 1..Recharge
      <3> DEFINE gap == (compare - counter) % Word
                 past == (counter - cl[c]) % Word
      <3>1. /\ gap \in Register /\ past \in Register
            /\ past <= MaxDelay /\ gap <= Recharge /\ gap + past >= Recharge - MaxDelay
        BY <1>t, <1>m, <2>1 DEF RechargesUnderWay
      <3> HIDE DEF gap, past
      <3>2. gap \in 1..Recharge
        BY <1>d, <3>1
      <3> QED BY <3>2 DEF gap
    <2>3. RechargesUnderWay'
      BY <1>t, <2>1 DEF RechargesUnderWay, Recharging, TypeOK
    <2> QED BY <2>1, <2>2, <2>3 DEF Mixed, TickAhead
  <1>5. CASE Other
    <2>1. RechargesUnderWay'
      BY <1>t, <1>5 DEF Other, timer, RechargesUnderWay, Recharging
    <2>2. Idle' => Idle
      BY <1>5 DEF Other, Idle
    <2> QED BY <1>t, <1>5, <2>1, <2>2 DEF Other, timer, Mixed, TickAhead
  <1> QED BY <1>1, <1>2, <1>3, <1>4, <1>5, Steps
-----------------------------------------------------------------------------
LEMMA Invariance == Spec => []IInv
  <1>1. IInv /\ [Next]_vars => IInv'
    BY Fixed, StepControl, StepAlone, StepMixed DEF IInv
  <1> QED BY <1>1, InitIInv, PTL DEF Spec

(* Type correctness; the compare register in particular wraps around.      *)
THEOREM TypeCorrect == Spec => []TypeOK
  <1>1. IInv => TypeOK
    BY DEF IInv, Control
  <1> QED BY <1>1, Invariance, PTL

(* sys_timer_recharge leaves a compare value that the counter meets within *)
(* a period, through every wrap-around and however the recharges of        *)
(* several cores mix; in the 1-N model after exactly one.                  *)
THEOREM TickNotMissed == Spec => []NextTickSet
  <1>1. IInv => NextTickSet
    <2> SUFFICES ASSUME IInv, Idle, ~status
                 PROVE  /\ (compare - counter) % Word \in 1..Recharge
                        /\ oneOfN => (compare - counter) % Word = Recharge - since
      BY DEF NextTickSet
    <2>1. CASE oneOfN
      <3>1. (compare - counter) % Word = Recharge - since /\ since < Recharge /\ since \in Nat
        BY <2>1 DEF IInv, Control, TypeOK, Alone, TickSet
      <3> QED BY <3>1, TimerConstants
    <2>2. CASE ~oneOfN
      BY <2>2 DEF IInv, Mixed, TickAhead
    <2> QED BY <2>1, <2>2
  <1> QED BY <1>1, Invariance, PTL

(* In the 1-N model the status bit of an old match never survives a        *)
(* recharge.                                                               *)
THEOREM TickNotEarly == Spec => []NotEarly
  <1>1. IInv => NotEarly
    BY DEF IInv, Alone, OnTime, NotEarly
  <1> QED BY <1>1, Invariance, PTL

(* A core that handles the interrupt has it active, in the 1-N model no    *)
(* other core does, and no second one nests in its handler.                *)
THEOREM InterruptHandledOnce == Spec => []HandledOnce
  <1>1. IInv => HandledOnce
    <2> SUFFICES ASSUME IInv, NEW c \in Cores
                 PROVE  /\ at[c] \in Handling /\ caller[c] # "sys_timer_init" =>
                               c \in active /\ (oneOfN => active = {c})
                        /\ from[c] = "run"
      BY DEF HandledOnce
    <2>1. /\ Booting \/ Running
          /\ from[c] = "run"
          /\ oneOfN => \A k, j \in active : k = j
          /\ active \subseteq Cores
      BY DEF IInv, Control, TypeOK
    <2>2. at[c] \in Handling /\ caller[c] # "sys_timer_init" => c \in active
      BY <2>1 DEF Booting, Running, Handling, Recharging
    <2> QED BY <2>1, <2>2
  <1> QED BY <1>1, Invariance, PTL
=============================================================================
