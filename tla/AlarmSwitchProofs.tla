--------------------------- MODULE AlarmSwitchProofs ---------------------------
(***************************************************************************)
(* Theorems about AlarmSwitch, for every width of the clock, length of the *)
(* pulse and lag of the main loop that ClockAssumption allows.             *)
(***************************************************************************)
EXTENDS AlarmSwitch, TLAPS

(* While a pulse is active, the distance from now to its end, read off the *)
(* wrapping counter, is the real time that is left.                        *)
PulseInv ==
  switchPulseActive =>
    /\ last = "TEST"
    /\ age < TEST_PULSE_MS => Minus(switchPulseEndMs, millis) = TEST_PULSE_MS - age
    /\ age >= TEST_PULSE_MS => Minus(millis, switchPulseEndMs) = age - TEST_PULSE_MS

(* A TEST that pulses no more has had its pulse switched off; an alarm is  *)
(* on and no pulse is waiting to end it.                                   *)
OutputInv == /\ last = "BAODONG" => output /\ ~ switchPulseActive
             /\ last = "TEST" => (output <=> switchPulseActive)

IInv == TypeOK /\ PulseInv /\ OutputInv

-----------------------------------------------------------------------------
(* The constants: a pulse and its lag fit into half a turn of the clock.   *)
LEMMA Constants ==
  /\ ClockMod \in Nat /\ 0 \in Millis
  /\ TEST_PULSE_MS \in 1..ClockMod - 1
  /\ MaxLag \in Nat /\ TEST_PULSE_MS + MaxLag \in Nat
  /\ 2 * (TEST_PULSE_MS + MaxLag) < ClockMod
  /\ MaxCommands \in Nat
BY ClockAssumption DEF Millis

(* The wrapping counter: sums and differences stay in it, and a step of    *)
(* the clock moves a difference by one.                                    *)
LEMMA Wrap ==
  ASSUME NEW x \in Millis, NEW y \in Millis, NEW d \in 0..ClockMod - 1
  PROVE  /\ Plus(x, d) \in Millis
         /\ Minus(x, y) \in Millis
         /\ Minus(Plus(x, d), x) = d
         /\ Minus(x, x) = 0
         /\ Minus(y, x) = d => Plus(x, d) = y
BY ClockAssumption DEF Millis, Plus, Minus

(* A tick moves a difference of two clock values by one.                   *)
LEMMA ClockStep ==
  ASSUME NEW x \in Millis, NEW y \in Millis
  PROVE  /\ Minus(y, x) > 0 => Minus(y, Plus(x, 1)) = Minus(y, x) - 1
         /\ Minus(x, y) < ClockMod - 1 => Minus(Plus(x, 1), y) = Minus(x, y) + 1
BY ClockAssumption DEF Millis, Plus, Minus

(* The pulse is found expired exactly when its time is over.               *)
LEMMA ExpiredInTime ==
  ASSUME IInv, switchPulseActive
  PROVE  Expired <=> age >= TEST_PULSE_MS
<1>1. /\ millis \in Millis /\ switchPulseEndMs \in Millis
      /\ age \in 0..TEST_PULSE_MS + MaxLag
  BY DEF IInv, TypeOK
<1>2. CASE age < TEST_PULSE_MS
  <2>1. Minus(switchPulseEndMs, millis) = TEST_PULSE_MS - age
    BY <1>2 DEF IInv, PulseInv
  <2>2. Minus(millis, switchPulseEndMs) = ClockMod - (TEST_PULSE_MS - age)
    BY <1>1, <1>2, <2>1, ClockAssumption DEF Millis, Minus
  <2>3. QED
    BY <1>1, <1>2, <2>2, ClockAssumption DEF Expired, NonNegative
<1>3. CASE age >= TEST_PULSE_MS
  <2>1. Minus(millis, switchPulseEndMs) = age - TEST_PULSE_MS
    BY <1>3 DEF IInv, PulseInv
  <2>2. QED
    BY <1>1, <1>3, <2>1, ClockAssumption DEF Expired, NonNegative
<1>4. QED
  BY <1>1, <1>2, <1>3, ClockAssumption

(* A command keeps the types of what every command changes.                *)
LEMMA CommandType ==
  ASSUME TypeOK, NEW c \in Commands, Command(c)
  PROVE  millis' \in Millis /\ last' \in Commands /\ commands' \in 0..MaxCommands
BY Constants DEF TypeOK, Command

-----------------------------------------------------------------------------
(* IInv is inductive.                                                      *)
LEMMA InvInit == Init => IInv
<1> SUFFICES ASSUME Init PROVE IInv
  OBVIOUS
<1>1. TypeOK
  <2>1. output \in BOOLEAN /\ switchPulseActive \in BOOLEAN
    BY DEF Init
  <2>2. QED
    BY <2>1, Constants DEF Init, TypeOK
<1>2. PulseInv /\ OutputInv
  BY DEF Init, PulseInv, OutputInv
<1>3. QED
  BY <1>1, <1>2 DEF IInv

(* Every step keeps it.                                                    *)
LEMMA InvStep == IInv /\ [Next]_vars => IInv'
<1> SUFFICES ASSUME IInv, [Next]_vars PROVE IInv'
  OBVIOUS
<1> USE DEF pinVars
<1>1. CASE BaoDong
  <2>1. TypeOK'
    <3>1. output' \in BOOLEAN /\ switchPulseActive' \in BOOLEAN
      BY <1>1 DEF BaoDong
    <3>2. millis' \in Millis /\ last' \in Commands /\ commands' \in 0..MaxCommands
      BY <1>1, CommandType DEF BaoDong, IInv, Commands
    <3>3. QED
      BY <1>1, <3>1, <3>2 DEF BaoDong, IInv, TypeOK
  <2>2. PulseInv' /\ OutputInv'
    BY <1>1 DEF BaoDong, Command, PulseInv, OutputInv
  <2>3. QED
    BY <2>1, <2>2 DEF IInv
<1>2. CASE DungBaoDong
  <2>1. TypeOK'
    <3>1. output' \in BOOLEAN /\ switchPulseActive' \in BOOLEAN
      BY <1>2 DEF DungBaoDong
    <3>2. millis' \in Millis /\ last' \in Commands /\ commands' \in 0..MaxCommands
      BY <1>2, CommandType DEF DungBaoDong, IInv, Commands
    <3>3. QED
      BY <1>2, <3>1, <3>2 DEF DungBaoDong, IInv, TypeOK
  <2>2. PulseInv' /\ OutputInv'
    BY <1>2 DEF DungBaoDong, Command, PulseInv, OutputInv
  <2>3. QED
    BY <2>1, <2>2 DEF IInv
<1>3. CASE Test
  <2>1. millis \in Millis /\ TEST_PULSE_MS \in 1..ClockMod - 1
    BY ClockAssumption DEF IInv, TypeOK
  <2>2. /\ switchPulseEndMs' \in Millis
        /\ Minus(switchPulseEndMs', millis') = TEST_PULSE_MS
    BY <1>3, <2>1, Wrap DEF Test, Command
  <2>3. TypeOK'
    BY <1>3, <2>2, ClockAssumption DEF Test, Command, IInv, TypeOK, Commands
  <2>4. PulseInv' /\ OutputInv'
    BY <1>3, <2>2, ClockAssumption DEF Test, Command, PulseInv, OutputInv
  <2>5. QED
    BY <2>3, <2>4 DEF IInv
<1>4. CASE Loop
  BY <1>4 DEF Loop, IInv, TypeOK, PulseInv, OutputInv
<1>5. CASE Tick
  <2>1. /\ millis \in Millis /\ switchPulseEndMs \in Millis
        /\ age \in 0..TEST_PULSE_MS + MaxLag
    BY DEF IInv, TypeOK
  <2>2. millis' \in Millis
    BY <1>5, <2>1, Wrap, ClockAssumption DEF Tick
  <2>3. TypeOK'
    BY <1>5, <2>1, <2>2, ClockAssumption DEF Tick, IInv, TypeOK
  <2>4. PulseInv'
    <3> SUFFICES ASSUME switchPulseActive'
                 PROVE  /\ last' = "TEST"
                        /\ age' < TEST_PULSE_MS =>
                             Minus(switchPulseEndMs', millis') = TEST_PULSE_MS - age'
                        /\ age' >= TEST_PULSE_MS =>
                             Minus(millis', switchPulseEndMs') = age' - TEST_PULSE_MS
      BY DEF PulseInv
    <3>1. /\ switchPulseActive /\ last' = last /\ switchPulseEndMs' = switchPulseEndMs
          /\ millis' = Plus(millis, 1) /\ age' = age + 1 /\ last = "TEST"
      BY <1>5 DEF Tick, IInv, PulseInv
    <3>2. CASE age < TEST_PULSE_MS
      <4>1. Minus(switchPulseEndMs, millis) = TEST_PULSE_MS - age
        BY <3>1, <3>2 DEF IInv, PulseInv
      <4>2. Minus(switchPulseEndMs, Plus(millis, 1)) = TEST_PULSE_MS - age - 1
        BY <2>1, <3>2, <4>1, ClockStep, ClockAssumption
      <4>3. age + 1 = TEST_PULSE_MS => Minus(Plus(millis, 1), switchPulseEndMs) = 0
        BY <2>1, <4>1, ClockAssumption DEF Millis, Plus, Minus
      <4>4. QED
        BY <2>1, <3>1, <3>2, <4>2, <4>3, ClockAssumption
    <3>3. CASE age >= TEST_PULSE_MS
      <4>1. Minus(millis, switchPulseEndMs) = age - TEST_PULSE_MS
        BY <3>1, <3>3 DEF IInv, PulseInv
      <4>2. Minus(Plus(millis, 1), switchPulseEndMs) = age - TEST_PULSE_MS + 1
        BY <2>1, <3>3, <4>1, ClockStep, ClockAssumption
      <4>3. QED
        BY <2>1, <3>1, <3>3, <4>2, ClockAssumption
    <3>4. QED
      BY <2>1, <3>2, <3>3, ClockAssumption
  <2>5. OutputInv'
    BY <1>5 DEF Tick, IInv, OutputInv
  <2>6. QED
    BY <2>3, <2>4, <2>5 DEF IInv
<1>6. CASE Restart
  <2>1. TypeOK'
    <3>1. output' \in BOOLEAN /\ switchPulseActive' \in BOOLEAN
      BY <1>6 DEF Restart
    <3>2. /\ millis' \in Millis /\ switchPulseEndMs' \in Millis
          /\ age' \in 0..TEST_PULSE_MS + MaxLag
      BY <1>6, Constants DEF Restart, Millis
    <3>3. QED
      BY <1>6, <3>1, <3>2 DEF Restart, IInv, TypeOK
  <2>2. PulseInv' /\ OutputInv'
    BY <1>6 DEF Restart, PulseInv, OutputInv
  <2>3. QED
    BY <2>1, <2>2 DEF IInv
<1>7. CASE UNCHANGED vars
  BY <1>7 DEF vars, IInv, TypeOK, PulseInv, OutputInv, Minus
<1>8. QED
  BY <1>1, <1>2, <1>3, <1>4, <1>5, <1>6, <1>7 DEF Next, HandleFromRadio

(* Type correctness and the two invariants about the pulse.                *)
THEOREM Invariance == Spec => []IInv
<1>1. QED
  BY InvInit, InvStep, PTL DEF Spec

(* Every variable keeps its type; the clock and the end of a pulse stay    *)
(* within the width of the counter.                                        *)
THEOREM TypeCorrect == Spec => []TypeOK
<1>1. IInv => TypeOK
  BY DEF IInv
<1>2. QED
  BY <1>1, Invariance, PTL

(* An alarm that is on stays on until a command or a restart.              *)
THEOREM AlarmIsHeld == Spec => []AlarmHolds
<1>1. IInv => AlarmHolds
  BY DEF IInv, OutputInv, AlarmHolds
<1>2. QED
  BY <1>1, Invariance, PTL

(* No TEST pulse is cut short, however often millis() wraps around.        *)
THEOREM PulseIsFull == Spec => TestPulseFull
<1>1. IInv /\ [Next]_vars =>
        [last = "TEST" /\ last' = "TEST" /\ commands' = commands /\ output /\ ~ output'
           => age >= TEST_PULSE_MS]_vars
  <2>1. SUFFICES ASSUME IInv, Next, last = "TEST", last' = "TEST", commands' = commands,
                        output, ~ output'
                 PROVE  age >= TEST_PULSE_MS
    OBVIOUS
  <2>2. CASE Loop
    BY <2>2, ExpiredInTime, <2>1 DEF Loop
  <2>3. CASE Tick
    BY <2>1, <2>3 DEF Tick, pinVars
  <2>4. CASE HandleFromRadio
    BY <2>1, <2>4 DEF HandleFromRadio, BaoDong, DungBaoDong, Test, Command, IInv, TypeOK
  <2>5. CASE Restart
    BY <2>1, <2>5 DEF Restart
  <2>6. QED
    BY <2>1, <2>2, <2>3, <2>4, <2>5 DEF Next
<1>2. QED
  BY <1>1, Invariance, PTL DEF Spec, TestPulseFull
=============================================================================
