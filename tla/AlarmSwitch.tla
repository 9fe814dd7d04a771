------------------------------ MODULE AlarmSwitch ------------------------------
(***************************************************************************)
(* The alarm output of one node: the commands that the firmware's          *)
(* MeshService understands besides forwarding the packet, and the end of   *)
(* the TEST pulse, which MeshService::loop looks for.  Both run in the     *)
(* firmware's main thread, one after the other.  millis() is an unsigned   *)
(* counter that wraps around.                                              *)
(***************************************************************************)
EXTENDS Integers

CONSTANTS ClockMod,     \* millis() counts modulo this: 2^32
          TEST_PULSE_MS,
          MaxLag,       \* bound: how late the main loop comes round to loop()
          MaxCommands   \* bound: commands in a run

ASSUME ClockAssumption ==
  /\ ClockMod \in Nat /\ TEST_PULSE_MS \in Nat \ {0} /\ MaxLag \in Nat
  /\ MaxCommands \in Nat
  /\ 2 * (TEST_PULSE_MS + MaxLag) < ClockMod

Commands == {"BAODONG", "DUNGBAODONG", "TEST"}
Millis   == 0..ClockMod - 1

VARIABLES
  millis,             \* millis()
  output,             \* the level of SWITCH_OUTPUT_PIN: TRUE is HIGH
  switchPulseActive,
  switchPulseEndMs,
  last,               \* the last command since the node started, or "none"
  age,                \* real time since the TEST that is pulsing
  commands            \* commands so far

pinVars == <<output, switchPulseActive, switchPulseEndMs>>
vars    == <<millis, pinVars, last, age, commands>>

(* Mutant of Plus: the sum is not cut to the width of the counter.         *)
PlusWide(x, y) == x + y

(* Unsigned arithmetic, and the sign of the result read as int32_t.        *)
Plus(x, y)   == IF x + y < ClockMod THEN x + y ELSE x + y - ClockMod
Minus(x, y)  == IF x >= y THEN x - y ELSE x - y + ClockMod
NonNegative(x) == 2 * x < ClockMod

(* Mutant of Expired: the times are compared instead of their difference.  *)
ExpiredUnsigned == millis >= switchPulseEndMs

Expired == NonNegative(Minus(millis, switchPulseEndMs))

(* MeshService::init, at any reading of the clock.                         *)
Init ==
  /\ millis \in Millis
  /\ output = FALSE /\ switchPulseActive = FALSE /\ switchPulseEndMs = 0
  /\ last = "none" /\ age = 0 /\ commands = 0

Command(c) == /\ commands < MaxCommands
              /\ commands' = commands + 1
              /\ last' = c
              /\ UNCHANGED millis

(* Mutant of BaoDong: a pulse that is under way is not cancelled.          *)
BaoDongKeepsPulse ==
  /\ Command("BAODONG")
  /\ output' = TRUE
  /\ UNCHANGED <<switchPulseActive, switchPulseEndMs, age>>

BaoDong ==
  /\ Command("BAODONG")
  /\ output' = TRUE /\ switchPulseActive' = FALSE
  /\ UNCHANGED <<switchPulseEndMs, age>>

DungBaoDong ==
  /\ Command("DUNGBAODONG")
  /\ output' = FALSE /\ switchPulseActive' = FALSE
  /\ UNCHANGED <<switchPulseEndMs, age>>

(* Mutant of Test: the pulse is not marked active.                         *)
TestNotActive ==
  /\ Command("TEST")
  /\ output' = TRUE
  /\ switchPulseEndMs' = Plus(millis, TEST_PULSE_MS)
  /\ age' = 0
  /\ UNCHANGED switchPulseActive

Test ==
  /\ Command("TEST")
  /\ output' = TRUE /\ switchPulseActive' = TRUE
  /\ switchPulseEndMs' = Plus(millis, TEST_PULSE_MS)
  /\ age' = 0

HandleFromRadio == BaoDong \/ DungBaoDong \/ Test

Loop ==
  /\ switchPulseActive /\ Expired
  /\ output' = FALSE /\ switchPulseActive' = FALSE
  /\ UNCHANGED <<millis, switchPulseEndMs, last, age, commands>>

(* A millisecond passes; loop() is at most MaxLag late.                    *)
Tick ==
  /\ switchPulseActive => age < TEST_PULSE_MS + MaxLag
  /\ millis' = Plus(millis, 1)
  /\ age' = IF switchPulseActive THEN age + 1 ELSE age
  /\ UNCHANGED <<pinVars, last, commands>>

(* The node restarts: nothing of this is kept.                             *)
Restart ==
  /\ millis' = 0
  /\ output' = FALSE /\ switchPulseActive' = FALSE /\ switchPulseEndMs' = 0
  /\ last' = "none" /\ age' = 0
  /\ UNCHANGED commands

Next == HandleFromRadio \/ Loop \/ Tick \/ Restart

Spec == Init /\ [][Next]_vars

(* The main loop keeps calling loop(), and the clock runs.                 *)
FairSpec == Spec /\ WF_vars(Loop) /\ WF_vars(Tick)

-----------------------------------------------------------------------------
(* Every variable stays in its type, the clock and the end of the pulse    *)
(* within the width of the counter.                                        *)
TypeOK ==
  /\ millis \in Millis /\ switchPulseEndMs \in Millis
  /\ output \in BOOLEAN /\ switchPulseActive \in BOOLEAN
  /\ last \in Commands \cup {"none"}
  /\ age \in 0..TEST_PULSE_MS + MaxLag
  /\ commands \in 0..MaxCommands

(* An alarm that was switched on and not off again sounds: no pulse of an  *)
(* earlier TEST ends it.                                                   *)
AlarmHolds == last = "BAODONG" => output

(* A TEST pulse lasts its TEST_PULSE_MS, also across the wrap-around of    *)
(* millis(): nothing but a command or a restart ends it before.            *)
TestPulseFull ==
  [][last = "TEST" /\ last' = "TEST" /\ commands' = commands /\ output /\ ~ output'
       => age >= TEST_PULSE_MS]_vars

(* A TEST pulse ends.                                                      *)
TestPulseEnds == (last = "TEST" /\ output) ~> (~ output \/ last # "TEST")
=============================================================================
