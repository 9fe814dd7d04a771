SPECIFICATION FairSpec
CONSTANTS
  ClockMod = 16
  TEST_PULSE_MS = 4
  MaxLag = 3
  MaxCommands = 3
INVARIANT TypeOK
INVARIANT AlarmHolds
PROPERTY TestPulseFull
PROPERTY TestPulseEnds
