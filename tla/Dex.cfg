SPECIFICATION Spec
CONSTANTS
  Calls = {c1, c2}
  Base = 1000
  Modulus = 16
  Multiplier = 5
  Increment = 3
  SleepSpan = 4
  Slippages = {0, 1, 3}
  SlippageScale = 1000
  Randoms = {0, 60, 99}
  RandomScale = 100
CHECK_DEADLOCK FALSE
INVARIANTS
  BestExecution
  SlippageFailsOnlyByRounding
  SeededWhenAlone
