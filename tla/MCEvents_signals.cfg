CONSTANTS
  Events = 2
  Slots = 2
  Sec = 2
  MaxLeft = 2
  Limit = 1
  MaxLocks = 1
SPECIFICATION Spec
INVARIANTS NoEventMissed
PROPERTIES TimersFire
