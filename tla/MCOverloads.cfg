SPECIFICATION Spec
CONSTANTS
  Classes <- TheClasses
  WholeLimits <- TheLimits
  Calls <- AllCalls
INVARIANTS
  OnlyWhatItTakes
  RefusedForAReason
  PreferredAsRecorded
  InAnyOrder
CHECK_DEADLOCK FALSE
