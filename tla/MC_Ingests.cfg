SPECIFICATION Spec
CONSTANTS
  Program <- Programs
  Schedules <- Parts
  Processes <- StartedNames
  Slices = 2
INVARIANTS TypeOK CleanHandover OnlyExposedAreLost LossIsReported FailuresStayLocal MendedNextNight
CHECK_DEADLOCK FALSE
