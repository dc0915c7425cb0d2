SPECIFICATION Spec
CONSTANTS
  Days = {{"nightly", "backfill"}}
  MaxNow = 5
INVARIANT BackfillAwaitsNightly
CHECK_DEADLOCK FALSE
