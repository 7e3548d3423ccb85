SPECIFICATION LiveSpec
CONSTANTS
  Conns = {a, b, c}
  WaitTimes = {"finite", "endless", "invalid"}
INVARIANTS TypeOK EventsStayCurrent RepliesOwned
PROPERTIES ErrorsGoAway AskedIsAnswered
CHECK_DEADLOCK FALSE
