SPECIFICATION LiveSpec
CONSTANTS
  Conns = {a, b}
  WaitTimes = {"finite"}
PROPERTIES AskedIsAnswered
CHECK_DEADLOCK FALSE
