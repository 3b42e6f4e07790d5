\* A ring of three bytes wraps around at every position; the window is smaller
\* than a message.
SPECIFICATION Spec
CONSTANTS
  Kinds = {"dns", "http"}
  Scripts <- MCScripts
  Answers <- MCAnswers
  Stops <- MCStops
  RingSize = 3
  Bytes = 3
  MaxCuts <- MCMaxCuts
  Window <- MCWindow
  scheme = "HTTP"
CHECK_DEADLOCK FALSE
INVARIANTS NothingLost PairedRight AssertionsHold ReplaysRecorded
PROPERTIES Transparent EndsAfterClose
