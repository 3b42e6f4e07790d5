\* Every program (mm_delay stands for the four that are alike), one failure and
\* one signal at any point; a session that is over is a final state.
SPECIFICATION Spec
CONSTANTS
  Shells = {"mm_delay", "mm_link", "mm_webrecord", "mm_webreplay"}
  MaxFailures = 1
  MaxSignals = 1
CHECK_DEADLOCK FALSE
INVARIANTS NothingLeftBehind StepsAreSafe
PROPERTY SessionEnds
