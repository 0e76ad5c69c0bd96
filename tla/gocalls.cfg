\* Functions of Go that call what may fail.
CONSTANTS
  Tasks <- MCGoTasks
SPECIFICATION Spec
INVARIANT GoCallersAreFlagged
CHECK_DEADLOCK FALSE
