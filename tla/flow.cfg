\* One function of any of the three languages.
CONSTANTS
  Tasks <- MCTasks
SPECIFICATION Spec
INVARIANTS SilenceIsSound GuardsHold ZeroReturnProves AlarmsAreReal NeverBoth
  NativeAlarmsAreReal NativeSilenceIsSound FailuresSurface
CHECK_DEADLOCK FALSE
