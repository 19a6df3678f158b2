SPECIFICATION Spec
CONSTANTS
  Turns = 2
  MaxIterations = 2
  MaxCalls = 2
  NEnd = 2
  Streaming = TRUE
  ContextFix = TRUE
INVARIANTS RequestsComplete ReasonExplainsRun FailuresReported AtMostOneLateCall
PROPERTIES StopSilencesModel
