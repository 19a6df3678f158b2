SPECIFICATION FairSpec
CONSTANTS
  N = 3
  NStart = 2
  NEnd = 1
INVARIANTS ProtocolComplete TruthfulAnswers EndEventOnce
PROPERTIES DeniedIsFinal RefinesRound StopReleasesBatch
