SPECIFICATION Spec
CONSTANTS
  Apis = {"openai", "anthropic", "responses"}
  NCalls = 3
  MaxFrags = 2
  MaxTexts = 1
INVARIANTS ReplyFaithful ShownIsReply
CHECK_DEADLOCK FALSE
