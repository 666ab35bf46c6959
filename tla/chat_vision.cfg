SPECIFICATION WindowSpec
CONSTANTS
  Models = {"gpt-4-vision-preview"}
  Vision = {"gpt-4-vision-preview"}
  Contexts = {4000}
  Pairs = {0}
  Messages <- Conversation
  MaxHistory = 2
CHECK_DEADLOCK FALSE
INVARIANTS ContentIsConverted
