SPECIFICATION ConversationSpec
CONSTANTS
  Nothing = Nothing
  OfferedSchema <- ProviderSchema
  TakenSchema <- GrokTakes
  MaxSchemaDepth = 3
  MaxSchemaLiteralDepth = 4
  MaxTools = 3
  MaxTurns = 3
  MaxInt = 3
  Scenarios <- Scenarios0
INVARIANTS ResultsPaired RecordKept CallsReplayed StateStaysHome NativeKept ConversationKept LegalAccepted CallsStayValid
CHECK_DEADLOCK FALSE
