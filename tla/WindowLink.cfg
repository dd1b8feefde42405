SPECIFICATION Spec
CONSTANTS
  MaxSessions = 3
  Conns = {c1, c2}
  Requests = {r1}
  MaxPending = 1
  MaxPreAuth = 2
  ToolCalls = {1, 2}
  Intents = {r1}
  IntentOf <- MCIntentOf
  Minutes = 1
  MaxNow = 1
  MaxRounds = 1
  MaxBreaks = 1
INVARIANTS ClientSound OneSessionPerClient CallsSound
PROPERTIES RequestsSettle CallsReturn
CHECK_DEADLOCK FALSE
