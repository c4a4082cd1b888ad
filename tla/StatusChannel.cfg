SPECIFICATION FairChannelSpec
CONSTANTS
  Targets = {t1, t2}
  TokenTime = 1
  ConnectTime = 1
  SendTime = 1
  SocketBudget = 2
  PollBudget = 5
  PollInterval = 2
  PollTime = 2
INVARIANTS TruthfulResult WaitBounded DoneIsFound
PROPERTY WaitEnds
CHECK_DEADLOCK FALSE
