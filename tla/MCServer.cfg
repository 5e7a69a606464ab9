SPECIFICATION Spec
CONSTANTS
  Worker = {1, 2}
  Stopper = 0
  Peer = {1, 2, 3}
  ReadBuf = 3
  Channel = {1, 2}
  QueueCap = 1
  CmdCap = 1
  Scenarios <- MCScenarios
CHECK_DEADLOCK FALSE
INVARIANTS BooksExact Ceiling InputOnce OwnReplies SubscriberServed
PROPERTIES RequestsAnswered ReadersEnd PublishReturns
