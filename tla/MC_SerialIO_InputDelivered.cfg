CONSTANTS
  QueueSize <- MCQueueSize
  MaxLines <- MCMaxLines
  MaxCols <- MCMaxCols
  MessageLengths <- MCMessageLengths
  MaxId <- MCMaxId

SPECIFICATION Spec

INVARIANT InputDelivered
