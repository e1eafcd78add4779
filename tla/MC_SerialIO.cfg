CONSTANTS
  QueueSize <- MCQueueSize
  MaxLines <- MCMaxLines
  MaxCols <- MCMaxCols
  MessageLengths <- MCMessageLengths
  MaxId <- MCMaxId

SPECIFICATION Spec

INVARIANT TypeOK
INVARIANT QueueIndicesAgree
INVARIANT InputConsumedInOrder
INVARIANT OutputDelivered
INVARIANT CursorMatchesBuffer
PROPERTY QueuesImplementFifo
PROPERTY OutputDrains
