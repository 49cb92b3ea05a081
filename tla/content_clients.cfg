SPECIFICATION Spec

CONSTANTS
  MaxBatch = 2
  Payloads <- MCPayloads
  PushIds <- MCPushIds
  NoPayload = NoPayload
  Plans <- DocumentedPlans
  Clients <- MixedClients
  Timeout = 1
  ClockSpan = 4

INVARIANTS
  TypeOK
  CommitIsOneOrderlyBatch
  OnlyLossyBatchDiscarded
  AnswerOwed
  AnsweredOnce

PROPERTIES
  LostBatchNeverShown
  TagsLandWithTheirBatch
  ClockedBufferDrains
