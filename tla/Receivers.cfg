SPECIFICATION ReceiversFairSpec
CONSTANTS
  MaxArm = 2
  MaxBatch = 2
  MaxFile = 2
  Ring = 1
  Upload = {u1, u2}
  MaxCloudStart = 2
  MaxFault = 1
INVARIANTS
  AnsweredOnce
  NothingForgotten
PROPERTIES
  BatchAnswered
  PendingReceived
  MailboxSpec
CHECK_DEADLOCK FALSE
