SPECIFICATION Spec
CONSTANTS
  r1 = r1
  r2 = r2
  Requests = {r1, r2}
  Recoveries = {k1}
  FirstInstall = install
  Nil = Nil
  HandoffFaults = {"kill", "spawn", "restore"}
  MaxKills = 1
  Runs = {r1, r2}
  Nobody = Nobody
  Documents = {1, 3}
  Snapshot = 3
  Receipt = 2
  Marker = 4
  MaxFaults = 2
  Writers = {r1, r2}
  Engagements = {acme}
  None = None
  NoFile = NoFile
  Free = Free
  Faults = {"kill", "io"}
  Signed <- DesignGate
  Generated <- Design
  MaxCalls = 2
  MaxVanish = 0
INVARIANTS
  RecoverableJournal
  NoStrangerUnderReceipt
  FailureRestores
  PriorSetKept
PROPERTIES
  AnsweredNeverBegins
  WorkerAnswers
  Answered
  EveryRunEnds
CHECK_DEADLOCK FALSE
