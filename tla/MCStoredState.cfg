SPECIFICATION Spec
CONSTANTS
  p1 = p1
  p2 = p2
  s1 = s1
  s2 = s2
  c1 = c1
  Clients = {p1, p2}
  Snapshots = {s1, s2}
  Campaigns = {c1}
  Home <- OneCampaign
  NoSnapshot = NoSnapshot
  MaxRevisions = 2
  MaxSelections = 4
  MaxEventId = 5
  Boots = {p1, p2}
  Keep = 2
  PerSecond = 1
  MaxClock = 4
  MaxBack = 1
  MaxFaults = 1
  Procs = {p1, p2}
  Stored = 4
  MaxId = 5
  Malformed = {2}
  Oversized = {4}
  MaxKills = 2
  MaxDeletes = 2
  MaxTampers = 2
  Writers = {p1, p2}
  Engagements = {acme, globex}
  None = None
  NoFile = NoFile
  Free = Free
  Faults = {"kill", "vanish", "timeout"}
  Signed <- DesignGate
  Generated <- Design
  MaxCalls = 3
  MaxVanish = 1
SYMMETRY Interchange
INVARIANTS
  HistoryVerifies
  SelectionsSeen
  PlansKeepAssessment
  NothingUnbacked
  PartsAreOfTheSeal
  AnswersBacked
  GatesMatchAudit
  EnrolledDeliberately
PROPERTIES
  ExportPinned
  NewestKept
  EvidenceKept
  NeverResealed
  BindingKept
CHECK_DEADLOCK FALSE
