SPECIFICATION Spec
INVARIANTS
  NoValidCallIsRefused
  AcceptedReachesService
  DoneForTheSession
  DoneReachesPage
  ErrorKeepsItsCode
  AuditTellsTheOutcome
