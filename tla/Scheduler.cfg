SPECIFICATION Spec
CONSTANTS
  Task = {t1, t2}
  Absent = Absent
  always = always
  odd = odd
  chat = chat
  Config <- MCConfig
  Cron <- MCCron
  Session <- MCSession
  Created <- MCCreated
  t1 = t1
  t2 = t2
  Unbound = Unbound
  Hour = 4
  NManual = 1
  MaxEngines = 2
  MaxAttempts = 2
  MaxRequests = 2
  MaxTime = 1
  ReloadsOverlap = FALSE
INVARIANTS
  OneExecution
  DueIsNew
  RecordsAreTrue

  
CHECK_DEADLOCK FALSE
