\* Three threads compete for two slots.
SPECIFICATION FairSpec
CONSTANTS
  Threads = {t1, t2, t3}
  None = None
  MaxSessions = 2
INVARIANTS TypeOK EveryStatementGuarded NothingKept NoSessionLeak
PROPERTIES CallsEnd
