\* Two threads and the maintenance thread.  A behaviour ends when the calls are
\* used up.
SPECIFICATION FairSpec
CONSTANTS
  Threads = {t1, t2}
  Bg = bg
  MaxCalls = 1
  Nobody = Nobody
  Gone = Gone
INVARIANTS LocksNest TablesBeforeUse OneMaintenanceThread ReentryShallow 
PROPERTY CallsReturn
CHECK_DEADLOCK FALSE
