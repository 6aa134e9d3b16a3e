SPECIFICATION StartupSpec
INVARIANTS RunningIsConfigured 
CHECK_DEADLOCK FALSE
