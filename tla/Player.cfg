SPECIFICATION FairSpec
CONSTANT Nodes = 4
INVARIANTS TypeOK NothingLost QueueOwned OkComplete CrashLosesAtMostOne
PROPERTIES AllPrinted EndsOrWaits
CHECK_DEADLOCK FALSE
