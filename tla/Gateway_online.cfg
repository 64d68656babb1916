SPECIFICATION FairSpec
CONSTANTS
  MaxMessages = 1
  MaxIncidents = 2
INVARIANT TypeOK
PROPERTY ComesOnline
PROPERTY SilenceIsNoticed
CHECK_DEADLOCK FALSE
