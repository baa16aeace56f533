\* One client, one manager, FIFOs of two messages.
CONSTANTS
  ReqCap = 2
  NotifCap = 2
SPECIFICATION FairSpec
INVARIANTS ConnTypeOK NoDescriptorKept
PROPERTIES  ServerEndIsSeen
CHECK_DEADLOCK FALSE
