SPECIFICATION FairSpec
INVARIANTS TypeOK PeersShareComm FreedIsQuiet ProgressOnLive
PROPERTY AllDone
CONSTANTS
  Configs <- MCConfigs
  niters = 2
  nsizes = 2
CHECK_DEADLOCK FALSE
