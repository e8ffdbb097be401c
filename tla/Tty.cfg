SPECIFICATION FairSpec
CONSTANTS
  kProcs = 2
  kBuf = 3
  kTtyBuf = 3
  kWaitMax = 2
  Scans = {"ctrl", "c"}
  Chars = {"nl", "eot"}
  Lens = {2}
  Modes = {{"canon", "sig"}, {"sig", "nonblock"}}
  Owners = {1}
  MaxTyped = 2
INVARIANTS
  TypeOK
  ReadOnce
  NoSleepOverKey
  NobodyForgotten
  NoSleepOnInput
PROPERTY
  SerialWakes
