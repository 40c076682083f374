SPECIFICATION FairSpec
CONSTANTS
  MaxNodes = 3
  MaxExtras = 1
  Runs = 2
  Settings <- MCSettings
  NativeTarget = 1
  Stake = 1
  Float = 1
  PortMax = 5
  LongestDelay = 4
CHECK_DEADLOCK FALSE
INVARIANTS KeysBeforeFunds ProvisionedOnce StartedAsProvisioned MeshOkMeansOpen DelayedAsDescribed PixHalvesAgree
PROPERTY MeshReturns
