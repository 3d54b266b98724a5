CONSTANTS
  MaxUpgrades = 2
  KeysOf <- MCKeysOf
  Tab = "tab"
  Four = "4"
  Eight = "8"
  Frames <- MCFrames
  Noise = Noise
  MaxHeard = 3
  MaxErrors = 1
  TxPackets = 2
  RxPackets = 2
  MaxRuns = 2
SPECIFICATION PagesSpec
INVARIANTS UpgradeInv KeyboardInv ReceiverInv FixtureInv
PROPERTIES UpgradeEnds FixtureTurns InfraredShown
CHECK_DEADLOCK FALSE
