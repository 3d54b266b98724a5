SPECIFICATION IoSpec
CONSTANTS
  Seen <- MCSeen
  Tours <- MCTours
  Hosts <- MCHosts
  DefaultHost = "lan"
  LinkSeen <- MCLinkSeen
  WifiMinimum = 3
  EthernetMinimum = 9
  Rates = 2
  MaxInput = 2
  HoldKeys = {"r", "six", "four"}
INVARIANTS IoInv
PROPERTIES AnswersSound PanelFollows SerialSteps GridRecovers AnswersShown
CHECK_DEADLOCK FALSE
