CONSTANTS
  Keys = {"shift", "z", "4", "p", "fn"}
  ShiftKey = "shift"
  Letters = {"z", "p"}
  NavKeys = {"z", "4"}
  AliasKeys = {"z"}
  GlobalKeys = {"p"}
  ScanKeys = {"fn"}
  Pages = {"start", "keyboard", "lcd", "uart"}
  KeyboardPage = "keyboard"
  LcdPage = "lcd"
  UartPage = "uart"
SPECIFICATION Spec
INVARIANTS KInv RoutedAsTaken
