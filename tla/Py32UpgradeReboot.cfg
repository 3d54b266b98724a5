CONSTANT MaxUpgrades = 1
SPECIFICATION Spec
PROPERTY SuccessReboots
CHECK_DEADLOCK FALSE
