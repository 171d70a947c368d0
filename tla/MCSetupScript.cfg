CONSTANTS
  Scripts <- MCScripts
  Words <- MCWords
  Order <- MCOrder
  Predefined <- MCPredefined
SPECIFICATION Spec
INVARIANTS TypeOK BadScriptDoesNothing FlatScriptRight BalancedIsDefined
CHECK_DEADLOCK FALSE
