CONSTANTS
  Tools = {"ninja", "products"}
  Callers = {"a", "b", "c"}
  ToolOf <- MCToolOf
  MaxTotal = 3
  MaxStarted = 2
SPECIFICATION Spec
INVARIANTS TotalNotBelowStarted SumsExact
CHECK_DEADLOCK FALSE
