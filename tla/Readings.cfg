SPECIFICATION Spec
CONSTANTS
  Requests <- AllRequests
  Failures = {1, 17, 67, 6000, 6001, 6007, 6008, 6011, 6012, 6013}
  RulesAt <- TwoPolicies
  MaxOuter = 2
INVARIANTS
  ReadingsAgree
  SaysWhatWasAsked
  BuiltAsDeclared
CHECK_DEADLOCK FALSE
