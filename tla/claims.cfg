SPECIFICATION OneToBeMadeSpec
CONSTANTS
  Claims = {mine, theirs}
  Mine = {mine}
  Slots = {s1, s2}
  Others = {o1}
  Amounts = {10, 20}
  MaxActs = 3
  MaxFaults = 1
  None = None
SYMMETRY Symmetry
CHECK_DEADLOCK FALSE
INVARIANTS CostIsTheClaim ScreenIsTruth NotOfferedTwice
