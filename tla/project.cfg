SPECIFICATION ProjectSpec
CONSTANTS
  walls = walls
  roof = roof
  extra = extra
  omit = omit
  Stages = {walls, roof}
  Retained <- MCRetained
  Variations = {extra, omit}
  Change <- MCChange
  Price = 2
  Requests = {r1, r2}
  MaxRequests = 7
  Package = Package
  Retention = Retention
  Value = Value
  None = None
  Tasks = {1, 2, 3}
  Spans <- SomeSpans
  Kinds <- SomeKinds
  Additions = {a1, a2}
  MaxLinks = 3
  Undated = Undated
  Absent = Absent
  NoPair = NoPair
SYMMETRY Alike
CHECK_DEADLOCK FALSE
INVARIANTS StagesMoveOn CostOnce RetentionStands ValueExplained AcyclicUnlessOvertaken AnalysisIsRight
