SPECIFICATION SchemaSpec
SYMMETRY Interchangeable
CONSTANTS
  Processes = {p1, p2, p3}
  NumTables = 9
INVARIANTS SchemaTypeOK SoleCreator HeadIsComplete
PROPERTY SuccessRecorded
