SPECIFICATION SchemaSpec
CONSTANTS
  Processes = {p1}
  NumTables = 9
PROPERTY StampedIntact
