\* The documented run of the legacy data migration on a database that still has
\* the legacy tables.
SPECIFICATION SchemaSpec
CONSTANTS
  Upgrader = {u1}
  Validator = {}
  Operator = {o1}
  Crews = {{o1}}
  Newest = 4
  Attempts = 1
  MaxFaults = 0
PROPERTIES LegacyRowsSurvive
CHECK_DEADLOCK FALSE
