SPECIFICATION Spec
CONSTANTS
  put1 = put1
  put2 = put2
  put3 = put3
  run1 = run1
  greeting = greeting
  farewell = farewell
  Puts = {put1, put2, put3}
  Saves = {run1}
  Name <- MCName
  Table <- MCTable
  RecordOf <- MCRecordOf
  Free = Free
  MaxFaults = 1
INVARIANTS
  ConfirmedIsReadable
PROPERTIES
  ImplementsLedger
  RefusedForAWriter
  StartsAgain
CHECK_DEADLOCK FALSE
