\* Every call and every answer; 60 octets for a payload, short texts of 6 units.
SPECIFICATION Spec
CONSTANTS
  Capacity = 60
  MaxShort = 6
  Texts <- MCTexts
  Numbers <- MCNumbers
  Tables <- MCTables
  ServerTables <- MCServerTables
CHECK_DEADLOCK FALSE
INVARIANTS WireIsAMQP InStep ServerUnderstood RefusesTheUnfit
