SPECIFICATION Spec
CONSTANTS
    Texts <- AllTexts
    MaxRows = 2
    MaxRecordBytes = 4
CHECK_DEADLOCK FALSE
INVARIANTS RowsTrue CapsTrue AgreesWithBuffered
