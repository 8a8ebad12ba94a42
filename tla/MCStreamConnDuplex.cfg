CONSTANTS
    Base = 2
    Record <- BitRecords
    FullDuplex = TRUE
    MaxSends = 1
SPECIFICATION StreamSpec
PROPERTY ImplementsChannel
CHECK_DEADLOCK FALSE
