CONSTANTS
    Base = 2
    Record <- BitRecords
    FullDuplex = FALSE
    MaxSends = 2
SPECIFICATION StreamSpec
PROPERTY ImplementsChannel
CHECK_DEADLOCK FALSE
