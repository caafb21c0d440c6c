SPECIFICATION AllSpec
CONSTANTS
    Setups <- MCSetups
    RecordsOf <- MCRecordsOf
    LogLen = 2
    MaxRecords <- MCMaxRecords
    Fields = {"cpu", "status", "processor"}
    CpuOf <- MCCpuOf
    MaxText = 3
INVARIANTS NothingLost OverflowReported ErrorsGoWhereAsked DecodedAsItsCpu YellowOnce ChannelsApart AsciiFaithful
PROPERTY EventuallyHandled
CHECK_DEADLOCK FALSE
