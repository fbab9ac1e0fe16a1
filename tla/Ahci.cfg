CONSTANTS
    LastPort = 1
    CdPort = 1
    Kinds = {"none", "ata", "atapi"}
    SectorUnits = 2
    PartitionStart = 1
    DiscSectors = 3
    MaxCount = 2
    MaxReads = 2
SPECIFICATION Spec
INVARIANTS
    BasesAreDrivers
    ReadsOwnData
PROPERTIES
    WaitsEnd
CHECK_DEADLOCK FALSE
