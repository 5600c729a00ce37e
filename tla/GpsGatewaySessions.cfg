SPECIFICATION FairSpec
CONSTANTS
    Conns = {c1, c2}
    Imeis = {"imei1", "imei2"}
    Capacity = 2
    MaxChunks = 2
PROPERTIES DrainsToEmpty
INVARIANTS TypeOK OneSessionPerImei EveryMessageAccountedFor
CHECK_DEADLOCK FALSE
