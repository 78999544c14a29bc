SPECIFICATION FairSpec
CONSTANTS
    BadNames = {"x;reboot"}
    ClatNames = {"clat4"}
    Texts <- MCTexts
    Orders <- MCOrders
    Ifaces = {"rmnet0", "wlan0"}
    UpNames = {"rmnet0", "wlan0"}
    DownNames = {"wlan0"}
    Nets <- MCNets
    Faulty = TRUE
    DrainMax = 1
    QueueMax = 2
    Budget = 2
INVARIANTS TypeOK ReadAsWritten AtRest
PROPERTIES ConfigureKeeps Settles
CHECK_DEADLOCK FALSE
