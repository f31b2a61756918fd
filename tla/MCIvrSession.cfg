SPECIFICATION FairIvrSpec
CONSTANTS
    Menus <- FullMenus
    NoMenu = NoMenu
    Root = "root"
    Digits <- FullDigits
    NoTarget = NoTarget
    Script <- FullScript
    MaxDigits = 4
CHECK_DEADLOCK FALSE
INVARIANTS
    NeverDeaf
    ClosedIsQuiet
PROPERTIES
    PausedHolds
    AsksOrEnds
