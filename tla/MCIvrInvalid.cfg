SPECIFICATION FairIvrSpec
CONSTANTS
    Menus <- DocMenus
    NoMenu = NoMenu
    Root = "root"
    Digits <- DocDigits
    NoTarget = NoTarget
    Script <- DocScript
    MaxDigits = 2
CHECK_DEADLOCK FALSE
PROPERTIES
    AsksOrEnds
