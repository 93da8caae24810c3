\* The file is written during initialize().
SPECIFICATION FairSpec
CONSTANTS
    Pollers = {p1}
    Main = Main
    MaxInits = 1
    MaxVersion = 2
PROPERTIES
    DetectsEveryChange
CHECK_DEADLOCK FALSE
