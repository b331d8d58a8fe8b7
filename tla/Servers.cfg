SPECIFICATION FairSpec
CONSTANTS
    Names = {"llama", "comfy"}
    Leased = {"comfy"}
    Pids = {1, 2, 3}
    Zombies = FALSE
    Weather = {"dies", "deaf", "outside", "killed"}
    Beside = {}
    MaxPreset = 0
INVARIANTS
    OnlyItsOwn
    WrittenDown
    OneCopy
    RunTakesItsServersDown
PROPERTIES
    KeptIsRestarted
CHECK_DEADLOCK FALSE
