SPECIFICATION FairSpec
CONSTANTS
    Names = {"llama"}
    Leased = {"llama"}
    Pids = {1, 2}
    Zombies = TRUE
    Weather = {"dies", "edit", "killedAtSpawn", "stubborn", "reuse"}
    Beside = {"start", "stop"}
    MaxPreset = 1
PROPERTIES
    Returns
CHECK_DEADLOCK FALSE
