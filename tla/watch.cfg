CONSTANTS
    config = config
    block = block
    right = right
    wrong = wrong
    None = None
    Sources = {config, block}
    Config = config
    Texts = {right, wrong}
    Faulty = {wrong}
    RescanThreshold = 1
    MaxHold = 3
    MaxQueue = 2
SPECIFICATION FairSpec
INVARIANTS
    TypeOK
    SettledIsBuilt
PROPERTIES
    BatchesAreRun
    RunsStop
