SPECIFICATION Spec
CONSTANTS
    e1 = e1
    e2 = e2
    e3 = e3
    None = None
    Examples <- MCExamples
    Data <- MCData
    Prompts = 2
    RolloutN = 2
    MaxK = 2
    MinK = 1
    StopBelow = 1
    BalanceBatch = TRUE
    UseUpdater = TRUE
    UseSolutionBuffer = TRUE
    DontReprompt = TRUE
    TestFreq = 2
    ForgetFreq = 1
    BufferSize = 2
    SaveFreq = 2
    MaxRestarts = 1
CHECK_DEADLOCK FALSE
PROPERTY
    StopByPrompt
