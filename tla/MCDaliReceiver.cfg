SPECIFICATION ReceiverSpec
CONSTANTS
    Scene <- MCScene
    Quiet <- MCQuiet
    Silence = 26
INVARIANTS
    SingleFrameReceived
    CollisionHeard
    CutFrameIsNoCommand
CHECK_DEADLOCK FALSE
