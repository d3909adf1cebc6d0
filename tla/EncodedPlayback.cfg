SPECIFICATION Spec
CONSTANTS
    Rates = {44, 48}
    NoRate = 0
    Ac3FrameSize = 16
    Supported = {44, 48}
    FrameSize = 3
    PacketSizes = {5, 9}
    Delay = 1
    MaxPush = 4
    MaxSamples = 8
INVARIANTS SamplesOnce PlayedAtRate
PROPERTY PushReturns
CHECK_DEADLOCK FALSE
