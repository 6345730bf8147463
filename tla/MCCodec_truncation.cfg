\* A packet whose Miner field is 65536 bytes long, sent and read back.
SPECIFICATION Spec
CONSTANTS
    ta = ta
    Tags <- MCTags
    Lens = {65536}
    UintVals = {0, 1}
    MaxSliceLen = 2
    NoTag = NoTag
    PacketType <- MCPacketT
    SignType <- MCSignT
    Forged <- MCForged
    Pairs = {"reflect"}
    NoValue = NoValue
    Panic = Panic
    DecodeError = DecodeError
INVARIANT RoundTrip
