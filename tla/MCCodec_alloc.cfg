\* Deserialize of the streams a remote peer crafts.
SPECIFICATION Spec
CONSTANTS
    ta = ta
    Tags <- MCTags
    Lens = {0}
    UintVals = {0, 1}
    MaxSliceLen = 2
    NoTag = NoTag
    PacketType <- MCPacketT
    SignType <- MCSignT
    Forged <- MCForged
    Pairs = {}
    NoValue = NoValue
    Panic = Panic
    DecodeError = DecodeError
INVARIANT AllocationBounded
