\* SerializeBytes of 32768 bytes read back with DeserializeBytes.
SPECIFICATION Spec
CONSTANTS
    ta = ta
    Tags <- MCTags
    Lens = {32768}
    UintVals = {0, 1}
    MaxSliceLen = 2
    NoTag = NoTag
    PacketType <- MCPacketT
    SignType <- MCSignT
    Forged <- MCForged
    Pairs = {"bytes"}
    NoValue = NoValue
    Panic = Panic
    DecodeError = DecodeError
INVARIANT RoundTrip
