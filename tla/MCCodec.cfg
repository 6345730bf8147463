\* Every packet of up to two blocks, every signed form and every
\* SerializeBytes input, with lengths 0, 2 and 300 (both bytes of the
\* uint16 prefix in use), and the forged streams.
SPECIFICATION Spec
CONSTANTS
    ta = ta
    Tags <- MCTags
    Lens = {0, 2, 300}
    UintVals = {0, 1}
    MaxSliceLen = 2
    NoTag = NoTag
    PacketType <- MCPacketT
    SignType <- MCSignT
    Forged <- MCForged
    Pairs = {"reflect", "sign", "bytes"}
    NoValue = NoValue
    Panic = Panic
    DecodeError = DecodeError
INVARIANTS
    EncodingFollowsSpec
    RoundTrip
