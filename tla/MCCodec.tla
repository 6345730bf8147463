------------------------------ MODULE MCCodec ------------------------------
(* Model-checking instance of Codec with the packets of connection.go and  *)
(* the signed form of ChangeKey, reduced to one field of each kind.        *)
EXTENDS Codec

CONSTANTS ta

\* SerializedBlockHeader reduced to HeaderOnly, Index and Miner.
MCHeaderT == StructT(<<UintT(1), UintT(4), BytesT>>)
\* SerializedBlock; an operation (tx.Tx, not in src) abstracted to a uint32.
MCBlockT == StructT(<<MCHeaderT, SliceT(UintT(4))>>)
\* packetGetBlocksResponse.
MCPacketT == StructT(<<SliceT(MCBlockT)>>)
\* changeKeyToSign without Public (crypto, not in src): Source, Operation,
\* Fee, Payload behind Serializable, NewPublic.
MCSignT == StructT(<<UintT(4), UintT(4), UintT(8), IfaceT, BytesT>>)

MCTags == {ta}
\* A count of 3 blocks with nothing after it; a block with a Miner length
\* prefix and no bytes.
MCForged == {<<UintItem(4, 3)>>,
             <<UintItem(4, 1), UintItem(1, 2), UintItem(4, 0), UintItem(2, 5)>>}
=============================================================================
