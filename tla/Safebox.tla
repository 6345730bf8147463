------------------------------ MODULE Safebox ------------------------------
(* The account state a chain of blocks builds: each block carries ChangeKey *)
(* operations (txchangekey.go Validate and Apply) and mints the accounts of *)
(* NewBlock (block.go).  The safebox itself and the wrapper that checks an  *)
(* operation's op_id and signature are not in src: they follow spec 3, 4.B  *)
(* and 4.F.  Balances are uint64, reduced to BalanceBits bits.              *)
EXTENDS Naturals, Sequences, SequencesExt

CONSTANTS
    Keys,           \* public keys
    BadKey,         \* NewPublickey bytes crypto.NewPublic rejects
    Fees,           \* fees an operation offers
    GenesisBalances,\* balances of the genesis accounts, a sequence of 5
    Sources,        \* account numbers operations name
    MaxBlocks,      \* blocks after genesis
    MaxOps,         \* operations per block
    BalanceBits     \* width of a balance

ASSUME Len(GenesisBalances) = 5

VARIABLES
    accounts,       \* the safebox: accounts[n + 1] is account number n
    height,         \* index of the last block
    feesClaimed,    \* sum of Block.Fee over the blocks applied
    blocks          \* the chain: Block.Serialize() of every block applied

vars == <<accounts, height, feesClaimed, blocks>>

\* uint64 arithmetic.
U64(x) == x % 2^BalanceBits

\* The accounts NewBlock mints: len(block.Accounts) = 5, numbered
\* i + block.GetIndex(), the miner's key, balance 0.
AccountsPerBlock == 5
NewBlockAccounts(index, miner) ==
    [i \in 1..AccountsPerBlock |->
        [number |-> (i - 1) + index, key |-> miner, balance |-> 0,
         updated |-> index, ops |-> 0]]

\* ChangeKey.GetFee.
GetFee(op) == op.fee

\* NewBlock: the fee of a block is the uint64 sum of its operations' fees.
NewBlockFee(ops) == FoldLeft(LAMBDA acc, op : U64(acc + GetFee(op)), 0, ops)

\* SHA-256 (crypto/sha256), abstracted to a collision-free digest: the
\* digest of a byte string is that string under a tag.  A byte string is
\* a sequence whose items are operations or digests.
Sha256(bytes) == [sha256 |-> bytes]

\* Mutant of GetOperationsHash: h.Sum(nil), the running hash is dropped.
GetOperationsHashNoPrefix(operations) ==
    FoldLeft(LAMBDA hash, it : Sha256(<<Sha256(<<it>>)>>), Sha256(<< >>), operations)

\* GetOperationsHash: starting from SHA-256 of "", each operation's
\* SerializeUnderlying is hashed, h.Sum(hash[:]) prefixes the running hash
\* to that digest, and the running hash becomes SHA-256 of the result.
GetOperationsHash(operations) ==
    FoldLeft(LAMBDA hash, it : Sha256(<<hash, Sha256(<<it>>)>>), Sha256(<< >>), operations)

\* SerializeHeader, reduced to the fields the model tells apart: the
\* index and the OperationsHash NewBlock computed.
SerializeHeader(index, operations) ==
    [index |-> index, operationsHash |-> GetOperationsHash(operations)]

\* Block.Serialize: the header followed by the operations.
BlockSerialize(index, operations) ==
    [header |-> SerializeHeader(index, operations), operations |-> operations]

\* A ChangeKey operation.
Operation == [source : Sources, opId : 1..MaxBlocks, fee : Fees,
              newKey : Keys \cup {BadKey}, signer : Keys]

\* getAccount(number): the safebox looks an account up by its number.
NoAccount == [number |-> -1]
GetAccount(accs, n) == IF n < Len(accs) THEN accs[n + 1] ELSE NoAccount

\* Mutant of ChangeKeyValidate: the balance check is missing.
ChangeKeyValidateNoBalance(accs, op) ==
    /\ GetAccount(accs, op.source) # NoAccount
    /\ op.newKey # BadKey

\* ChangeKey.Validate: the source exists, its balance covers the fee and
\* the new key parses.
ChangeKeyValidate(accs, op) ==
    /\ GetAccount(accs, op.source) # NoAccount
    /\ GetAccount(accs, op.source).balance >= op.fee
    /\ op.newKey # BadKey

\* ChangeKey.getSourceInfo: what the signature check reads of an operation.
getSourceInfo(op) == [number |-> op.source, operationId |-> op.opId, publicKey |-> op.signer]

\* The checks every operation gets (spec 3): op_id is the source's
\* operations counter plus one and the signature is by its current key.
OperationValidate(accs, op) ==
    /\ ChangeKeyValidate(accs, op)
    /\ LET info == getSourceInfo(op)
       IN /\ info.operationId = GetAccount(accs, info.number).ops + 1
          /\ info.publicKey = GetAccount(accs, info.number).key

\* ChangeKey.Apply: KeyChange then BalanceSub(fee) on the source, both
\* stamped with the block index.
ChangeKeyApply(accs, op, index) ==
    [accs EXCEPT ![op.source + 1] =
        [@ EXCEPT !.key = op.newKey, !.balance = U64(@ - op.fee), !.updated = index]]

\* The safebox counts each operation applied on its source account, which
\* the next op_id check reads (spec 3).
CountOperation(accs, op) ==
    [accs EXCEPT ![op.source + 1].ops = @ + 1]

\* A block's operations validated and applied one by one on a working
\* copy; the first that fails rejects the block (spec 4.F).
RECURSIVE ApplyOperations(_, _, _)
ApplyOperations(accs, ops, index) ==
    IF ops = << >> THEN [ok |-> TRUE, accs |-> accs]
    ELSE IF ~OperationValidate(accs, Head(ops)) THEN [ok |-> FALSE, accs |-> accs]
    ELSE ApplyOperations(CountOperation(ChangeKeyApply(accs, Head(ops), index), Head(ops)),
                         Tail(ops), index)

\* on_new_block: a block with index height + 1 whose operations all apply
\* advances the safebox; NewBlock's accounts are appended.
ApplyBlock(ops, miner) ==
    /\ height < MaxBlocks
    /\ LET r == ApplyOperations(accounts, ops, height + 1)
       IN /\ r.ok
          /\ accounts' = r.accs \o NewBlockAccounts(height + 1, miner)
    /\ height' = height + 1
    /\ feesClaimed' = U64(feesClaimed + NewBlockFee(ops))
    /\ blocks' = Append(blocks, BlockSerialize(height + 1, ops))

Init ==
    /\ \E miner \in Keys :
          accounts = [i \in 1..AccountsPerBlock |->
                        [NewBlockAccounts(0, miner)[i] EXCEPT !.balance = GenesisBalances[i]]]
    /\ height = 0
    /\ feesClaimed = 0
    /\ blocks = << >>

Next ==
    \E ops \in BoundedSeq(Operation, MaxOps), miner \in Keys : ApplyBlock(ops, miner)

Spec == Init /\ [][Next]_vars

-----------------------------------------------------------------------------
(* Properties                                                             *)

Supply == FoldLeft(LAMBDA acc, a : acc + a.balance, 0, accounts) + feesClaimed

\* Spec 8 (fee conservation): operations only move value from their
\* sources to the block's fee: balances plus the fees claimed stay the
\* genesis supply.  It takes Validate's balance check, Apply's BalanceSub
\* and NewBlock's fee sum to agree, over several blocks.
SupplyConserved ==
    Supply = FoldLeft(LAMBDA acc, b : acc + b, 0, GenesisBalances)

\* Spec 4.C and the glossary: the operations hash in a block's header is a
\* chained digest over the block's ordered operations, so, as long as
\* SHA-256 has no collisions, no other list of the same operations (fewer,
\* repeated or reordered) has that hash.  It takes GetOperationsHash's
\* loop to carry the running hash into every step.
OperationsHashBindsOperations ==
    \A i \in DOMAIN blocks :
        \A t \in BoundedSeq(ToSet(blocks[i].operations), MaxOps) :
            GetOperationsHash(t) = blocks[i].header.operationsHash
                => t = blocks[i].operations

\* Spec 3: account numbers are dense and contiguous; the safebox appends
\* NewBlock's accounts, so account number n is the (n+1)th account.
AccountNumbersDense ==
    \A i \in DOMAIN accounts : accounts[i].number = i - 1

=============================================================================
