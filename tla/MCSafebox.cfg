\* Two blocks of up to two ChangeKeys from accounts 0, 1 (funded) and 5
\* (minted by block 1), fees 1 and 2 against balances 2 and 1, 8-bit
\* balances so that an underflow would wrap.
SPECIFICATION Spec
CONSTANTS
    k1 = k1
    k2 = k2
    Keys <- MCKeys
    BadKey = BadKey
    Fees = {1, 2}
    GenesisBalances <- MCGenesisBalances
    Sources = {0, 1, 5}
    MaxBlocks = 2
    MaxOps = 2
    BalanceBits = 8
INVARIANT SupplyConserved
INVARIANT OperationsHashBindsOperations
CHECK_DEADLOCK FALSE
