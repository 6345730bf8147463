----------------------------- MODULE MCSafebox -----------------------------
(* Model-checking instance of Safebox: two keys, a genesis with two funded *)
(* accounts, two blocks of up to two ChangeKey operations.                 *)
EXTENDS Safebox

CONSTANTS k1, k2

MCKeys == {k1, k2}
MCGenesisBalances == <<2, 1, 0, 0, 0>>
=============================================================================
