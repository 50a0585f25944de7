-------------------------- MODULE MCWalletAccounts --------------------------
EXTENDS WalletAccounts

\* Output objects given to lockunspent: a valid one, one whose vout is
\* negative and one whose txid is not hex.
MCOutArgs ==
    { [txid |-> "t1", hex |-> TRUE,  vout |-> 0],
      [txid |-> "t1", hex |-> TRUE,  vout |-> -1],
      [txid |-> "zz", hex |-> FALSE, vout |-> 1] }
\* listtransactions counts: none, one, two, and the largest int (with
\* IntWidth 4 int is -8..7, so 7 + 1 wraps as INT_MAX + 1 does).
MCPageArgs == {0, 1, 2, 7}
=============================================================================
