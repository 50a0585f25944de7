---------------------------- MODULE MCWalletUnlock ---------------------------
EXTENDS WalletUnlock

\* Timeouts of zero and of one and two time units: immediate relock,
\* and overlapping deadlines that extend one another.
MCTimeouts == {0, 1, 2}

=============================================================================
