--------------------------- MODULE WalletAccounts ---------------------------
(***************************************************************************)
(* The account RPCs of src/src/rpcwallet.cpp on one wallet: move, sendfrom, *)
(* sendmany, sendtoaddress and lockunspent, each an RPC call run to its end *)
(* in one step.                                                            *)
(*                                                                         *)
(* CWallet itself (wallet.cpp) is not in this repository; it is abstracted  *)
(* to what the RPCs read and write:                                        *)
(*   wtx        mapWallet: per transaction the account it is credited to or *)
(*              sent from, the amount received and sent, and its depth;    *)
(*   acentries  the accounting entries that move writes;                   *)
(*   locked     IsLocked() (walletpassphrase/walletlock, see WalletUnlock); *)
(*   lockedCoins setLockedCoins (LockCoin/UnlockCoin/UnlockAllCoins).      *)
(* GetAccountBalance is the usual sum: credits at the requested depth,     *)
(* minus what was sent, plus the accounting entries (fees are 0 here).     *)
(* An amount held in a uint64 is taken modulo 2^Width.                     *)
(***************************************************************************)
EXTENDS Integers, Sequences, SequencesExt

CONSTANTS
    Accounts,   \* account names callers pass, "*" among them
    Amounts,    \* amounts callers pass (AmountFromValue gives positive ones)
    MinDepths,  \* minconf values callers pass
    OutArgs,    \* lockunspent output objects: [txid, hex, vout]
    Passphrases,\* passphrases callers pass, "" among them
    KeyPoolSize,\* GetArg("-keypool", 100)
    NoPass,     \* the passphrase of a wallet that is not encrypted
    Width,      \* bits of uint64
    MaxEntries, \* bound on wallet transactions plus accounting entries
    Keys,       \* the wallet's key addresses (bounds the keys ever handed out)
    DefaultKey, \* vchDefaultKey, labelled "" when the wallet was created
    Foreign,    \* an address of someone else
    NoKey,      \* CAccount.vchPubKey not valid
    NoLabel,    \* an address not in mapAddressBook
    IntWidth,   \* bits of int
    PageArgs    \* the count and from arguments listtransactions is given

ASSUME \A n \in Amounts : n > 0
ASSUME "*" \in Accounts
ASSUME "" \in Passphrases /\ NoPass \notin Passphrases
ASSUME DefaultKey \in Keys /\ Foreign \notin Keys
ASSUME PageArgs \subseteq 0..(2^(IntWidth - 1) - 1)

VARIABLES
    wtx,         \* mapWallet, in arrival order
    acentries,   \* accounting entries: [acct, delta]
    locked,      \* IsLocked()
    lockedCoins, \* setLockedCoins: outpoints <<txid, vout>>
    last,        \* the last RPC call: [op, acct, amt, bal, ok]
    crypted,     \* IsCrypted()
    passphrase,  \* the passphrase the master key is encrypted with
    keypool,     \* GetKeyPoolSize()
    topUp,       \* a ThreadTopUpKeyPool started by walletpassphrase is pending
    stopping,    \* StartShutdown() was called: the server takes no more calls
    book,        \* mapAddressBook: address -> account name, or NoLabel
    acctKey,     \* per account, the CAccount record's vchPubKey (wallet db)
    issued       \* the keys taken from the pool so far

keyVars == <<crypted, passphrase, keypool, topUp, stopping>>
bookVars == <<book, acctKey, issued>>
vars == <<wtx, acentries, locked, lockedCoins, last, keyVars, bookVars>>

Names == Accounts \ {"*"}
Addrs == Keys \cup {Foreign}
WTx == [to : Addrs, from : Names, recv : Nat, sent : Nat, depth : {0, 1}, pos : Nat]
NoCall == [op |-> "none", acct |-> "", amt |-> 0, bal |-> 0, ok |-> FALSE]

TypeOK ==
    /\ wtx \in Seq(WTx)
    /\ acentries \in Seq([acct : Names, delta : Int, pos : Nat])
    /\ locked \in BOOLEAN
    /\ locked => crypted
    /\ crypted \in BOOLEAN
    /\ passphrase \in IF crypted THEN Passphrases \ {""} ELSE {NoPass}
    /\ keypool \in 0..KeyPoolSize
    /\ topUp \in BOOLEAN
    /\ stopping \in BOOLEAN
    /\ book \in [Addrs -> Names \cup {NoLabel}]
    /\ acctKey \in [Names -> issued \cup {NoKey}]
    /\ issued \subseteq Keys
    /\ lockedCoins \subseteq {<<o.txid, o.vout>> : o \in OutArgs}
    /\ last.op \in {"none", "move", "sendfrom", "sendmany", "sendtoaddress",
                    "lockunspent", "getnewaddress", "keypoolrefill",
                    "walletpassphrasechange", "encryptwallet",
                    "getaccountaddress", "setaccount"}

-----------------------------------------------------------------------------
(* CWallet, abstracted.                                                     *)

RECURSIVE SeqSum(_)
SeqSum(s) == IF s = << >> THEN 0 ELSE Head(s) + SeqSum(Tail(s))

SumOf(s, f(_)) == SeqSum([i \in 1..Len(s) |-> f(s[i])])

\* The account a payment to address k is credited to: its address-book
\* name, or "" when it has none (CWalletTx::GetAccountAmounts).
Owner(k) == IF book[k] = NoLabel THEN "" ELSE book[k]

\* CWallet::GetAccountBalance(strAccount, nMinDepth), an int64: credits to
\* the account's addresses at the depth, less what it sent, plus entries.
GetAccountBalance(a, minDepth) ==
    SumOf(wtx, LAMBDA w : (IF w.depth >= minDepth /\ Owner(w.to) = a THEN w.recv ELSE 0)
                          - (IF w.from = a THEN w.sent ELSE 0))
    + SumOf(SelectSeq(acentries, LAMBDA e : e.acct = a), LAMBDA e : e.delta)

\* nOrderPosNext: whatever the wallet adds, a transaction or an accounting
\* entry, takes the next order position (CWallet::IncOrderPosNext).
NextPos == Len(wtx) + Len(acentries) + 1

\* The funds CreateTransaction can select: confirmed credits less spends.
AvailableFunds ==
    SumOf(wtx, LAMBDA w : (IF w.depth >= 1 THEN w.recv ELSE 0) - w.sent)

\* SendMoneyToDestination: fails unless the wallet can cover n; on success
\* the new transaction is debited to the account it is sent from.
SendMoney(a, n) ==
    /\ n <= AvailableFunds
    /\ wtx' = Append(wtx, [to |-> Foreign, from |-> a, recv |-> 0, sent |-> n, depth |-> 0, pos |-> NextPos])

\* AccountFromValue (lines 56-62) with its check dropped.
AccountFromValueAny(a) == TRUE

\* AccountFromValue (lines 56-62): "*" is not an account name.
AccountFromValue(a) == a # "*"

Room == Len(wtx) + Len(acentries) < MaxEntries

\* A uint64 holding an int64 value.
U64(x) == x % (2^Width)

-----------------------------------------------------------------------------
(* The RPCs.                                                                *)

Init ==
    /\ wtx = << >>
    /\ acentries = << >>
    /\ crypted \in BOOLEAN
    /\ passphrase \in IF crypted THEN Passphrases \ {""} ELSE {NoPass}
    /\ locked = crypted
    /\ keypool \in 0..KeyPoolSize
    /\ topUp = FALSE
    /\ stopping = FALSE
    /\ lockedCoins = {}
    /\ last = NoCall
    /\ issued = {DefaultKey}
    /\ book = [k \in Addrs |-> IF k = DefaultKey THEN "" ELSE NoLabel]
    /\ acctKey = [a \in Names |-> NoKey]

\* The outcome of an RPC as far as the properties look at it: what a
\* sendfrom or sendmany saw and did; any other RPC leaves NoCall.
Call(op, a, n, bal, ok) ==
    last' = IF op \in {"sendfrom", "sendmany"}
            THEN [op |-> op, acct |-> a, amt |-> n, bal |-> bal, ok |-> ok]
            ELSE NoCall

\* A move that writes the debit entry without negating the amount.
MoveCmdDebitPositive(from, to, n) ==
    /\ ~stopping /\ AccountFromValue(from) /\ AccountFromValue(to) /\ Room
    /\ acentries' = acentries \o << [acct |-> from, delta |-> n, pos |-> NextPos],
                                    [acct |-> to, delta |-> n, pos |-> NextPos + 1] >>
    /\ Call("move", from, n, GetAccountBalance(from, 1), TRUE)
    /\ UNCHANGED <<wtx, locked, lockedCoins, keyVars, bookVars>>

\* movecmd (lines 549-596): AccountFromValue refuses "*" for either account;
\* the debit and the credit are written in one database transaction.  No
\* balance is checked.  When TxnBegin or TxnCommit fails ("database
\* error", lines 567-568, 592-593) the transaction is aborted and neither
\* entry is kept.
MoveCmd(from, to, n) ==
    /\ ~stopping /\ AccountFromValue(from) /\ AccountFromValue(to) /\ Room
    /\ \/ /\ acentries' = acentries \o << [acct |-> from, delta |-> -n, pos |-> NextPos],
                                          [acct |-> to, delta |-> n, pos |-> NextPos + 1] >>
          /\ Call("move", from, n, GetAccountBalance(from, 1), TRUE)
       \/ /\ UNCHANGED acentries
          /\ Call("move", from, n, GetAccountBalance(from, 1), FALSE)
    /\ UNCHANGED <<wtx, locked, lockedCoins, keyVars, bookVars>>

\* The funds check of sendfrom and sendmany (lines 674-679, 741-746):
\* EnsureWalletIsUnlocked, then the account balance, stored in a uint64,
\* must cover the amount; then the wallet sends it or fails.
SpendFromAccount(op, a, n, minDepth) ==
    LET bal == GetAccountBalance(a, minDepth) IN
    /\ ~stopping /\ AccountFromValue(a) /\ ~locked /\ Room
    /\ \/ /\ n > U64(bal)
          /\ Call(op, a, n, bal, FALSE)
          /\ UNCHANGED wtx
       \/ /\ n <= U64(bal)
          /\ \/ SendMoney(a, n) /\ Call(op, a, n, bal, TRUE)
             \/ n > AvailableFunds /\ Call(op, a, n, bal, FALSE) /\ UNCHANGED wtx
    /\ UNCHANGED <<acentries, locked, lockedCoins, keyVars, bookVars>>

\* sendfrom (lines 640-687).
SendFrom(a, n, minDepth) == SpendFromAccount("sendfrom", a, n, minDepth)

\* sendmany (lines 690-759): one transaction paying the sum of the amounts
\* to distinct addresses.
SendMany(a, amts, minDepth) ==
    SpendFromAccount("sendmany", a, SumOf(SetToSeq(amts), LAMBDA x : x), minDepth)

\* sendtoaddress (lines 598-638): IsLocked is tested at line 630; the send
\* is debited to the default account "".
SendToAddress(n) ==
    /\ ~stopping /\ ~locked /\ Room
    /\ \/ SendMoney("", n) /\ Call("sendtoaddress", "", n, 0, TRUE)
       \/ n > AvailableFunds /\ Call("sendtoaddress", "", n, 0, FALSE) /\ UNCHANGED wtx
    /\ UNCHANGED <<acentries, locked, lockedCoins, keyVars, bookVars>>

\* The checks of one output object at lines 1614-1626.
ValidOut(o) == o.hex /\ o.vout >= 0

\* The outputs lockunspent applies before it throws at the first invalid one.
Applied(outs) ==
    LET bad == {i \in 1..Len(outs) : ~ValidOut(outs[i])}
        k   == IF bad = {} THEN Len(outs) ELSE Min(bad) - 1
    IN  {<<outs[i].txid, outs[i].vout>> : i \in 1..k}

\* lockunspent with one parameter (lines 1605-1609).
LockUnspentAll(fUnlock) ==
    /\ ~stopping
    /\ lockedCoins' = IF fUnlock THEN {} ELSE lockedCoins
    /\ Call("lockunspent", "", 0, 0, TRUE)
    /\ UNCHANGED <<wtx, acentries, locked, keyVars, bookVars>>

\* lockunspent with a list of outputs (lines 1611-1636).
LockUnspent(fUnlock, outs) ==
    /\ ~stopping
    /\ lockedCoins' = IF fUnlock THEN lockedCoins \ Applied(outs)
                                 ELSE lockedCoins \cup Applied(outs)
    /\ Call("lockunspent", "", 0, 0, \A i \in 1..Len(outs) : ValidOut(outs[i]))
    /\ UNCHANGED <<wtx, acentries, locked, keyVars, bookVars>>

-----------------------------------------------------------------------------
(* The environment: payments arrive and confirm; the wallet is unlocked     *)
(* and relocked.                                                            *)

Receive(k, n) ==
    /\ ~stopping /\ k \in issued /\ Room
    /\ wtx' = Append(wtx, [to |-> k, from |-> "", recv |-> n, sent |-> 0, depth |-> 0, pos |-> NextPos])
    /\ UNCHANGED <<acentries, locked, lockedCoins, last, keyVars, bookVars>>

Confirm(i) ==
    /\ ~stopping
    /\ wtx[i].depth = 0
    /\ wtx' = [wtx EXCEPT ![i].depth = 1]
    /\ UNCHANGED <<acentries, locked, lockedCoins, last, keyVars, bookVars>>

-----------------------------------------------------------------------------
(* Keys and encryption.                                                     *)

ledgerVars == <<wtx, acentries, lockedCoins>>

\* CWallet::TopUpKeyPool: refills the pool to -keypool keys, and does
\* nothing while the wallet is locked (the new keys could not be encrypted).
TopUpKeyPool == IF locked THEN keypool ELSE KeyPoolSize

\* EnsureWalletIsUnlocked (lines 31-35).
EnsureWalletIsUnlocked == ~locked

\* CWallet::GetKeyFromPool(key, false): the pool (topped up first when the
\* wallet is unlocked) has a key, or an unlocked wallet generates one.
PoolHasKey == TopUpKeyPool > 0 \/ ~locked

\* The key k leaves the pool (or is generated when it is empty).
TakeKey(k) ==
    /\ k \in Keys \ issued
    /\ issued' = issued \cup {k}
    /\ keypool' = IF TopUpKeyPool > 0 THEN TopUpKeyPool - 1 ELSE TopUpKeyPool

\* getnewaddress (lines 128-154): AccountFromValue, TopUpKeyPool when
\* unlocked, a key from the pool labelled with the account; "Keypool ran
\* out" when locked with an empty pool.
GetNewAddress(a) ==
    /\ ~stopping /\ AccountFromValue(a)
    /\ \/ /\ PoolHasKey
          /\ \E k \in Keys : TakeKey(k) /\ book' = [book EXCEPT ![k] = a]
          /\ Call("getnewaddress", a, 0, 0, TRUE)
       \/ /\ ~PoolHasKey
          /\ Call("getnewaddress", a, 0, 0, FALSE)
          /\ UNCHANGED <<keypool, issued, book>>
    /\ UNCHANGED <<ledgerVars, locked, crypted, passphrase, topUp, stopping, acctKey>>

\* The bKeyUsed scan of GetAccountAddress (lines 165-180): some wallet
\* transaction has an output to k.
Used(k) == \E i \in 1..Len(wtx) : wtx[i].to = k

\* GetAccountAddress (lines 157-193) takes a new key for account a when
\* its CAccount has none, when bForceNew, or when its key was paid to.
NeedsNewKey(a, force) == acctKey[a] = NoKey \/ force \/ Used(acctKey[a])

\* Lines 183-190: the new key k becomes a's CAccount key (WriteAccount);
\* its SetAddressBookName is the caller's book' conjunct.
NewAccountKey(a, k) ==
    /\ TakeKey(k)
    /\ acctKey' = [acctKey EXCEPT ![a] = k]

\* getaccountaddress (lines 195-211).
GetAccountAddressCmd(a) ==
    /\ ~stopping /\ AccountFromValue(a)
    /\ \/ /\ ~NeedsNewKey(a, FALSE)
          /\ Call("getaccountaddress", a, 0, 0, TRUE)
          /\ UNCHANGED <<keypool, bookVars>>
       \/ /\ NeedsNewKey(a, FALSE) /\ PoolHasKey
          /\ \E k \in Keys : NewAccountKey(a, k) /\ book' = [book EXCEPT ![k] = a]
          /\ Call("getaccountaddress", a, 0, 0, TRUE)
       \/ /\ NeedsNewKey(a, FALSE) /\ ~PoolHasKey
          /\ Call("getaccountaddress", a, 0, 0, FALSE)
          /\ UNCHANGED <<keypool, bookVars>>
    /\ UNCHANGED <<ledgerVars, locked, crypted, passphrase, topUp, stopping>>

\* A setaccount without the check of lines 233-239.
SetAccountNoRefresh(addr, a) ==
    /\ ~stopping /\ AccountFromValue(a)
    /\ book' = [book EXCEPT ![addr] = a]
    /\ Call("setaccount", a, 0, 0, TRUE)
    /\ UNCHANGED <<ledgerVars, locked, crypted, passphrase, topUp, stopping,
                   keypool, acctKey, issued>>

\* setaccount (lines 214-243).  When the address has a name, lines
\* 233-239 call GetAccountAddress for that account, which takes a new key
\* for it if it needs one, and when the address is that account's unused
\* current key, once more with bForceNew: either way at most one new key,
\* and a throw ("Keypool ran out") leaves everything as it was.  Then the
\* address gets the new name.
SetAccount(addr, a) ==
    LET old     == book[addr]
        refresh == old # NoLabel /\ (NeedsNewKey(old, FALSE) \/ acctKey[old] = addr)
    IN  /\ ~stopping /\ AccountFromValue(a)
        /\ \/ /\ ~refresh
              /\ book' = [book EXCEPT ![addr] = a]
              /\ Call("setaccount", a, 0, 0, TRUE)
              /\ UNCHANGED <<keypool, acctKey, issued>>
           \/ /\ refresh /\ PoolHasKey
              /\ \E k \in Keys : NewAccountKey(old, k)
                                 /\ book' = [book EXCEPT ![k] = old, ![addr] = a]
              /\ Call("setaccount", a, 0, 0, TRUE)
           \/ /\ refresh /\ ~PoolHasKey
              /\ Call("setaccount", a, 0, 0, FALSE)
              /\ UNCHANGED <<keypool, bookVars>>
        /\ UNCHANGED <<ledgerVars, locked, crypted, passphrase, topUp, stopping>>

\* keypoolrefill (lines 1314-1330).
KeypoolRefill ==
    /\ ~stopping /\ EnsureWalletIsUnlocked
    /\ keypool' = TopUpKeyPool
    /\ Call("keypoolrefill", "", 0, 0, TopUpKeyPool >= KeyPoolSize)
    /\ UNCHANGED <<ledgerVars, locked, crypted, passphrase, topUp, stopping, bookVars>>

\* ThreadTopUpKeyPool (lines 1333-1339), started by walletpassphrase at
\* line 1421; it runs whenever the scheduler gets to it, possibly after
\* the wallet was locked again.
ThreadTopUpKeyPool ==
    /\ topUp
    /\ keypool' = TopUpKeyPool
    /\ topUp' = FALSE
    /\ UNCHANGED <<ledgerVars, last, locked, crypted, passphrase, stopping, bookVars>>

\* walletpassphrase with the right passphrase (lines 1398-1423): unlock
\* and start ThreadTopUpKeyPool (the relock thread is WalletUnlock's).
Unlock(p) ==
    /\ ~stopping /\ crypted /\ locked
    /\ p # "" /\ p = passphrase
    /\ locked' = FALSE
    /\ topUp' = TRUE
    /\ UNCHANGED <<ledgerVars, last, crypted, passphrase, keypool, stopping, bookVars>>

\* walletlock (lines 1474-1480), or the relock thread's Lock (line 1373).
Relock ==
    /\ crypted /\ ~locked
    /\ locked' = TRUE
    /\ UNCHANGED <<ledgerVars, last, crypted, passphrase, keypool, topUp, stopping, bookVars>>

\* walletpassphrasechange (lines 1429-1460): both passphrases non-empty;
\* ChangeWalletPassphrase succeeds only with the current one and leaves
\* the wallet locked or unlocked as it was.
WalletPassphraseChange(old, new) ==
    /\ ~stopping /\ crypted
    /\ old # "" /\ new # ""
    /\ passphrase' = IF old = passphrase THEN new ELSE passphrase
    /\ Call("walletpassphrasechange", "", 0, 0, old = passphrase)
    /\ UNCHANGED <<ledgerVars, locked, crypted, keypool, topUp, stopping, bookVars>>

\* encryptwallet (lines 1486-1520), by an admin: EncryptWallet encrypts the
\* keys, replaces the key pool and locks the wallet; then StartShutdown.
EncryptWalletCmd(isAdmin, p) ==
    /\ ~stopping /\ isAdmin /\ ~crypted /\ p # ""
    /\ crypted' = TRUE
    /\ passphrase' = p
    /\ locked' = TRUE
    /\ keypool' = KeyPoolSize
    /\ stopping' = TRUE
    /\ Call("encryptwallet", "", 0, 0, TRUE)
    /\ UNCHANGED <<ledgerVars, topUp, bookVars>>

Next ==
    \/ \E from, to \in Accounts, n \in Amounts : MoveCmd(from, to, n)
    \/ \E a \in Accounts, n \in Amounts, d \in MinDepths : SendFrom(a, n, d)
    \/ \E a \in Accounts, amts \in SUBSET Amounts, d \in MinDepths :
          amts # {} /\ SendMany(a, amts, d)
    \/ \E n \in Amounts : SendToAddress(n)
    \/ \E u \in BOOLEAN : LockUnspentAll(u)
    \/ \E u \in BOOLEAN, outs \in BoundedSeq(OutArgs, 2) :
          outs # << >> /\ LockUnspent(u, outs)
    \/ \E k \in Keys, n \in Amounts : Receive(k, n)
    \/ \E i \in 1..Len(wtx) : Confirm(i)
    \/ \E a \in Accounts : GetNewAddress(a) \/ GetAccountAddressCmd(a)
    \/ \E k \in issued, a \in Accounts : SetAccount(k, a)
    \/ KeypoolRefill
    \/ ThreadTopUpKeyPool
    \/ \E p \in Passphrases : Unlock(p)
    \/ Relock
    \/ \E old, new \in Passphrases : WalletPassphraseChange(old, new)
    \/ \E p \in Passphrases : EncryptWalletCmd(TRUE, p)

Spec == Init /\ [][Next]_vars

-----------------------------------------------------------------------------
(* The read-only account RPCs, as what they return in a state.              *)

\* getaddressesbyaccount (lines 264-285): the addresses labelled a.
GetAddressesByAccount(a) == {k \in Addrs : book[k] = a}

\* GetAccountAddresses (lines 449-457): the address-book entries named a.
GetAccountAddresses(a) == {k \in Addrs : book[k] = a}

\* getreceivedbyaccount <account> [minconf] (lines 460-496): what the own
\* addresses of the account received in transactions at minconf.
GetReceivedByAccount(a, minDepth) ==
    U64(SumOf(wtx, LAMBDA w : IF /\ w.depth >= minDepth /\ w.to \in Keys
                                 /\ w.to \in GetAccountAddresses(a)
                              THEN w.recv ELSE 0))

\* The tally of ListReceived without its depth test.
TallyAnyDepth(minDepth) ==
    LET paid == {i \in 1..Len(wtx) : wtx[i].to \in Keys} IN
    [k \in {wtx[i].to : i \in paid} |->
        U64(SumOf(SelectSeq(wtx, LAMBDA w : w.to = k), LAMBDA w : w.recv))]

\* The tally of ListReceived (lines 886-907): per own address paid by a
\* transaction at minconf, the total it received there.
Tally(minDepth) ==
    LET paid == {i \in 1..Len(wtx) : wtx[i].depth >= minDepth /\ wtx[i].to \in Keys} IN
    [k \in {wtx[i].to : i \in paid} |->
        U64(SumOf(SelectSeq(wtx, LAMBDA w : w.to = k /\ w.depth >= minDepth),
                  LAMBDA w : w.recv))]

\* listreceivedbyaccount [minconf] [includeempty] (lines 992-1005), i.e.
\* ListReceived with fByAccounts (lines 909-971): every address-book entry
\* with a tally, or every one when includeempty, adds its amount to its
\* label's total.
ListReceivedByAccount(minDepth, includeEmpty) ==
    LET t     == Tally(minDepth)
        shown == {k \in Addrs : book[k] # NoLabel /\ (k \in DOMAIN t \/ includeEmpty)}
        amt(k) == IF k \in DOMAIN t THEN t[k] ELSE 0
    IN  [a \in {book[k] : k \in shown} |->
            U64(SumOf(SetToSeq({k \in shown : book[k] = a}), amt))]

\* getbalance <account> [minconf] (lines 498-509, 537-546): the account's
\* balance, held in a uint64.
GetBalance(a, minDepth) == U64(GetAccountBalance(a, minDepth))

\* A pass that debits what was sent only at minconf, inside the depth test.
TallyTxSentAtDepth(m, w, minDepth) ==
    [a \in Names |-> U64(m[a] + (IF w.depth >= minDepth
                                 THEN (IF w.to \in Keys /\ Owner(w.to) = a THEN w.recv ELSE 0)
                                      - (IF w.from = a THEN w.sent ELSE 0)
                                 ELSE 0))]

\* One pass of the loop of listaccounts (lines 1158-1184) over a
\* transaction: what it sent is debited to its account whatever its depth;
\* at minconf, what it received at an own address is credited to that
\* address's label, or to "" when the address has none.  The tally is a
\* map<string, uint64>.
TallyTx(m, w, minDepth) ==
    [a \in Names |-> U64(m[a] - (IF w.from = a THEN w.sent ELSE 0)
                         + (IF w.depth >= minDepth /\ w.to \in Keys /\ Owner(w.to) = a
                            THEN w.recv ELSE 0))]

\* The accounts listaccounts reports: the labels of own addresses (lines
\* 1154-1157), the account of every transaction (line 1168), every
\* account credited (lines 1176-1181) and every accounting entry's account.
ListedAccounts(minDepth) ==
    {book[k] : k \in {j \in Keys : book[j] # NoLabel}}
    \cup {wtx[i].from : i \in 1..Len(wtx)}
    \cup {Owner(wtx[i].to) : i \in {j \in 1..Len(wtx) : wtx[j].depth >= minDepth /\ wtx[j].to \in Keys}}
    \cup {acentries[i].acct : i \in 1..Len(acentries)}

\* The loop of listaccounts over mapWallet (lines 1158-1184), and the one
\* over the accounting entries (lines 1188-1191), each a map<string, uint64>.
RECURSIVE TallyTxs(_, _, _)
TallyTxs(m, ws, minDepth) ==
    IF ws = << >> THEN m ELSE TallyTxs(TallyTx(m, Head(ws), minDepth), Tail(ws), minDepth)

RECURSIVE TallyEntries(_, _)
TallyEntries(m, es) ==
    IF es = << >> THEN m
    ELSE TallyEntries([m EXCEPT ![Head(es).acct] = U64(@ + Head(es).delta)], Tail(es))

\* listaccounts [minconf] (lines 1143-1198): the tally over mapWallet, then
\* every accounting entry (ListAccountCreditDebit("*")) added.
ListAccounts(minDepth) ==
    LET tally == TallyEntries(TallyTxs([a \in Names |-> 0], wtx, minDepth), acentries)
    IN  [a \in ListedAccounts(minDepth) |-> tally[a]]

\* ListTransactions(wtx, strAccount, 0, ...) (lines 1007-1066): a "send"
\* entry for the account the transaction was sent from, then a "receive"
\* entry for the output to a wallet key, under its address-book name, each
\* kept when strAccount is "*" or that account.
TxEntries(w, a) ==
    (IF w.sent > 0 /\ (a = "*" \/ a = w.from)
       THEN << [acct |-> w.from, cat |-> "send", amt |-> -w.sent] >> ELSE << >>)
    \o (IF w.recv > 0 /\ w.to \in Keys /\ (a = "*" \/ Owner(w.to) = a)
          THEN << [acct |-> Owner(w.to), cat |-> "receive", amt |-> w.recv] >> ELSE << >>)

\* AcentryToJSON (lines 1068-1083): a "move" entry for the accounting
\* entry's account.
AcEntries(e, a) ==
    IF a = "*" \/ e.acct = a
      THEN << [acct |-> e.acct, cat |-> "move", amt |-> e.delta] >> ELSE << >>

\* The entries of the item at order position p of OrderedTxItems: the
\* transaction or the accounting entry that holds that position.
ItemEntries(p, a) ==
    IF \E i \in 1..Len(wtx) : wtx[i].pos = p
      THEN TxEntries(wtx[CHOOSE i \in 1..Len(wtx) : wtx[i].pos = p], a)
      ELSE AcEntries(acentries[CHOOSE i \in 1..Len(acentries) : acentries[i].pos = p], a)

\* The entries of every item, newest first (OrderedTxItems, iterated
\* backwards with ListTransactions and AcentryToJSON, lines 1110-1121).
ItemsNewestFirst(a) == [i \in 1..(NextPos - 1) |-> ItemEntries(NextPos - i, a)]

\* C++ int arithmetic: nCount + nFrom wraps at IntWidth bits.
CInt(x) == LET half == 2^(IntWidth - 1) IN ((x + half) % (2 * half)) - half

\* The loop of listtransactions (lines 1113-1122): append the entries of
\* each item, newest first, and break once (int)ret.size() >= need.
RECURSIVE Gather(_, _)
Gather(items, need) ==
    IF items = << >> THEN << >>
    ELSE IF Len(Head(items)) >= need THEN Head(items)
    ELSE Head(items) \o Gather(Tail(items), need - Len(Head(items)))

\* Lines 1125-1138: clamp nFrom and nCount to what was gathered, erase
\* outside [first, last) and return the rest oldest first.  An iterator
\* advanced outside [first, end] is undefined behaviour.
Window(ret, count, from) ==
    LET f == IF from > Len(ret) THEN Len(ret) ELSE from
        c == IF CInt(f + count) > Len(ret) THEN Len(ret) - f ELSE count
        e == CInt(f + c)
    IN  IF e < f \/ e > Len(ret)
          THEN [status |-> "undefined", ret |-> << >>]
          ELSE [status |-> "ok", ret |-> Reverse(SubSeq(ret, f + 1, e))]

\* listtransactions [account] [count] [from] (lines 1085-1141): negative
\* arguments are refused; otherwise gather nCount + nFrom entries (an int)
\* and take the window.
ListTransactionsCmd(a, count, from) ==
    IF count < 0 \/ from < 0
      THEN [status |-> "error", ret |-> << >>]
      ELSE Window(Gather(ItemsNewestFirst(a), CInt(count + from)), count, from)

-----------------------------------------------------------------------------
(* Properties.                                                              *)

\* The accounts partition the wallet: whatever move, sendfrom, sendmany and
\* sendtoaddress did, the account balances at minconf 0 add up to every
\* credit received less every amount sent (move writes its debit and its
\* credit in one database transaction, lines 566-593).
AccountsBalance ==
    SumOf(SetToSeq(Names), LAMBDA a : GetAccountBalance(a, 0))
      = SumOf(wtx, LAMBDA w : w.recv - w.sent)

\* getaccountaddress returns "the current address for receiving payments
\* to this account": whatever setaccount does to the address book, an
\* account's CAccount key stays named for that account, so that payments
\* to it are credited there.  (setaccount relabelling the unused current
\* key of another account must give that account a new key first, lines
\* 233-239, and may itself run out of keys.)
CurrentKeyLabelled ==
    \A a \in Names : acctKey[a] # NoKey => acctKey[a] \in GetAddressesByAccount(a)

\* getreceivedbyaccount and listreceivedbyaccount tally the payments to an
\* account in two different loops (per output against the account's
\* address set; per address, then per label): at every minconf, with or
\* without includeempty, an account that received something is listed,
\* and every account listed shows what getreceivedbyaccount returns.
ReceivedAgrees ==
    \A d \in MinDepths, e \in BOOLEAN :
        LET l == ListReceivedByAccount(d, e) IN
        \A a \in Names :
            /\ GetReceivedByAccount(a, d) # 0 => a \in DOMAIN l
            /\ a \in DOMAIN l => l[a] = GetReceivedByAccount(a, d)

\* listaccounts re-derives every balance with a loop of its own instead of
\* calling GetAccountBalance: whatever the RPCs did, at every minconf it
\* lists every account whose balance is not zero, and reports for each
\* account exactly what getbalance <account> <minconf> returns.
ListAccountsAgrees ==
    \A d \in MinDepths :
        LET l == ListAccounts(d) IN
        \A a \in Names :
            /\ GetBalance(a, d) # 0 => a \in DOMAIN l
            /\ a \in DOMAIN l => l[a] = GetBalance(a, d)

\* The help of sendfrom and sendmany, and the error "Account has
\* insufficient funds": a send from an account succeeds only when the
\* account's balance at the given minconf covers the amount.  (The balance
\* is held in a uint64 at lines 677 and 744.)
SendWithinBalance ==
    [][ last'.op \in {"sendfrom", "sendmany"} /\ last'.ok /\ wtx' # wtx
          => last'.amt <= last'.bal ]_vars


\* listtransactions "returns up to [count] most recent transactions skipping
\* the first [from]": for every account and every count and from it is
\* given, it returns, oldest first, exactly the window [from, from + count)
\* of the account's history listed newest first.  (nCount + nFrom is an
\* int at lines 1122 and 1128-1133.)
ListTransactionsPage ==
    \A a \in Accounts :
        LET items == ItemsNewestFirst(a)
            all == FlattenSeq(items)
        IN  \A count, from \in PageArgs :
                LET hi == IF from + count < Len(all) THEN from + count ELSE Len(all)
                IN  ListTransactionsCmd(a, count, from)
                      = [status |-> "ok", ret |-> Reverse(SubSeq(all, from + 1, hi))]

=============================================================================
