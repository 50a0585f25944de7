# TLA+ models of FedoraCoin

This directory holds TLA+ models of the parts of `src/` that keep state or
run concurrently, plus the TLC configurations that check them. The models
cover:

- the signed mixer-announcement subsystem (`mixerann.cpp`);
- the wallet relock timeout and the account RPCs (`rpcwallet.cpp`);
- the RPC user database (`userdb.cpp`, `rpcusers.cpp`);
- the coin-unit conversion of the GUI (`qt/bitcoinunits.cpp`).

`PROJECT.json` maps every modelling definition to the lines it translates.
It also lists the runs, the mutants, the findings and the hazards.

## 1. The system

### 1.1 Components

| Component | Source | State it keeps | Operations |
|---|---|---|---|
| Announcement record | `mixerann.h`, `mixerann.cpp` | immutable fields: id, expiration, revoked ids, version range, sub-versions, three key blobs | `IsNull`, `IsInEffect`, `Cancels`, `AppliesTo`, `IsAnnouncement` (pure) |
| Signature verifier | `mixerann.cpp` `CheckSignature` | none (fixed public key) | verify the hash of the message, then deserialize |
| Announcement store and election | `mixerann.cpp` `mapAnns`, `cs_mapAnns`, `nCurrentMixer` | hash → announcement; the elected hash | `ProcessAnnouncement` |
| Relay gate | `mixerann.cpp` `RelayTo`, `setKnownAnns` | per peer: hashes already offered | `RelayTo` |
| Announcement RPCs | `rpcblockchain.cpp` `createann`, `signann`, `sendann`, `listann` | none of their own | build, sign, submit, list |
| Wallet unlock timeout | `rpcwallet.cpp` `walletpassphrase`, `walletlock`, `ThreadCleanWalletPassphrase` | `nWalletUnlockTime`, the wallet's lock | unlock with a timeout, lock, relock thread |
| Wallet accounts, address book, key pool, encryption | `rpcwallet.cpp` `move`, `sendfrom`, `sendmany`, `sendtoaddress`, `lockunspent`, `getnewaddress`, `GetAccountAddress`/`getaccountaddress`, `setaccount`, `keypoolrefill`, `walletpassphrasechange`, `encryptwallet` | (in `CWallet`, outside `src/`) transactions, accounting entries, address book, each account's current key, locked coins, key pool, passphrase | one RPC each |
| User database | `userdb.cpp`, `rpcusers.cpp` | LevelDB keys `U:<user>`, `US:<user>`, `ROOT`, counter `U` | `adduser`, `passwd`, `authuser` |
| Checkpoints | `checkpoints.cpp` | a constant height → hash map | `CheckBlock`, `GetLastCheckpoint`, `GuessVerificationProgress` |
| Coin units | `qt/bitcoinunits.cpp` | none | `format`, `parse`, `factor`, `decimals` |
| Read-only account RPCs | `rpcwallet.cpp` `getaccount`, `getaddressesbyaccount`, `getbalance <account>`, `listaccounts`, `getreceivedbyaccount`, `listreceivedbyaccount` | none of their own | each computes its answer from the wallet's transactions, entries and address book |
| Other wallet and chain RPCs, `zTest1.cpp` | | | JSON wrappers over state outside `src/`; a key-encoding test program |

### 1.2 How the parts interact

**Announcements.** An announcement arrives either from a peer (through the
net layer's `ProcessMessage`, which is outside `src/`) or from `sendann`.
`sendann` verifies the signature and then calls `ProcessMessage` itself.
Both paths end in `ProcessAnnouncement`, so the net thread and RPC threads
run it concurrently.

`ProcessAnnouncement` first checks the signature and `IsInEffect`, without
a lock. Then, under `cs_mapAnns`, it:

1. sweeps the map, erasing what the new announcement cancels and what has expired;
2. returns false if a remaining entry cancels the new one;
3. inserts the new one;
4. elects `nCurrentMixer` at random among the entries that `IsAnnouncement`.

On success the net layer offers the announcement to each peer through
`RelayTo`. `RelayTo` marks the hash known for that peer, and pushes it only
if it is still in effect and applies to the peer.

**Wallet.** `walletpassphrase` unlocks the wallet and starts a detached
`ThreadCleanWalletPassphrase`. That thread sleeps until
`nWalletUnlockTime`, then locks the wallet. A later unlock either extends
the deadline or, if the wallet was locked meanwhile, starts a new owner.
The sending RPCs call `EnsureWalletIsUnlocked` first, and they debit the
accounts that `move` shuffles.

**Users.** `adduser` writes a salted hash and a salt in two writes. It sets
`ROOT` if it is unset, and then increments the user counter.
`authuser` and the RPC server read the hash and the salt back.

## 2. Modules

| Module | Models | State | Actions |
|---|---|---|---|
| `MixerAnn` | the record and its predicates | none (operators) | `CreateAnn` (`createann`), `IsNull`, `IsInEffect`, `Cancels`, `AppliesTo`, `IsAnnouncement` |
| `AnnStoreAbstract` | spec 4.3's submit as one atomic transaction | `now`, the store, the mixer | `AbsTick`, `SubmitConflict`, `SubmitAccept` |
| `AnnStore` | `mapAnns`, `nCurrentMixer`, `ProcessAnnouncement` and `sendann` by several threads | `now`, `mapAnns`, `nCurrentMixer`; per thread `pc`, `arg`, `res`; history `accepted`, `revoked` | `Tick`, `ProcessRejectEarly`, `SendAnnRefused`, `ProcessChecked`, `ProcessRejectCancelled`, `ProcessAccept` |
| `AnnRelay` | `RelayTo`, `setKnownAnns` | per peer: known set, push counts, last result | `RelayTo` = `RelayRefused` or `RelayNew` |
| `AnnNode` | one node: store and relay gate, sharing the clock and `accepted` | all of the above | `Store!Next` or `Relay!RelayNext` |
| `WalletUnlock` | `walletpassphrase`, `walletlock`, relock threads | `now`, `locked`, `nWalletUnlockTime`; per client `cpc`; per thread `tpc`, `timeout`, `nMyWakeTime`, `sleepUntil`; history `stale` | `PassphraseCheck`, `PassphraseWrong`, `PassphraseUnlock`, `WalletLock`, `ThreadBegin`, `ThreadEnterOwner`, `ThreadEnterExtend`, `LoopPass`, `ThreadWake`, `Tick` |
| `WalletAccounts` | account, address-book, key-pool and encryption RPCs on one wallet | `wtx`, `acentries`, `locked`, `lockedCoins`, `last` (outcome of the last send), `crypted`, `passphrase`, `keypool`, `topUp`, `stopping`, `book` (address → label), `acctKey` (each account's current key), `issued` | `MoveCmd`, `SendFrom`, `SendMany`, `SendToAddress`, `LockUnspent`, `Receive`, `Confirm`, `GetNewAddress`, `GetAccountAddressCmd`, `SetAccount`, `KeypoolRefill`, `ThreadTopUpKeyPool`, `Unlock`, `Relock`, `WalletPassphraseChange`, `EncryptWalletCmd` |
| `UserDB` | `adduser`, `passwd`, `authuser` by several RPC threads | the database keys (`passHash`, `saltDB`, `rootDB`, `counter`); per thread `pc`, `arg`; history `given`, `authOK` | `AddUser*` steps (one per database call), `Passwd*`, `UserUpdateRead`/`Write`, `AuthUser`, `Finish` |
| `UserRegistry` | what the user RPCs promise, each call one atomic step | `users`, `root`, `count`, `authOK` | `Register`, `ChangePassword`, `Authenticate` |
| `BitcoinUnits` | `format`, `parse` and their Qt helpers | the last call and its result | `CallFormat`, `CallParse` |
| `MC*` | model values and constant definitions for TLC | | |

### 2.1 The abstractions

- **Announcements.**
  - A record is its own hash key, because distinct bytes do not collide.
  - The key blobs are kept as lengths 0..2, which is all `IsAnnouncement` reads.
  - `CheckSignature` is membership in `Signed`.
  - The random election is a nondeterministic choice among the candidates.
- **Atomicity.** A block run under a mutex is one step. Code outside the
  lock is a separate step, so other threads and the clock run in between:
  - `AnnStore`: the checks before `cs_mapAnns`;
  - `WalletUnlock`: line 1346 and the sleep;
  - `UserDB`: each LevelDB call.
- **Wallet RPCs.** In `WalletAccounts` each RPC holds the wallet's locks
  for its whole body, so each is one step. `CWallet` is not in `src/`, so
  its balance is the usual sum:
  - `GetAccountBalance` = credits at the requested depth − amounts sent
    + accounting entries;
  - a transaction is `[to, from, recv, sent, depth, pos]`: the address it
    pays (`Foreign` for a payment out), the account it debits, the
    amounts, and its order position; an accounting entry is
    `[acct, delta, pos]`. Positions are handed out in the order things are
    added, as `CWallet::IncOrderPosNext` does (`NextPos`);
  - a receipt is credited to the label of its address in the address book
    (`""` when the address has none), as `CWallet::GetAccountCreditDebit`
    does, so `setaccount` moves past receipts between accounts;
  - a `uint64` is `x % 2^Width`;
  - a read-only RPC is an operator that computes what the RPC returns in
    a state (`GetBalance`, `ListAccounts`, `GetReceivedByAccount`,
    `ListReceivedByAccount`, `ListTransactionsCmd`,
    `GetAddressesByAccount`). `listaccounts` and `ListReceived` are
    written as folds over `mapWallet`, as their loops are;
  - `int` arithmetic wraps at `IntWidth` bits (`CInt`), and a
    `std::advance` outside `[begin, end]` is undefined behaviour, shown
    as a result with status `"undefined"`;
  - `listtransactions` is split as its body is: `ItemsNewestFirst` is
    `OrderedTxItems` walked backwards, each item giving the entries of
    `ListTransactions` (`TxEntries`, minconf 0) or `AcentryToJSON`
    (`AcEntries`); `Gather` is the loop with its break after a whole item
    once `count + from` entries are in; `Window` is the clamp, the erase
    and the reverse. Entries are `[acct, cat, amt]`; addresses, times,
    txids, comments and fees are left out (fees are 0, so the `nFee`
    clause at line 1019 is not modelled). A negative count or from is
    refused with status `"error"`;
  - `move` either commits both accounting entries or, when `TxnBegin` or
    `TxnCommit` fails, neither. The unchecked return values of its two
    `WriteAccountingEntry` calls (lines 580, 590) are not modelled; they
    are a hazard;
  - `sendmany` pays one output per call, `setaccount` relabels only keys
    the wallet has issued, and `ListReceived`'s coinbase test is left out
    (there is no coinbase in the model).
- **Units.** In `BitcoinUnits` a `QString` is a sequence of one-character
  strings. `qint64` wraps at `Width` bits, and C++ division truncates.
- **Shutdown.** `encryptwallet` calls `StartShutdown`, and after that the
  model stops. The `WalletAccounts` runs therefore disable deadlock
  checking: stopping there is what the program does.

## 3. Runs

| Run | Config | Expect | What it shows |
|---|---|---|---|
| `node_safety` | `MCAnnNode.cfg` | pass | With two submitting threads and two peers, every interleaving keeps three properties: nothing resident is cancelled, each peer gets an announcement at most once, and a hash is marked known for a peer only once it has been pushed to that peer. |
| `mixer_domain` | `MCAnnStore_MixerDomain.cfg` | violation | `nCurrentMixer` names an erased announcement. A sweep erased it, and the rejection at `mixerann.cpp:229` skips the election. |
| `revoked_reenters` | `MCAnnStore_NoReentry.cfg` | violation | A1 is revoked by A2. Once A2 expires, a re-delivered A1 is stored again. |
| `store_atomic` | `MCAnnStore_AtomicSubmit.cfg` | violation | `AnnStore` does not implement `AnnStoreAbstract` (`AtomicSubmit`): `IsInEffect` is checked before the lock, and an announcement that expired while its thread waited is inserted. |
| `wallet_relock` | `MCWalletUnlock.cfg` | pass | Two callers, three relock threads and `walletlock` interleave freely. While the wallet is unlocked, a relock is always pending (`ArmedWhileUnlocked`). Every unlock is eventually followed by a lock (`RelockedEventually`). |
| `wallet_overstay` | `MCWalletUnlock_NoOverstay.cfg` | violation | A relock thread of an earlier unlock reads the clock before it locks. After `walletlock` and a new unlock, it re-arms the wallet with its old deadline, so the key stays in memory beyond the timeouts still asked for. |
| `userdb_sequential` | `MCUserDB_seq.cfg` | pass | With one RPC thread, `adduser`, `passwd` and `authuser` satisfy four properties: a login succeeds only with a password that was set, every user can log in, the counter equals the number of users, and `ROOT` never changes. The database also implements `UserRegistry` under a refinement mapping (`RegistrySpec`). |
| `root_race` | `MCUserDB_RootNeverChanges.cfg` | violation | Two concurrent first `adduser` calls both find `ROOT` unset, and the second one overwrites it. |
| `units_format_thousands` | `MCBitcoinUnits_FormatThousands.cfg` | violation | In units Thousands and Millions, `format` pads the remainder to `decimals` = 8 digits while the factor has 11 or 14. The text then means a different amount. |
| `accounts_ledger` | `MCWalletAccounts.cfg` | pass | Across all sequences of the account, address-book, key and encryption RPCs, the account balances add up to the wallet's net credits, also when a `move`'s database transaction fails, and each account's current key stays named for that account in the address book. `listaccounts` and `listreceivedbyaccount` agree with `getbalance <account>` and `getreceivedbyaccount` for every account. |
| `accounts_page_overflow` | `MCWalletAccounts_PageOverflow.cfg` | violation | `listtransactions` with a count near `INT_MAX`: `nCount + nFrom` wraps, the loop stops after the first item and `std::advance` moves `last` before `ret.begin()`, instead of returning the entries after `from`. |
| `accounts_overdraw` | `MCWalletAccounts_Overdraw.cfg` | violation | `sendtoaddress`, or `setaccount` moving a confirmed receipt to another account, drives account `""` negative. The balance is then held in a `uint64`, so `sendfrom` passes its funds check and overdraws. |

### 3.1 Bounds, and why they are enough

- **Announcements** (`MCAnnStore`, `MCAnnNode`). The set is:
  - A1: id 1, a mixer;
  - A2: id 2, a mixer, revokes 1, expires first;
  - A3: id 3, administrative only, revokes 2;
  - a null record (store runs only; `MCAnnNode` leaves it out);
  - a forged record.

  This gives a revocation chain of two, an election that can run out of
  candidates, a revoker expiring before its victim, and every early
  rejection.
- **Store threads and clock.** Two threads cross the lock in both orders.
  The clock runs to 3 in the store runs and to 2 in the node run, so A2
  expires inside the bound.
- **Peers.** There are two:
  - p1 (version 1, `/s1`): everything applies;
  - p2 (version 2, `/s2`): A2 and A3 do not apply.

  This gives both outcomes of `AppliesTo`.
- **Wallet unlock.** There are two clients and three thread slots (three
  unlocks). Timeouts are 0, 1 and 2 from start time 1. This covers:
  - an owner and an extender;
  - an unlock after `walletlock` while an old thread still sleeps;
  - a zero timeout.

  Time only advances while some thread sleeps and its wake time is not
  past (also once it is reached, since `MilliSleep` may return late),
  which bounds the clock. A negative timeout is left out: with these
  start times it only gives a deadline of 0, the case of hazard
  `rpcwallet.cpp:1358`.
- **User database.** Names include one whose lower-case form is reserved
  and two that fold to the same key. There are two passwords and two salts.
  - The sequential run has one thread.
  - The race run has two.
- **Units.** The code's constants are scaled by 10^-6 so that every value
  fits in TLC's 32-bit integers:
  - decimals 8 → 2;
  - factors 10^8, 10^11, 10^14 → 10^2, 10^5, 10^8;
  - `qint64` → 30 bits;
  - the 18-character limit → 8.

  The relations the code relies on are kept. The amounts of
  `units_format_thousands` cover zero, one unit, ragged fractions,
  thousands separators, negative amounts and the largest amount; they
  stop at `MinInt + 1`, so the overflow of `-n` at `MinInt`
  (`bitcoinunits.cpp:96`) is not reached. No run checks `parse`:
  `ParseDenotes` is stated but unchecked, and unsigned texts would not
  reach its sign wrap-around or its 18-character limit in any case.
- **Accounts.** There are three accounts (`""`, `b`, `*`), amounts 1 and 2,
  minconf 0 and 1, and three `lockunspent` objects (one valid, one with a
  negative vout, one with a non-hex txid).
  - The key pool has size 1, so it can be emptied.
  - There are two wallet keys (`k0`, the default key labelled `""`, and
    `k1`) and one foreign address. That is enough for `getaccountaddress`
    to issue a fresh key, for a key to be relabelled, and for an
    account's current key to be used by a receipt. `setaccount` takes
    only issued keys, as any other address is not the wallet's.
  - `Width 8` leaves room for a wrapped negative balance.
  - `MaxEntries` (transactions plus accounting entries) is 2 for the
    ledger run (about 245 000 states) and 3 for the overdraw run, which needs a
    receive, an unchecked send and a checked send.
  - `int` is 4 bits (`IntWidth`, -8..7) in the overflow run, with counts
    and froms 0, 1, 2 and 7: 7 + 1 wraps as `INT_MAX + 1` does. With
    0..3 only, `ListTransactionsPage` holds on the same histories, so the
    violation comes from the wrap. `sendmany` is one output per call in
    the model, so an item gives at most one entry per account.

### 3.2 Fairness

Only `WalletUnlock` has a progress obligation. `Spec` there carries weak
fairness on:

- each relock thread's steps, since a started thread is scheduled and
  `MilliSleep` returns;
- `Tick`, since time passes while a thread sleeps.

Callers and `walletlock` are users and need not act. Announcements,
relays, user RPCs and wallet RPCs are driven by peers and operators, so
those modules check only safety.

### 3.3 Mutants

Each property of a passing run is broken by one plausible change to the
code it is about (`PROJECT.json`, `mutants`):

| Run | Property | Mutant |
|---|---|---|
| node_safety | TypeOK | `CheckSignatureIgnored`: the result of `key.Verify` is dropped |
| node_safety | NoResidentCancelled | `SweepExpiryOnly`: the sweep loses its cancellation branch |
| node_safety | RelayAtMostOnce | `RelayNoDedup`: the `setKnownAnns` test is dropped |
| node_safety | KnownWasSent | `RelayMarkFirst`: the hash is marked known before the `IsInEffect` test |
| wallet_relock | TypeOK | `ThreadEnterExtendSum`: an extension adds timeouts |
| wallet_relock | ArmedWhileUnlocked | `WalletLockNoLock`: `walletlock` forgets `Lock()` |
| wallet_relock | RelockedEventually | `ThreadEnterOwnerNoStore`: the owner does not store its deadline (line 1352 dropped) |
| userdb_sequential | TypeOK, AuthSound, UserCanLogIn, UserCountMatches, RootNeverChanges | a lost hash write, an inverted hash compare, a fresh salt in `UserUpdate`, a counter not incremented, `ROOT` set unconditionally |
| accounts_ledger | TypeOK, AccountsBalance | `AccountFromValueAny` accepts `"*"`; `move` debits a positive amount |
| accounts_ledger | ListAccountsAgrees | `TallyTxSentAtDepth`: `listaccounts` debits a send only at minconf, inside the depth test |
| accounts_ledger | ReceivedAgrees | `TallyAnyDepth`: `ListReceived` drops its `nDepth < nMinDepth` test |
| accounts_ledger | CurrentKeyLabelled | `SetAccountNoRefresh`: `setaccount` relabels an account's current key without calling `GetAccountAddress(old, true)` |
| userdb_sequential | RegistrySpec | `AddRootSetSpelled`: `ROOT` is written with the caller's spelling instead of the lower-cased name |

### 3.4 Findings

- **Stale election** (`mixerann.cpp:229`, code bug). A rejection after a
  sweep leaves `nCurrentMixer` naming an erased entry.
- **Revocation has no memory** (`mixerann.cpp:202`). Spec 3 says a revoked
  record stays revoked, but it re-enters once its revoker expires.
- **Expiry checked before the lock** (`mixerann.cpp:174`). An announcement
  that expired while its thread waited for the lock is inserted, so
  `ProcessAnnouncement` is not the atomic transaction of spec 4.3.
- **Old relock thread re-arms** (`rpcwallet.cpp:1346`). A relock thread
  computes its deadline before it takes the lock, and outlives
  `walletlock`. The key can stay in memory past what the help text
  promises.
- **Root overwritten** (`userdb.cpp:91`). The comment says the root is set
  only once, but check and set are separate calls and race.
- **Unit factors disagree with decimals** (`bitcoinunits.cpp:82`, code
  bug). Thousands and Millions amounts are formatted wrongly.
- **Negative balance held unsigned** (`rpcwallet.cpp:677` and `744`, code
  bug). `sendfrom` and `sendmany` let a negative account overdraw. The
  account goes negative through `sendtoaddress` or through `setaccount`
  moving a spent receipt to another account.
- **`listtransactions` count overflow** (`rpcwallet.cpp:1122`, code bug).
  `nCount + nFrom` is `int` arithmetic; a count near `INT_MAX` wraps it,
  the loop breaks after one item and `std::advance` leaves the array.

### 3.5 Refinement

Two modules state what a component promises, and the detailed module is
checked against it as a `PROPERTY` through `INSTANCE ... WITH`:

- **`UserDB` implements `UserRegistry`** (run `userdb_sequential`). The
  mapping:
  - a user's registered password is the one that `UserAuth` accepts
    against the stored hash and salt (`LoginPassword`);
  - an `adduser` that has written its salt is committed (`Committed`), so
    it already counts, and a pending `ROOT` write already names the root
    (`RootPending`);
  - the hash and salt writes before that point are stuttering steps.

  With one RPC thread this holds. With two it cannot, which is
  `root_race`.
- **`AnnStore` does not implement `AnnStoreAbstract`** (run
  `store_atomic`). The store and the mixer map directly. The check on
  arrival happens outside the lock, so an insert can happen that no
  atomic submit would make.

## 4. What is not modelled, and why

- **Signature cryptography and serialization.** Out of TLC's reach; they
  are abstracted to `Signed`.
- **`signann`, `listann`'s printing, `ToString`.** These are formatting and
  signing with no shared state. The unlocked read of `nCurrentMixer` in
  `listann` is a data race below the model's granularity, and is listed
  as a hazard.
- **`CWallet` internals** (coin selection, fees, the wallet database).
  They are outside `src/`. Only the sums the RPCs read are modelled.
- **`getreceivedbyaddress`, `listreceivedbyaddress` and fees.** The
  two queries tell outputs apart by their script (P2PKH at line 440,
  `ExtractDestination` at line 902), and fees are set by
  `CreateTransaction`; the model keeps neither. Both are hazards.
- **The other wallet and chain RPCs** (`getbalance "*"` and
  `getbalance` without an account, `listsinceblock`, raw
  transactions, messages, multisig). They read `CWallet` and chain state
  outside `src/` (`IsConfirmed`, `GetBalance`, coinbase and finality,
  scripts) that the model does not have.
- **Checkpoints.** `CheckBlock`, `GetTotalBlocksEstimate` and
  `GetLastCheckpoint` are lookups in a constant map. They change no
  state and have no concurrency, and `GuessVerificationProgress` is
  floating point over the wall clock. A run of its own would take a slot
  that the findings above need.
- **`whoami`, `root`.** They are read-only: `whoami` echoes the
  caller's name, and `root` reads `ROOT`, which is `rootDB`.
- **Write failures in the user database.** `CLevelDB::Write` reports an
  error by throwing, from code outside `src/`. A throw between the
  writes of `userdb.cpp:91` leaves a user who exists but cannot log in.
  That would fail `UserCanLogIn` in a single `adduser`, and showing it
  needs a violation run beyond the twelve kept. It is listed as a hazard.
- **The user's wallet passphrase.** `UserAdd` encrypts the user's
  wallet with the `adduser` password (`CWallet::GetUserWallet`, outside
  `src/`), and `passwd` does not re-encrypt it. This is listed as a
  hazard.
- **The RPC server.** Request dispatch and the lifetime of the `ctx` that
  `walletpassphrase` hands to its detached thread are listed as hazards.
- **Adjusted time going backwards.** `nTimeOffset` is outside `src/`, so
  the clock is monotone here.

## 5. Plan

1. **Done:** `MixerAnn`, `AnnStore`, `AnnStoreAbstract`, `AnnRelay`,
   `AnnNode`, `WalletUnlock`, `UserDB`, `UserRegistry`, `BitcoinUnits`,
   `WalletAccounts` (with the address book and `listtransactions`), with
   the runs above.
2. **`AnnGossip`.** Several `AnnNode`s exchanging messages that can be
   lost, duplicated or reordered. Two things to check:
   - revocation under re-delivery;
   - delivery before expiry, under fair delivery.
3. **Write failures in `UserDB`.** A LevelDB write that throws midway
   through `UserAdd` (`userdb.cpp:91`) as a fault action. This needs a
   run slot.
4. **`lockunspent` partial failure and the null record.** Both are listed
   as hazards with no property yet.
