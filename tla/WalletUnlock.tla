----------------------------- MODULE WalletUnlock ----------------------------
(***************************************************************************)
(* The wallet unlock timeout of src/src/rpcwallet.cpp: the walletpassphrase *)
(* and walletlock RPCs and the relock threads ThreadCleanWalletPassphrase  *)
(* they spawn, sharing CWallet::nWalletUnlockTime under                    *)
(* cs_nWalletUnlockTime.                                                   *)
(*                                                                         *)
(* The wallet is encrypted (on an unencrypted wallet both RPCs only throw).*)
(* A relock thread reads the clock for nMyWakeTime before it takes the     *)
(* lock (line 1346), runs each locked stretch of its body atomically, and  *)
(* sleeps with the lock released (lines 1364-1366).  RPC callers run       *)
(* concurrently: walletpassphrase tests IsLocked, then unlocks and spawns. *)
(* Time is GetTimeMillis() in units of the timeout; it only needs to pass  *)
(* while some thread sleeps (nothing else reads it), which bounds it.      *)
(***************************************************************************)
EXTENDS Integers, FiniteSets

CONSTANTS
    Clients,    \* RPC callers that may call walletpassphrase concurrently
    Threads,    \* relock thread slots: bounds the number of walletpassphrase calls
    Timeouts,   \* the <timeout> arguments callers pass
    StartTime   \* GetTimeMillis() when the model starts (positive)

ASSUME StartTime \in Nat \ {0}
ASSUME Timeouts \subseteq Int

VARIABLES
    now,                \* GetTimeMillis()
    locked,             \* CWallet::IsLocked()
    nWalletUnlockTime,  \* 0, or the time the wallet is due to be relocked
    cpc,                \* per client: "idle" or "checked" (IsLocked seen true)
    tpc,                \* per thread slot: "unused", "start", "enter", "sleep", "done"
    timeout,            \* per thread: *pnSleepTime
    nMyWakeTime,        \* per thread: its local nMyWakeTime
    sleepUntil,         \* per thread: when its MilliSleep returns
    stale               \* history: threads spawned before the last time the wallet was locked

vars == <<now, locked, nWalletUnlockTime, cpc, tpc, timeout, nMyWakeTime,
          sleepUntil, stale>>

\* The relock threads spawned so far.
Spawned == {t \in Threads : tpc[t] # "unused"}

\* Beyond the types: nWalletUnlockTime is 0 or a deadline some relock
\* thread computed (the owner stores its own, an extender only raises it to
\* its own).
TypeOK ==
    /\ now \in Int
    /\ locked \in BOOLEAN
    /\ nWalletUnlockTime \in {0} \cup {nMyWakeTime[t] : t \in Spawned}
    /\ cpc \in [Clients -> {"idle", "checked"}]
    /\ tpc \in [Threads -> {"unused", "start", "enter", "sleep", "done"}]
    /\ timeout \in [Threads -> Timeouts \cup {0}]
    /\ nMyWakeTime \in [Threads -> Int]
    /\ sleepUntil \in [Threads -> Int]
    /\ stale \subseteq Threads

Init ==
    /\ now = StartTime
    /\ locked = TRUE
    /\ nWalletUnlockTime = 0
    /\ cpc = [c \in Clients |-> "idle"]
    /\ tpc = [t \in Threads |-> "unused"]
    /\ timeout = [t \in Threads |-> 0]
    /\ nMyWakeTime = [t \in Threads |-> 0]
    /\ sleepUntil = [t \in Threads |-> 0]
    /\ stale = {}

-----------------------------------------------------------------------------
(* The RPCs.                                                                *)

\* walletpassphrase, line 1401: the wallet is locked, go on.
PassphraseCheck(c) ==
    /\ cpc[c] = "idle"
    /\ locked
    /\ cpc' = [cpc EXCEPT ![c] = "checked"]
    /\ UNCHANGED <<now, locked, nWalletUnlockTime, tpc, timeout, nMyWakeTime,
                   sleepUntil, stale>>

\* walletpassphrase after line 1401 with a wrong passphrase (line 1414):
\* Unlock fails and the RPC throws.
PassphraseWrong(c) ==
    /\ cpc[c] = "checked"
    /\ cpc' = [cpc EXCEPT ![c] = "idle"]
    /\ UNCHANGED <<now, locked, nWalletUnlockTime, tpc, timeout, nMyWakeTime,
                   sleepUntil, stale>>

\* walletpassphrase, lines 1411-1423: Unlock succeeds, then a relock thread
\* is spawned with the caller's timeout.
PassphraseUnlock(c, t, d) ==
    /\ cpc[c] = "checked"
    /\ tpc[t] = "unused"
    /\ locked' = FALSE
    /\ tpc' = [tpc EXCEPT ![t] = "start"]
    /\ timeout' = [timeout EXCEPT ![t] = d]
    /\ cpc' = [cpc EXCEPT ![c] = "idle"]
    /\ UNCHANGED <<now, nWalletUnlockTime, nMyWakeTime, sleepUntil, stale>>

\* A walletlock that clears the deadline but forgets Lock().
WalletLockNoLock ==
    /\ nWalletUnlockTime' = 0
    /\ stale' = Spawned
    /\ UNCHANGED <<now, locked, cpc, tpc, timeout, nMyWakeTime, sleepUntil>>

\* walletlock, lines 1474-1479: under cs_nWalletUnlockTime, lock and clear.
WalletLock ==
    /\ locked' = TRUE
    /\ nWalletUnlockTime' = 0
    /\ stale' = Spawned
    /\ UNCHANGED <<now, cpc, tpc, timeout, nMyWakeTime, sleepUntil>>

-----------------------------------------------------------------------------
(* The relock thread, ThreadCleanWalletPassphrase, lines 1341-1386.         *)

\* Line 1346, before the lock: nMyWakeTime = GetTimeMillis() + timeout.
ThreadBegin(t) ==
    /\ tpc[t] = "start"
    /\ nMyWakeTime' = [nMyWakeTime EXCEPT ![t] = now + timeout[t]]
    /\ tpc' = [tpc EXCEPT ![t] = "enter"]
    /\ UNCHANGED <<now, locked, nWalletUnlockTime, cpc, timeout, sleepUntil,
                   stale>>

\* One pass of the loop at lines 1356-1374 with the lock held, given the
\* current nWalletUnlockTime u: sleep until u if it is in the future,
\* otherwise leave the loop and, if u is not 0, clear it and lock.
LoopPass(t, u) ==
    IF u # 0 /\ u - now > 0
      THEN /\ tpc' = [tpc EXCEPT ![t] = "sleep"]
           /\ sleepUntil' = [sleepUntil EXCEPT ![t] = u]
           /\ nWalletUnlockTime' = u
           /\ UNCHANGED <<locked, stale>>
      ELSE /\ tpc' = [tpc EXCEPT ![t] = "done"]
           /\ UNCHANGED sleepUntil
           /\ IF u # 0
                THEN /\ nWalletUnlockTime' = 0
                     /\ locked' = TRUE
                     /\ stale' = Spawned
                ELSE UNCHANGED <<nWalletUnlockTime, locked, stale>>

\* An owner that does not store its deadline (line 1352 dropped): the loop
\* reads nWalletUnlockTime, still 0.
ThreadEnterOwnerNoStore(t) ==
    /\ tpc[t] = "enter"
    /\ nWalletUnlockTime = 0
    /\ LoopPass(t, nWalletUnlockTime)
    /\ UNCHANGED <<now, cpc, timeout, nMyWakeTime>>

\* Lines 1350-1354: the first relock thread owns the deadline and loops.
ThreadEnterOwner(t) ==
    /\ tpc[t] = "enter"
    /\ nWalletUnlockTime = 0
    /\ LoopPass(t, nMyWakeTime[t])
    /\ UNCHANGED <<now, cpc, timeout, nMyWakeTime>>

\* An extension that adds the caller's timeout to the pending deadline.
ThreadEnterExtendSum(t) ==
    /\ tpc[t] = "enter"
    /\ nWalletUnlockTime # 0
    /\ nWalletUnlockTime' = nWalletUnlockTime + timeout[t]
    /\ tpc' = [tpc EXCEPT ![t] = "done"]
    /\ UNCHANGED <<now, locked, cpc, timeout, nMyWakeTime, sleepUntil,
                   stale>>

\* Lines 1376-1380: a relock thread is already waiting; push its deadline
\* out to nMyWakeTime if that is later, and exit.
ThreadEnterExtend(t) ==
    /\ tpc[t] = "enter"
    /\ nWalletUnlockTime # 0
    /\ nWalletUnlockTime' = IF nWalletUnlockTime < nMyWakeTime[t]
                              THEN nMyWakeTime[t] ELSE nWalletUnlockTime
    /\ tpc' = [tpc EXCEPT ![t] = "done"]
    /\ UNCHANGED <<now, locked, cpc, timeout, nMyWakeTime, sleepUntil,
                   stale>>

\* Lines 1365-1366: MilliSleep returns and the lock is taken again; the
\* loop re-reads nWalletUnlockTime (walletlock or other threads may have
\* changed it meanwhile).
ThreadWake(t) ==
    /\ tpc[t] = "sleep"
    /\ now >= sleepUntil[t]
    /\ LoopPass(t, nWalletUnlockTime)
    /\ UNCHANGED <<now, cpc, timeout, nMyWakeTime>>

\* Time passes while some relock thread sleeps, also once its wake time is
\* reached (MilliSleep returns no earlier than asked, and the clock goes on).
Tick ==
    /\ \E t \in Threads : tpc[t] = "sleep" /\ sleepUntil[t] >= now
    /\ now' = now + 1
    /\ UNCHANGED <<locked, nWalletUnlockTime, cpc, tpc, timeout, nMyWakeTime,
                   sleepUntil, stale>>

ThreadStep(t) ==
    ThreadBegin(t) \/ ThreadEnterOwner(t) \/ ThreadEnterExtend(t) \/ ThreadWake(t)

Next ==
    \/ \E c \in Clients :
          \/ PassphraseCheck(c)
          \/ PassphraseWrong(c)
          \/ \E t \in Threads, d \in Timeouts : PassphraseUnlock(c, t, d)
    \/ WalletLock
    \/ \E t \in Threads : ThreadStep(t)
    \/ Tick

\* The relock threads are scheduled and MilliSleep returns; callers and
\* walletlock are users and need not act.
Fairness ==
    /\ \A t \in Threads : WF_vars(ThreadStep(t))
    /\ WF_vars(Tick)

Spec == Init /\ [][Next]_vars /\ Fairness

-----------------------------------------------------------------------------
(* Properties.                                                              *)

\* Whenever the wallet is unlocked, a relock is on its way: some relock
\* thread has yet to take cs_nWalletUnlockTime, or one sleeps on a non-zero
\* nWalletUnlockTime it will re-read on waking.  walletlock clearing the
\* deadline under the owner's feet, and several threads of one or of
\* successive unlocks entering in any order, must not leave the wallet
\* unlocked with nobody left to lock it.
ArmedWhileUnlocked ==
    ~locked =>
        \E t \in Threads :
            \/ tpc[t] \in {"start", "enter"}
            \/ tpc[t] = "sleep" /\ nWalletUnlockTime # 0

\* Every unlock by walletpassphrase is eventually undone: the relock loop
\* (lines 1356-1374) leaves only when the deadline has passed or was
\* cleared, and then locks unless walletlock already did.
RelockedEventually == ~locked ~> locked

\* The help text of walletpassphrase: the key stays in memory for <timeout>
\* seconds.  While the wallet is unlocked, some walletpassphrase call made
\* since it was last locked still asks for it: its thread has not read the
\* clock yet, or its deadline has not passed.  (A relock thread of an
\* earlier unlock computed nMyWakeTime at line 1346 and may take the lock
\* only after walletlock and a new unlock; it then re-arms or extends the
\* new unlock with its old deadline, lines 1352-1354 and 1376-1380.)
NoOverstay ==
    ~locked =>
        \E t \in Spawned \ stale :
            tpc[t] = "start" \/ now <= nMyWakeTime[t]

=============================================================================
