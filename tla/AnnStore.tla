------------------------------ MODULE AnnStore ------------------------------
(***************************************************************************)
(* The announcement store of src/src/mixerann.cpp: the global map mapAnns  *)
(* guarded by cs_mapAnns, the elected mixer nCurrentMixer, and             *)
(* CAnnouncement::ProcessAnnouncement run by several threads at once (the  *)
(* message-handler thread and RPC threads calling sendann).                *)
(*                                                                         *)
(* ProcessAnnouncement is two steps for a thread: the checks before        *)
(* LOCK(cs_mapAnns) (signature and IsInEffect, lines 172-175), then the    *)
(* whole locked block (sweep, conflict check, insert, election) as one     *)
(* atomic step.  Between the two, other threads commit and the clock       *)
(* advances.                                                               *)
(***************************************************************************)
EXTENDS Integers, FiniteSets, MixerAnn

CONSTANTS
    Anns,       \* the announcements (deserialized vchMsg) that can be submitted
    Signed,     \* those whose vchSig verifies under the network's fixed key
    Threads,    \* threads that may call ProcessAnnouncement concurrently
    MaxTime,    \* bound on GetAdjustedTime()
    NoAnn,      \* a thread's argument while it is idle
    NoMixer     \* nCurrentMixer == "" (no mixer elected)

ASSUME Signed \subseteq Anns
ASSUME MaxTime \in Nat
ASSUME NoAnn \notin Anns /\ NoMixer \notin Anns

VARIABLES
    now,            \* GetAdjustedTime()
    mapAnns,        \* the keys/values of mapAnns (a record is its own hash)
    nCurrentMixer,  \* hash of the elected mixer announcement, or NoMixer
    pc,             \* per thread: "idle" or "wait" (checked, waiting for the lock)
    arg,            \* per thread: the announcement being processed
    res,            \* per thread: the last value ProcessAnnouncement returned
    accepted,       \* history: announcements ProcessAnnouncement returned true for
    revoked         \* history: announcements the sweep erased as cancelled

storeVars == <<now, mapAnns, nCurrentMixer, pc, arg, res, accepted, revoked>>

\* The store holds, and the node has accepted, only announcements whose
\* signature verifies (spec 8, authenticity).
TypeOK ==
    /\ now \in 0..MaxTime
    /\ mapAnns \subseteq Signed
    /\ nCurrentMixer \in Anns \cup {NoMixer}
    /\ pc \in [Threads -> {"idle", "wait"}]
    /\ arg \in [Threads -> Anns \cup {NoAnn}]
    /\ res \in [Threads -> {"none", "accepted", "rejected"}]
    /\ accepted \subseteq Signed
    /\ revoked \subseteq Anns

-----------------------------------------------------------------------------
(* Helpers of ProcessAnnouncement.                                          *)

\* A check whose failure is ignored (the result of key.Verify dropped).
CheckSignatureIgnored(a) == TRUE

\* CAnnouncement::CheckSignature: key.Verify(Hash(vchMsg), vchSig).
CheckSignature(a) == a \in Signed

\* A sweep that forgets the cancellation branch (lines 205-211).
SweepExpiryOnly(a, S, t) == {e \in S : IsInEffect(e, t)}

\* The "Cancel previous alerts" loop, lines 202-220: erase every entry the
\* incoming announcement cancels, and every entry no longer in effect.
Sweep(a, S, t) == {e \in S : ~Cancels(a, e, t) /\ IsInEffect(e, t)}

\* The entries the sweep erases because the incoming announcement cancels
\* them (lines 205-211).
Revoked(a, S, t) == {e \in S : Cancels(a, e, t)}

\* Lines 223-231: some entry left in the map cancels the incoming one.
CancelledByStore(a, S, t) == \E e \in S : Cancels(e, a, t)

\* Entries the election counts (lines 238-243, 252-253).
Candidates(S) == {e \in S : IsAnnouncement(e)}

\* Lines 236-263: with count > 0, rand() % count picks one candidate in key
\* order (srand(time(NULL)) makes the pick any of them); else "".
Elect(S) == IF Candidates(S) = {} THEN {NoMixer} ELSE Candidates(S)

-----------------------------------------------------------------------------
(* Actions.                                                                 *)

Init ==
    /\ now = 0
    /\ mapAnns = {}
    /\ nCurrentMixer = NoMixer
    /\ pc = [t \in Threads |-> "idle"]
    /\ arg = [t \in Threads |-> NoAnn]
    /\ res = [t \in Threads |-> "none"]
    /\ accepted = {}
    /\ revoked = {}

\* The clock moves on (GetAdjustedTime is read by every IsInEffect).
Tick ==
    /\ now < MaxTime
    /\ now' = now + 1
    /\ UNCHANGED <<mapAnns, nCurrentMixer, pc, arg, res, accepted, revoked>>

\* Lines 172-175 fail: bad signature, or not in effect on arrival.
ProcessRejectEarly(t, a) ==
    /\ pc[t] = "idle"
    /\ ~CheckSignature(a) \/ ~IsInEffect(a, now)
    /\ res' = [res EXCEPT ![t] = "rejected"]
    /\ UNCHANGED <<now, mapAnns, nCurrentMixer, pc, arg, accepted, revoked>>

\* sendann (src/src/rpcblockchain.cpp, lines 172-192), called by an admin:
\* CheckSignature runs first and a bad signature is refused with an error
\* before ProcessMessage; a good one is handed to ProcessAnnouncement
\* (ProcessChecked or ProcessRejectEarly).
SendAnnRefused(t, a) ==
    /\ pc[t] = "idle"
    /\ ~CheckSignature(a)
    /\ res' = [res EXCEPT ![t] = "rejected"]
    /\ UNCHANGED <<now, mapAnns, nCurrentMixer, pc, arg, accepted, revoked>>

\* Lines 172-175 pass; the thread now blocks on LOCK(cs_mapAnns).
ProcessChecked(t, a) ==
    /\ pc[t] = "idle"
    /\ CheckSignature(a)
    /\ IsInEffect(a, now)
    /\ pc' = [pc EXCEPT ![t] = "wait"]
    /\ arg' = [arg EXCEPT ![t] = a]
    /\ UNCHANGED <<now, mapAnns, nCurrentMixer, res, accepted, revoked>>

\* The locked block when a remaining entry cancels the incoming one: the
\* sweep has already erased entries; return false before the election.
ProcessRejectCancelled(t) ==
    LET a    == arg[t]
        kept == Sweep(a, mapAnns, now)
    IN  /\ pc[t] = "wait"
        /\ CancelledByStore(a, kept, now)
        /\ mapAnns' = kept
        /\ revoked' = revoked \cup Revoked(a, mapAnns, now)
        /\ pc' = [pc EXCEPT ![t] = "idle"]
        /\ arg' = [arg EXCEPT ![t] = NoAnn]
        /\ res' = [res EXCEPT ![t] = "rejected"]
        /\ UNCHANGED <<now, nCurrentMixer, accepted>>

\* The locked block when nothing cancels it: sweep, insert (a no-op when the
\* same bytes are already there) and elect a mixer from the new map.
ProcessAccept(t) ==
    LET a    == arg[t]
        kept == Sweep(a, mapAnns, now)
    IN  /\ pc[t] = "wait"
        /\ ~CancelledByStore(a, kept, now)
        /\ mapAnns' = kept \cup {a}
        /\ nCurrentMixer' \in Elect(kept \cup {a})
        /\ revoked' = revoked \cup Revoked(a, mapAnns, now)
        /\ accepted' = accepted \cup {a}
        /\ pc' = [pc EXCEPT ![t] = "idle"]
        /\ arg' = [arg EXCEPT ![t] = NoAnn]
        /\ res' = [res EXCEPT ![t] = "accepted"]
        /\ UNCHANGED now

Next ==
    \/ Tick
    \/ \E t \in Threads, a \in Anns :
          ProcessRejectEarly(t, a) \/ ProcessChecked(t, a) \/ SendAnnRefused(t, a)
    \/ \E t \in Threads : ProcessRejectCancelled(t) \/ ProcessAccept(t)

Spec == Init /\ [][Next]_storeVars

-----------------------------------------------------------------------------
(* Properties.                                                              *)

\* Revocation: no announcement in the map is cancelled by another one in
\* the map.  The sweep (lines 202-220) and the conflict check (lines
\* 223-231), run under cs_mapAnns by concurrent ProcessAnnouncement calls in
\* either order, must keep a revoked id out of the map while its revoker
\* is in effect.
NoResidentCancelled ==
    \A a, b \in mapAnns : ~Cancels(a, b, now)

\* Spec 8, "Mixer domain": whenever nCurrentMixer is not "", it names an
\* announcement in mapAnns that IsAnnouncement.  (The locked block returns
\* false at line 229 after its sweep erased entries, without re-electing.)
MixerDomain ==
    nCurrentMixer # NoMixer =>
        nCurrentMixer \in mapAnns /\ IsAnnouncement(nCurrentMixer)

\* Spec 3, lifecycle, and spec 8, revocation ordering: an announcement
\* erased from mapAnns because a higher id revoked it never enters it
\* again.  (Nothing in ProcessAnnouncement remembers erased announcements;
\* once the revoker expires, the revoked one is accepted again.)
NoReentry ==
    mapAnns \cap revoked = {}

\* Spec 4.3 and 5: submit is one atomic transaction under the store's
\* lock, the in-effect check on arrival included, so the threaded store
\* implements AnnStoreAbstract with mapAnns as the store.  (IsInEffect is
\* read at line 174, before LOCK(cs_mapAnns) at line 200: a thread that
\* waits for the lock past the expiration inserts an expired record.)
Atomic == INSTANCE AnnStoreAbstract WITH store <- mapAnns, mixer <- nCurrentMixer

AtomicSubmit == Atomic!AbsSpec

=====
