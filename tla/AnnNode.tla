------------------------------ MODULE AnnNode -------------------------------
(***************************************************************************)
(* One node of the announcement subsystem: the store (AnnStore) shared by  *)
(* the threads that run ProcessAnnouncement, and the relay gate (AnnRelay) *)
(* towards each connected peer.  The two share the clock and the set of   *)
(* announcements the node has accepted; relaying runs outside cs_mapAnns,  *)
(* so it interleaves freely with submissions and with the clock.           *)
(***************************************************************************)
EXTENDS Integers, FiniteSets, MixerAnn

CONSTANTS Anns, Signed, Threads, MaxTime, NoAnn, NoMixer,
          Peers, PeerVersion, PeerSubVer

VARIABLES now, mapAnns, nCurrentMixer, pc, arg, res, accepted, revoked,
          setKnownAnns, sent, relayRes

vars == <<now, mapAnns, nCurrentMixer, pc, arg, res, accepted, revoked,
          setKnownAnns, sent, relayRes>>

Store == INSTANCE AnnStore
Relay == INSTANCE AnnRelay

Init == Store!Init /\ Relay!RelayInit

Next ==
    \/ Store!Next /\ UNCHANGED <<setKnownAnns, sent, relayRes>>
    \/ Relay!RelayNext /\ UNCHANGED <<mapAnns, nCurrentMixer, pc, arg, res, revoked>>

Spec == Init /\ [][Next]_vars

TypeOK == Store!TypeOK /\ Relay!RelayTypeOK

\* See AnnStore and AnnRelay for the statement of each property.
NoResidentCancelled == Store!NoResidentCancelled
RelayAtMostOnce     == Relay!RelayAtMostOnce
KnownWasSent        == Relay!KnownWasSent
=============================================================================
