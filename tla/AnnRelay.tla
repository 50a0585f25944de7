------------------------------ MODULE AnnRelay ------------------------------
(***************************************************************************)
(* The relay gate of src/src/mixerann.cpp: CAnnouncement::RelayTo(pnode)   *)
(* and the per-peer set pnode->setKnownAnns it reads and grows.            *)
(*                                                                         *)
(* The node offers to a peer any announcement it has accepted: the caller  *)
(* (the net layer, outside src/) relays an announcement after              *)
(* ProcessAnnouncement returns true and replays the map to new peers; the  *)
(* copy it relays may have been cancelled or expired in the meantime.      *)
(* Each peer keeps the version and sub-version it announced at handshake.  *)
(***************************************************************************)
EXTENDS Integers, FiniteSets, MixerAnn

CONSTANTS
    Anns,         \* announcements that can exist
    Peers,        \* connected peers (CNode)
    PeerVersion,  \* pnode->nVersion
    PeerSubVer,   \* pnode->strSubVer
    MaxTime       \* bound on GetAdjustedTime()

VARIABLES
    now,          \* GetAdjustedTime(), owned by the store's clock
    accepted,     \* announcements the node accepted, owned by the store
    setKnownAnns, \* per peer: hashes of announcements already offered
    sent,         \* per peer and announcement: PushMessage("announcement") count
    relayRes      \* per peer: the value the last RelayTo returned

relayVars == <<setKnownAnns, sent, relayRes>>

RelayTypeOK ==
    /\ setKnownAnns \in [Peers -> SUBSET Anns]
    /\ sent \in [Peers -> [Anns -> Nat]]
    /\ relayRes \in [Peers -> {"none", "sent", "dropped"}]

RelayInit ==
    /\ setKnownAnns = [p \in Peers |-> {}]
    /\ sent = [p \in Peers |-> [a \in Anns |-> 0]]
    /\ relayRes = [p \in Peers |-> "none"]

\* AppliesTo(pnode->nVersion, pnode->strSubVer) at the current time.
AppliesToPeer(a, p) == AppliesTo(a, PeerVersion[p], PeerSubVer[p], now)

\* RelayTo returns false at once: the announcement is no longer in effect
\* (line 125), or the peer already knows its hash (the insert at line 128
\* finds it).
RelayRefused(p, a) ==
    /\ ~IsInEffect(a, now) \/ a \in setKnownAnns[p]
    /\ relayRes' = [relayRes EXCEPT ![p] = "dropped"]
    /\ UNCHANGED <<setKnownAnns, sent>>

\* A gate that marks the hash known before testing IsInEffect.
RelayMarkFirst(p, a) ==
    /\ a \notin setKnownAnns[p]
    /\ setKnownAnns' = [setKnownAnns EXCEPT ![p] = @ \cup {a}]
    /\ IF AppliesToPeer(a, p)
         THEN /\ sent' = [sent EXCEPT ![p][a] = @ + 1]
              /\ relayRes' = [relayRes EXCEPT ![p] = "sent"]
         ELSE /\ relayRes' = [relayRes EXCEPT ![p] = "dropped"]
              /\ UNCHANGED sent

\* A gate that forgets the setKnownAnns test.
RelayNoDedup(p, a) ==
    /\ IsInEffect(a, now)
    /\ setKnownAnns' = [setKnownAnns EXCEPT ![p] = @ \cup {a}]
    /\ IF AppliesToPeer(a, p)
         THEN /\ sent' = [sent EXCEPT ![p][a] = @ + 1]
              /\ relayRes' = [relayRes EXCEPT ![p] = "sent"]
         ELSE /\ relayRes' = [relayRes EXCEPT ![p] = "dropped"]
              /\ UNCHANGED sent

\* Lines 125-138 past the first test: the hash is new to the peer, so it is
\* marked known whatever follows; the message is pushed only if the
\* announcement applies to the peer.
RelayNew(p, a) ==
    /\ IsInEffect(a, now)
    /\ a \notin setKnownAnns[p]
    /\ setKnownAnns' = [setKnownAnns EXCEPT ![p] = @ \cup {a}]
    /\ IF AppliesToPeer(a, p)
         THEN /\ sent' = [sent EXCEPT ![p][a] = @ + 1]
              /\ relayRes' = [relayRes EXCEPT ![p] = "sent"]
         ELSE /\ relayRes' = [relayRes EXCEPT ![p] = "dropped"]
              /\ UNCHANGED sent

\* CAnnouncement::RelayTo(pnode), lines 123-139, for an accepted announcement.
RelayTo(p, a) ==
    /\ a \in accepted
    /\ RelayRefused(p, a) \/ RelayNew(p, a)
    /\ UNCHANGED <<now, accepted>>

RelayNext == \E p \in Peers, a \in Anns : RelayTo(p, a)

-----------------------------------------------------------------------------
(* Properties.                                                              *)

\* Spec 8, relay dedup: for a fixed peer and hash, RelayTo pushes the
\* announcement at most once, however often the node offers it again (on
\* every acceptance of the same bytes and on every map replay).
RelayAtMostOnce ==
    \A p \in Peers, a \in Anns : sent[p][a] <= 1

\* The permanent dedup set never suppresses an announcement a peer should
\* have had: every hash in setKnownAnns was either pushed to the peer, or
\* the announcement applies to the peer at no time at all.  (RelayTo tests
\* IsInEffect before it marks the hash known, so an offer made after
\* expiry cannot poison the set.)
KnownWasSent ==
    \A p \in Peers, a \in Anns :
        a \in setKnownAnns[p] /\ sent[p][a] = 0 =>
            \A t \in 0..MaxTime :
                ~AppliesTo(a, PeerVersion[p], PeerSubVer[p], t)

=============================================================================
