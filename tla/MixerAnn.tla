------------------------------ MODULE MixerAnn ------------------------------
(***************************************************************************)
(* The announcement record of src/src/mixerann.{h,cpp} and the pure        *)
(* predicates CAnnouncement evaluates on it.                               *)
(*                                                                         *)
(* A record stands for the deserialized fields of vchMsg.  The store is    *)
(* keyed by GetHash() = Hash(vchMsg); two different records never have the *)
(* same bytes, so a record is its own hash key in the models.  vchSig is   *)
(* not part of the record: whether it verifies is a property of the bytes  *)
(* (see Signed in AnnStore).  The three capability blobs are kept only by  *)
(* their sizes, the only thing the code reads of them (IsAnnouncement).    *)
(* Time is GetAdjustedTime(), passed in as `now`.                          *)
(***************************************************************************)
EXTENDS Integers, FiniteSets

\* CUnsignedAnnouncement: the fields the code reads.
AnnRecord(Ids, Times, Vers, SubVers) ==
    [ id      : Ids,
      exp     : Times,
      revoke  : SUBSET Ids,
      minVer  : Vers,
      maxVer  : Vers,
      subVer  : SUBSET SubVers,
      recvLen : 0..2,
      sendLen : 0..2,
      rsaLen  : 0..2 ]

\* createann (src/src/rpcblockchain.cpp, lines 226-263): SetNull, then the
\* nine parameters in order; the revoke and sub-version lists become sets
\* and each hex blob is kept by its length.
CreateAnn(nExpiration, nID, revokes, nMinVer, nMaxVer, subVers, recv, send, rsa) ==
    [ id      |-> nID,
      exp     |-> nExpiration,
      revoke  |-> revokes,
      minVer  |-> nMinVer,
      maxVer  |-> nMaxVer,
      subVer  |-> subVers,
      recvLen |-> recv,
      sendLen |-> send,
      rsaLen  |-> rsa ]

\* CAnnouncement::IsNull
IsNull(a) == a.id = 0

\* CAnnouncement::IsInEffect
IsInEffect(a, now) == now < a.exp

\* CAnnouncement::Cancels: only an announcement in effect cancels, and only
\* lower ids it lists in setRevoke.
Cancels(a, b, now) ==
    /\ IsInEffect(a, now)
    /\ a.id > b.id
    /\ b.id \in a.revoke

\* CAnnouncement::AppliesTo(nVersion, strSubVerIn)
AppliesTo(a, ver, sub, now) ==
    /\ IsInEffect(a, now)
    /\ a.minVer <= ver
    /\ ver <= a.maxVer
    /\ a.subVer = {} \/ sub \in a.subVer

\* CAnnouncement::IsAnnouncement: all three public keys longer than a byte,
\* i.e. the record names a mixer that can be elected.
IsAnnouncement(a) ==
    ~(a.recvLen <= 1 \/ a.sendLen <= 1 \/ a.rsaLen <= 1)

=============================================================================
