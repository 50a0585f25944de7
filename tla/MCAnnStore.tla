----------------------------- MODULE MCAnnStore -----------------------------
(***************************************************************************)
(* Model values for AnnStore.  Four operator-signed announcements and one  *)
(* forged one, chosen so that every branch of ProcessAnnouncement is       *)
(* reachable:                                                              *)
(*   A1  id 1, a mixer, in effect until 3                                  *)
(*   A2  id 2, a mixer, revokes 1, in effect until 2 (expires before A1)   *)
(*   A3  id 3, administrative only, revokes 2                              *)
(*   A0  id 0, the null announcement, signed                               *)
(*   AF  id 3, revokes 1 and 2, with a signature that does not verify      *)
(***************************************************************************)
EXTENDS AnnStore

\* createann <e> <i> <rv> 1 2 [] with three blobs of `lens` bytes.
Ann(i, e, rv, lens) == CreateAnn(e, i, rv, 1, 2, {}, lens, lens, lens)

A1 == Ann(1, 3, {}, 2)
A2 == Ann(2, 2, {1}, 2)
A3 == Ann(3, 3, {2}, 0)
A0 == Ann(0, 3, {}, 2)
AF == Ann(3, 3, {1, 2}, 2)

MCAnns == {A1, A2, A3, A0, AF}
MCSigned == {A1, A2, A3, A0}
=============================================================================
