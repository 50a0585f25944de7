----------------------------- MODULE MCAnnNode ------------------------------
(***************************************************************************)
(* Model values for AnnNode: A1, A2, A3, AF of MCAnnStore, with version  *)
(* ranges and sub-version lists that make AppliesTo differ between peers:  *)
(*   p1  nVersion 1, strSubVer s1  (every announcement applies)            *)
(*   p2  nVersion 2, strSubVer s2  (A2 is for s1 only; A3 is for 1..1)     *)
(***************************************************************************)
EXTENDS AnnNode

\* createann <e> <i> <rv> 1 <vmax> <sv> with three blobs of `lens` bytes.
Ann(i, e, rv, vmax, sv, lens) == CreateAnn(e, i, rv, 1, vmax, sv, lens, lens, lens)

A1 == Ann(1, 3, {}, 2, {}, 2)
A2 == Ann(2, 2, {1}, 2, {"s1"}, 2)
A3 == Ann(3, 3, {2}, 1, {}, 0)
AF == Ann(3, 3, {1, 2}, 2, {}, 2)

\* The null announcement is stored like any other (see MCAnnStore); the
\* relay runs leave it out.
MCAnns == {A1, A2, A3, AF}
MCSigned == {A1, A2, A3}
MCPeerVersion == [p \in {"p1", "p2"} |-> IF p = "p1" THEN 1 ELSE 2]
MCPeerSubVer == [p \in {"p1", "p2"} |-> IF p = "p1" THEN "s1" ELSE "s2"]
=============================================================================
