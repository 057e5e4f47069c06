----------------------------- MODULE MCServer -----------------------------
(* Server on small instances.                                              *)
EXTENDS Server

CONSTANTS c1, c2, c3, a1, a2

TwoConns == {c1, c2}
ThreeConns == {c1, c2, c3}
OneAcceptor == {a1}
TwoAcceptors == {a1, a2}

=============================================================================
