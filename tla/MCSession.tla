----------------------------- MODULE MCSession -----------------------------
(***************************************************************************)
(* Instances of Session for TLC: one streamer and one or two pages over    *)
(* the hub.                                                                *)
(***************************************************************************)
EXTENDS Session, TLC

CONSTANTS b1, b2

OnePage == {b1}
TwoPages == {b1, b2}

\* Two pages are interchangeable.  For safety runs.
PageSymmetry == Permutations({b1, b2})

NoConnection == {}
AnyConnection == Peer
=============================================================================
