------------------------ MODULE MCSessionOverServer ------------------------
(***************************************************************************)
(* Instance of SessionOverServer for TLC: one streamer, whose connection   *)
(* may end, and two pages over the server as it is written.                *)
(***************************************************************************)
EXTENDS SessionOverServer, TLC

CONSTANTS b1, b2

TwoPages == {b1, b2}

\* The pages are interchangeable.
PageSymmetry == Permutations(TwoPages)

StreamerConnection == {Streamer}
=============================================================================
