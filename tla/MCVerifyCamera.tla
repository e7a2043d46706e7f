--------------------------- MODULE MCVerifyCamera ---------------------------
(***************************************************************************)
(* Instance of VerifyCamera for TLC: every command line of at most two     *)
(* words, and some with two options.                                       *)
(***************************************************************************)
EXTENDS VerifyCamera

Flag(w) == [word |-> w, value |-> 0]
Number(n) == [word |-> "number", value |-> n]

Words == {Flag(w) : w \in {"-h", "-d", "-t", "-n", "-v", "text"}}
         \cup {Number(n) : n \in -1..2}

MCCommandLines ==
    {<<>>}
    \cup {<<w>> : w \in Words}
    \cup {<<v, w>> : v, w \in Words}
    \cup {<<Flag("-d"), Number(d), Flag("-n"), Number(n)>> : d, n \in 0..1}
    \cup {<<Flag("-n"), Number(1), Flag("-t"), Number(t)>> : t \in 0..3}
=============================================================================
