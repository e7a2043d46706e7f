-------------------------- MODULE MCSignalingServer --------------------------
(***************************************************************************)
(* Instance of SignalingServer for TLC: three connections that send        *)
(* MaxSends texts between them, from one of them or from several.          *)
(***************************************************************************)
EXTENDS SignalingServer, Naturals, FiniteSets

CONSTANTS c1, c2, c3,
          MaxSends      \* bound: texts sent in a behaviour

VARIABLE sent           \* texts sent so far, to enforce the bound

MCClient == {c1, c2, c3}

\* The texts differ in the sender's eyes only by what the server looks at.
MCMsg == {[kind |-> k] : k \in {"request", "offer"}}

MCInit == Init /\ sent = 0

Send(c) ==
    /\ sent < MaxSends
    /\ \E m \in Msg : ClientSend(c, m)
    /\ sent' = sent + 1

MCNext == \E c \in Client :
    \/ Send(c)
    \/ ServerNext(c) /\ UNCHANGED sent
    \/ (OnClient(c) \/ Open(c) \/ Drop(c) \/ ClientRead(c)) /\ UNCHANGED sent

MCSpec == MCInit /\ [][MCNext]_<<vars, sent>> /\ Fairness
=============================================================================
