--------------------------- MODULE SignalingTexts ---------------------------
(***************************************************************************)
(* The texts the streamer and the browsers exchange through the signaling  *)
(* server.  A text is the word "request" or an SDP description.  Neither   *)
(* side looks at who wrote a description: main.cpp (line 131) tests for    *)
(* "v=0" and "m=video", index.html (line 145) for "v=0" and "m=video" or   *)
(* "a=fingerprint", and every description passes both tests.  The fields   *)
(* "from" and "to" stand for the contents of the description (whose ICE    *)
(* credentials it holds, whose description it answers); the code under     *)
(* study never reads them, the properties do.                              *)
(***************************************************************************)
CONSTANTS Streamer,   \* the connection of the streamer
          Browser,    \* the connections of the pages, a reload is another one
          None        \* no description, no answer

Peer == Browser \cup {Streamer}

ASSUME PeerAssumption == Streamer \notin Browser /\ None \notin Peer

\* "full": the description lists all the candidates of its author.
Text == [kind : {"request", "offer", "answer"}, from : Peer, to : Peer,
         full : BOOLEAN]

ASSUME NoneAssumption == None \notin Text

Request(b) == [kind |-> "request", from |-> b, to |-> Streamer, full |-> FALSE]

Offer(full) ==
    [kind |-> "offer", from |-> Streamer, to |-> Streamer, full |-> full]

Answer(b, to, full) ==
    [kind |-> "answer", from |-> b, to |-> to, full |-> full]

IsDescription(m) == m.kind \in {"offer", "answer"}
=============================================================================
