---------------------------- MODULE StreamerPeer ----------------------------
(***************************************************************************)
(* The signaling half of webrtc_streamer/src/main.cpp: how the streamer    *)
(* gets from its constructor to a peer connection with a remote            *)
(* description.  One peer connection serves the whole life of the process. *)
(* The main thread runs the constructor while the threads of libdatachannel*)
(* run the callbacks it has set so far.                                    *)
(***************************************************************************)
EXTENDS SignalingTexts, Sequences

VARIABLES
    conn, up, down,   \* the WebSocket: its state, texts sent, texts to read
    ctor,             \* the line the constructor is before: "open" (153),
                      \* "register" (155) or "done"
    wsOpened,         \* ws->onOpen has run
    localDesc,        \* the peer connection has a local description
    gathering,        \* its candidate gathering: "new", "busy", "complete"
    signaling,        \* its signaling state: "stable" or "have-local-offer"
    remote            \* its remote description, or None

channelVars == <<conn, up, down>>
streamerVars == <<ctor, wsOpened, localDesc, gathering, signaling, remote>>

TypeOK ==
    /\ ctor \in {"open", "register", "done"}
    /\ wsOpened \in BOOLEAN
    /\ localDesc \in BOOLEAN
    /\ gathering \in {"new", "busy", "complete"}
    /\ signaling \in {"stable", "have-local-offer"}
    /\ remote \in Text \cup {None}

\* Before line 153.  createDataChannel (line 92) may have made the library
\* negotiate by itself, so that there already is an offer.
Init ==
    /\ ctor = "open"
    /\ wsOpened = FALSE
    /\ localDesc \in BOOLEAN
    /\ gathering = IF localDesc THEN "busy" ELSE "new"
    /\ signaling = IF localDesc THEN "have-local-offer" ELSE "stable"
    /\ remote = None

\* ws->send: throws when the connection is not open; the library drops what
\* a callback throws, so the text is lost.
Sent(m) == IF conn[Streamer] = "open"
           THEN [up EXCEPT ![Streamer] = Append(@, m)]
           ELSE up

LocalOffer == Offer(gathering = "complete")

\* pc->setLocalDescription(): an offer, once; gathering starts with it.
SetLocalDescription ==
    /\ localDesc' = TRUE
    /\ gathering' = IF localDesc THEN gathering ELSE "busy"
    /\ signaling' = IF localDesc THEN signaling ELSE "have-local-offer"

\* Constructor, line 153.  The call returns before the connection is made.
OpenWebSocket ==
    /\ ctor = "open"
    /\ ctor' = "register"
    /\ UNCHANGED <<channelVars, wsOpened, localDesc, gathering, signaling, remote>>

\* Constructor, lines 155 to 170.
RegisterGatheringCallback ==
    /\ ctor = "register"
    /\ ctor' = "done"
    /\ UNCHANGED <<channelVars, wsOpened, localDesc, gathering, signaling, remote>>

\* ws->onOpen.
OnOpen ==
    /\ conn[Streamer] = "open"
    /\ ~wsOpened
    /\ wsOpened' = TRUE
    /\ SetLocalDescription
    /\ UNCHANGED <<channelVars, ctor, remote>>

\* The library has gathered the last candidate.  The callback pushes the
\* offer if it is set by now; it is not called later for a past change.
GatheringComplete ==
    /\ gathering = "busy"
    /\ gathering' = "complete"
    /\ up' = IF ctor = "done" THEN Sent(Offer(TRUE)) ELSE up
    /\ UNCHANGED <<conn, down, ctor, wsOpened, localDesc, signaling, remote>>

\* The next text; the library delivers none before onOpen has run.
Incoming == Head(down[Streamer])

Receive ==
    /\ wsOpened
    /\ down[Streamer] # <<>>
    /\ down' = [down EXCEPT ![Streamer] = Tail(@)]

\* Wrong variants of OnRequest: an offer is made for a request but never sent
\* again; every request starts a new negotiation.
OnRequestOnce ==
    /\ Receive
    /\ Incoming.kind = "request"
    /\ SetLocalDescription
    /\ UNCHANGED <<conn, up, ctor, wsOpened, remote>>

OnRequestRenegotiate ==
    /\ Receive
    /\ Incoming.kind = "request"
    /\ localDesc' = TRUE
    /\ signaling' = "have-local-offer"
    /\ up' = Sent(LocalOffer)
    /\ UNCHANGED <<conn, ctor, wsOpened, gathering, remote>>

\* ws->onMessage, a request: send the local description as it is now.
OnRequest ==
    /\ Receive
    /\ Incoming.kind = "request"
    /\ IF localDesc
       THEN /\ up' = Sent(LocalOffer)
            /\ UNCHANGED <<localDesc, gathering, signaling>>
       ELSE /\ SetLocalDescription
            /\ UNCHANGED up
    /\ UNCHANGED <<conn, ctor, wsOpened, remote>>

\* Wrong variant of OnDescription: the test of the signaling state is inverted.
OnDescriptionStable ==
    /\ Receive
    /\ IsDescription(Incoming)
    /\ IF signaling = "stable"
       THEN remote' = Incoming
       ELSE UNCHANGED remote
    /\ UNCHANGED <<conn, up, ctor, wsOpened, localDesc, gathering, signaling>>

\* ws->onMessage, a description: it is taken for an answer whatever it is.
\* Without a pending offer setRemoteDescription throws and the code logs it.
OnDescription ==
    /\ Receive
    /\ IsDescription(Incoming)
    /\ IF signaling = "have-local-offer"
       THEN remote' = Incoming /\ signaling' = "stable"
       ELSE UNCHANGED <<remote, signaling>>
    /\ UNCHANGED <<conn, up, ctor, wsOpened, localDesc, gathering>>

Next ==
    \/ OpenWebSocket
    \/ RegisterGatheringCallback
    \/ OnOpen
    \/ GatheringComplete
    \/ OnRequest
    \/ OnDescription
=============================================================================
