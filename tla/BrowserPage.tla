----------------------------- MODULE BrowserPage -----------------------------
(***************************************************************************)
(* The signaling half of webrtc_streamer/web/index.html, for every page    *)
(* that is open.  A page has one JavaScript thread, but its ws.onmessage   *)
(* is async: each await lets other handlers run, so several offers may be  *)
(* in the works at once.  The browser queues the operations of a peer      *)
(* connection and runs them one at a time ("ops"); a handler enqueues its  *)
(* next operation when the one it awaits has succeeded.                    *)
(***************************************************************************)
EXTENDS SignalingTexts, Sequences

VARIABLES
    conn, up, down,   \* the WebSockets: their state, texts sent, to read
    timer,            \* the 2 s interval: "off", "on", "cleared"
    offerReceived,    \* the flag of line 117
    ops,              \* the queue of operations of the peer connection
    sig,              \* pc.signalingState
    remoteDesc,       \* the offer applied last, or None
    created,          \* whom the answer created last answers, or None
    localDesc,        \* whom the local description answers, or None
    gathered          \* pc.iceGatheringState: "new", "gathering", "complete"

channelVars == <<conn, up, down>>
pcVars == <<ops, sig, remoteDesc, created, localDesc, gathered>>
pageVars == <<timer, offerReceived, pcVars>>

\* "desc" is the description a handler was called with; for setLocal it is
\* the one its answer answers.
Operation == [op : {"setRemote", "createAnswer", "setLocal"}, desc : Text]

TypeOK ==
    /\ timer \in [Browser -> {"off", "on", "cleared"}]
    /\ offerReceived \in [Browser -> BOOLEAN]
    /\ ops \in [Browser -> Seq(Operation)]
    /\ sig \in [Browser -> {"stable", "have-remote-offer"}]
    /\ remoteDesc \in [Browser -> Text \cup {None}]
    /\ created \in [Browser -> Peer \cup {None}]
    /\ localDesc \in [Browser -> Peer \cup {None}]
    /\ gathered \in [Browser -> {"new", "gathering", "complete"}]

Init ==
    /\ timer = [b \in Browser |-> "off"]
    /\ offerReceived = [b \in Browser |-> FALSE]
    /\ ops = [b \in Browser |-> <<>>]
    /\ sig = [b \in Browser |-> "stable"]
    /\ remoteDesc = [b \in Browser |-> None]
    /\ created = [b \in Browser |-> None]
    /\ localDesc = [b \in Browser |-> None]
    /\ gathered = [b \in Browser |-> "new"]

\* ws.send: what is sent on a closed WebSocket is discarded.
Sent(b, m) == IF conn[b] = "open" THEN [up EXCEPT ![b] = Append(@, m)] ELSE up

\* pc.localDescription.sdp, as it is at the moment.
LocalAnswer(b, to) == Answer(b, to, gathered[b] = "complete")

-----------------------------------------------------------------------------
\* ws.onopen: setInterval.
OnOpen(b) ==
    /\ conn[b] = "open"
    /\ timer[b] = "off"
    /\ timer' = [timer EXCEPT ![b] = "on"]
    /\ UNCHANGED <<channelVars, offerReceived, pcVars>>

\* The interval fires before an offer came: ask for one.
TickRequest(b) ==
    /\ timer[b] = "on"
    /\ ~offerReceived[b]
    /\ conn[b] = "open"
    /\ up' = Sent(b, Request(b))
    /\ UNCHANGED <<conn, down, pageVars>>

\* The interval fires after an offer came: stop it.
TickClear(b) ==
    /\ timer[b] = "on"
    /\ offerReceived[b]
    /\ timer' = [timer EXCEPT ![b] = "cleared"]
    /\ UNCHANGED <<channelVars, offerReceived, pcVars>>

\* ws.onmessage, after ws.onopen, up to its first await.  A description is taken
\* for an offer whatever it is; the requests of other pages are ignored.
OnMessage(b) ==
    /\ timer[b] # "off"
    /\ down[b] # <<>>
    /\ down' = [down EXCEPT ![b] = Tail(@)]
    /\ LET m == Head(down[b]) IN
         IF IsDescription(m)
         THEN /\ offerReceived' = [offerReceived EXCEPT ![b] = TRUE]
              /\ ops' = [ops EXCEPT ![b] =
                           Append(@, [op |-> "setRemote", desc |-> m])]
         ELSE UNCHANGED <<offerReceived, ops>>
    /\ UNCHANGED <<conn, up, timer, sig, remoteDesc, created, localDesc, gathered>>

\* The head of the queue is an operation of the given kind.
Due(b, op) == ops[b] # <<>> /\ Head(ops[b]).op = op

Desc(b) == Head(ops[b]).desc

\* The operation is done and its handler goes on with the next one.
Continue(b, op, desc) ==
    ops' = [ops EXCEPT ![b] = Append(Tail(@), [op |-> op, desc |-> desc])]

\* The operation fails, or was the last: nothing follows.
Finish(b) == ops' = [ops EXCEPT ![b] = Tail(@)]

\* await pc.setRemoteDescription: allowed in both signaling states.
SetRemote(b) ==
    /\ Due(b, "setRemote")
    /\ remoteDesc' = [remoteDesc EXCEPT ![b] = Desc(b)]
    /\ sig' = [sig EXCEPT ![b] = "have-remote-offer"]
    /\ Continue(b, "createAnswer", Desc(b))
    /\ UNCHANGED <<channelVars, timer, offerReceived, created, localDesc, gathered>>

\* The browser may refuse a description that is not really an offer.
RefuseRemote(b) ==
    /\ Due(b, "setRemote")
    /\ Desc(b).kind # "offer"
    /\ Finish(b)
    /\ UNCHANGED <<channelVars, timer, offerReceived, sig, remoteDesc, created,
                   localDesc, gathered>>

\* Wrong variant of CreateAnswer: a page answers once.
CreateAnswerOnce(b) ==
    /\ Due(b, "createAnswer")
    /\ IF sig[b] = "have-remote-offer" /\ created[b] = None
       THEN /\ created' = [created EXCEPT ![b] = remoteDesc[b].from]
            /\ Continue(b, "setLocal", remoteDesc[b])
       ELSE Finish(b) /\ UNCHANGED created
    /\ UNCHANGED <<channelVars, timer, offerReceived, sig, remoteDesc, localDesc,
                   gathered>>

\* await pc.createAnswer: answers the description applied last.
CreateAnswer(b) ==
    /\ Due(b, "createAnswer")
    /\ IF sig[b] = "have-remote-offer"
       THEN /\ created' = [created EXCEPT ![b] = remoteDesc[b].from]
            /\ Continue(b, "setLocal", remoteDesc[b])
       ELSE Finish(b) /\ UNCHANGED created
    /\ UNCHANGED <<channelVars, timer, offerReceived, sig, remoteDesc, localDesc,
                   gathered>>

\* await pc.setLocalDescription(answer), and ws.send after it.  The browser
\* refuses an answer that is not the one created last.
SetLocal(b) ==
    /\ Due(b, "setLocal")
    /\ Finish(b)
    /\ IF sig[b] = "have-remote-offer" /\ Desc(b).from = created[b]
       THEN /\ sig' = [sig EXCEPT ![b] = "stable"]
            /\ localDesc' = [localDesc EXCEPT ![b] = created[b]]
            /\ gathered' = [gathered EXCEPT ![b] =
                              IF @ = "new" THEN "gathering" ELSE @]
            /\ up' = Sent(b, LocalAnswer(b, created[b]))
       ELSE UNCHANGED <<sig, localDesc, gathered, up>>
    /\ UNCHANGED <<conn, down, timer, offerReceived, remoteDesc, created>>

\* Wrong variant of GatheringComplete: the answer is sent before there is one.
GatheringCompleteEarly(b) ==
    /\ gathered[b] # "complete"
    /\ gathered' = [gathered EXCEPT ![b] = "complete"]
    /\ up' = Sent(b, Answer(b, localDesc[b], TRUE))
    /\ UNCHANGED <<conn, down, timer, offerReceived, ops, sig, remoteDesc, created,
                   localDesc>>

\* pc.onicegatheringstatechange, complete: the answer is sent again.
GatheringComplete(b) ==
    /\ gathered[b] = "gathering"
    /\ gathered' = [gathered EXCEPT ![b] = "complete"]
    /\ up' = Sent(b, Answer(b, localDesc[b], TRUE))
    /\ UNCHANGED <<conn, down, timer, offerReceived, ops, sig, remoteDesc, created,
                   localDesc>>

RunOperation(b) ==
    \/ SetRemote(b)
    \/ RefuseRemote(b)
    \/ CreateAnswer(b)
    \/ SetLocal(b)

Next(b) ==
    \/ OnOpen(b)
    \/ TickRequest(b)
    \/ TickClear(b)
    \/ OnMessage(b)
    \/ RunOperation(b)
    \/ GatheringComplete(b)

-----------------------------------------------------------------------------
\* However the handlers interleave at their awaits, no offer is left without
\* an answer: when no operation is queued the peer connection is stable.
NoOfferLeftOpen == \A b \in Browser : ops[b] = <<>> => sig[b] = "stable"
=============================================================================
