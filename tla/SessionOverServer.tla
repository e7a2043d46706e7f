------------------------- MODULE SessionOverServer -------------------------
(***************************************************************************)
(* The signaling with the server as it is written: the streamer and the    *)
(* pages of Session, whose texts go through the map, the mutex scopes and  *)
(* the callbacks of SignalingServer instead of the hub.  It implements     *)
(* Session (SessionProofs!ImplementsSession).                              *)
(***************************************************************************)
EXTENDS Session

VARIABLES attached, clients, task, events    \* of SignalingServer

Server == INSTANCE SignalingServer WITH Client <- Peer, Msg <- Text

inServer == <<attached, clients, task, events>>
overVars == <<vars, inServer>>

OverTypeOK == TypeOK /\ Server!TypeOK

OverInit == Init /\ Server!Init

\* A callback of the server.
CallbackStep(p) ==
    /\ Server!ServerNext(p)
    /\ UNCHANGED <<streamerVars, pageVars>>

\* A WebSocket reaches the server, opens there or ends.
ConnectionStep(p) ==
    /\ \/ (p = Streamer => ctor # "open") /\ Server!OnClient(p)
       \/ Server!Open(p)
       \/ p \in Droppable /\ Server!Drop(p)
    /\ UNCHANGED <<streamerVars, pageVars>>

\* The streamer and the pages: they touch the server only through texts.
PeerStep ==
    /\ \/ StreamerStep
       \/ \E b \in Browser : AskForOffer(b) \/ HandleText(b) \/ PageStep(b)
    /\ UNCHANGED inServer

OverNext ==
    \/ \E p \in Peer : CallbackStep(p) \/ ConnectionStep(p)
    \/ PeerStep

OverSpec == OverInit /\ [][OverNext]_overVars
=============================================================================
