--------------------------- MODULE SignalingServer ---------------------------
(***************************************************************************)
(* webrtc_streamer/src/signaling_server.cpp: the WebSocket server between  *)
(* the streamer and the browsers.  It keeps a map from connections to a    *)
(* role, under one mutex, and relays every text message to every other     *)
(* connection of the map.                                                  *)
(*                                                                         *)
(* The callbacks run on the threads of libdatachannel.  For one connection *)
(* onMessage does not overlap with itself, but it may overlap with onError *)
(* and onClosed and with the callbacks of any other connection: the mutex  *)
(* in the code is there for that.  One lock_guard scope is one action, so  *)
(* onMessage is two actions (Identify, Relay) with a gap in between, and   *)
(* onClient is two (OnClient, AttachCallbacks) because the callbacks are   *)
(* set after its scope ends.                                               *)
(***************************************************************************)
EXTENDS Sequences

CONSTANTS Client,   \* the connections; a reconnect is another connection
          Msg       \* the text messages, records with a field "kind"

\* "request" is the exact text "request"; an offer and an answer are texts
\* that contain "v=0"; "other" is any other text.
Kind == {"request", "offer", "answer", "other"}

ASSUME MsgAssumption == \A m \in Msg : m.kind \in Kind

VARIABLES
    conn,       \* the state of the connection, kept by the library
    up,         \* messages sent by a client whose relaying is not finished;
                \* the head is the one onMessage is at
    down,       \* messages sent to a client that it has not read
    attached,   \* the three callbacks of the connection are set
    clients,    \* the map; "absent" for a connection that is not a key
    task,       \* where the onMessage of the connection stands
    events      \* onClosed and onError calls the library has yet to make

libVars    == <<conn, up, down, events>>
serverVars == <<attached, clients, task>>
vars       == <<conn, up, down, attached, clients, task, events>>

Role == {"unknown", "browser", "streamer"}
ConnState == {"none", "connecting", "open", "closed"}

TypeOK ==
    /\ conn \in [Client -> ConnState]
    /\ up \in [Client -> Seq(Msg)]
    /\ down \in [Client -> Seq(Msg)]
    /\ attached \in [Client -> BOOLEAN]
    /\ clients \in [Client -> Role \cup {"absent"}]
    /\ task \in [Client -> {"idle", "relay"}]
    /\ events \in [Client -> SUBSET {"closed", "error"}]

Init ==
    /\ conn = [c \in Client |-> "none"]
    /\ up = [c \in Client |-> <<>>]
    /\ down = [c \in Client |-> <<>>]
    /\ attached = [c \in Client |-> FALSE]
    /\ clients = [c \in Client |-> "absent"]
    /\ task = [c \in Client |-> "idle"]
    /\ events = [c \in Client |-> {}]

-----------------------------------------------------------------------------
(* The library: connections, and the texts that travel on them.            *)

\* The WebSocket handshake of an accepted connection ends.
Open(c) ==
    /\ conn[c] = "connecting"
    /\ conn' = [conn EXCEPT ![c] = "open"]
    /\ UNCHANGED <<up, down, attached, clients, task, events>>

\* A client sends a text on its open connection.
ClientSend(c, m) ==
    /\ conn[c] = "open"
    /\ up' = [up EXCEPT ![c] = Append(@, m)]
    /\ UNCHANGED <<conn, down, attached, clients, task, events>>

\* A client takes the next text from its connection.
ClientRead(c) ==
    /\ down[c] # <<>>
    /\ down' = [down EXCEPT ![c] = Tail(@)]
    /\ UNCHANGED <<conn, up, attached, clients, task, events>>

\* The connection ends.  The library will call onClosed, after a failure also
\* onError, if they are set by now; a callback set later is not called.
Drop(c) ==
    /\ conn[c] \in {"connecting", "open"}
    /\ conn' = [conn EXCEPT ![c] = "closed"]
    /\ \E calls \in {{"closed"}, {"error", "closed"}} :
         events' = [events EXCEPT ![c] = IF attached[c] THEN calls ELSE {}]
    /\ UNCHANGED <<up, down, attached, clients, task>>

-----------------------------------------------------------------------------
(* The callbacks of the server.                                            *)

\* onClient, the locked scope: clients[ws] = ClientInfo().
OnClient(c) ==
    /\ conn[c] = "none"
    /\ conn' = [conn EXCEPT ![c] = "connecting"]
    /\ clients' = [clients EXCEPT ![c] = "unknown"]
    /\ UNCHANGED <<up, down, attached, task, events>>

\* onClient, the rest: the callbacks of the new connection are set.
AttachCallbacks(c) ==
    /\ clients[c] # "absent"
    /\ ~attached[c]
    /\ attached' = [attached EXCEPT ![c] = TRUE]
    /\ UNCHANGED <<conn, up, down, clients, task, events>>

\* Wrong variant of RoleFrom, to test the runs: the text itself is the role.
RoleFromText(m) == m.kind

\* The role a first message gives.
RoleFrom(m) ==
    CASE m.kind = "request"            -> "browser"
      [] m.kind \in {"offer", "answer"} -> "streamer"
      [] OTHER                         -> "unknown"

\* clients[ws].role: operator[] makes an entry when there is none.
RoleOf(c) == IF clients[c] = "absent" THEN "unknown" ELSE clients[c]

\* Wrong variants of Identify: the role is set again by every text; a text of
\* a connection that has been erased is left where it is.
IdentifyAgain(c) ==
    /\ attached[c] /\ task[c] = "idle" /\ up[c] # <<>>
    /\ clients' = [clients EXCEPT ![c] = RoleFrom(Head(up[c]))]
    /\ task' = [task EXCEPT ![c] = "relay"]
    /\ UNCHANGED <<conn, up, down, attached, events>>

IdentifyKnown(c) ==
    /\ clients[c] # "absent"
    /\ attached[c] /\ task[c] = "idle" /\ up[c] # <<>>
    /\ task' = [task EXCEPT ![c] = "relay"]
    /\ UNCHANGED <<conn, up, down, attached, clients, events>>

\* onMessage, first scope: identify the role if it is not set.  The library
\* may still deliver texts it has received after the connection ended.
Identify(c) ==
    /\ attached[c] /\ task[c] = "idle" /\ up[c] # <<>>
    /\ clients' = [clients EXCEPT ![c] = IF RoleOf(c) = "unknown"
                                         THEN RoleFrom(Head(up[c]))
                                         ELSE RoleOf(c)]
    /\ task' = [task EXCEPT ![c] = "relay"]
    /\ UNCHANGED <<conn, up, down, attached, events>>

\* Wrong variant of Receivers: the sender gets its own text back.
ReceiversAndSender(c) == {d \in Client : clients[d] # "absent" /\ conn[d] = "open"}

\* client->send(msg) throws unless the connection is open, and the exception
\* is swallowed.
Receivers(c) == {d \in Client : /\ clients[d] # "absent"
                                /\ d # c
                                /\ conn[d] = "open"}

\* onMessage, second scope: the text goes to every other client of the map.
Relay(c) ==
    /\ task[c] = "relay"
    /\ down' = [d \in Client |-> IF d \in Receivers(c)
                                 THEN Append(down[d], Head(up[c]))
                                 ELSE down[d]]
    /\ up' = [up EXCEPT ![c] = Tail(@)]
    /\ task' = [task EXCEPT ![c] = "idle"]
    /\ UNCHANGED <<conn, attached, clients, events>>

\* Wrong variant of Erase: every client of the same role is erased.
EraseRole(c, event) ==
    /\ event \in events[c]
    /\ clients' = [d \in Client |-> IF RoleOf(d) = RoleOf(c) THEN "absent"
                                    ELSE clients[d]]
    /\ events' = [events EXCEPT ![c] = @ \ {event}]
    /\ UNCHANGED <<conn, up, down, attached, task>>

\* clients.erase(ws), in both callbacks.
Erase(c, event) ==
    /\ event \in events[c]
    /\ clients' = [clients EXCEPT ![c] = "absent"]
    /\ events' = [events EXCEPT ![c] = @ \ {event}]
    /\ UNCHANGED <<conn, up, down, attached, task>>

OnClosed(c) == Erase(c, "closed")

OnError(c) == Erase(c, "error")

ServerNext(c) ==
    \/ AttachCallbacks(c)
    \/ Identify(c)
    \/ Relay(c)
    \/ OnClosed(c)
    \/ OnError(c)

LibNext(c) ==
    \/ OnClient(c)
    \/ Open(c)
    \/ Drop(c)
    \/ ClientRead(c)
    \/ \E m \in Msg : ClientSend(c, m)

Next == \E c \in Client : ServerNext(c) \/ LibNext(c)

Spec == Init /\ [][Next]_vars

\* The library runs every callback that is due and the mutex is free
\* infinitely often: each scope is short and takes no other lock.
Fairness == \A c \in Client : /\ WF_vars(AttachCallbacks(c))
                              /\ WF_vars(Identify(c))
                              /\ WF_vars(Relay(c))

FairSpec == Spec /\ Fairness

-----------------------------------------------------------------------------
(* What the server guarantees.                                             *)

\* Every connection that is being set up or open is in the map, so no live
\* client is left out of a relay: lines 26 to 27 add it before anything can
\* happen on it, and no late callback of another kind takes it out.
LiveClientsRegistered ==
    \A c \in Client : conn[c] \in {"connecting", "open"} => clients[c] # "absent"

\* "Identify role if not set" (line 35): a role that was identified stays as
\* long as the connection lives.
RoleSticks == [][\A c \in Client :
    /\ conn[c] = "open"
    /\ clients[c] \in {"browser", "streamer"}
    => clients'[c] = clients[c]]_vars

\* The server is a broadcast hub: seen from its clients, a text is taken in
\* the order it was sent and reaches all the other open clients in one step,
\* although the map still holds connections that ended (an onMessage that
\* runs after onClosed puts its connection back, line 37) and may lack the
\* sender (onClosed between the two scopes of onMessage).
Hub == INSTANCE BroadcastHub WITH
    status <- conn, pending <- up, outbox <- down

IsBroadcastHub == Hub!Spec

\* Whatever a client has sent is relayed in the end, even when its connection
\* ends before the server gets to it.
NothingStuck == Hub!EventuallyPublished
=============================================================================
