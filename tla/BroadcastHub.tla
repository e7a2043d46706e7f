---------------------------- MODULE BroadcastHub ----------------------------
(***************************************************************************)
(* What the signaling server promises its clients, without its map, its    *)
(* mutex or its callbacks: a hub that takes each client's messages in the  *)
(* order they were sent and gives every message, in one step, to every     *)
(* other member.  Because a message reaches all the members at once, any   *)
(* two members see the messages they both get in the same order, and a     *)
(* reply never overtakes the message it replies to.                        *)
(***************************************************************************)
EXTENDS Sequences

CONSTANTS Client,   \* the WebSocket connections, one value per connection
          Msg       \* the text messages

VARIABLES status,   \* "none", "connecting", "open" or "closed"
          pending,  \* messages a client sent that the hub has not published
          outbox    \* messages published to a client that it has not read

hubVars == <<status, pending, outbox>>

Init ==
    /\ status = [c \in Client |-> "none"]
    /\ pending = [c \in Client |-> <<>>]
    /\ outbox = [c \in Client |-> <<>>]

\* A connection is accepted; until its handshake ends it gets no message.
Join(c) ==
    /\ status[c] = "none"
    /\ status' = [status EXCEPT ![c] = "connecting"]
    /\ UNCHANGED <<pending, outbox>>

\* The handshake ends.
Enter(c) ==
    /\ status[c] = "connecting"
    /\ status' = [status EXCEPT ![c] = "open"]
    /\ UNCHANGED <<pending, outbox>>

\* A connection ends, at any time, and for good.
Leave(c) ==
    /\ status[c] \in {"connecting", "open"}
    /\ status' = [status EXCEPT ![c] = "closed"]
    /\ UNCHANGED <<pending, outbox>>

\* A member sends a message.
Submit(c, m) ==
    /\ status[c] = "open"
    /\ pending' = [pending EXCEPT ![c] = Append(@, m)]
    /\ UNCHANGED <<status, outbox>>

\* The oldest message of c goes to all the members but c, at once and once.
\* c itself may have left in the meantime.
Publish(c) ==
    /\ pending[c] # <<>>
    /\ pending' = [pending EXCEPT ![c] = Tail(@)]
    /\ outbox' = [d \in Client |->
                    IF d # c /\ status[d] = "open"
                    THEN Append(outbox[d], Head(pending[c]))
                    ELSE outbox[d]]
    /\ UNCHANGED status

\* A client reads its next message.
Read(c) ==
    /\ outbox[c] # <<>>
    /\ outbox' = [outbox EXCEPT ![c] = Tail(@)]
    /\ UNCHANGED <<status, pending>>

Next == \E c \in Client :
    \/ Join(c) \/ Enter(c) \/ Leave(c) \/ Publish(c) \/ Read(c)
    \/ \E m \in Msg : Submit(c, m)

\* The safety part of the promise.
Spec == Init /\ [][Next]_hubVars

\* The liveness part: nothing a member sent stays with the hub for ever.
EventuallyPublished == \A c \in Client : WF_hubVars(Publish(c))

FairSpec == Spec /\ EventuallyPublished
=============================================================================
