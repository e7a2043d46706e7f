------------------------ MODULE SignalingServerProofs ------------------------
(***************************************************************************)
(* Proofs about SignalingServer, for every set of connections and texts:   *)
(* type correctness, that no live connection is missing from the map, that *)
(* a role sticks, and that the server implements BroadcastHub.             *)
(***************************************************************************)
EXTENDS SignalingServer, SequenceTheorems, TLAPS

\* A callback is due only after the connection has ended, and an onMessage
\* between its two scopes still holds its text.
CallbacksInv ==
    \A c \in Client : /\ events[c] # {} => conn[c] = "closed"
                      /\ task[c] = "relay" => up[c] # <<>>

\* The inductive invariant.
IInv == TypeOK /\ LiveClientsRegistered /\ CallbacksInv

\* A step of the server is the step of one connection.
LEMMA NextCases ==
  ASSUME Next
  PROVE  \E c \in Client :
           \/ AttachCallbacks(c) \/ Identify(c) \/ Relay(c)
           \/ OnClosed(c) \/ OnError(c) \/ OnClient(c) \/ Open(c)
           \/ Drop(c) \/ ClientRead(c)
           \/ \E m \in Msg : ClientSend(c, m)
BY DEF Next, ServerNext, LibNext

\* The role a text gives is a role.
LEMMA RoleFromType ==
  ASSUME NEW m
  PROVE  RoleFrom(m) \in Role
BY DEF RoleFrom, Role

\* The role of a connection is a role even when it has no entry.
LEMMA RoleOfType ==
  ASSUME TypeOK, NEW c \in Client
  PROVE  RoleOf(c) \in Role
BY DEF TypeOK, RoleOf, Role

LEMMA InitIInv == Init => IInv
BY DEF Init, IInv, TypeOK, LiveClientsRegistered, CallbacksInv, ConnState, Role

\* The texts of the relay stay texts.
LEMMA RelayType ==
  ASSUME IInv, NEW c \in Client, Relay(c)
  PROVE  IInv'
<1>1. up[c] \in Seq(Msg) /\ up[c] # <<>>
  BY DEF IInv, TypeOK, CallbacksInv, Relay
<1>2. Head(up[c]) \in Msg /\ Tail(up[c]) \in Seq(Msg)
  BY <1>1
<1>3. \A d \in Client : down'[d] \in Seq(Msg)
  <2> SUFFICES ASSUME NEW d \in Client PROVE down'[d] \in Seq(Msg)
    OBVIOUS
  <2>1. down[d] \in Seq(Msg)
    BY DEF IInv, TypeOK
  <2>2. Append(down[d], Head(up[c])) \in Seq(Msg)
    BY <1>2, <2>1
  <2> QED BY <2>1, <2>2 DEF Relay
<1>4. down' \in [Client -> Seq(Msg)]
  BY <1>3 DEF Relay
<1>5. TypeOK'
  BY <1>2, <1>4 DEF IInv, TypeOK, Relay
<1>6. LiveClientsRegistered'
  BY DEF IInv, LiveClientsRegistered, Relay
<1>7. CallbacksInv'
  BY DEF IInv, TypeOK, CallbacksInv, Relay
<1> QED BY <1>5, <1>6, <1>7 DEF IInv

\* Every step of the specification keeps the inductive invariant.
LEMMA NextIInv == IInv /\ [Next]_vars => IInv'
<1> SUFFICES ASSUME IInv, [Next]_vars PROVE IInv'
  OBVIOUS
<1>1. CASE UNCHANGED vars
  BY <1>1 DEF IInv, TypeOK, LiveClientsRegistered, CallbacksInv, vars
<1>2. CASE Next
  <2>1. PICK c \in Client :
           \/ AttachCallbacks(c) \/ Identify(c) \/ Relay(c)
           \/ OnClosed(c) \/ OnError(c) \/ OnClient(c) \/ Open(c)
           \/ Drop(c) \/ ClientRead(c)
           \/ \E m \in Msg : ClientSend(c, m)
    BY <1>2, NextCases
  <2>2. CASE AttachCallbacks(c)
    BY <2>2 DEF IInv, TypeOK, LiveClientsRegistered, CallbacksInv, AttachCallbacks
  <2>3. CASE Identify(c)
    <3>1. (IF RoleOf(c) = "unknown" THEN RoleFrom(Head(up[c])) ELSE RoleOf(c)) \in Role
      BY RoleOfType, RoleFromType DEF IInv
    <3>2. TypeOK'
      BY <2>3, <3>1 DEF IInv, TypeOK, Identify
    <3>3. LiveClientsRegistered'
      <4>1. clients'[c] # "absent"
        BY <2>3, <3>1 DEF IInv, TypeOK, Identify, Role
      <4> QED BY <2>3, <4>1 DEF IInv, TypeOK, LiveClientsRegistered, Identify
    <3>4. CallbacksInv'
      BY <2>3 DEF IInv, TypeOK, CallbacksInv, Identify
    <3> QED BY <3>2, <3>3, <3>4 DEF IInv
  <2>4. CASE Relay(c)
    BY <2>4, RelayType
  <2>5. CASE OnClosed(c) \/ OnError(c)
    <3>1. PICK e \in {"closed", "error"} : Erase(c, e)
      BY <2>5 DEF OnClosed, OnError
    <3>2. conn[c] = "closed"
      BY <3>1 DEF IInv, CallbacksInv, Erase
    <3> QED BY <3>1, <3>2
            DEF IInv, TypeOK, LiveClientsRegistered, CallbacksInv, Erase
  <2>6. CASE OnClient(c)
    BY <2>6 DEF IInv, TypeOK, LiveClientsRegistered, CallbacksInv, OnClient,
                ConnState, Role
  <2>7. CASE Open(c)
    BY <2>7 DEF IInv, TypeOK, LiveClientsRegistered, CallbacksInv, Open, ConnState
  <2>8. CASE Drop(c)
    BY <2>8 DEF IInv, TypeOK, LiveClientsRegistered, CallbacksInv, Drop, ConnState
  <2>9. CASE ClientRead(c)
    <3>1. Tail(down[c]) \in Seq(Msg)
      BY <2>9 DEF IInv, TypeOK, ClientRead
    <3> QED BY <2>9, <3>1
            DEF IInv, TypeOK, LiveClientsRegistered, CallbacksInv, ClientRead
  <2>10. ASSUME NEW m \in Msg, ClientSend(c, m) PROVE IInv'
    <3>1. /\ Append(up[c], m) \in Seq(Msg)
          /\ Append(up[c], m) # <<>>
      <4>1. up[c] \in Seq(Msg)
        BY DEF IInv, TypeOK
      <4> QED BY <4>1, AppendProperties
    <3> QED BY <2>10, <3>1
            DEF IInv, TypeOK, LiveClientsRegistered, CallbacksInv, ClientSend
  <2> QED BY <2>1, <2>2, <2>3, <2>4, <2>5, <2>6, <2>7, <2>8, <2>9, <2>10
<1> QED BY <1>1, <1>2

\* The inductive invariant holds in every reachable state.
THEOREM Invariance == Spec => []IInv
<1>1. Init => IInv
  BY InitIInv
<1>2. IInv /\ [Next]_vars => IInv'
  BY NextIInv
<1> QED BY <1>1, <1>2, PTL DEF Spec

\* The variables of the server (map, handler positions, queues) keep their
\* types in every interleaving of the callbacks.
THEOREM TypeCorrect == Spec => []TypeOK
<1>1. IInv => TypeOK
  BY DEF IInv
<1> QED BY <1>1, Invariance, PTL

\* No interleaving of onClient, onMessage, onClosed and onError takes a live
\* connection out of the map, so a relay never leaves one out.
THEOREM LiveClientsStayRegistered == Spec => []LiveClientsRegistered
<1>1. IInv => LiveClientsRegistered
  BY DEF IInv
<1> QED BY <1>1, Invariance, PTL

-----------------------------------------------------------------------------
(* The server implements the hub.                                          *)

\* The empty server is the empty hub.
LEMMA InitRefines == Init => Hub!Init
<1> SUFFICES ASSUME Init PROVE Hub!Init
  OBVIOUS
<1> QED BY DEF Init, Hub!Init

\* A live receiver other than the sender is exactly an open connection.
LEMMA ReceiversAreMembers ==
  ASSUME IInv, NEW c \in Client
  PROVE  Receivers(c) = {d \in Client : d # c /\ conn[d] = "open"}
BY DEF IInv, LiveClientsRegistered, Receivers

\* Every step of the server is a step of the hub or changes nothing in it.
LEMMA NextRefines == IInv /\ [Next]_vars => [Hub!Next]_(Hub!hubVars)
<1> SUFFICES ASSUME IInv, [Next]_vars PROVE [Hub!Next]_(Hub!hubVars)
  OBVIOUS
<1> USE DEF Hub!hubVars
<1>1. CASE UNCHANGED <<conn, up, down>>
  BY <1>1
<1>2. CASE Next
  <2>1. PICK c \in Client :
           \/ AttachCallbacks(c) \/ Identify(c) \/ Relay(c)
           \/ OnClosed(c) \/ OnError(c) \/ OnClient(c) \/ Open(c)
           \/ Drop(c) \/ ClientRead(c)
           \/ \E m \in Msg : ClientSend(c, m)
    BY <1>2, NextCases
  <2>2. CASE AttachCallbacks(c) \/ Identify(c) \/ OnClosed(c) \/ OnError(c)
    BY <1>1, <2>2 DEF AttachCallbacks, Identify, OnClosed, OnError, Erase
  <2>3. CASE Relay(c)
    <3>1. up[c] # <<>>
      BY <2>3 DEF Relay, IInv, CallbacksInv
    <3>2. down' = [d \in Client |-> IF d # c /\ conn[d] = "open"
                                    THEN Append(down[d], Head(up[c]))
                                    ELSE down[d]]
      BY <2>3, ReceiversAreMembers DEF Relay
    <3>3. Hub!Publish(c)
      BY <2>3, <3>1, <3>2 DEF Hub!Publish, Relay
    <3> QED BY <3>3 DEF Hub!Next
  <2>4. CASE OnClient(c)
    <3>1. Hub!Join(c)
      BY <2>4 DEF OnClient, Hub!Join
    <3> QED BY <3>1 DEF Hub!Next
  <2>5. CASE Open(c)
    <3>1. Hub!Enter(c)
      BY <2>5 DEF Open, Hub!Enter
    <3> QED BY <3>1 DEF Hub!Next
  <2>6. CASE Drop(c)
    <3>1. Hub!Leave(c)
      BY <2>6 DEF Drop, Hub!Leave
    <3> QED BY <3>1 DEF Hub!Next
  <2>7. CASE ClientRead(c)
    <3>1. Hub!Read(c)
      BY <2>7 DEF ClientRead, Hub!Read
    <3> QED BY <3>1 DEF Hub!Next
  <2>8. ASSUME NEW m \in Msg, ClientSend(c, m) PROVE Hub!Next
    <3>1. Hub!Submit(c, m)
      BY <2>8 DEF ClientSend, Hub!Submit
    <3> QED BY <3>1 DEF Hub!Next
  <2> QED BY <2>1, <2>2, <2>3, <2>4, <2>5, <2>6, <2>7, <2>8
<1> QED BY <1>1, <1>2 DEF vars

\* The map, the mutex and the overlapping callbacks give the clients an atomic
\* broadcast: one order for all, no message twice, none back to its sender.
THEOREM ImplementsHub == Spec => IsBroadcastHub
<1>1. Init => Hub!Init
  BY InitRefines
<1>2. IInv /\ [Next]_vars => [Hub!Next]_(Hub!hubVars)
  BY NextRefines
<1>3. Spec => []IInv
  BY Invariance
<1> QED BY <1>1, <1>2, <1>3, PTL DEF Spec, IsBroadcastHub, Hub!Spec

\* A role once identified stays while its connection is open: onMessage sets it
\* only when it is unknown, and the callbacks that erase it come after the end.
THEOREM RolesStick == Spec => RoleSticks
<1> DEFINE Sticks == \A c \in Client :
                       /\ conn[c] = "open"
                       /\ clients[c] \in {"browser", "streamer"}
                       => clients'[c] = clients[c]
<1>1. IInv /\ [Next]_vars => [Sticks]_vars
  <2> SUFFICES ASSUME IInv, Next PROVE Sticks
    OBVIOUS
  <2>1. PICK c \in Client :
           \/ AttachCallbacks(c) \/ Identify(c) \/ Relay(c)
           \/ OnClosed(c) \/ OnError(c) \/ OnClient(c) \/ Open(c)
           \/ Drop(c) \/ ClientRead(c)
           \/ \E m \in Msg : ClientSend(c, m)
    BY NextCases
  <2>2. CASE OnClosed(c) \/ OnError(c)
    <3>1. conn[c] = "closed"
      BY <2>2 DEF IInv, CallbacksInv, OnClosed, OnError, Erase
    <3> QED BY <2>2, <3>1 DEF IInv, TypeOK, OnClosed, OnError, Erase
  <2>3. CASE Identify(c)
    BY <2>3 DEF IInv, TypeOK, Identify, RoleOf
  <2>4. CASE OnClient(c)
    BY <2>4 DEF IInv, TypeOK, OnClient
  <2> QED BY <2>1, <2>2, <2>3, <2>4
          DEF AttachCallbacks, Relay, Open, Drop, ClientRead, ClientSend
<1> QED BY <1>1, Invariance, PTL DEF Spec, RoleSticks
=============================================================================
