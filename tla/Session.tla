------------------------------ MODULE Session ------------------------------
(***************************************************************************)
(* The WebRTC signaling as a whole: one streamer (StreamerPeer) and some   *)
(* pages (BrowserPage) that talk through the signaling server, which is    *)
(* here the hub it implements: what it keeps besides (map, roles,          *)
(* positions of its callbacks) its clients cannot see.  SessionOverServer  *)
(* has the server itself in the hub's place.                               *)
(***************************************************************************)
EXTENDS SignalingTexts, Naturals, Sequences, FiniteSetsExt

CONSTANTS
    MaxInFlight,   \* bound: a page asks only while fewer texts than this are on
                   \* their way (its timer takes 2 s, a relay milliseconds)
    MaxTexts,      \* bound: descriptions a page handles
    Droppable      \* bound: the connections that may end

ASSUME BoundsAssumption ==
    MaxInFlight \in Nat /\ MaxTexts \in Nat /\ Droppable \subseteq Peer

VARIABLES conn, up, down,
          ctor, wsOpened, localOffer, gathering, signaling, remote,
          timer, offerReceived, ops, sig, remoteDesc, created, localDesc, gathered,
          handled    \* descriptions each page has handled, for the bound

Hub == INSTANCE BroadcastHub WITH Client <- Peer, Msg <- Text,
           status <- conn, pending <- up, outbox <- down
Streaming == INSTANCE StreamerPeer WITH localDesc <- localOffer
Page == INSTANCE BrowserPage

streamerVars == <<ctor, wsOpened, localOffer, gathering, signaling, remote>>
pageVars == <<timer, offerReceived, ops, sig, remoteDesc, created, localDesc,
              gathered, handled>>
vars == <<conn, up, down, streamerVars, pageVars>>

TypeOK ==
    /\ conn \in [Peer -> {"none", "connecting", "open", "closed"}]
    /\ up \in [Peer -> Seq(Text)]
    /\ down \in [Peer -> Seq(Text)]
    /\ Streaming!TypeOK
    /\ Page!TypeOK
    /\ handled \in [Browser -> Nat]

Init ==
    /\ Hub!Init
    /\ Streaming!Init
    /\ Page!Init
    /\ handled = [b \in Browser |-> 0]

\* The server relays the next text of p.
Relayed(p) ==
    /\ Hub!Publish(p)
    /\ UNCHANGED <<streamerVars, pageVars>>

\* A WebSocket is made, opens or ends.  The streamer connects once (main.cpp,
\* line 153) and neither side connects again.
Connect(p) ==
    /\ p = Streamer => ctor # "open"
    /\ Hub!Join(p)
    /\ UNCHANGED <<streamerVars, pageVars>>

Opened(p) ==
    /\ Hub!Enter(p)
    /\ UNCHANGED <<streamerVars, pageVars>>

Dropped(p) ==
    /\ p \in Droppable
    /\ Hub!Leave(p)
    /\ UNCHANGED <<streamerVars, pageVars>>

StreamerStep ==
    /\ Streaming!Next
    /\ UNCHANGED pageVars

\* Texts that are on their way.
InFlight == MapThenSumSet(LAMBDA p : Len(up[p]) + Len(down[p]), Peer)

AskForOffer(b) ==
    /\ InFlight < MaxInFlight
    /\ Page!TickRequest(b)
    /\ UNCHANGED <<streamerVars, handled>>

HandleText(b) ==
    /\ handled[b] < MaxTexts
    /\ Page!OnMessage(b)
    /\ handled' = [handled EXCEPT ![b] = IF IsDescription(Head(down[b]))
                                         THEN @ + 1 ELSE @]
    /\ UNCHANGED streamerVars

PageStep(b) ==
    /\ \/ Page!OnOpen(b)
       \/ Page!TickClear(b)
       \/ Page!RunOperation(b)
       \/ Page!GatheringComplete(b)
    /\ UNCHANGED <<streamerVars, handled>>

Next ==
    \/ StreamerStep
    \/ \E p \in Peer : Connect(p) \/ Opened(p) \/ Dropped(p) \/ Relayed(p)
    \/ \E b \in Browser : AskForOffer(b) \/ HandleText(b) \/ PageStep(b)

Spec == Init /\ [][Next]_vars

\* The server is up, the pages are opened, and no thread of the three
\* programs, no timer and no transport stops for ever.  Nothing makes a
\* connection end.
Fairness ==
    /\ \A p \in Peer : /\ WF_vars(Connect(p))
                       /\ WF_vars(Opened(p))
                       /\ WF_vars(Relayed(p))
    /\ WF_vars(Streaming!OpenWebSocket /\ StreamerStep)
    /\ WF_vars(Streaming!RegisterGatheringCallback /\ StreamerStep)
    /\ WF_vars(Streaming!OnOpen /\ StreamerStep)
    /\ WF_vars(Streaming!GatheringComplete /\ StreamerStep)
    /\ WF_vars((Streaming!OnRequest \/ Streaming!OnDescription) /\ StreamerStep)
    /\ \A b \in Browser : /\ WF_vars(AskForOffer(b))
                          /\ WF_vars(HandleText(b))
                          /\ WF_vars(Page!OnOpen(b) /\ PageStep(b))
                          /\ WF_vars(Page!TickClear(b) /\ PageStep(b))
                          /\ WF_vars(Page!RunOperation(b) /\ PageStep(b))
                          /\ WF_vars(Page!GatheringComplete(b) /\ PageStep(b))

FairSpec == Spec /\ Fairness

-----------------------------------------------------------------------------
(* Safety.                                                                 *)

NoOfferLeftOpen == Page!NoOfferLeftOpen

\* The description the streamer applies answers its own offer, although every
\* page also answers the answers of the other pages (the server relays them to
\* all, and a page takes any description for an offer): the relay hands an
\* answer to the streamer before anyone can answer it.
AppliedAnswerIsOurs == remote # None => /\ remote.kind = "answer"
                                        /\ remote.to = Streamer

\* "Recognized as SDP Offer!" (index.html, line 147): what a page recognizes
\* and applies as an offer is the offer of the streamer.
PagesApplyOnlyOffers ==
    \A b \in Browser : remoteDesc[b] # None => remoteDesc[b].kind = "offer"

-----------------------------------------------------------------------------
(* Liveness, for as long as every connection stays open.                   *)

AllStayOpen == [](\A p \in Peer : conn[p] # "closed")

\* "Periodically request offer until we get one" (index.html, line 124): every
\* page does get one, whether the streamer or the page comes first and whether
\* or not the streamer's push gets through, and then it stops asking.
EveryPageGetsAnOffer ==
    AllStayOpen => \A b \in Browser : <>[](offerReceived[b] /\ timer[b] = "cleared")

\* The offer and answer exchange comes to its end.
StreamerGetsAnswer == AllStayOpen => <>(remote # None)

\* "Send offer to signaling server" (main.cpp, line 161), when the local
\* description is ready: in the end one side has all the candidates of the
\* other, so that they can connect.
CandidatesExchanged ==
    AllStayOpen =>
        \E b \in Browser :
            <>(\/ remoteDesc[b] # None /\ remoteDesc[b].full
               \/ remote # None /\ remote.full)
=============================================================================
