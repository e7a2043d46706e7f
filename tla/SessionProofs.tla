---------------------------- MODULE SessionProofs ----------------------------
(***************************************************************************)
(* Proofs about the signaling session, for any number of pages, any        *)
(* connections that end, and any number of texts on their way.             *)
(***************************************************************************)
EXTENDS SessionOverServer, TLAPS

-----------------------------------------------------------------------------
(* Sequences                                                               *)

\* The elements of a sequence.
Elements(s) == {s[i] : i \in 1..Len(s)}

LEMMA AppendFacts ==
  ASSUME NEW S, NEW s \in Seq(S), NEW e \in S
  PROVE  /\ Append(s, e) \in Seq(S) /\ Append(s, e) # <<>>
         /\ Len(Append(s, e)) = Len(s) + 1 /\ Len(s) \in Nat
         /\ \A i \in 1..Len(s) : Append(s, e)[i] = s[i]
         /\ Append(s, e)[Len(s) + 1] = e
  OBVIOUS

LEMMA TailFacts ==
  ASSUME NEW S, NEW s \in Seq(S), s # <<>>
  PROVE  /\ Tail(s) \in Seq(S)
         /\ Len(s) \in Nat \ {0} /\ Len(Tail(s)) = Len(s) - 1
         /\ \A i \in 1..(Len(s) - 1) : Tail(s)[i] = s[i + 1]
         /\ Head(s) = s[1] /\ Head(s) \in S
  OBVIOUS

LEMMA ElementsAreOf ==
  ASSUME NEW S, NEW s \in Seq(S)
  PROVE  Elements(s) \subseteq S
  BY DEF Elements

LEMMA ElementsOfAppend ==
  ASSUME NEW S, NEW s \in Seq(S), NEW e \in S
  PROVE  Elements(Append(s, e)) = Elements(s) \cup {e}
  <1>1. Elements(Append(s, e)) \subseteq Elements(s) \cup {e}
    <2> SUFFICES ASSUME NEW i \in 1..(Len(s) + 1)
                 PROVE  Append(s, e)[i] \in Elements(s) \cup {e}
      BY AppendFacts DEF Elements
    <2>1. CASE i = Len(s) + 1
      BY <2>1, AppendFacts
    <2>2. CASE i \in 1..Len(s)
      BY <2>2, AppendFacts DEF Elements
    <2> QED BY <2>1, <2>2, AppendFacts
  <1>2. Elements(s) \subseteq Elements(Append(s, e))
    BY AppendFacts DEF Elements
  <1>3. e \in Elements(Append(s, e))
    BY AppendFacts DEF Elements
  <1> QED BY <1>1, <1>2, <1>3

\* Taking the head leaves everything else.
LEMMA ElementsOfTail ==
  ASSUME NEW S, NEW s \in Seq(S), s # <<>>
  PROVE  /\ Elements(Tail(s)) \subseteq Elements(s)
         /\ Head(s) \in Elements(s)
         /\ Elements(s) = Elements(Tail(s)) \cup {Head(s)}
  <1>1. Elements(Tail(s)) \subseteq Elements(s)
    <2> SUFFICES ASSUME NEW i \in 1..(Len(s) - 1)
                 PROVE  Tail(s)[i] \in Elements(s)
      BY TailFacts DEF Elements
    <2>1. i + 1 \in 1..Len(s) /\ Tail(s)[i] = s[i + 1]
      BY TailFacts
    <2> QED BY <2>1 DEF Elements
  <1>2. Head(s) \in Elements(s)
    <2>1. 1 \in 1..Len(s) /\ Head(s) = s[1]
      BY TailFacts
    <2> QED BY <2>1 DEF Elements
  <1>3. Elements(s) \subseteq Elements(Tail(s)) \cup {Head(s)}
    <2> SUFFICES ASSUME NEW i \in 1..Len(s)
                 PROVE  s[i] \in Elements(Tail(s)) \cup {Head(s)}
      BY DEF Elements
    <2>1. CASE i = 1
      BY <2>1, TailFacts
    <2>2. CASE i # 1
      <3>1. i - 1 \in 1..Len(Tail(s)) /\ Tail(s)[i - 1] = s[i]
        BY <2>2, TailFacts
      <3> QED BY <3>1 DEF Elements
    <2> QED BY <2>1, <2>2
  <1> QED BY <1>1, <1>2, <1>3

LEMMA ElementsOfEmpty == Elements(<<>>) = {}
  BY DEF Elements

-----------------------------------------------------------------------------
(* The channels                                                            *)

\* p has sent m, or has found its connection closed.
SentBy(p, m) ==
    \/ up' = up
    \/ up' = [up EXCEPT ![p] = Append(@, m)] /\ conn[p] = "open"

\* p has taken the next text.
TakenBy(p) == down[p] # <<>> /\ down' = [down EXCEPT ![p] = Tail(@)]

ChannelsOK ==
    /\ conn \in [Peer -> {"none", "connecting", "open", "closed"}]
    /\ up \in [Peer -> Seq(Text)]
    /\ down \in [Peer -> Seq(Text)]

LEMMA Sending ==
  ASSUME ChannelsOK, NEW p \in Peer, NEW m \in Text, SentBy(p, m)
  PROVE  /\ up' \in [Peer -> Seq(Text)]
         /\ \A q \in Peer : q # p => up'[q] = up[q]
         /\ Elements(up'[p]) \subseteq Elements(up[p]) \cup {m}
         /\ conn[p] # "open" => up' = up
  <1>1. Append(up[p], m) \in Seq(Text)
    BY AppendFacts DEF ChannelsOK
  <1>2. Elements(Append(up[p], m)) = Elements(up[p]) \cup {m}
    BY ElementsOfAppend DEF ChannelsOK
  <1> QED BY <1>1, <1>2 DEF ChannelsOK, SentBy

LEMMA Taking ==
  ASSUME ChannelsOK, NEW p \in Peer, TakenBy(p)
  PROVE  /\ down' \in [Peer -> Seq(Text)]
         /\ \A q \in Peer : q # p => down'[q] = down[q]
         /\ down'[p] = Tail(down[p])
         /\ Elements(down[p]) = Elements(down'[p]) \cup {Head(down[p])}
         /\ Head(down[p]) \in Text
  <1>1. down[p] \in Seq(Text) /\ down[p] # <<>>
    BY DEF ChannelsOK, TakenBy
  <1> QED BY <1>1, TailFacts, ElementsOfTail DEF ChannelsOK, TakenBy

LEMMA Relaying ==
  ASSUME ChannelsOK, NEW p \in Peer, Hub!Publish(p)
  PROVE  LET m == Head(up[p]) IN
         /\ up[p] # <<>> /\ m \in Text /\ m \in Elements(up[p])
         /\ up' \in [Peer -> Seq(Text)] /\ down' \in [Peer -> Seq(Text)]
         /\ \A q \in Peer : Elements(up'[q]) \subseteq Elements(up[q])
         /\ \A q \in Peer :
              /\ q # p /\ conn[q] = "open" => /\ down'[q] = Append(down[q], m)
                                              /\ Elements(down'[q]) = Elements(down[q]) \cup {m}
              /\ ~(q # p /\ conn[q] = "open") => down'[q] = down[q]
  <1> DEFINE m == Head(up[p])
  <1>1. /\ up[p] \in Seq(Text) /\ up[p] # <<>> /\ \A q \in Peer : down[q] \in Seq(Text)
        /\ up' = [up EXCEPT ![p] = Tail(@)]
    BY DEF ChannelsOK, Hub!Publish
  <1>2. m \in Text /\ m \in Elements(up[p])
    BY <1>1, TailFacts, ElementsOfTail
  <1>3. up' \in [Peer -> Seq(Text)] /\ \A q \in Peer : Elements(up'[q]) \subseteq Elements(up[q])
    BY <1>1, TailFacts, ElementsOfTail DEF ChannelsOK
  <1>4. \A q \in Peer :
          /\ q # p /\ conn[q] = "open" => down'[q] = Append(down[q], m)
          /\ ~(q # p /\ conn[q] = "open") => down'[q] = down[q]
    BY DEF Hub!Publish
  <1>5. \A q \in Peer : /\ Append(down[q], m) \in Seq(Text)
                        /\ Elements(Append(down[q], m)) = Elements(down[q]) \cup {m}
    BY <1>1, <1>2, AppendFacts, ElementsOfAppend
  <1>6. down' \in [Peer -> Seq(Text)]
    <2>1. DOMAIN down' = Peer /\ down' = [q \in Peer |-> down'[q]]
      BY DEF Hub!Publish
    <2>2. \A q \in Peer : down'[q] \in Seq(Text)
      BY <1>1, <1>4, <1>5
    <2> QED BY <2>1, <2>2
  <1> QED BY <1>1, <1>2, <1>3, <1>4, <1>5, <1>6

\* The streamer and the pages mean the same texts.
LEMMA SameTexts ==
  /\ Streaming!Text = Text /\ Page!Text = Text /\ Page!Peer = Peer
  /\ \A f : Streaming!Offer(f) = Offer(f)
  /\ \A m : Streaming!IsDescription(m) <=> IsDescription(m)
  /\ \A m : Page!IsDescription(m) <=> IsDescription(m)
  /\ \A b : Page!Request(b) = Request(b)
  /\ \A b, p, f : Page!Answer(b, p, f) = Answer(b, p, f)
  BY DEF Streaming!Text, Page!Text, Text, Streaming!Peer, Page!Peer, Peer,
         Streaming!Offer, Offer, Streaming!IsDescription, Page!IsDescription, IsDescription,
         Page!Request, Request, Page!Answer, Answer

-----------------------------------------------------------------------------
(* Inductive invariant, the ends: what each program knows by itself.       *)

\* An offer that a page has applied still has in its queue the operation that
\* answers it.
OpenOffer(b) ==
    \E o \in Elements(ops[b]) :
        \/ o.op = "createAnswer"
        \/ o.op = "setLocal" /\ o.desc.from = created[b]

PageOK(b) ==
    /\ sig[b] = "have-remote-offer" => remoteDesc[b] # None /\ OpenOffer(b)
    /\ gathered[b] # "new" => localDesc[b] # None

PageInv == \A b \in Browser : PageOK(b)

\* The streamer offers once and applies one description.
StreamerInv ==
    /\ wsOpened => localOffer
    /\ localOffer => signaling = "have-local-offer" \/ remote # None
    /\ remote # None => localOffer /\ signaling = "stable"

EndsInv == TypeOK /\ PageInv /\ StreamerInv

LEMMA TextFacts ==
  /\ None \notin Text /\ Streamer \in Peer /\ Browser \subseteq Peer /\ Streamer \notin Browser
  /\ None \notin Peer
  /\ \A f \in BOOLEAN : Offer(f) \in Text /\ IsDescription(Offer(f))
  /\ \A b \in Browser : Request(b) \in Text /\ ~IsDescription(Request(b))
  /\ \A b \in Browser, p \in Peer, f \in BOOLEAN :
       Answer(b, p, f) \in Text /\ IsDescription(Answer(b, p, f))
  /\ \A m \in Text : m.from \in Peer /\ m.to \in Peer
  BY PeerAssumption, NoneAssumption
     DEF Peer, Text, Offer, Request, Answer, IsDescription

\* Steps of the streamer and of the channels leave the pages as they are.
LEMMA PageInvKept ==
  ASSUME PageInv, UNCHANGED pageVars
  PROVE  PageInv'
  BY DEF PageInv, PageOK, OpenOffer, pageVars

LEMMA StreamerInvKept ==
  ASSUME StreamerInv, UNCHANGED streamerVars
  PROVE  StreamerInv'
  BY DEF StreamerInv, streamerVars

LEMMA StreamerKeepsEnds ==
  ASSUME EndsInv, StreamerStep
  PROVE  EndsInv'
  <1>1. ChannelsOK /\ Streaming!TypeOK /\ UNCHANGED pageVars /\ StreamerInv
    BY DEF EndsInv, TypeOK, ChannelsOK, StreamerStep
  <1>2. ASSUME Streaming!TypeOK', StreamerInv', ChannelsOK'
        PROVE  EndsInv'
    BY <1>1, <1>2, PageInvKept DEF EndsInv, TypeOK, ChannelsOK, Page!TypeOK, pageVars
  <1>3. ASSUME NEW f \in BOOLEAN, up' = Streaming!Sent(Offer(f))
        PROVE  up' \in [Peer -> Seq(Text)]
    <2>1. Offer(f) \in Text /\ Streamer \in Peer
      BY TextFacts
    <2>2. SentBy(Streamer, Offer(f))
      BY <1>3 DEF Streaming!Sent, SentBy
    <2> QED BY <1>1, <2>1, <2>2, Sending
  <1>4. ASSUME Streaming!Receive
        PROVE  down' \in [Peer -> Seq(Text)] /\ Streaming!Incoming \in Text /\ wsOpened
    <2>1. TakenBy(Streamer) /\ Streamer \in Peer
      BY <1>4, TextFacts DEF Streaming!Receive, TakenBy
    <2> QED BY <1>1, <1>4, <2>1, Taking DEF Streaming!Receive, Streaming!Incoming
  <1> USE DEF Streaming!TypeOK, StreamerInv, Streaming!channelVars, ChannelsOK
  <1> USE SameTexts
  <1>5. CASE Streaming!OpenWebSocket \/ Streaming!RegisterGatheringCallback
    BY <1>1, <1>2, <1>5 DEF Streaming!OpenWebSocket, Streaming!RegisterGatheringCallback
  <1>6. CASE Streaming!OnOpen
    BY <1>1, <1>2, <1>6 DEF Streaming!OnOpen, Streaming!SetLocalDescription
  <1>7. CASE Streaming!GatheringComplete
    <2>1. up' \in [Peer -> Seq(Text)]
      BY <1>1, <1>3, <1>7 DEF Streaming!GatheringComplete
    <2>2. Streaming!TypeOK' /\ StreamerInv'
      BY <1>1, <1>7 DEF Streaming!GatheringComplete
    <2> QED BY <1>1, <1>2, <1>7, <2>1, <2>2 DEF Streaming!GatheringComplete
  <1>8. CASE Streaming!OnRequest
    <2>1. (gathering = "complete") \in BOOLEAN
      OBVIOUS
    <2>2. up' \in [Peer -> Seq(Text)]
      BY <1>1, <1>3, <1>8, <2>1 DEF Streaming!OnRequest, Streaming!LocalOffer
    <2>3. Streaming!TypeOK' /\ StreamerInv'
      BY <1>1, <1>8 DEF Streaming!OnRequest, Streaming!SetLocalDescription
    <2> QED BY <1>1, <1>2, <1>4, <1>8, <2>2, <2>3 DEF Streaming!OnRequest
  <1>9. CASE Streaming!OnDescription
    <2>1. Streaming!Receive /\ Streaming!Incoming # None
      BY <1>4, <1>9, TextFacts DEF Streaming!OnDescription
    <2>2. Streaming!TypeOK' /\ StreamerInv'
      BY <1>1, <1>4, <1>9, <2>1 DEF Streaming!OnDescription
    <2> QED BY <1>1, <1>2, <1>4, <1>9, <2>1, <2>2 DEF Streaming!OnDescription
  <1> QED BY <1>5, <1>6, <1>7, <1>8, <1>9 DEF StreamerStep, Streaming!Next

LEMMA ChannelsKeepEnds ==
  ASSUME EndsInv, NEW p \in Peer, Connect(p) \/ Opened(p) \/ Dropped(p) \/ Relayed(p)
  PROVE  EndsInv'
  <1>1. UNCHANGED <<streamerVars, pageVars>>
    BY DEF Connect, Opened, Dropped, Relayed
  <1>2. ChannelsOK
    BY DEF EndsInv, TypeOK, ChannelsOK
  <1>3. ChannelsOK'
    BY <1>2, Relaying DEF Connect, Opened, Dropped, Relayed, Hub!Join, Hub!Enter, Hub!Leave,
                          Hub!Publish, ChannelsOK
  <1> QED BY <1>1, <1>3, PageInvKept, StreamerInvKept
          DEF EndsInv, TypeOK, ChannelsOK, Streaming!TypeOK, Page!TypeOK, streamerVars, pageVars

\* A step of page b leaves the peer connections of the other pages alone.
OthersKept(b) ==
    \A c \in Browser \ {b} :
        /\ ops'[c] = ops[c] /\ sig'[c] = sig[c] /\ remoteDesc'[c] = remoteDesc[c]
        /\ created'[c] = created[c] /\ localDesc'[c] = localDesc[c]
        /\ gathered'[c] = gathered[c]

LEMMA PageEndsKept ==
  ASSUME EndsInv, NEW b \in Browser, UNCHANGED streamerVars, ChannelsOK',
         Page!TypeOK', handled' \in [Browser -> Nat], OthersKept(b), PageOK(b)'
  PROVE  EndsInv'
  <1>1. ASSUME NEW c \in Browser \ {b}
        PROVE  PageOK(c)'
    BY DEF EndsInv, PageInv, PageOK, OpenOffer, OthersKept
  <1>2. PageInv'
    BY <1>1 DEF PageInv
  <1> QED BY <1>2, StreamerInvKept
          DEF EndsInv, TypeOK, ChannelsOK, Streaming!TypeOK, streamerVars

LEMMA QueueFacts ==
  ASSUME Page!TypeOK, NEW b \in Browser
  PROVE  /\ ops[b] \in Seq(Page!Operation)
         /\ \A o \in Page!Operation :
              Append(ops[b], o) \in Seq(Page!Operation)
              /\ Elements(Append(ops[b], o)) = Elements(ops[b]) \cup {o}
         /\ ops[b] # <<>> =>
              /\ Head(ops[b]) \in Page!Operation /\ Tail(ops[b]) \in Seq(Page!Operation)
              /\ Elements(ops[b]) = Elements(Tail(ops[b])) \cup {Head(ops[b])}
              /\ \A o \in Page!Operation :
                   Append(Tail(ops[b]), o) \in Seq(Page!Operation)
                   /\ Elements(Append(Tail(ops[b]), o)) = Elements(Tail(ops[b])) \cup {o}
  <1>1. ops[b] \in Seq(Page!Operation)
    BY DEF Page!TypeOK
  <1>2. ASSUME ops[b] # <<>>
        PROVE  Head(ops[b]) \in Page!Operation /\ Tail(ops[b]) \in Seq(Page!Operation)
    BY <1>1, <1>2, TailFacts
  <1>3. ASSUME NEW q \in Seq(Page!Operation), NEW o \in Page!Operation
        PROVE  /\ Append(q, o) \in Seq(Page!Operation)
               /\ Elements(Append(q, o)) = Elements(q) \cup {o}
    BY AppendFacts, ElementsOfAppend
  <1>4. ops[b] # <<>> => Elements(ops[b]) = Elements(Tail(ops[b])) \cup {Head(ops[b])}
    BY <1>1, ElementsOfTail
  <1> QED BY <1>1, <1>2, <1>3, <1>4

\* An operation and the description it was enqueued with.
LEMMA OperationFacts ==
  /\ \A o \in Page!Operation : o.desc \in Text
  /\ \A k \in {"setRemote", "createAnswer", "setLocal"}, m \in Text :
       [op |-> k, desc |-> m] \in Page!Operation
  BY SameTexts DEF Page!Operation

\* The handlers that touch neither the queue nor the channels' contents.
LEMMA TimersKeepEnds ==
  ASSUME EndsInv, NEW b \in Browser,
         \/ AskForOffer(b)
         \/ (Page!OnOpen(b) \/ Page!TickClear(b)) /\ PageStep(b)
  PROVE  EndsInv'
  <1>1. ChannelsOK /\ Page!TypeOK /\ handled \in [Browser -> Nat] /\ PageInv
    BY DEF EndsInv, TypeOK, ChannelsOK
  <1>2. UNCHANGED <<streamerVars, handled, down, conn, ops, sig, remoteDesc, created, localDesc, gathered>>
    BY DEF AskForOffer, PageStep, Page!OnOpen, Page!TickRequest, Page!TickClear,
           Page!channelVars, Page!pcVars, Page!pageVars
  <1>3. up' \in [Peer -> Seq(Text)]
    <2>1. CASE AskForOffer(b)
      <3>1. Request(b) \in Text /\ b \in Peer
        BY TextFacts
      <3>2. SentBy(b, Request(b))
        BY <2>1, SameTexts DEF AskForOffer, Page!TickRequest, Page!Sent, SentBy
      <3> QED BY <1>1, <3>1, <3>2, Sending
    <2>2. CASE Page!OnOpen(b) \/ Page!TickClear(b)
      BY <1>1, <2>2 DEF Page!OnOpen, Page!TickClear, Page!channelVars, ChannelsOK
    <2> QED BY <2>1, <2>2
  <1>4. timer' \in [Browser -> {"off", "on", "cleared"}] /\ offerReceived' = offerReceived
    BY <1>1 DEF AskForOffer, Page!OnOpen, Page!TickRequest, Page!TickClear,
                Page!channelVars, Page!pcVars, Page!pageVars, Page!TypeOK
  <1>5. Page!TypeOK' /\ ChannelsOK' /\ handled' \in [Browser -> Nat]
    BY <1>1, <1>2, <1>3, <1>4 DEF Page!TypeOK, ChannelsOK
  <1>6. OthersKept(b) /\ PageOK(b)'
    BY <1>1, <1>2 DEF OthersKept, PageInv, PageOK, OpenOffer
  <1> QED BY <1>2, <1>5, <1>6, PageEndsKept

LEMMA HandleTextKeepsEnds ==
  ASSUME EndsInv, NEW b \in Browser, HandleText(b)
  PROVE  EndsInv'
  <1>1. ChannelsOK /\ Page!TypeOK /\ handled \in [Browser -> Nat] /\ PageInv
    BY DEF EndsInv, TypeOK, ChannelsOK
  <1>2. Page!OnMessage(b) /\ UNCHANGED streamerVars /\ TakenBy(b) /\ b \in Peer
    BY TextFacts DEF HandleText, Page!OnMessage, TakenBy
  <1>3. down' \in [Peer -> Seq(Text)] /\ Head(down[b]) \in Text
    BY <1>1, <1>2, Taking
  <1> DEFINE o == [op |-> "setRemote", desc |-> Head(down[b])]
  <1>4. o \in Page!Operation
    BY <1>3, OperationFacts
  <1>5. /\ ops' = ops \/ ops' = [ops EXCEPT ![b] = Append(@, o)]
        /\ offerReceived' \in [Browser -> BOOLEAN]
        /\ UNCHANGED <<conn, up, timer, sig, remoteDesc, created, localDesc, gathered>>
    BY <1>1, <1>2 DEF Page!OnMessage, Page!TypeOK
  <1>6. ops' \in [Browser -> Seq(Page!Operation)] /\ Elements(ops[b]) \subseteq Elements(ops'[b])
    <2> HIDE DEF o
    <2>1. /\ Append(ops[b], o) \in Seq(Page!Operation)
          /\ Elements(Append(ops[b], o)) = Elements(ops[b]) \cup {o}
      BY <1>1, <1>4, QueueFacts
    <2> QED BY <1>1, <1>5, <2>1 DEF Page!TypeOK
  <1>7. Page!TypeOK'
    BY <1>1, <1>5, <1>6 DEF Page!TypeOK
  <1>8. ChannelsOK' /\ handled' \in [Browser -> Nat]
    BY <1>1, <1>3, <1>5 DEF ChannelsOK, HandleText
  <1>9. OthersKept(b)
    BY <1>1, <1>5 DEF OthersKept, Page!TypeOK
  <1>10. PageOK(b)'
    BY <1>1, <1>5, <1>6 DEF PageInv, PageOK, OpenOffer
  <1> QED BY <1>2, <1>7, <1>8, <1>9, <1>10, PageEndsKept

LEMMA OperationsKeepEnds ==
  ASSUME EndsInv, NEW b \in Browser, Page!RunOperation(b), UNCHANGED <<streamerVars, handled>>
  PROVE  EndsInv'
  <1>1. ChannelsOK /\ Page!TypeOK /\ handled \in [Browser -> Nat] /\ PageInv /\ b \in Peer
    BY TextFacts DEF EndsInv, TypeOK, ChannelsOK
  <1> DEFINE first == Head(ops[b])
             rest == Tail(ops[b])
  <1>2. /\ ops[b] # <<>> /\ first \in Page!Operation /\ rest \in Seq(Page!Operation)
        /\ Elements(ops[b]) = Elements(rest) \cup {first}
        /\ first.desc \in Text /\ first.desc.from \in Peer /\ Page!Desc(b) = first.desc
    BY <1>1, QueueFacts, OperationFacts, TextFacts
       DEF Page!RunOperation, Page!SetRemote, Page!RefuseRemote, Page!CreateAnswer,
           Page!SetLocal, Page!Due, Page!Desc
  <1>3. ASSUME NEW k \in {"createAnswer", "setLocal"}, NEW m \in Text,
               Page!Continue(b, k, m)
        PROVE  /\ ops' \in [Browser -> Seq(Page!Operation)]
               /\ \A c \in Browser \ {b} : ops'[c] = ops[c]
               /\ Elements(ops'[b]) = Elements(rest) \cup {[op |-> k, desc |-> m]}
    <2>1. [op |-> k, desc |-> m] \in Page!Operation
      BY OperationFacts
    <2> QED BY <1>1, <1>2, <1>3, <2>1, QueueFacts DEF Page!Continue, Page!TypeOK
  <1>4. ASSUME Page!Finish(b)
        PROVE  /\ ops' \in [Browser -> Seq(Page!Operation)]
               /\ \A c \in Browser \ {b} : ops'[c] = ops[c]
               /\ ops'[b] = rest
    BY <1>1, <1>2, <1>4 DEF Page!Finish, Page!TypeOK
  <1>5. CASE Page!SetRemote(b)
    <2>1. /\ ops' \in [Browser -> Seq(Page!Operation)]
          /\ \A c \in Browser \ {b} : ops'[c] = ops[c]
          /\ [op |-> "createAnswer", desc |-> first.desc] \in Elements(ops'[b])
      BY <1>2, <1>3, <1>5 DEF Page!SetRemote
    <2>2. Page!TypeOK' /\ OthersKept(b)
      BY <1>1, <1>2, <1>5, <2>1, SameTexts DEF Page!SetRemote, Page!TypeOK, OthersKept
    <2>3. OpenOffer(b)'
      BY <2>1 DEF OpenOffer
    <2>4. PageOK(b)'
      BY <1>1, <1>2, <1>5, <2>3, TextFacts DEF Page!SetRemote, Page!TypeOK, PageInv, PageOK
    <2>5. ChannelsOK'
      BY <1>1, <1>5 DEF Page!SetRemote, Page!channelVars, ChannelsOK
    <2> QED BY <1>1, <2>2, <2>4, <2>5, PageEndsKept
  <1>6. CASE Page!RefuseRemote(b)
    <2>1. first.op = "setRemote" /\ ops'[b] = rest
      BY <1>4, <1>6 DEF Page!RefuseRemote, Page!Due
    <2>2. Page!TypeOK' /\ OthersKept(b)
      BY <1>1, <1>4, <1>6 DEF Page!RefuseRemote, Page!TypeOK, OthersKept
    <2>3. PageOK(b)'
      BY <1>1, <1>2, <1>6, <2>1 DEF Page!RefuseRemote, PageInv, PageOK, OpenOffer
    <2>4. ChannelsOK'
      BY <1>1, <1>6 DEF Page!RefuseRemote, Page!channelVars, ChannelsOK
    <2> QED BY <1>1, <2>2, <2>3, <2>4, PageEndsKept
  <1>7. CASE Page!CreateAnswer(b)
    <2>1. ChannelsOK' /\ UNCHANGED <<timer, offerReceived, sig, remoteDesc, localDesc, gathered>>
      BY <1>1, <1>7 DEF Page!CreateAnswer, Page!channelVars, ChannelsOK
    <2>2. CASE sig[b] = "have-remote-offer"
      <3>1. remoteDesc[b] \in Text /\ remoteDesc[b].from \in Peer
        BY <1>1, <2>2, TextFacts, SameTexts DEF PageInv, PageOK, Page!TypeOK
      <3>2. /\ created' = [created EXCEPT ![b] = remoteDesc[b].from]
            /\ Page!Continue(b, "setLocal", remoteDesc[b])
        BY <1>7, <2>2 DEF Page!CreateAnswer
      <3>3. /\ ops' \in [Browser -> Seq(Page!Operation)]
            /\ \A c \in Browser \ {b} : ops'[c] = ops[c]
            /\ [op |-> "setLocal", desc |-> remoteDesc[b]] \in Elements(ops'[b])
        BY <1>3, <3>1, <3>2
      <3>4. Page!TypeOK' /\ OthersKept(b)
        BY <1>1, <2>1, <3>1, <3>2, <3>3, SameTexts DEF Page!TypeOK, OthersKept
      <3>5. created'[b] = remoteDesc[b].from
        BY <1>1, <3>2 DEF Page!TypeOK
      <3>6. OpenOffer(b)'
        BY <3>3, <3>5 DEF OpenOffer
      <3>7. PageOK(b)'
        BY <1>1, <2>1, <3>6 DEF PageInv, PageOK
      <3> QED BY <1>1, <2>1, <3>4, <3>7, PageEndsKept
    <2>3. CASE sig[b] # "have-remote-offer"
      <3>1. Page!Finish(b) /\ UNCHANGED created
        BY <1>7, <2>3 DEF Page!CreateAnswer
      <3>2. Page!TypeOK' /\ OthersKept(b)
        BY <1>1, <1>4, <2>1, <3>1 DEF Page!TypeOK, OthersKept
      <3>3. PageOK(b)'
        BY <1>1, <2>1, <2>3 DEF PageInv, PageOK
      <3> QED BY <1>1, <2>1, <3>2, <3>3, PageEndsKept
    <2> QED BY <2>2, <2>3
  <1>8. CASE Page!SetLocal(b)
    <2>1. /\ ops' \in [Browser -> Seq(Page!Operation)] /\ ops'[b] = rest
          /\ \A c \in Browser \ {b} : ops'[c] = ops[c]
          /\ first.op = "setLocal"
          /\ UNCHANGED <<conn, down, timer, offerReceived, remoteDesc, created>>
      BY <1>4, <1>8 DEF Page!SetLocal, Page!Due
    <2>2. CASE sig[b] = "have-remote-offer" /\ first.desc.from = created[b]
      <3>1. /\ sig' = [sig EXCEPT ![b] = "stable"]
            /\ localDesc' = [localDesc EXCEPT ![b] = created[b]]
            /\ gathered' = [gathered EXCEPT ![b] = IF @ = "new" THEN "gathering" ELSE @]
            /\ up' = Page!Sent(b, Page!LocalAnswer(b, created[b]))
        BY <1>2, <1>8, <2>2 DEF Page!SetLocal
      <3>2. created[b] \in Peer
        BY <1>2, <2>2
      <3>3. Page!LocalAnswer(b, created[b]) \in Text
        <4>1. (gathered[b] = "complete") \in BOOLEAN
          OBVIOUS
        <4> QED BY <3>2, <4>1, TextFacts, SameTexts DEF Page!LocalAnswer
      <3>4. ChannelsOK'
        <4>1. SentBy(b, Page!LocalAnswer(b, created[b]))
          BY <3>1 DEF Page!Sent, SentBy
        <4>2. up' \in [Peer -> Seq(Text)]
          BY <1>1, <3>3, <4>1, Sending
        <4> QED BY <1>1, <2>1, <4>2 DEF ChannelsOK
      <3>5. Page!TypeOK' /\ OthersKept(b)
        BY <1>1, <2>1, <3>1, <3>2, SameTexts DEF Page!TypeOK, OthersKept
      <3>6. sig'[b] = "stable" /\ localDesc'[b] # None
        BY <1>1, <3>1, <3>2, TextFacts DEF Page!TypeOK
      <3>7. PageOK(b)'
        BY <3>6 DEF PageOK
      <3> QED BY <1>1, <3>4, <3>5, <3>7, PageEndsKept
    <2>3. CASE ~(sig[b] = "have-remote-offer" /\ first.desc.from = created[b])
      <3>1. UNCHANGED <<sig, localDesc, gathered, up>>
        BY <1>2, <1>8, <2>3 DEF Page!SetLocal
      <3>2. ChannelsOK' /\ Page!TypeOK' /\ OthersKept(b)
        BY <1>1, <2>1, <3>1 DEF ChannelsOK, Page!TypeOK, OthersKept
      <3>3. PageOK(b)'
        BY <1>1, <1>2, <2>1, <2>3, <3>1 DEF PageInv, PageOK, OpenOffer
      <3> QED BY <1>1, <3>2, <3>3, PageEndsKept
    <2> QED BY <2>2, <2>3
  <1> QED BY <1>5, <1>6, <1>7, <1>8 DEF Page!RunOperation

LEMMA GatheringKeepsEnds ==
  ASSUME EndsInv, NEW b \in Browser, Page!GatheringComplete(b), UNCHANGED <<streamerVars, handled>>
  PROVE  EndsInv'
  <1>1. ChannelsOK /\ Page!TypeOK /\ handled \in [Browser -> Nat] /\ PageInv /\ b \in Peer
    BY TextFacts DEF EndsInv, TypeOK, ChannelsOK
  <1>2. localDesc[b] \in Peer
    BY <1>1, SameTexts DEF Page!GatheringComplete, PageInv, PageOK, Page!TypeOK
  <1>3. Page!Answer(b, localDesc[b], TRUE) \in Text
    BY <1>2, TextFacts, SameTexts
  <1>4. SentBy(b, Page!Answer(b, localDesc[b], TRUE))
    BY DEF Page!GatheringComplete, Page!Sent, SentBy
  <1>5. up' \in [Peer -> Seq(Text)]
    BY <1>1, <1>3, <1>4, Sending
  <1>6. ChannelsOK' /\ Page!TypeOK' /\ OthersKept(b)
    BY <1>1, <1>5 DEF Page!GatheringComplete, ChannelsOK, Page!TypeOK, OthersKept
  <1>7. PageOK(b)'
    BY <1>1, <1>2, TextFacts DEF Page!GatheringComplete, PageInv, PageOK, OpenOffer
  <1> QED BY <1>1, <1>6, <1>7, PageEndsKept

-----------------------------------------------------------------------------
(* Inductive invariant, the exchange: what is on its way and what it says  *)
(* of the rest.                                                            *)

\* Offers are the streamer's and nobody else's.
Genuine(m) == m.kind = "offer" <=> m.from = Streamer

\* What a peer sends is its own, and nothing comes back to its author.
Authentic ==
    \A p \in Peer :
        /\ \A m \in Elements(up[p]) : m.from = p /\ Genuine(m)
        /\ \A m \in Elements(down[p]) : m.from # p /\ Genuine(m)

NoDescription(q) == \A m \in Elements(q) : ~IsDescription(m)

\* Before the streamer is connected there is no offer, so there is no answer.
QuietBefore ==
    conn[Streamer] \in {"none", "connecting"} =>
        /\ \A p \in Peer : NoDescription(up[p]) /\ NoDescription(down[p])
        /\ \A b \in Browser : ops[b] = <<>> /\ gathered[b] = "new"

\* The first description in a queue answers the streamer.
FirstIsOurs(q) ==
    \A i \in 1..Len(q) :
        IsDescription(q[i]) =>
            q[i].to = Streamer \/ \E j \in 1..(i - 1) : IsDescription(q[j])

OursFirst == remote = None => FirstIsOurs(down[Streamer])

\* A description has reached the streamer, or none ever will.
Reached ==
    \/ conn[Streamer] = "closed"
    \/ remote # None
    \/ ~NoDescription(down[Streamer])

\* Page b knows no description but the streamer's, and answers only that.
KnowsOnlyOffers(b) ==
    /\ \A m \in Elements(up[b]) : IsDescription(m) => m.to = Streamer
    /\ \A m \in Elements(down[b]) : IsDescription(m) => m.from = Streamer
    /\ \A o \in Elements(ops[b]) : o.desc.from = Streamer
    /\ remoteDesc[b] # None => remoteDesc[b].from = Streamer
    /\ created[b] \in {None, Streamer}
    /\ localDesc[b] \in {None, Streamer}

\* A page that has an answer of another page has it from a relay that took it
\* to the streamer as well.
ExchangeInv ==
    /\ Authentic
    /\ QuietBefore
    /\ OursFirst
    /\ Reached \/ \A b \in Browser : KnowsOnlyOffers(b)
    /\ AppliedAnswerIsOurs

SessionInv == EndsInv /\ ExchangeInv

LEMMA FirstOfTail ==
  ASSUME NEW q \in Seq(Text), q # <<>>, FirstIsOurs(q)
  PROVE  /\ IsDescription(Head(q)) => Head(q).to = Streamer
         /\ ~IsDescription(Head(q)) => FirstIsOurs(Tail(q))
  <1>1. /\ Len(q) \in Nat \ {0} /\ Len(Tail(q)) = Len(q) - 1 /\ Head(q) = q[1]
        /\ \A i \in 1..(Len(q) - 1) : Tail(q)[i] = q[i + 1]
    BY TailFacts
  <1>2. IsDescription(Head(q)) => Head(q).to = Streamer
    <2>1. 1 \in 1..Len(q) /\ 1..(1 - 1) = {}
      BY <1>1
    <2> QED BY <1>1, <2>1 DEF FirstIsOurs
  <1>3. ASSUME ~IsDescription(Head(q)), NEW i \in 1..Len(Tail(q)), IsDescription(Tail(q)[i])
        PROVE  Tail(q)[i].to = Streamer \/ \E j \in 1..(i - 1) : IsDescription(Tail(q)[j])
    <2>1. i + 1 \in 1..Len(q) /\ Tail(q)[i] = q[i + 1]
      BY <1>1
    <2>2. ASSUME NEW j \in 1..i, IsDescription(q[j])
          PROVE  \E l \in 1..(i - 1) : IsDescription(Tail(q)[l])
      <3>1. j # 1
        BY <1>1, <1>3, <2>2
      <3>2. j - 1 \in 1..(i - 1) /\ Tail(q)[j - 1] = q[j]
        BY <1>1, <3>1
      <3> QED BY <2>2, <3>2
    <2>3. (i + 1) - 1 = i
      OBVIOUS
    <2> QED BY <1>3, <2>1, <2>2, <2>3 DEF FirstIsOurs
  <1> QED BY <1>2, <1>3 DEF FirstIsOurs

LEMMA FirstOfAppend ==
  ASSUME NEW q \in Seq(Text), FirstIsOurs(q), NEW m \in Text,
         IsDescription(m) => m.to = Streamer \/ ~NoDescription(q)
  PROVE  FirstIsOurs(Append(q, m))
  <1>1. /\ Len(Append(q, m)) = Len(q) + 1 /\ Len(q) \in Nat
        /\ \A i \in 1..Len(q) : Append(q, m)[i] = q[i]
        /\ Append(q, m)[Len(q) + 1] = m
    BY AppendFacts
  <1> SUFFICES ASSUME NEW i \in 1..(Len(q) + 1), IsDescription(Append(q, m)[i])
               PROVE  \/ Append(q, m)[i].to = Streamer
                      \/ \E j \in 1..(i - 1) : IsDescription(Append(q, m)[j])
    BY <1>1 DEF FirstIsOurs
  <1>2. CASE i = Len(q) + 1
    <2>1. CASE m.to = Streamer
      BY <1>1, <1>2, <2>1
    <2>2. CASE ~NoDescription(q)
      <3>1. PICK j \in 1..Len(q) : IsDescription(q[j])
        BY <2>2 DEF NoDescription, Elements
      <3>2. j \in 1..(i - 1) /\ Append(q, m)[j] = q[j]
        BY <1>1, <1>2
      <3> QED BY <3>1, <3>2
    <2> QED BY <1>1, <1>2, <2>1, <2>2
  <1>3. CASE i \in 1..Len(q)
    <2>1. Append(q, m)[i] = q[i] /\ \A j \in 1..(i - 1) : Append(q, m)[j] = q[j]
      BY <1>1, <1>3
    <2> QED BY <1>3, <2>1 DEF FirstIsOurs
  <1> QED BY <1>1, <1>2, <1>3

\* What the invariant says of types, for the proofs that follow.
LEMMA SessionTypes ==
  ASSUME SessionInv
  PROVE  /\ ChannelsOK /\ Page!TypeOK /\ Streaming!TypeOK /\ PageInv /\ StreamerInv
         /\ down[Streamer] \in Seq(Text) /\ up[Streamer] \in Seq(Text)
         /\ Streamer \in Peer /\ Streamer \notin Browser /\ Browser \subseteq Peer
  BY TextFacts DEF SessionInv, EndsInv, TypeOK, ChannelsOK

LEMMA StreamerKeepsExchange ==
  ASSUME SessionInv, StreamerStep
  PROVE  ExchangeInv'
  <1>1. /\ ChannelsOK /\ Streaming!TypeOK /\ StreamerInv /\ UNCHANGED pageVars
        /\ Streamer \in Peer /\ Streamer \notin Browser /\ Browser \subseteq Peer
        /\ down[Streamer] \in Seq(Text)
    BY SessionTypes DEF StreamerStep
  <1>2. ExchangeInv
    BY DEF SessionInv
  <1>3. ASSUME UNCHANGED <<conn, up, down, remote>>
        PROVE  ExchangeInv'
    BY <1>1, <1>2, <1>3
       DEF ExchangeInv, Authentic, QuietBefore, OursFirst, Reached, KnowsOnlyOffers,
           AppliedAnswerIsOurs, pageVars, Streaming!channelVars
  <1>4. ASSUME NEW f \in BOOLEAN, up' = Streaming!Sent(Offer(f))
        PROVE  /\ \A p \in Peer : p # Streamer => up'[p] = up[p]
               /\ \A m \in Elements(up'[Streamer]) : m.from = Streamer /\ Genuine(m)
               /\ conn[Streamer] # "open" => up' = up
    <2>1. Offer(f) \in Text /\ Offer(f).from = Streamer /\ Genuine(Offer(f))
      BY TextFacts DEF Offer, Genuine
    <2>2. SentBy(Streamer, Offer(f))
      BY <1>4 DEF Streaming!Sent, SentBy
    <2>3. /\ \A p \in Peer : p # Streamer => up'[p] = up[p]
          /\ Elements(up'[Streamer]) \subseteq Elements(up[Streamer]) \cup {Offer(f)}
          /\ conn[Streamer] # "open" => up' = up
      BY <1>1, <2>1, <2>2, Sending
    <2>4. \A m \in Elements(up[Streamer]) : m.from = Streamer /\ Genuine(m)
      BY <1>1, <1>2 DEF ExchangeInv, Authentic
    <2> QED BY <2>1, <2>3, <2>4
  <1>5. ASSUME Streaming!Receive
        PROVE  LET m == Head(down[Streamer]) IN
               /\ m \in Text /\ m.from # Streamer /\ Genuine(m) /\ wsOpened
               /\ Streaming!Incoming = m /\ m \in Elements(down[Streamer])
               /\ down[Streamer] # <<>> /\ down'[Streamer] = Tail(down[Streamer])
               /\ \A p \in Peer : p # Streamer => down'[p] = down[p]
               /\ Elements(down[Streamer]) = Elements(down'[Streamer]) \cup {m}
    <2>1. TakenBy(Streamer)
      BY <1>5 DEF Streaming!Receive, TakenBy
    <2> QED BY <1>1, <1>2, <1>5, <2>1, Taking
            DEF Streaming!Receive, Streaming!Incoming, ExchangeInv, Authentic
  <1>6. CASE Streaming!OpenWebSocket \/ Streaming!RegisterGatheringCallback \/ Streaming!OnOpen
    BY <1>3, <1>6 DEF Streaming!OpenWebSocket, Streaming!RegisterGatheringCallback,
                      Streaming!OnOpen, Streaming!channelVars
  <1>7. ASSUME /\ \A p \in Peer : p # Streamer => up'[p] = up[p]
               /\ \A m \in Elements(up'[Streamer]) : m.from = Streamer /\ Genuine(m)
               /\ conn[Streamer] # "open" => up' = up
               /\ UNCHANGED <<conn, down, remote>>
        PROVE  ExchangeInv'
    <2>1. Authentic' /\ QuietBefore'
      BY <1>1, <1>2, <1>7 DEF ExchangeInv, Authentic, QuietBefore, pageVars
    <2>2. OursFirst' /\ AppliedAnswerIsOurs' /\ (Reached => Reached')
      BY <1>2, <1>7 DEF ExchangeInv, OursFirst, AppliedAnswerIsOurs, Reached
    <2>3. ASSUME NEW b \in Browser, KnowsOnlyOffers(b)
          PROVE  KnowsOnlyOffers(b)'
      BY <1>1, <1>7, <2>3 DEF KnowsOnlyOffers, pageVars
    <2> QED BY <1>2, <2>1, <2>2, <2>3 DEF ExchangeInv
  <1>8. CASE Streaming!GatheringComplete
    <2>1. /\ \A p \in Peer : p # Streamer => up'[p] = up[p]
          /\ \A m \in Elements(up'[Streamer]) : m.from = Streamer /\ Genuine(m)
          /\ conn[Streamer] # "open" => up' = up
      BY <1>1, <1>2, <1>4, <1>8, SameTexts DEF Streaming!GatheringComplete, ExchangeInv, Authentic
    <2> QED BY <1>7, <1>8, <2>1 DEF Streaming!GatheringComplete
  <1>9. CASE Streaming!OnRequest
    <2> DEFINE m == Head(down[Streamer])
    <2>1. /\ ~IsDescription(m) /\ Streaming!Receive /\ UNCHANGED <<conn, remote>>
      BY <1>5, <1>9 DEF Streaming!OnRequest, IsDescription
    <2>2. (gathering = "complete") \in BOOLEAN
      OBVIOUS
    <2>3. /\ \A p \in Peer : p # Streamer => up'[p] = up[p]
          /\ \A x \in Elements(up'[Streamer]) : x.from = Streamer /\ Genuine(x)
          /\ conn[Streamer] # "open" => up' = up
      BY <1>1, <1>2, <1>4, <1>9, <2>2, SameTexts
         DEF Streaming!OnRequest, Streaming!LocalOffer, ExchangeInv, Authentic
    <2>4. Authentic' /\ QuietBefore'
      BY <1>1, <1>2, <1>5, <2>1, <2>3
         DEF ExchangeInv, Authentic, QuietBefore, NoDescription, pageVars
    <2>5. OursFirst'
      BY <1>1, <1>2, <1>5, <2>1, FirstOfTail DEF ExchangeInv, OursFirst
    <2>6. Reached => Reached'
      BY <1>5, <2>1 DEF Reached, NoDescription
    <2>7. AppliedAnswerIsOurs'
      BY <1>2, <2>1 DEF ExchangeInv, AppliedAnswerIsOurs
    <2>8. ASSUME NEW b \in Browser, KnowsOnlyOffers(b)
          PROVE  KnowsOnlyOffers(b)'
      BY <1>1, <1>5, <2>1, <2>3, <2>8 DEF KnowsOnlyOffers, pageVars
    <2> QED BY <1>2, <2>4, <2>5, <2>6, <2>7, <2>8 DEF ExchangeInv
  <1>10. CASE Streaming!OnDescription
    <2> DEFINE m == Head(down[Streamer])
    <2>1. /\ IsDescription(m) /\ m # None /\ Streaming!Receive /\ UNCHANGED <<conn, up>>
      BY <1>5, <1>10, SameTexts, TextFacts DEF Streaming!OnDescription
    <2>2. Authentic' /\ QuietBefore'
      BY <1>1, <1>2, <1>5, <2>1
         DEF ExchangeInv, Authentic, QuietBefore, NoDescription, pageVars
    <2>3. CASE signaling = "have-local-offer"
      <3>1. remote' = m /\ remote = None
        BY <1>1, <1>5, <1>10, <2>1, <2>3 DEF Streaming!OnDescription, StreamerInv
      <3>2. m.to = Streamer
        <4>1. FirstIsOurs(down[Streamer])
          BY <1>2, <3>1 DEF ExchangeInv, OursFirst
        <4>2. down[Streamer] # <<>>
          BY <1>5, <2>1
        <4> QED BY <1>1, <2>1, <4>1, <4>2, FirstOfTail
      <3>3. m.kind = "answer"
        BY <1>5, <2>1 DEF Genuine, IsDescription
      <3>4. OursFirst' /\ Reached' /\ AppliedAnswerIsOurs'
        BY <2>1, <3>1, <3>2, <3>3 DEF OursFirst, Reached, AppliedAnswerIsOurs
      <3> QED BY <2>2, <3>4 DEF ExchangeInv
    <2>4. CASE signaling # "have-local-offer"
      <3>1. remote' = remote /\ remote # None
        BY <1>1, <1>5, <1>10, <2>1, <2>4 DEF Streaming!OnDescription, StreamerInv
      <3>2. OursFirst' /\ Reached' /\ AppliedAnswerIsOurs'
        BY <1>2, <3>1 DEF ExchangeInv, OursFirst, Reached, AppliedAnswerIsOurs
      <3> QED BY <2>2, <3>2 DEF ExchangeInv
    <2> QED BY <2>3, <2>4
  <1> QED BY <1>6, <1>8, <1>9, <1>10 DEF StreamerStep, Streaming!Next

LEMMA ConnectionsKeepExchange ==
  ASSUME SessionInv, NEW p \in Peer, Connect(p) \/ Opened(p) \/ Dropped(p)
  PROVE  ExchangeInv'
  <1>1. /\ ChannelsOK /\ ExchangeInv /\ Streamer \in Peer
        /\ UNCHANGED <<up, down, streamerVars, pageVars>>
    BY SessionTypes DEF SessionInv, Connect, Opened, Dropped, Hub!Join, Hub!Enter, Hub!Leave
  <1>2. /\ conn'[Streamer] \in {"none", "connecting"} => conn[Streamer] \in {"none", "connecting"}
        /\ conn[Streamer] = "closed" => conn'[Streamer] = "closed"
    BY <1>1 DEF Connect, Opened, Dropped, Hub!Join, Hub!Enter, Hub!Leave, ChannelsOK
  <1>3. Authentic' /\ OursFirst' /\ AppliedAnswerIsOurs'
    BY <1>1 DEF ExchangeInv, Authentic, OursFirst, AppliedAnswerIsOurs, streamerVars
  <1>4. QuietBefore'
    BY <1>1, <1>2 DEF ExchangeInv, QuietBefore, pageVars
  <1>5. Reached => Reached'
    BY <1>1, <1>2 DEF Reached, streamerVars
  <1>6. ASSUME NEW b \in Browser, KnowsOnlyOffers(b)
        PROVE  KnowsOnlyOffers(b)'
    BY <1>1, <1>6 DEF KnowsOnlyOffers, pageVars
  <1> QED BY <1>1, <1>3, <1>4, <1>5, <1>6 DEF ExchangeInv

\* The heart of the matter: one relay takes an answer to the other pages and to
\* the streamer.
LEMMA RelayKeepsExchange ==
  ASSUME SessionInv, NEW p \in Peer, Relayed(p)
  PROVE  ExchangeInv'
  <1> DEFINE m == Head(up[p])
  <1>1. /\ ChannelsOK /\ Hub!Publish(p) /\ ExchangeInv
        /\ Streamer \in Peer /\ Streamer \notin Browser /\ Browser \subseteq Peer
        /\ down[Streamer] \in Seq(Text)
        /\ UNCHANGED <<conn, streamerVars, pageVars>>
    BY SessionTypes DEF SessionInv, Relayed, Hub!Publish
  <1>2. /\ m \in Text /\ m \in Elements(up[p])
        /\ \A q \in Peer : Elements(up'[q]) \subseteq Elements(up[q])
        /\ \A q \in Peer :
             /\ q # p /\ conn[q] = "open" => /\ down'[q] = Append(down[q], m)
                                             /\ Elements(down'[q]) = Elements(down[q]) \cup {m}
             /\ ~(q # p /\ conn[q] = "open") => down'[q] = down[q]
    BY <1>1, Relaying
  <1>3. m.from = p /\ Genuine(m)
    BY <1>1, <1>2 DEF ExchangeInv, Authentic
  <1> HIDE DEF m
  <1>4. \A q \in Peer : \A x \in Elements(down'[q]) : x \in Elements(down[q]) \/ (x = m /\ q # p)
    BY <1>2
  <1>5. Authentic'
    BY <1>1, <1>2, <1>3, <1>4 DEF ExchangeInv, Authentic
  <1>6. QuietBefore'
    BY <1>1, <1>2, <1>4 DEF ExchangeInv, QuietBefore, NoDescription, pageVars
  <1>7. Reached => Reached'
    BY <1>1, <1>2 DEF Reached, NoDescription, streamerVars
  <1>8. AppliedAnswerIsOurs'
    BY <1>1 DEF ExchangeInv, AppliedAnswerIsOurs, streamerVars
  <1>9. OursFirst'
    <2> SUFFICES ASSUME remote = None
                 PROVE  FirstIsOurs(down'[Streamer])
      BY <1>1 DEF OursFirst, streamerVars
    <2>1. FirstIsOurs(down[Streamer])
      BY <1>1 DEF ExchangeInv, OursFirst
    <2>2. CASE p # Streamer /\ conn[Streamer] = "open"
      <3>1. p \in Browser
        BY <2>2 DEF Peer
      <3>2. IsDescription(m) => m.to = Streamer \/ ~NoDescription(down[Streamer])
        BY <1>1, <1>2, <2>2, <3>1 DEF ExchangeInv, Reached, KnowsOnlyOffers
      <3> QED BY <1>1, <1>2, <2>1, <2>2, <3>2, FirstOfAppend
    <2>3. CASE ~(p # Streamer /\ conn[Streamer] = "open")
      BY <1>1, <1>2, <2>1, <2>3
    <2> QED BY <2>2, <2>3
  <1>10. Reached' \/ \A b \in Browser : KnowsOnlyOffers(b)'
    <2> SUFFICES ASSUME ~Reached, ~Reached', NEW b \in Browser
                 PROVE  KnowsOnlyOffers(b)'
      BY <1>7
    <2>1. KnowsOnlyOffers(b)
      BY <1>1 DEF ExchangeInv
    <2>2. IsDescription(m) => m.from = Streamer
      <3> SUFFICES ASSUME IsDescription(m), p # Streamer
                   PROVE  FALSE
        BY <1>3
      <3>1. conn[Streamer] = "open"
        BY <1>1, <1>2 DEF ExchangeInv, QuietBefore, NoDescription, Reached, ChannelsOK
      <3>2. m \in Elements(down'[Streamer])
        BY <1>1, <1>2, <3>1
      <3> QED BY <3>2 DEF Reached, NoDescription
    <2> QED BY <1>1, <1>2, <1>4, <2>1, <2>2 DEF KnowsOnlyOffers, pageVars
  <1> QED BY <1>5, <1>6, <1>8, <1>9, <1>10 DEF ExchangeInv

\* The step of a page that sends at most the text m of its own.
LEMMA PageExchangeKept ==
  ASSUME SessionInv, NEW b \in Browser, UNCHANGED <<conn, remote>>, OthersKept(b),
         down'[Streamer] = down[Streamer],
         \A p \in Peer : Elements(down'[p]) \subseteq Elements(down[p]),
         \A p \in Peer \ {b} : up'[p] = up[p],
         NEW m \in Text, Elements(up'[b]) \subseteq Elements(up[b]) \cup {m},
         m.from = b, m.kind # "offer",
         conn[Streamer] \in {"none", "connecting"} =>
           ~IsDescription(m) /\ ops'[b] = <<>> /\ gathered'[b] = "new",
         KnowsOnlyOffers(b) => KnowsOnlyOffers(b)'
  PROVE  ExchangeInv'
  <1>1. ExchangeInv /\ b \in Peer /\ Streamer \in Peer /\ b # Streamer /\ Browser \subseteq Peer
    BY SessionTypes DEF SessionInv
  <1>2. Genuine(m)
    BY <1>1 DEF Genuine
  <1>3. Authentic'
    <2> SUFFICES ASSUME NEW p \in Peer
                 PROVE  /\ \A x \in Elements(up'[p]) : x.from = p /\ Genuine(x)
                        /\ \A x \in Elements(down'[p]) : x.from # p /\ Genuine(x)
      BY DEF Authentic
    <2>1. /\ \A x \in Elements(up[p]) : x.from = p /\ Genuine(x)
          /\ \A x \in Elements(down[p]) : x.from # p /\ Genuine(x)
      BY <1>1 DEF ExchangeInv, Authentic
    <2>2. \A x \in Elements(up'[p]) : x \in Elements(up[p]) \/ (p = b /\ x = m)
      OBVIOUS
    <2> QED BY <1>2, <2>1, <2>2
  <1>4. QuietBefore'
    <2> SUFFICES ASSUME conn[Streamer] \in {"none", "connecting"}
                 PROVE  /\ \A p \in Peer : NoDescription(up'[p]) /\ NoDescription(down'[p])
                        /\ \A c \in Browser : ops'[c] = <<>> /\ gathered'[c] = "new"
      BY DEF QuietBefore, NoDescription
    <2>1. /\ \A p \in Peer : NoDescription(up[p]) /\ NoDescription(down[p])
          /\ \A c \in Browser : ops[c] = <<>> /\ gathered[c] = "new"
      BY <1>1 DEF ExchangeInv, QuietBefore
    <2>2. \A c \in Browser : ops'[c] = <<>> /\ gathered'[c] = "new"
      BY <2>1 DEF OthersKept
    <2>3. \A p \in Peer : \A x \in Elements(up'[p]) : x \in Elements(up[p]) \/ (p = b /\ x = m)
      OBVIOUS
    <2> QED BY <2>1, <2>2, <2>3 DEF NoDescription
  <1>5. OursFirst' /\ AppliedAnswerIsOurs' /\ (Reached => Reached')
    BY <1>1 DEF ExchangeInv, OursFirst, AppliedAnswerIsOurs, Reached
  <1>6. ASSUME NEW c \in Browser, KnowsOnlyOffers(c)
        PROVE  KnowsOnlyOffers(c)'
    <2>1. CASE c = b
      BY <1>6, <2>1
    <2>2. CASE c # b
      <3>1. up'[c] = up[c] /\ Elements(down'[c]) \subseteq Elements(down[c])
        BY <1>1, <2>2
      <3> QED BY <1>6, <2>2, <3>1 DEF KnowsOnlyOffers, OthersKept
    <2> QED BY <2>1, <2>2
  <1> QED BY <1>1, <1>3, <1>4, <1>5, <1>6 DEF ExchangeInv

\* A page that sends nothing sends no more than a request.
LEMMA SilentPageKept ==
  ASSUME SessionInv, NEW b \in Browser, UNCHANGED <<conn, remote, up>>, OthersKept(b),
         down'[Streamer] = down[Streamer],
         \A p \in Peer : Elements(down'[p]) \subseteq Elements(down[p]),
         conn[Streamer] \in {"none", "connecting"} => ops'[b] = <<>> /\ gathered'[b] = "new",
         KnowsOnlyOffers(b) => KnowsOnlyOffers(b)'
  PROVE  ExchangeInv'
  <1>1. /\ Request(b) \in Text /\ ~IsDescription(Request(b))
        /\ Request(b).from = b /\ Request(b).kind # "offer"
    BY TextFacts DEF Request
  <1> QED BY <1>1, PageExchangeKept

LEMMA TimersKeepExchange ==
  ASSUME SessionInv, NEW b \in Browser,
         \/ AskForOffer(b)
         \/ (Page!OnOpen(b) \/ Page!TickClear(b)) /\ PageStep(b)
  PROVE  ExchangeInv'
  <1>1. ChannelsOK /\ ExchangeInv /\ b \in Peer
    BY SessionTypes DEF SessionInv
  <1>2. UNCHANGED <<streamerVars, down, conn, ops, sig, remoteDesc, created, localDesc, gathered>>
    BY DEF AskForOffer, PageStep, Page!OnOpen, Page!TickRequest, Page!TickClear,
           Page!channelVars, Page!pcVars, Page!pageVars
  <1>3. OthersKept(b) /\ remote' = remote
    BY <1>2 DEF OthersKept, streamerVars
  <1>4. /\ Request(b) \in Text /\ ~IsDescription(Request(b))
        /\ Request(b).from = b /\ Request(b).kind # "offer"
    BY TextFacts DEF Request
  <1>5. SentBy(b, Request(b))
    BY SameTexts DEF AskForOffer, Page!TickRequest, Page!Sent, Page!OnOpen, Page!TickClear,
                     Page!channelVars, SentBy
  <1>6. /\ \A p \in Peer \ {b} : up'[p] = up[p]
        /\ Elements(up'[b]) \subseteq Elements(up[b]) \cup {Request(b)}
    BY <1>1, <1>4, <1>5, Sending
  <1>7. KnowsOnlyOffers(b) => KnowsOnlyOffers(b)'
    BY <1>2, <1>4, <1>6 DEF KnowsOnlyOffers
  <1>8. conn[Streamer] \in {"none", "connecting"} => ops'[b] = <<>> /\ gathered'[b] = "new"
    BY <1>1, <1>2 DEF ExchangeInv, QuietBefore
  <1> QED BY <1>2, <1>3, <1>4, <1>6, <1>7, <1>8, PageExchangeKept

LEMMA HandleTextKeepsExchange ==
  ASSUME SessionInv, NEW b \in Browser, HandleText(b)
  PROVE  ExchangeInv'
  <1> DEFINE m == Head(down[b])
             o == [op |-> "setRemote", desc |-> m]
  <1>1. /\ ChannelsOK /\ Page!TypeOK /\ ExchangeInv /\ b \in Peer /\ b # Streamer /\ Streamer \in Peer
        /\ Page!OnMessage(b) /\ TakenBy(b)
        /\ UNCHANGED <<conn, up, remote, sig, remoteDesc, created, localDesc, gathered>>
    BY SessionTypes DEF SessionInv, HandleText, Page!OnMessage, TakenBy, streamerVars
  <1>2. /\ m \in Text /\ m \in Elements(down[b])
        /\ \A p \in Peer : p # b => down'[p] = down[p]
        /\ Elements(down[b]) = Elements(down'[b]) \cup {m}
    BY <1>1, Taking
  <1>3. /\ IsDescription(m) => ops' = [ops EXCEPT ![b] = Append(@, o)]
        /\ ~IsDescription(m) => ops' = ops
    BY <1>1, SameTexts DEF Page!OnMessage
  <1>4. o \in Page!Operation /\ o.desc = m
    BY <1>2, OperationFacts
  <1> HIDE DEF m, o
  <1>5. /\ \A c \in Browser \ {b} : ops'[c] = ops[c]
        /\ IsDescription(m) => Elements(ops'[b]) = Elements(ops[b]) \cup {o}
    <2>1. Elements(Append(ops[b], o)) = Elements(ops[b]) \cup {o}
      BY <1>1, <1>4, QueueFacts
    <2> QED BY <1>1, <1>3, <2>1 DEF Page!TypeOK
  <1>6. OthersKept(b)
    BY <1>1, <1>5 DEF OthersKept
  <1>7. conn[Streamer] \in {"none", "connecting"} => ops'[b] = <<>> /\ gathered'[b] = "new"
    BY <1>1, <1>2, <1>3 DEF ExchangeInv, QuietBefore, NoDescription
  <1>8. KnowsOnlyOffers(b) => KnowsOnlyOffers(b)'
    <2> SUFFICES ASSUME KnowsOnlyOffers(b) PROVE KnowsOnlyOffers(b)'
      OBVIOUS
    <2>1. \A x \in Elements(ops'[b]) : x.desc.from = Streamer
      BY <1>2, <1>3, <1>4, <1>5 DEF KnowsOnlyOffers
    <2> QED BY <1>1, <1>2, <2>1 DEF KnowsOnlyOffers
  <1>9. /\ down'[Streamer] = down[Streamer]
        /\ \A p \in Peer : Elements(down'[p]) \subseteq Elements(down[p])
    BY <1>1, <1>2
  <1> QED BY <1>1, <1>6, <1>7, <1>8, <1>9, SilentPageKept

LEMMA OperationsKeepExchange ==
  ASSUME SessionInv, NEW b \in Browser, Page!RunOperation(b), UNCHANGED streamerVars
  PROVE  ExchangeInv'
  <1> DEFINE first == Head(ops[b])
             rest == Tail(ops[b])
  <1>1. /\ ChannelsOK /\ Page!TypeOK /\ PageInv /\ ExchangeInv /\ b \in Peer /\ b # Streamer
        /\ Streamer \in Peer /\ remote' = remote
    BY SessionTypes DEF SessionInv, streamerVars
  <1>2. /\ ops[b] # <<>> /\ ops[b] \in Seq(Page!Operation)
        /\ first \in Page!Operation /\ rest \in Seq(Page!Operation)
        /\ Elements(ops[b]) = Elements(rest) \cup {first}
        /\ first.desc \in Text /\ first.desc.from \in Peer /\ Page!Desc(b) = first.desc
    BY <1>1, QueueFacts, OperationFacts, TextFacts
       DEF Page!RunOperation, Page!SetRemote, Page!RefuseRemote, Page!CreateAnswer,
           Page!SetLocal, Page!Due, Page!Desc
  <1>3. ~(conn[Streamer] \in {"none", "connecting"})
    BY <1>1, <1>2 DEF ExchangeInv, QuietBefore
  <1>4. ASSUME NEW k \in {"createAnswer", "setLocal"}, NEW x \in Text, Page!Continue(b, k, x)
        PROVE  /\ \A c \in Browser \ {b} : ops'[c] = ops[c]
               /\ Elements(ops'[b]) = Elements(rest) \cup {[op |-> k, desc |-> x]}
    <2>1. [op |-> k, desc |-> x] \in Page!Operation
      BY OperationFacts
    <2> QED BY <1>1, <1>2, <1>4, <2>1, QueueFacts DEF Page!Continue, Page!TypeOK
  <1>5. ASSUME Page!Finish(b)
        PROVE  (\A c \in Browser \ {b} : ops'[c] = ops[c]) /\ ops'[b] = rest
    BY <1>1, <1>2, <1>5 DEF Page!Finish, Page!TypeOK
  <1> HIDE DEF first, rest
  <1>6. CASE Page!SetRemote(b)
    <2>1. /\ \A c \in Browser \ {b} : ops'[c] = ops[c]
          /\ Elements(ops'[b]) = Elements(rest) \cup {[op |-> "createAnswer", desc |-> first.desc]}
          /\ remoteDesc' = [remoteDesc EXCEPT ![b] = first.desc]
          /\ sig' = [sig EXCEPT ![b] = "have-remote-offer"]
          /\ UNCHANGED <<conn, up, down, created, localDesc, gathered>>
      BY <1>2, <1>4, <1>6 DEF Page!SetRemote, Page!channelVars
    <2>2. OthersKept(b) /\ remoteDesc'[b] = first.desc
      BY <1>1, <2>1 DEF OthersKept, Page!TypeOK
    <2>3. KnowsOnlyOffers(b) => KnowsOnlyOffers(b)'
      BY <1>2, <2>1, <2>2 DEF KnowsOnlyOffers
    <2> QED BY <1>1, <1>3, <2>1, <2>2, <2>3, SilentPageKept
  <1>7. CASE Page!RefuseRemote(b)
    <2>1. /\ (\A c \in Browser \ {b} : ops'[c] = ops[c]) /\ ops'[b] = rest
          /\ UNCHANGED <<conn, up, down, sig, remoteDesc, created, localDesc, gathered>>
      BY <1>5, <1>7 DEF Page!RefuseRemote, Page!channelVars
    <2>2. OthersKept(b) /\ (KnowsOnlyOffers(b) => KnowsOnlyOffers(b)')
      BY <1>2, <2>1 DEF OthersKept, KnowsOnlyOffers
    <2> QED BY <1>1, <1>3, <2>1, <2>2, SilentPageKept
  <1>8. CASE Page!CreateAnswer(b)
    <2>1. UNCHANGED <<conn, up, down, sig, remoteDesc, localDesc, gathered>>
      BY <1>8 DEF Page!CreateAnswer, Page!channelVars
    <2>2. CASE sig[b] = "have-remote-offer"
      <3>1. remoteDesc[b] \in Text /\ remoteDesc[b] # None
        BY <1>1, <2>2, SameTexts DEF PageInv, PageOK, Page!TypeOK
      <3>2. /\ created' = [created EXCEPT ![b] = remoteDesc[b].from]
            /\ Page!Continue(b, "setLocal", remoteDesc[b])
        BY <1>8, <2>2 DEF Page!CreateAnswer
      <3>3. /\ \A c \in Browser \ {b} : ops'[c] = ops[c]
            /\ Elements(ops'[b]) = Elements(rest) \cup {[op |-> "setLocal", desc |-> remoteDesc[b]]}
        BY <1>4, <3>1, <3>2
      <3>4. OthersKept(b) /\ created'[b] = remoteDesc[b].from
        BY <1>1, <2>1, <3>2, <3>3 DEF OthersKept, Page!TypeOK
      <3>5. KnowsOnlyOffers(b) => KnowsOnlyOffers(b)'
        BY <1>2, <2>1, <3>1, <3>3, <3>4 DEF KnowsOnlyOffers
      <3> QED BY <1>1, <1>3, <2>1, <3>4, <3>5, SilentPageKept
    <2>3. CASE sig[b] # "have-remote-offer"
      <3>1. /\ (\A c \in Browser \ {b} : ops'[c] = ops[c]) /\ ops'[b] = rest
            /\ UNCHANGED created
        BY <1>5, <1>8, <2>3 DEF Page!CreateAnswer
      <3>2. OthersKept(b) /\ (KnowsOnlyOffers(b) => KnowsOnlyOffers(b)')
        BY <1>2, <2>1, <3>1 DEF OthersKept, KnowsOnlyOffers
      <3> QED BY <1>1, <1>3, <2>1, <3>2, SilentPageKept
    <2> QED BY <2>2, <2>3
  <1>9. CASE Page!SetLocal(b)
    <2>1. /\ ops'[b] = rest /\ \A c \in Browser \ {b} : ops'[c] = ops[c]
          /\ UNCHANGED <<conn, down, remoteDesc, created>>
      BY <1>5, <1>9 DEF Page!SetLocal
    <2>2. CASE sig[b] = "have-remote-offer" /\ first.desc.from = created[b]
      <3> DEFINE m == Page!LocalAnswer(b, created[b])
      <3>1. /\ sig' = [sig EXCEPT ![b] = "stable"]
            /\ localDesc' = [localDesc EXCEPT ![b] = created[b]]
            /\ gathered' = [gathered EXCEPT ![b] = IF @ = "new" THEN "gathering" ELSE @]
            /\ up' = Page!Sent(b, m)
        BY <1>2, <1>9, <2>2 DEF Page!SetLocal
      <3>2. created[b] \in Peer
        BY <1>2, <2>2
      <3>3. m \in Text /\ m.from = b /\ m.to = created[b] /\ m.kind # "offer"
        <4>1. (gathered[b] = "complete") \in BOOLEAN
          OBVIOUS
        <4> QED BY <3>2, <4>1, TextFacts, SameTexts DEF Page!LocalAnswer, Answer
      <3>4. SentBy(b, m)
        BY <3>1 DEF Page!Sent, SentBy
      <3> HIDE DEF m
      <3>5. /\ \A p \in Peer \ {b} : up'[p] = up[p]
            /\ Elements(up'[b]) \subseteq Elements(up[b]) \cup {m}
        BY <1>1, <3>3, <3>4, Sending
      <3>6. OthersKept(b) /\ localDesc'[b] = created[b]
        BY <1>1, <2>1, <3>1 DEF OthersKept, Page!TypeOK
      <3>7. KnowsOnlyOffers(b) => KnowsOnlyOffers(b)'
        <4> SUFFICES ASSUME KnowsOnlyOffers(b) PROVE KnowsOnlyOffers(b)'
          OBVIOUS
        <4>1. created[b] = Streamer
          BY <3>2, TextFacts DEF KnowsOnlyOffers
        <4> QED BY <1>2, <2>1, <3>3, <3>5, <3>6, <4>1 DEF KnowsOnlyOffers
      <3> QED BY <1>1, <1>3, <2>1, <3>3, <3>5, <3>6, <3>7, PageExchangeKept
    <2>3. CASE ~(sig[b] = "have-remote-offer" /\ first.desc.from = created[b])
      <3>1. UNCHANGED <<sig, localDesc, gathered, up>>
        BY <1>2, <1>9, <2>3 DEF Page!SetLocal
      <3>2. OthersKept(b) /\ (KnowsOnlyOffers(b) => KnowsOnlyOffers(b)')
        BY <1>2, <2>1, <3>1 DEF OthersKept, KnowsOnlyOffers
      <3> QED BY <1>1, <1>3, <2>1, <3>1, <3>2, SilentPageKept
    <2> QED BY <2>2, <2>3
  <1> QED BY <1>6, <1>7, <1>8, <1>9 DEF Page!RunOperation

LEMMA GatheringKeepsExchange ==
  ASSUME SessionInv, NEW b \in Browser, Page!GatheringComplete(b), UNCHANGED streamerVars
  PROVE  ExchangeInv'
  <1> DEFINE m == Answer(b, localDesc[b], TRUE)
  <1>1. /\ ChannelsOK /\ Page!TypeOK /\ PageInv /\ ExchangeInv /\ b \in Peer /\ b # Streamer
        /\ Streamer \in Peer /\ remote' = remote
    BY SessionTypes DEF SessionInv, streamerVars
  <1>2. localDesc[b] \in Peer /\ gathered[b] = "gathering"
    BY <1>1, SameTexts DEF Page!GatheringComplete, PageInv, PageOK, Page!TypeOK
  <1>3. m \in Text /\ m.from = b /\ m.to = localDesc[b] /\ m.kind # "offer"
    BY <1>2, TextFacts DEF Answer
  <1>4. SentBy(b, m)
    BY SameTexts DEF Page!GatheringComplete, Page!Sent, SentBy
  <1> HIDE DEF m
  <1>5. /\ \A p \in Peer \ {b} : up'[p] = up[p]
        /\ Elements(up'[b]) \subseteq Elements(up[b]) \cup {m}
    BY <1>1, <1>3, <1>4, Sending
  <1>6. ~(conn[Streamer] \in {"none", "connecting"})
    BY <1>1, <1>2 DEF ExchangeInv, QuietBefore
  <1>7. /\ UNCHANGED <<conn, down, ops, sig, remoteDesc, created, localDesc>>
        /\ gathered' = [gathered EXCEPT ![b] = "complete"]
    BY DEF Page!GatheringComplete
  <1>8. OthersKept(b)
    BY <1>1, <1>7 DEF OthersKept, Page!TypeOK
  <1>9. KnowsOnlyOffers(b) => KnowsOnlyOffers(b)'
    <2> SUFFICES ASSUME KnowsOnlyOffers(b) PROVE KnowsOnlyOffers(b)'
      OBVIOUS
    <2>1. localDesc[b] = Streamer
      BY <1>2, TextFacts DEF KnowsOnlyOffers
    <2> QED BY <1>3, <1>5, <1>7, <2>1 DEF KnowsOnlyOffers
  <1> QED BY <1>1, <1>3, <1>5, <1>6, <1>7, <1>8, <1>9, PageExchangeKept

-----------------------------------------------------------------------------
(* The theorems                                                            *)

LEMMA InitSessionInv == Init => SessionInv
  <1> SUFFICES ASSUME Init PROVE SessionInv
    OBVIOUS
  <1>1. TypeOK
    <2>1. ChannelsOK
      BY DEF Init, Hub!Init, ChannelsOK
    <2>2. Streaming!TypeOK
      BY DEF Init, Streaming!Init, Streaming!TypeOK
    <2>3. Page!TypeOK
      BY DEF Init, Page!Init, Page!TypeOK
    <2>4. handled \in [Browser -> Nat]
      BY DEF Init
    <2> QED BY <2>1, <2>2, <2>3, <2>4 DEF TypeOK, ChannelsOK
  <1>2. PageInv /\ StreamerInv
    BY DEF Init, Streaming!Init, Page!Init, PageInv, PageOK, StreamerInv
  <1>3. \A p \in Peer : up[p] = <<>> /\ down[p] = <<>>
    BY DEF Init, Hub!Init
  <1>4. Authentic /\ QuietBefore
    BY <1>3, ElementsOfEmpty DEF Authentic, QuietBefore, NoDescription, Init, Page!Init
  <1>5. OursFirst /\ AppliedAnswerIsOurs
    BY <1>3, TextFacts DEF OursFirst, FirstIsOurs, AppliedAnswerIsOurs, Init, Streaming!Init
  <1>6. \A b \in Browser : KnowsOnlyOffers(b)
    BY <1>3, TextFacts, ElementsOfEmpty DEF KnowsOnlyOffers, Init, Page!Init
  <1> QED BY <1>1, <1>2, <1>4, <1>5, <1>6 DEF SessionInv, EndsInv, ExchangeInv

LEMMA NextSessionInv == SessionInv /\ [Next]_vars => SessionInv'
  <1> SUFFICES ASSUME SessionInv, [Next]_vars PROVE SessionInv'
    OBVIOUS
  <1>1. CASE StreamerStep
    BY <1>1, StreamerKeepsEnds, StreamerKeepsExchange DEF SessionInv
  <1>2. ASSUME NEW p \in Peer, Connect(p) \/ Opened(p) \/ Dropped(p) \/ Relayed(p)
        PROVE  SessionInv'
    BY <1>2, ChannelsKeepEnds, ConnectionsKeepExchange, RelayKeepsExchange DEF SessionInv
  <1>3. ASSUME NEW b \in Browser, AskForOffer(b) \/ HandleText(b)
        PROVE  SessionInv'
    BY <1>3, TimersKeepEnds, HandleTextKeepsEnds, TimersKeepExchange, HandleTextKeepsExchange
       DEF SessionInv
  <1>4. ASSUME NEW b \in Browser, PageStep(b)
        PROVE  SessionInv'
    <2>1. CASE Page!OnOpen(b) \/ Page!TickClear(b)
      BY <1>4, <2>1, TimersKeepEnds, TimersKeepExchange DEF SessionInv
    <2>2. CASE Page!RunOperation(b)
      BY <1>4, <2>2, OperationsKeepEnds, OperationsKeepExchange DEF SessionInv, PageStep
    <2>3. CASE Page!GatheringComplete(b)
      BY <1>4, <2>3, GatheringKeepsEnds, GatheringKeepsExchange DEF SessionInv, PageStep
    <2> QED BY <1>4, <2>1, <2>2, <2>3 DEF PageStep
  <1>5. CASE UNCHANGED vars
    <2>1. UNCHANGED <<conn, up, down, streamerVars, pageVars>>
      BY <1>5 DEF vars
    <2>2. EndsInv'
      BY <2>1, PageInvKept, StreamerInvKept
         DEF SessionInv, EndsInv, TypeOK, Streaming!TypeOK, Page!TypeOK, streamerVars, pageVars
    <2>3. ExchangeInv'
      BY <2>1 DEF SessionInv, ExchangeInv, Authentic, QuietBefore, OursFirst, Reached,
                  KnowsOnlyOffers, AppliedAnswerIsOurs, streamerVars, pageVars
    <2> QED BY <2>2, <2>3 DEF SessionInv
  <1> QED BY <1>1, <1>2, <1>3, <1>4, <1>5 DEF Next

\* The inductive invariant of the session: both ends, and who can know which
\* description while the exchange goes on.
THEOREM SessionInvariance == Spec => []SessionInv
  BY InitSessionInv, NextSessionInv, PTL DEF Spec

\* The types of the session, with what the pages and the streamer read from
\* their queues.
THEOREM TypeCorrect == Spec => []TypeOK
  <1>1. SessionInv => TypeOK
    BY DEF SessionInv, EndsInv
  <1> QED BY <1>1, SessionInvariance, PTL

\* However many offers a page handles at once, in whatever order their awaits
\* come back, a page with nothing queued has no offer left to answer.
THEOREM NoOfferStaysOpen == Spec => []NoOfferLeftOpen
  <1>1. SessionInv => NoOfferLeftOpen
    <2> SUFFICES ASSUME SessionInv, NEW b \in Browser, ops[b] = <<>>
                 PROVE  sig[b] = "stable"
      BY DEF NoOfferLeftOpen, Page!NoOfferLeftOpen
    <2>1. ~OpenOffer(b)
      BY ElementsOfEmpty DEF OpenOffer
    <2> QED BY <2>1 DEF SessionInv, EndsInv, TypeOK, Page!TypeOK, PageInv, PageOK
  <1> QED BY <1>1, SessionInvariance, PTL

\* Although pages answer each other, what the streamer applies answers its own
\* offer, with any number of pages.
THEOREM AppliedIsAlwaysOurs == Spec => []AppliedAnswerIsOurs
  <1>1. SessionInv => AppliedAnswerIsOurs
    BY DEF SessionInv, ExchangeInv
  <1> QED BY <1>1, SessionInvariance, PTL

\* The streamer applies one description in its life: the answers of the other
\* pages, of a reloaded page, or a fuller answer of the same page come too late
\* (setRemoteDescription throws in the stable state).
THEOREM AppliedForGood == Spec => [][remote # None => UNCHANGED remote]_vars
  <1>1. SessionInv /\ [Next]_vars => [remote # None => UNCHANGED remote]_vars
    <2> SUFFICES ASSUME SessionInv, Next, remote # None PROVE UNCHANGED remote
      OBVIOUS
    <2>1. signaling = "stable"
      BY DEF SessionInv, EndsInv, StreamerInv
    <2>2. CASE StreamerStep
      BY <2>1, <2>2 DEF StreamerStep, Streaming!Next, Streaming!OpenWebSocket,
         Streaming!RegisterGatheringCallback, Streaming!OnOpen, Streaming!GatheringComplete,
         Streaming!OnRequest, Streaming!OnDescription
    <2>3. CASE \E p \in Peer : Connect(p) \/ Opened(p) \/ Dropped(p) \/ Relayed(p)
      BY <2>3 DEF Connect, Opened, Dropped, Relayed, streamerVars
    <2>4. CASE \E b \in Browser : AskForOffer(b) \/ HandleText(b) \/ PageStep(b)
      BY <2>4 DEF AskForOffer, HandleText, PageStep, streamerVars
    <2> QED BY <2>2, <2>3, <2>4 DEF Next
  <1> QED BY <1>1, SessionInvariance, PTL DEF Spec

-----------------------------------------------------------------------------
(* The session over the server as it is written                            *)

\* What the server knows, whatever its clients do: callbacks are pending only
\* for connections that have ended, and an onMessage between its two scopes
\* still holds its text.
CallbacksInv ==
    \A p \in Peer : /\ events[p] # {} => conn[p] = "closed"
                    /\ task[p] = "relay" => up[p] # <<>>

ServerInv ==
    /\ attached \in [Peer -> BOOLEAN]
    /\ clients \in [Peer -> Server!Role \cup {"absent"}]
    /\ task \in [Peer -> {"idle", "relay"}]
    /\ events \in [Peer -> SUBSET {"closed", "error"}]
    /\ Server!LiveClientsRegistered
    /\ CallbacksInv

OverInv == SessionInv /\ ServerInv

LEMMA SessionChannels == SessionInv => ChannelsOK
  BY DEF SessionInv, EndsInv, TypeOK, ChannelsOK

LEMMA InitServerInv == OverInit => ServerInv
  BY DEF OverInit, Server!Init, ServerInv, CallbacksInv, Server!LiveClientsRegistered,
         Server!Role

\* A text sent on an open connection takes away none that is still there.
LEMMA SendingKeepsTexts ==
  ASSUME ChannelsOK, NEW p \in Peer, NEW m \in Text,
         up' = IF conn[p] = "open" THEN [up EXCEPT ![p] = Append(@, m)] ELSE up
  PROVE  \A q \in Peer : up[q] # <<>> => up'[q] # <<>>
  <1>1. up[p] \in Seq(Text)
    BY DEF ChannelsOK
  <1>2. Append(up[p], m) # <<>>
    BY <1>1, AppendFacts
  <1> QED BY <1>2 DEF ChannelsOK

\* The streamer and the pages neither open nor end a connection of the server,
\* nor take back what they have sent.
LEMMA PeersKeepTexts ==
  ASSUME SessionInv, PeerStep
  PROVE  conn' = conn /\ \A q \in Peer : up[q] # <<>> => up'[q] # <<>>
  <1>1. ChannelsOK
    BY SessionChannels
  <1>2. CASE StreamerStep
    <2>1. CASE Streaming!OpenWebSocket \/ Streaming!RegisterGatheringCallback
                \/ Streaming!OnOpen \/ Streaming!OnDescription
      BY <2>1 DEF Streaming!OpenWebSocket, Streaming!RegisterGatheringCallback,
         Streaming!OnOpen, Streaming!OnDescription, Streaming!channelVars
    <2>2. ASSUME NEW f \in BOOLEAN, up' = Streaming!Sent(Offer(f))
          PROVE  \A q \in Peer : up[q] # <<>> => up'[q] # <<>>
      <3>1. Offer(f) \in Text /\ Streamer \in Peer
        BY TextFacts
      <3>2. up' = IF conn[Streamer] = "open" THEN [up EXCEPT ![Streamer] = Append(@, Offer(f))]
                  ELSE up
        BY <2>2 DEF Streaming!Sent
      <3> QED BY <1>1, <3>1, <3>2, SendingKeepsTexts
    <2>3. CASE Streaming!GatheringComplete
      <3>1. conn' = conn /\ (up' = up \/ up' = Streaming!Sent(Offer(TRUE)))
        BY <2>3, SameTexts DEF Streaming!GatheringComplete
      <3> QED BY <3>1, <2>2
    <2>4. CASE Streaming!OnRequest
      <3>1. conn' = conn /\ (up' = up \/ up' = Streaming!Sent(Offer(gathering = "complete")))
        BY <2>4, SameTexts DEF Streaming!OnRequest, Streaming!LocalOffer
      <3> QED BY <3>1, <2>2
    <2> QED BY <1>2, <2>1, <2>3, <2>4 DEF StreamerStep, Streaming!Next
  <1>3. ASSUME NEW b \in Browser, AskForOffer(b) \/ HandleText(b) \/ PageStep(b)
        PROVE  conn' = conn /\ \A q \in Peer : up[q] # <<>> => up'[q] # <<>>
    <2>1. ASSUME NEW m \in Text, up' = Page!Sent(b, m)
          PROVE  \A q \in Peer : up[q] # <<>> => up'[q] # <<>>
      <3>1. b \in Peer
        BY TextFacts
      <3>2. up' = IF conn[b] = "open" THEN [up EXCEPT ![b] = Append(@, m)] ELSE up
        BY <2>1 DEF Page!Sent
      <3> QED BY <1>1, <3>1, <3>2, SendingKeepsTexts
    <2>2. CASE AskForOffer(b)
      <3>1. conn' = conn /\ up' = Page!Sent(b, Request(b))
        BY <2>2, SameTexts DEF AskForOffer, Page!TickRequest
      <3> QED BY <3>1, <2>1, TextFacts
    <2>3. CASE HandleText(b) \/ Page!OnOpen(b) \/ Page!TickClear(b)
               \/ Page!SetRemote(b) \/ Page!RefuseRemote(b) \/ Page!CreateAnswer(b)
      BY <2>3 DEF HandleText, Page!OnMessage, Page!OnOpen, Page!TickClear, Page!SetRemote,
         Page!RefuseRemote, Page!CreateAnswer, Page!channelVars
    <2>4. CASE Page!SetLocal(b)
      <3>1. CASE up' = up
        BY <2>4, <3>1 DEF Page!SetLocal
      <3>2. CASE up' # up
        <4>1. /\ up' = Page!Sent(b, Answer(b, created[b], gathered[b] = "complete"))
              /\ Page!Desc(b).from = created[b] /\ conn' = conn
              /\ Page!Due(b, "setLocal")
          BY <2>4, <3>2, SameTexts DEF Page!SetLocal, Page!LocalAnswer
        <4>2. Head(ops[b]) \in Page!Operation
          <5>1. ops[b] \in Seq(Page!Operation) /\ ops[b] # <<>>
            BY <4>1 DEF SessionInv, EndsInv, TypeOK, Page!TypeOK, Page!Due
          <5> QED BY <5>1, TailFacts
        <4>3. created[b] \in Peer
          BY <4>1, <4>2, SameTexts, TextFacts DEF Page!Desc, Page!Operation
        <4> QED BY <4>1, <4>3, <2>1, TextFacts
      <3> QED BY <3>1, <3>2
    <2>5. CASE Page!GatheringComplete(b)
      <3>1. /\ conn' = conn /\ up' = Page!Sent(b, Answer(b, localDesc[b], TRUE))
            /\ gathered[b] = "gathering"
        BY <2>5, SameTexts DEF Page!GatheringComplete
      <3>2. localDesc[b] \in Peer
        BY <3>1, SameTexts DEF SessionInv, EndsInv, TypeOK, Page!TypeOK, PageInv, PageOK
      <3> QED BY <3>1, <3>2, <2>1, TextFacts
    <2> QED BY <1>3, <2>2, <2>3, <2>4, <2>5 DEF PageStep, Page!RunOperation
  <1> QED BY <1>2, <1>3 DEF PeerStep

\* A step of the session over the server is a step of the session over the
\* hub, or changes nothing but the server's map and its callbacks.
LEMMA OverRefines ==
  ASSUME OverInv, [OverNext]_overVars
  PROVE  [Next]_vars
  <1>1. CASE PeerStep
    BY <1>1 DEF PeerStep, Next
  <1>2. ASSUME NEW p \in Peer, CallbackStep(p)
        PROVE  [Next]_vars
    <2>1. UNCHANGED <<streamerVars, pageVars>>
      BY <1>2 DEF CallbackStep
    <2>2. CASE Server!AttachCallbacks(p) \/ Server!Identify(p) \/ Server!OnClosed(p)
                \/ Server!OnError(p)
      <3>1. UNCHANGED <<conn, up, down>>
        BY <2>2 DEF Server!AttachCallbacks, Server!Identify, Server!OnClosed,
                    Server!OnError, Server!Erase
      <3> QED BY <2>1, <3>1 DEF vars
    <2>3. CASE Server!Relay(p)
      <3>1. up[p] # <<>>
        BY <2>3 DEF Server!Relay, OverInv, ServerInv, CallbacksInv
      <3>2. Server!Receivers(p) = {d \in Peer : d # p /\ conn[d] = "open"}
        BY DEF OverInv, ServerInv, Server!LiveClientsRegistered, Server!Receivers
      <3>3. Hub!Publish(p)
        BY <2>3, <3>1, <3>2 DEF Hub!Publish, Server!Relay
      <3> QED BY <2>1, <3>3 DEF Relayed, Next
    <2> QED BY <1>2, <2>2, <2>3 DEF CallbackStep, Server!ServerNext
  <1>3. ASSUME NEW p \in Peer, ConnectionStep(p)
        PROVE  [Next]_vars
    <2>1. UNCHANGED <<streamerVars, pageVars>>
      BY <1>3 DEF ConnectionStep
    <2>2. CASE (p = Streamer => ctor # "open") /\ Server!OnClient(p)
      <3>1. Connect(p)
        BY <2>1, <2>2 DEF Connect, Hub!Join, Server!OnClient
      <3> QED BY <3>1 DEF Next
    <2>3. CASE Server!Open(p)
      <3>1. Opened(p)
        BY <2>1, <2>3 DEF Opened, Hub!Enter, Server!Open
      <3> QED BY <3>1 DEF Next
    <2>4. CASE p \in Droppable /\ Server!Drop(p)
      <3>1. Dropped(p)
        BY <2>1, <2>4 DEF Dropped, Hub!Leave, Server!Drop
      <3> QED BY <3>1 DEF Next
    <2> QED BY <1>3, <2>2, <2>3, <2>4 DEF ConnectionStep
  <1>4. CASE UNCHANGED overVars
    BY <1>4 DEF overVars
  <1> QED BY <1>1, <1>2, <1>3, <1>4 DEF OverNext

\* The server keeps what it knows.
LEMMA ServerInvKept ==
  ASSUME OverInv, [OverNext]_overVars
  PROVE  ServerInv'
  <1> USE DEF ServerInv, CallbacksInv, Server!LiveClientsRegistered
  <1>0. ChannelsOK /\ ServerInv
    BY SessionChannels DEF OverInv
  <1>1. CASE PeerStep
    <2>1. conn' = conn /\ \A q \in Peer : up[q] # <<>> => up'[q] # <<>>
      BY <1>1, PeersKeepTexts DEF OverInv
    <2> QED BY <1>0, <1>1, <2>1 DEF PeerStep, inServer
  <1>2. ASSUME NEW p \in Peer, CallbackStep(p)
        PROVE  ServerInv'
    <2>1. CASE Server!AttachCallbacks(p)
      BY <1>0, <2>1 DEF Server!AttachCallbacks
    <2>2. CASE Server!Identify(p)
      <3>1. clients'[p] \in Server!Role /\ \A q \in Peer : q # p => clients'[q] = clients[q]
        BY <1>0, <2>2 DEF Server!Identify, Server!RoleOf, Server!RoleFrom, Server!Role
      <3>2. clients' \in [Peer -> Server!Role \cup {"absent"}] /\ clients'[p] # "absent"
        BY <1>0, <2>2, <3>1 DEF Server!Identify, Server!Role
      <3> QED BY <1>0, <2>2, <3>1, <3>2 DEF Server!Identify
    <2>3. CASE Server!Relay(p)
      <3>1. task'[p] = "idle" /\ \A q \in Peer : q # p => up'[q] = up[q] /\ task'[q] = task[q]
        BY <1>0, <2>3 DEF Server!Relay, ChannelsOK
      <3>2. CallbacksInv'
        BY <1>0, <2>3, <3>1 DEF Server!Relay
      <3> QED BY <1>0, <2>3, <3>2 DEF Server!Relay
    <2>4. CASE Server!OnClosed(p) \/ Server!OnError(p)
      <3>1. PICK e \in {"closed", "error"} : Server!Erase(p, e)
        BY <2>4 DEF Server!OnClosed, Server!OnError
      <3>2. conn[p] = "closed"
        BY <1>0, <3>1 DEF Server!Erase
      <3> QED BY <1>0, <3>1, <3>2 DEF Server!Erase
    <2> QED BY <1>2, <2>1, <2>2, <2>3, <2>4 DEF CallbackStep, Server!ServerNext
  <1>3. ASSUME NEW p \in Peer, ConnectionStep(p)
        PROVE  ServerInv'
    <2>1. CASE Server!OnClient(p)
      BY <1>0, <2>1 DEF Server!OnClient, Server!Role, ChannelsOK
    <2>2. CASE Server!Open(p)
      BY <1>0, <2>2 DEF Server!Open, ChannelsOK
    <2>3. CASE Server!Drop(p)
      BY <1>0, <2>3 DEF Server!Drop, ChannelsOK
    <2> QED BY <1>3, <2>1, <2>2, <2>3 DEF ConnectionStep
  <1>4. CASE UNCHANGED overVars
    BY <1>0, <1>4 DEF overVars, inServer, vars
  <1> QED BY <1>1, <1>2, <1>3, <1>4 DEF OverNext

\* The invariant of the session and that of the server, together.
THEOREM OverInvariance == OverSpec => []OverInv
  <1>1. OverInit => OverInv
    BY InitSessionInv, InitServerInv DEF OverInit, OverInv
  <1>2. OverInv /\ [OverNext]_overVars => OverInv'
    <2> SUFFICES ASSUME OverInv, [OverNext]_overVars PROVE OverInv'
      OBVIOUS
    <2>1. SessionInv'
      BY OverRefines, NextSessionInv DEF OverInv
    <2> QED BY <2>1, ServerInvKept DEF OverInv
  <1> QED BY <1>1, <1>2, PTL DEF OverSpec

\* Whatever holds of the streamer and the pages over the hub holds of them over
\* the server's map, mutex scopes and overlapping callbacks.
THEOREM ImplementsSession == OverSpec => Spec
  <1>1. OverInit => Init
    BY DEF OverInit
  <1>2. OverInv /\ [OverNext]_overVars => [Next]_vars
    BY OverRefines
  <1> QED BY <1>1, <1>2, OverInvariance, PTL DEF OverSpec, Spec

\* The types of the session and of the server in it.
THEOREM OverTypes == OverSpec => []OverTypeOK
  <1>1. OverInv => OverTypeOK
    BY DEF OverInv, SessionInv, EndsInv, TypeOK, ServerInv, OverTypeOK, Server!TypeOK,
           Server!ConnState
  <1> QED BY <1>1, OverInvariance, PTL

\* The streamer applies an answer to its own offer, whatever the callbacks of
\* the server do between two texts.
THEOREM AppliedIsOursOverServer == OverSpec => []AppliedAnswerIsOurs
  BY ImplementsSession, AppliedIsAlwaysOurs, PTL
=============================================================================
