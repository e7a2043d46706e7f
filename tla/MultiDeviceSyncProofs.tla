------------------------ MODULE MultiDeviceSyncProofs ------------------------
(***************************************************************************)
(* Proofs about the frame pairing of the multi-device example, for any     *)
(* number of cameras, any frame rates and any size of the queues.          *)
(***************************************************************************)
EXTENDS MultiDeviceSync, FiniteSetTheorems, TLAPS

-----------------------------------------------------------------------------
(* Sequences *)

LEMMA AppendFacts ==
  ASSUME NEW S, NEW s \in Seq(S), NEW e \in S
  PROVE  /\ Append(s, e) \in Seq(S) /\ Append(s, e) # <<>>
         /\ Len(Append(s, e)) = Len(s) + 1 /\ Len(s) \in Nat
         /\ \A i \in 1..Len(s) : Append(s, e)[i] = s[i]
         /\ Append(s, e)[Len(s) + 1] = e
  OBVIOUS

LEMMA TailFacts ==
  ASSUME NEW S, NEW s \in Seq(S), s # <<>>
  PROVE  /\ Tail(s) \in Seq(S)
         /\ Len(s) \in Nat \ {0} /\ Len(Tail(s)) = Len(s) - 1
         /\ \A i \in 1..(Len(s) - 1) : Tail(s)[i] = s[i + 1]
         /\ Head(s) = s[1] /\ Head(s) \in S
  OBVIOUS

LEMMA ElementFacts ==
  ASSUME NEW S, NEW s \in Seq(S)
  PROVE  /\ DOMAIN s = 1..Len(s) /\ Len(s) \in Nat
         /\ \A i \in 1..Len(s) : s[i] \in S
         /\ s = <<>> <=> Len(s) = 0
  OBVIOUS

-----------------------------------------------------------------------------
(* The queues *)

\* A queue is in the order of delivery, within its limit, and nothing in it is
\* newer than what the camera has delivered.
QueueInv ==
    /\ QueuesAreOrdered
    /\ \A h \in Holders : \A i \in DOMAIN obFrames[h] : obFrames[h][i] <= stamp[h]

Increasing(s) == \A i, j \in 1..Len(s) : i < j => s[i] < s[j]
Upto(s, t) == \A i \in 1..Len(s) : s[i] <= t

LEMMA TailIncreases ==
  ASSUME NEW s \in Seq(Nat), s # <<>>, Increasing(s), NEW t \in Int, Upto(s, t)
  PROVE  /\ Tail(s) \in Seq(Nat) /\ Len(Tail(s)) = Len(s) - 1 /\ Len(s) \in Nat
         /\ Increasing(Tail(s)) /\ Upto(Tail(s), t)
  <1>1. /\ Tail(s) \in Seq(Nat) /\ Len(s) \in Nat \ {0} /\ Len(Tail(s)) = Len(s) - 1
        /\ \A i \in 1..(Len(s) - 1) : Tail(s)[i] = s[i + 1]
    BY TailFacts
  <1>2. Increasing(Tail(s))
    <2> SUFFICES ASSUME NEW i \in 1..(Len(s) - 1), NEW j \in 1..(Len(s) - 1), i < j
                 PROVE  Tail(s)[i] < Tail(s)[j]
      BY <1>1 DEF Increasing
    <2>1. i + 1 \in 1..Len(s) /\ j + 1 \in 1..Len(s) /\ i + 1 < j + 1
      BY <1>1
    <2>2. s[i + 1] < s[j + 1]
      BY <2>1 DEF Increasing
    <2> QED BY <1>1, <2>2
  <1>3. Upto(Tail(s), t)
    <2> SUFFICES ASSUME NEW i \in 1..(Len(s) - 1)
                 PROVE  Tail(s)[i] <= t
      BY <1>1 DEF Upto
    <2>1. i + 1 \in 1..Len(s)
      BY <1>1
    <2>2. s[i + 1] <= t
      BY <2>1 DEF Upto
    <2> QED BY <1>1, <2>2
  <1> QED BY <1>1, <1>2, <1>3

LEMMA AppendIncreases ==
  ASSUME NEW s \in Seq(Nat), Increasing(s), NEW old \in Int, Upto(s, old),
         NEW t \in Nat, t > old
  PROVE  Increasing(Append(s, t)) /\ Upto(Append(s, t), t)
  <1>1. /\ Len(Append(s, t)) = Len(s) + 1 /\ Len(s) \in Nat
        /\ \A i \in 1..Len(s) : Append(s, t)[i] = s[i] /\ s[i] \in Nat
        /\ Append(s, t)[Len(s) + 1] = t
    BY AppendFacts, ElementFacts
  <1>2. \A i \in 1..Len(s) : Append(s, t)[i] < t
    BY <1>1 DEF Upto
  <1>3. Increasing(Append(s, t))
    <2> SUFFICES ASSUME NEW i \in 1..(Len(s) + 1), NEW j \in 1..(Len(s) + 1), i < j
                 PROVE  Append(s, t)[i] < Append(s, t)[j]
      BY <1>1 DEF Increasing
    <2>1. i \in 1..Len(s)
      BY <1>1
    <2>2. CASE j = Len(s) + 1
      BY <1>1, <1>2, <2>1, <2>2
    <2>3. CASE j \in 1..Len(s)
      BY <1>1, <2>1, <2>3 DEF Increasing
    <2> QED BY <1>1, <2>2, <2>3
  <1>4. Upto(Append(s, t), t)
    <2> SUFFICES ASSUME NEW i \in 1..(Len(s) + 1)
                 PROVE  Append(s, t)[i] <= t
      BY <1>1 DEF Upto
    <2>1. CASE i = Len(s) + 1
      BY <1>1, <2>1
    <2>2. CASE i \in 1..Len(s)
      BY <1>1, <1>2, <2>2
    <2> QED BY <1>1, <2>1, <2>2
  <1> QED BY <1>3, <1>4

\* The queue of one holder.
HolderQueue(s, t) ==
    s \in Seq(0..MaxStamp) /\ Len(s) <= MaxFrameSize /\ Increasing(s) /\ Upto(s, t)

LEMMA QueueInvOf ==
  ASSUME obFrames \in [Holders -> Seq(0..MaxStamp)]
  PROVE  QueueInv <=> \A h \in Holders : HolderQueue(obFrames[h], stamp[h])
  <1>1. \A h \in Holders : DOMAIN obFrames[h] = 1..Len(obFrames[h])
    BY ElementFacts
  <1> QED BY <1>1 DEF QueueInv, QueuesAreOrdered, HolderQueue, Increasing, Upto

LEMMA TakenQueue ==
  ASSUME NEW s, NEW t \in -1..MaxStamp, HolderQueue(s, t), s # <<>>
  PROVE  HolderQueue(Tail(s), t)
  <1>1. s \in Seq(Nat) /\ s \in Seq(0..MaxStamp) /\ t \in Int
    BY MaxStampAssumption DEF HolderQueue
  <1>2. Tail(s) \in Seq(0..MaxStamp)
    BY <1>1, TailFacts
  <1>3. /\ Len(Tail(s)) = Len(s) - 1 /\ Len(s) \in Nat
        /\ Increasing(Tail(s)) /\ Upto(Tail(s), t)
    BY <1>1, TailIncreases DEF HolderQueue
  <1>4. Len(Tail(s)) <= MaxFrameSize
    BY <1>3, MaxFrameSizeAssumption DEF HolderQueue
  <1> QED BY <1>2, <1>3, <1>4 DEF HolderQueue

LEMMA PushedQueue ==
  ASSUME NEW s, NEW old \in -1..MaxStamp, HolderQueue(s, old), NEW t \in 0..MaxStamp, t > old
  PROVE  LET p == Append(IF Len(s) >= MaxFrameSize THEN Tail(s) ELSE s, t) IN
         HolderQueue(p, t) /\ p # <<>>
  <1>1. PICK q : q = IF Len(s) >= MaxFrameSize THEN Tail(s) ELSE s
    OBVIOUS
  <1>2. HolderQueue(q, old) /\ Len(q) < MaxFrameSize
    <2>1. s \in Seq(0..MaxStamp) /\ Len(s) \in Nat
      BY DEF HolderQueue
    <2>2. CASE Len(s) >= MaxFrameSize
      <3>1. s # <<>>
        BY <2>1, <2>2, MaxFrameSizeAssumption
      <3>2. Len(Tail(s)) = Len(s) - 1
        BY <2>1, <3>1, TailFacts
      <3> QED BY <1>1, <2>1, <2>2, <3>1, <3>2, TakenQueue, MaxFrameSizeAssumption DEF HolderQueue
    <2>3. CASE ~(Len(s) >= MaxFrameSize)
      BY <1>1, <2>1, <2>3, MaxFrameSizeAssumption
    <2> QED BY <2>2, <2>3
  <1>3. q \in Seq(Nat) /\ q \in Seq(0..MaxStamp) /\ t \in Nat /\ old \in Int
    BY <1>2, MaxStampAssumption DEF HolderQueue
  <1>4. /\ Append(q, t) \in Seq(0..MaxStamp) /\ Append(q, t) # <<>>
        /\ Len(Append(q, t)) = Len(q) + 1 /\ Len(q) \in Nat
    BY <1>3, AppendFacts
  <1>5. Increasing(Append(q, t)) /\ Upto(Append(q, t), t)
    BY <1>2, <1>3, AppendIncreases DEF HolderQueue
  <1>6. Len(Append(q, t)) <= MaxFrameSize
    BY <1>2, <1>4, MaxFrameSizeAssumption
  <1> QED BY <1>1, <1>4, <1>5, <1>6 DEF HolderQueue

\* What the SDK's thread does to a queue: it is never left empty.
LEMMA ProcessFrameKeepsQueues ==
  ASSUME HoldersTypeOK, QueueInv, NEW h \in Holders, NEW t \in 0..MaxStamp, ProcessFrame(h, t)
  PROVE  /\ HoldersTypeOK' /\ QueueInv'
         /\ \A g \in Holders : obFrames'[g] = obFrames[g] \/ obFrames'[g] # <<>>
  <1> DEFINE p == Append(IF Len(obFrames[h]) >= MaxFrameSize THEN Tail(obFrames[h])
                                                             ELSE obFrames[h], t)
  <1>1. /\ obFrames \in [Holders -> Seq(0..MaxStamp)]
        /\ stamp \in [Holders -> -1..MaxStamp] /\ t > stamp[h]
    BY DEF HoldersTypeOK, ProcessFrame
  <1>2. HolderQueue(obFrames[h], stamp[h])
    BY <1>1, QueueInvOf
  <1>3. HolderQueue(p, t) /\ p # <<>>
    BY <1>1, <1>2, PushedQueue
  <1>4. HolderQueue(obFrames[h], t)
    BY <1>1, <1>2, MaxStampAssumption DEF HolderQueue, Upto
  <1>5. /\ stamp' = [stamp EXCEPT ![h] = t]
        /\ obFrames' = [obFrames EXCEPT ![h] = p] \/ obFrames' = obFrames
        /\ dropped' = dropped \cup {h} \/ dropped' = dropped
        /\ UNCHANGED <<startStream, running>>
    BY DEF ProcessFrame
  <1> HIDE DEF p
  <1>6. p \in Seq(0..MaxStamp)
    BY <1>3 DEF HolderQueue
  <1>7. HoldersTypeOK'
    <2>1. stamp' \in [Holders -> -1..MaxStamp]
      BY <1>1, <1>5, MaxStampAssumption
    <2>2. obFrames' \in [Holders -> Seq(0..MaxStamp)]
      BY <1>1, <1>5, <1>6
    <2> QED BY <1>5, <2>1, <2>2 DEF HoldersTypeOK
  <1>8. \A g \in Holders : /\ g # h => obFrames'[g] = obFrames[g] /\ stamp'[g] = stamp[g]
                           /\ g = h => obFrames'[g] \in {obFrames[g], p} /\ stamp'[g] = t
    BY <1>1, <1>5
  <1>9. \A g \in Holders : HolderQueue(obFrames'[g], stamp'[g])
    <2> TAKE g \in Holders
    <2>1. CASE g = h
      BY <1>3, <1>4, <1>8, <2>1
    <2>2. CASE g # h
      <3>1. HolderQueue(obFrames[g], stamp[g])
        BY <1>1, QueueInvOf
      <3> QED BY <1>8, <2>2, <3>1
    <2> QED BY <2>1, <2>2
  <1>10. QueueInv'
    <2>1. obFrames' \in [Holders -> Seq(0..MaxStamp)]
      BY <1>7 DEF HoldersTypeOK
    <2>2. \A g \in Holders : DOMAIN obFrames'[g] = 1..Len(obFrames'[g])
      BY <2>1, ElementFacts
    <2> QED BY <1>9, <2>2 DEF QueueInv, QueuesAreOrdered, HolderQueue, Increasing, Upto
  <1> QED BY <1>3, <1>7, <1>8, <1>10

LEMMA GetFrameKeepsQueues ==
  ASSUME HoldersTypeOK, QueueInv, NEW h \in Holders, GetFrame(h)
  PROVE  /\ HoldersTypeOK' /\ QueueInv'
         /\ \A g \in Holders : g # h => obFrames'[g] = obFrames[g]
  <1>1. /\ obFrames \in [Holders -> Seq(0..MaxStamp)] /\ obFrames[h] # <<>>
        /\ stamp \in [Holders -> -1..MaxStamp]
    BY DEF HoldersTypeOK, GetFrame
  <1>2. \A g \in Holders : HolderQueue(obFrames[g], stamp[g])
    BY <1>1, QueueInvOf
  <1>3. HolderQueue(Tail(obFrames[h]), stamp[h])
    BY <1>1, <1>2, TakenQueue
  <1>4. \A g \in Holders : /\ g # h => obFrames'[g] = obFrames[g]
                           /\ g = h => obFrames'[g] = Tail(obFrames[g])
    BY <1>1 DEF GetFrame
  <1>5. obFrames' \in [Holders -> Seq(0..MaxStamp)]
    <2>1. Tail(obFrames[h]) \in Seq(0..MaxStamp)
      BY <1>3 DEF HolderQueue
    <2> QED BY <1>1, <2>1 DEF GetFrame
  <1>6. HoldersTypeOK'
    BY <1>5 DEF GetFrame, HoldersTypeOK
  <1>7. stamp' = stamp /\ \A g \in Holders : HolderQueue(obFrames'[g], stamp[g])
    BY <1>2, <1>3, <1>4 DEF GetFrame
  <1>8. \A g \in Holders : DOMAIN obFrames'[g] = 1..Len(obFrames'[g])
    BY <1>5, ElementFacts
  <1>9. QueueInv'
    BY <1>7, <1>8 DEF QueueInv, QueuesAreOrdered, HolderQueue, Increasing, Upto
  <1> QED BY <1>4, <1>6, <1>9

-----------------------------------------------------------------------------
(* The state of the main thread *)

\* The holders are those of startOrder, depth before color, and the index of a
\* device is its place there.
HoldersOf(n) ==
    /\ 2 * n - 1 <= Len(holderList) =>
         holderList[2 * n - 1] = <<startOrder[n], "depth">> /\ deviceIndex[startOrder[n]] = n - 1
    /\ 2 * n <= Len(holderList) => holderList[2 * n] = <<startOrder[n], "color">>

StartInv ==
    /\ N \in 1..MaxDevices
    /\ \A i, j \in 1..N : startOrder[i] = startOrder[j] => i = j
    /\ pc \in {"create", "start", "mark", "run", "pairing"} =>
         Len(holderList) <= 2 * N /\ \A n \in 1..N : HoldersOf(n)
    /\ pc \in {"start", "mark"} => holderList # <<>>
    /\ pc \in {"run", "pairing"} => Len(holderList) = 2 * N

\* Where getFramePairs is: what it has looked at and not yet taken is there.
TurnInv ==
    /\ pc # "pairing" => turn = "no"
    /\ k >= 1 /\ (turn = "no" => k = 1)
    /\ turn = "checking" =>
         k <= Len(holderList) + 1 /\ \A i \in 1..(k - 1) : obFrames[holderList[i]] # <<>>
    /\ turn \in {"sort", "ref"} => k = 1
    /\ turn \in {"ref", "compare", "take", "pairs"} => order \in Orders
    /\ turn \in {"compare", "take"} => k <= Len(holderList)
    /\ NoNullFront

IInv == TypeOK /\ QueueInv /\ StartInv /\ TurnInv

mainState == <<pairingVars, mainVars>>

LEMMA DevicesCount == MaxDevices \in Nat
  BY DevicesAssumption, FS_CardinalityType DEF MaxDevices

LEMMA HolderFacts ==
  ASSUME NEW h \in Holders
  PROVE  h = <<h[1], h[2]>> /\ h[1] \in Devices /\ h[2] \in {"depth", "color"}
  BY HoldersAssumption

\* An order of the holders: a sequence of the same holders, each once.
LEMMA OrderFacts ==
  ASSUME holderList \in Seq(Holders), NEW o \in Orders
  PROVE  /\ o \in Seq(Holders) /\ Len(o) = Len(holderList) /\ Len(o) \in Nat
         /\ \A i \in 1..Len(o) : o[i] \in Holders
         /\ \A i \in 1..Len(o) : \E j \in 1..Len(o) : o[i] = holderList[j]
         /\ \A i \in 1..Len(o) : \E j \in 1..Len(o) : o[j] = holderList[i]
         /\ \A i, j \in 1..Len(o) : o[i] = o[j] => i = j
  <1>1. DOMAIN holderList = 1..Len(holderList) /\ Len(holderList) \in Nat
    BY ElementFacts
  <1>2. o \in [1..Len(holderList) -> Holders]
    BY <1>1 DEF Orders
  <1>3. o \in Seq(Holders) /\ Len(o) = Len(holderList)
    BY <1>1, <1>2
  <1> QED BY <1>1, <1>2, <1>3 DEF Orders

\* The queues may get longer but none gets empty: nothing else changes.
LEMMA FrameArrivesKeepsInv ==
  ASSUME IInv, NEW h \in Holders, FrameArrives(h)
  PROVE  IInv'
  <1>1. PICK t \in 0..MaxStampWith[N] : ProcessFrame(h, t) /\ UNCHANGED <<pairingVars, mainVars>>
    BY DEF FrameArrives
  <1>2. t \in 0..MaxStamp
    <2>1. MaxStampWith[N] \in 0..MaxStamp
      BY MaxStampWithAssumption DEF IInv, StartInv
    <2> QED BY <2>1, MaxStampAssumption
  <1>3. /\ HoldersTypeOK' /\ QueueInv'
        /\ \A g \in Holders : obFrames'[g] = obFrames[g] \/ obFrames'[g] # <<>>
    BY <1>1, <1>2, ProcessFrameKeepsQueues DEF IInv, TypeOK
  <1>4. TypeOK' /\ StartInv'
    BY <1>1, <1>3 DEF IInv, TypeOK, PairingTypeOK, StartInv, HoldersOf, N, pairingVars, mainVars
  <1>5. NoNullFront'
    <2>1. holderList \in Seq(Holders) /\ order \in Seq(Holders)
      BY DEF IInv, TypeOK, PairingTypeOK
    <2>2. ASSUME turn \in {"sort", "ref"}, NEW i \in DOMAIN holderList
          PROVE  obFrames'[holderList[i]] # <<>>
      <3>1. holderList[i] \in Holders
        BY <2>1, ElementFacts
      <3>2. obFrames[holderList[i]] # <<>>
        BY <2>2 DEF IInv, TurnInv, NoNullFront
      <3> QED BY <1>3, <3>1, <3>2
    <2>3. ASSUME turn \in {"compare", "take"}, NEW i \in k..Len(order)
          PROVE  obFrames'[order[i]] # <<>>
      <3>1. order[i] \in Holders
        <4>1. i \in 1..Len(order)
          BY <2>1, ElementFacts DEF IInv, TypeOK, PairingTypeOK, TurnInv
        <4> QED BY <2>1, <4>1, ElementFacts
      <3>2. obFrames[order[i]] # <<>>
        BY <2>3 DEF IInv, TurnInv, NoNullFront
      <3> QED BY <1>3, <3>1, <3>2
    <2> QED BY <1>1, <2>2, <2>3 DEF NoNullFront, pairingVars
  <1>6. TurnInv'
    <2>1. UNCHANGED <<pc, turn, k, holderList, order>>
      BY <1>1 DEF pairingVars, mainVars
    <2>2. ASSUME turn = "checking", NEW i \in 1..(k - 1)
          PROVE  obFrames'[holderList[i]] # <<>>
      <3>1. i \in 1..Len(holderList) /\ holderList \in Seq(Holders)
        BY <2>2, ElementFacts DEF IInv, TypeOK, PairingTypeOK, TurnInv
      <3>2. holderList[i] \in Holders
        BY <3>1, ElementFacts
      <3>3. obFrames[holderList[i]] # <<>>
        BY <2>2 DEF IInv, TurnInv
      <3> QED BY <1>3, <3>2, <3>3
    <2> QED BY <1>5, <2>1, <2>2 DEF IInv, TurnInv, Orders
  <1> QED BY <1>3, <1>4, <1>6 DEF IInv

-----------------------------------------------------------------------------
(* The main thread outside of getFramePairs *)

LEMMA InitIInv == Init => IInv
  <1> SUFFICES ASSUME Init PROVE IInv
    OBVIOUS
  <1>1. PICK connected \in (SUBSET Devices) \ {{}} :
            primary \in SUBSET connected /\ startOrder \in StartOrders(connected, primary)
    BY DEF Init
  <1>2. /\ startOrder \in [1..Cardinality(connected) -> connected]
        /\ \A i, j \in DOMAIN startOrder : startOrder[i] = startOrder[j] => i = j
    BY <1>1 DEF StartOrders, Listing
  <1>3. Cardinality(connected) \in 1..MaxDevices
    <2>1. IsFiniteSet(connected) /\ Cardinality(connected) <= Cardinality(Devices)
      BY <1>1, DevicesAssumption, FS_Subset
    <2>2. Cardinality(connected) \in Nat /\ Cardinality(connected) # 0
      BY <1>1, <2>1, FS_CardinalityType, FS_EmptySet
    <2> QED BY <2>1, <2>2, DevicesCount DEF MaxDevices
  <1>4. startOrder \in Seq(Devices) /\ N = Cardinality(connected)
    <2>1. startOrder \in [1..Cardinality(connected) -> Devices] /\ Cardinality(connected) \in Nat
      BY <1>1, <1>2, <1>3, DevicesCount
    <2> QED BY <2>1 DEF N
  <1>5. HoldersTypeOK /\ QueueInv
    <2>1. 0 \in Int /\ -1 \in -1..MaxStamp
      BY MaxStampAssumption
    <2>2. HoldersTypeOK
      BY <2>1 DEF Init, HoldersInit, HoldersTypeOK
    <2>3. \A h \in Holders : obFrames[h] = <<>>
      BY DEF Init, HoldersInit
    <2> QED BY <2>2, <2>3, MaxFrameSizeAssumption DEF QueueInv, QueuesAreOrdered
  <1>6. PairingTypeOK
    <2>1. 0 \in Indices
      BY <1>3, DevicesCount DEF Indices, MaxDevices
    <2>2. 0 \in 0..MaxStamp
      BY MaxStampAssumption
    <2>3. /\ holderList \in Seq(Holders) /\ order \in Seq(Holders)
          /\ deviceIndex \in [Devices -> Indices]
          /\ taken \in [Slots -> Frame \cup {NoFrame}]
      BY <2>1 DEF Init, PairingInit, NoFrames
    <2>4. /\ destroy \in BOOLEAN /\ turn \in Turns /\ k \in Nat
          /\ refTsp \in 0..MaxStamp /\ cmp \in 0..MaxStamp /\ refHalfTspGap \in Nat
      BY <2>2 DEF Init, PairingInit, Turns
    <2> QED BY <2>3, <2>4 DEF PairingTypeOK
  <1>7. TypeOK
    <2>1. groups \in [GroupIds -> (Frame \cup {NoFrame}) \X (Frame \cup {NoFrame})]
      BY DEF Init, NoGroup
    <2> QED BY <1>1, <1>4, <1>5, <1>6, <2>1 DEF Init, TypeOK
  <1>8. StartInv
    <2>1. holderList = <<>> /\ pc = "create"
      BY DEF Init, PairingInit
    <2>2. \A n \in 1..N : HoldersOf(n)
      BY <1>3, <1>4, <2>1 DEF HoldersOf
    <2> QED BY <1>2, <1>3, <1>4, <2>1, <2>2 DEF StartInv
  <1>9. TurnInv
    BY DEF Init, PairingInit, TurnInv, NoNullFront
  <1> QED BY <1>5, <1>7, <1>8, <1>9 DEF IInv

\* The index given to the n-th device is its place.
LEMMA StartIndexIs ==
  ASSUME TypeOK, NEW n \in Int
  PROVE  StartIndex(n) = n - 1
  <1>1. IsFiniteSet(primary)
    BY DevicesAssumption, FS_Subset DEF TypeOK
  <1>2. Cardinality(primary) \in Nat /\ N \in Nat
    BY <1>1, FS_CardinalityType DEF TypeOK, N
  <1>3. Secondaries \in Int
    BY <1>2 DEF Secondaries
  <1> QED BY <1>3 DEF StartIndex

LEMMA HalfFacts ==
  ASSUME NEW x \in Nat
  PROVE  /\ x \div 2 \in Nat /\ x % 2 \in {0, 1}
         /\ x = 2 * (x \div 2) + (x % 2)
  OBVIOUS

LEMMA CreateHolderKeepsInv ==
  ASSUME IInv, CreateHolder
  PROVE  IInv'
  <1> DEFINE L == Len(holderList)
             r == L % 2
             n == L \div 2 + 1
             d == startOrder[n]
             h == <<d, IF r = 0 THEN "depth" ELSE "color">>
  <1>1. /\ L \in Nat /\ N \in Nat /\ L < 2 * N
        /\ r \in {0, 1} /\ L = 2 * (n - 1) + r /\ n \in 1..N
        /\ N <= MaxDevices
    <2>1. L \in Nat /\ N \in 1..MaxDevices /\ L < 2 * N
      BY ElementFacts, DevicesCount DEF CreateHolder, Started, IInv, StartInv, TypeOK, PairingTypeOK
    <2>2. L \div 2 \in Nat /\ r \in {0, 1} /\ L = 2 * (L \div 2) + r
      BY <2>1, HalfFacts
    <2> HIDE DEF L, r
    <2>3. n \in Nat /\ n - 1 = L \div 2
      BY <2>2
    <2> HIDE DEF n
    <2> QED BY <2>1, <2>2, <2>3, DevicesCount
  <1>2. startOrder \in Seq(Devices) /\ N = Len(startOrder)
    BY DEF IInv, TypeOK, N
  <1>5. /\ holderList' = Append(holderList, h) /\ pc = "create" /\ pc' = "start"
        /\ deviceIndex' = [deviceIndex EXCEPT ![d] = StartIndex(n)]
        /\ UNCHANGED <<holderVars, destroy, turn, k, order, refTsp, refHalfTspGap,
                       cmp, taken, primary, startOrder, groups>>
    BY DEF CreateHolder, Started, split
  <1> HIDE DEF n, r, L
  <1>3. d \in Devices
    BY <1>1, <1>2, ElementFacts
  <1>4. h \in Holders
    BY <1>3, HoldersAssumption
  <1>6. StartIndex(n) = n - 1 /\ n - 1 \in Indices
    <2>1. n \in Int /\ n - 1 \in 0 .. MaxDevices - 1
      BY <1>1, DevicesCount
    <2> QED BY <2>1, StartIndexIs DEF IInv, Indices, MaxDevices
  <1> HIDE DEF d, h
  <1>7. /\ holderList' \in Seq(Holders) /\ holderList' # <<>>
        /\ Len(holderList') = L + 1
        /\ \A i \in 1..L : holderList'[i] = holderList[i]
        /\ holderList'[L + 1] = h
    BY <1>4, <1>5, AppendFacts DEF IInv, TypeOK, PairingTypeOK, L
  <1>8. deviceIndex' \in [Devices -> Indices]
    BY <1>5, <1>6 DEF IInv, TypeOK, PairingTypeOK
  <1>9. TypeOK' /\ QueueInv'
    BY <1>5, <1>7, <1>8 DEF IInv, TypeOK, HoldersTypeOK, PairingTypeOK, QueueInv,
                            QueuesAreOrdered, holderVars
  <1>10. \A m \in 1..N : startOrder[m] \in Devices /\ (startOrder[m] = d => m = n)
    <2> TAKE m \in 1..N
    <2>1. startOrder[m] \in Devices
      BY <1>2, ElementFacts
    <2> QED BY <1>1, <2>1 DEF IInv, StartInv, d
  <1>11. \A m \in 1..N : HoldersOf(m)'
    <2> TAKE m \in 1..N
    <2>1. HoldersOf(m) /\ m \in Nat
      BY <1>1, <1>5 DEF IInv, StartInv
    <2>2. deviceIndex'[startOrder[m]] = IF m = n THEN n - 1 ELSE deviceIndex[startOrder[m]]
      BY <1>3, <1>5, <1>6, <1>10 DEF IInv, TypeOK, PairingTypeOK, d
    <2>3. CASE m = n
      <3>1. CASE r = 0
        <4>1. L + 1 = 2 * m - 1
          BY <1>1, <2>3, <3>1
        <4> QED BY <1>1, <1>5, <1>7, <2>2, <2>3, <3>1, <4>1 DEF HoldersOf, h, d
      <3>2. CASE r = 1
        <4>1. L + 1 = 2 * m /\ 2 * m - 1 <= L /\ 2 * m - 1 \in 1..L
          BY <1>1, <2>1, <2>3, <3>2
        <4> QED BY <1>1, <1>5, <1>7, <2>1, <2>2, <2>3, <3>2, <4>1 DEF HoldersOf, h, d, L
      <3> QED BY <1>1, <3>1, <3>2
    <2>4. CASE m # n
      <3>1. 2 * m - 1 <= L + 1 => 2 * m - 1 <= L /\ 2 * m - 1 \in 1..L
        BY <1>1, <2>1, <2>4
      <3>2. 2 * m <= L + 1 => 2 * m <= L /\ 2 * m \in 1..L
        BY <1>1, <2>1, <2>4
      <3> QED BY <1>5, <1>7, <2>1, <2>2, <2>4, <3>1, <3>2 DEF HoldersOf, L
    <2> QED BY <2>3, <2>4
  <1>12. StartInv'
    BY <1>1, <1>5, <1>7, <1>11 DEF IInv, StartInv, N
  <1>13. TurnInv'
    BY <1>5 DEF IInv, TurnInv, NoNullFront, holderVars
  <1> QED BY <1>9, <1>12, <1>13 DEF IInv

\* Steps that leave the queues, the orders and the groups alone.
LEMMA QueueInvKept ==
  ASSUME QueueInv, UNCHANGED <<obFrames, stamp>>
  PROVE  QueueInv'
  BY DEF QueueInv, QueuesAreOrdered

LEMMA StartStreamKeepsInv ==
  ASSUME IInv, StartStream \/ StartStreamFails \/ StartStreamReturns
  PROVE  IInv'
  <1>1. Newest \in Holders
    <2>1. Len(holderList) \in 1..Len(holderList)
      BY ElementFacts DEF IInv, TypeOK, PairingTypeOK, StartInv, StartStream, StartStreamFails,
                          StartStreamReturns
    <2> QED BY <2>1, ElementFacts DEF IInv, TypeOK, PairingTypeOK, Newest, Started
  <1>2. /\ pc \in {"start", "mark"} /\ pc' \in {"mark", "create"}
        /\ UNCHANGED <<obFrames, stamp, dropped, pairingVars, primary, startOrder, groups>>
    BY DEF StartStream, StartPipeline, StartStreamFails, StartStreamReturns, MarkStarted,
           holderVars, split
  <1>3. startStream' \in [Holders -> BOOLEAN] /\ running' \in [Holders -> BOOLEAN]
    BY <1>1 DEF StartStream, StartPipeline, StartStreamFails, StartStreamReturns, MarkStarted,
                holderVars, IInv, TypeOK, HoldersTypeOK
  <1>4. TypeOK'
    BY <1>2, <1>3 DEF IInv, TypeOK, HoldersTypeOK, PairingTypeOK, pairingVars
  <1>5. pc' = "mark" => holderList # <<>>
    BY <1>2 DEF IInv, StartInv
  <1>6. StartInv'
    BY <1>2, <1>5 DEF IInv, StartInv, HoldersOf, N, pairingVars
  <1>7. TurnInv'
    BY <1>2 DEF IInv, TurnInv, NoNullFront, Orders, pairingVars
  <1> QED BY <1>2, <1>4, <1>6, <1>7, QueueInvKept DEF IInv

LEMMA LoopKeepsInv ==
  ASSUME IInv, EnterLoop \/ RunWindow \/ PressEsc
  PROVE  IInv'
  <1>1. CASE EnterLoop
    <2>1. /\ pc = "create" /\ pc' = "run" /\ Len(holderList) = 2 * N
          /\ UNCHANGED <<holderVars, pairingVars, primary, startOrder, groups>>
      BY <1>1 DEF EnterLoop, Started, split
    <2>2. TypeOK' /\ QueueInv'
      BY <2>1 DEF IInv, TypeOK, HoldersTypeOK, PairingTypeOK, holderVars, pairingVars, QueueInv,
                  QueuesAreOrdered
    <2>3. StartInv' /\ TurnInv'
      BY <2>1 DEF IInv, StartInv, HoldersOf, N, TurnInv, NoNullFront, Orders, holderVars, pairingVars
    <2> QED BY <2>2, <2>3 DEF IInv
  <1>2. CASE RunWindow
    <2>1. /\ pc = "run" /\ pc' = "pairing" /\ turn' = "checking" /\ dropped' = {} /\ turn = "no"
          /\ UNCHANGED <<startStream, running, obFrames, stamp, k, order, refTsp, refHalfTspGap,
                         cmp, taken, holderList, deviceIndex, destroy, primary, startOrder, groups>>
      BY <1>2 DEF RunWindow, BeginPairing, split, fixed
    <2>2. TypeOK' /\ QueueInv'
      BY <2>1 DEF IInv, TypeOK, HoldersTypeOK, PairingTypeOK, Turns, QueueInv, QueuesAreOrdered
    <2>3. StartInv'
      BY <2>1 DEF IInv, StartInv, HoldersOf, N
    <2>4. TurnInv'
      <3>1. holderList \in Seq(Holders)
        BY DEF IInv, TypeOK, PairingTypeOK
      <3>2. Len(holderList) \in Nat
        BY <3>1, ElementFacts
      <3>3. k = 1
        BY <2>1 DEF IInv, TurnInv
      <3> QED BY <2>1, <3>2, <3>3 DEF TurnInv, NoNullFront
    <2> QED BY <2>2, <2>3, <2>4 DEF IInv
  <1>3. CASE PressEsc
    <2>1. /\ pc = "run" /\ pc' = "stop" /\ destroy' = TRUE
          /\ groups' = [g \in GroupIds |-> NoGroup]
          /\ UNCHANGED <<holderVars, holderList, deviceIndex, turn, k, order, refTsp,
                         refHalfTspGap, cmp, taken, primary, startOrder>>
      BY <1>3 DEF PressEsc, split
    <2>2. groups' \in [GroupIds -> (Frame \cup {NoFrame}) \X (Frame \cup {NoFrame})]
      BY <2>1 DEF NoGroup
    <2>3. TypeOK' /\ QueueInv'
      BY <2>1, <2>2 DEF IInv, TypeOK, HoldersTypeOK, PairingTypeOK, holderVars, QueueInv,
                        QueuesAreOrdered
    <2>4. StartInv' /\ TurnInv'
      BY <2>1 DEF IInv, StartInv, N, TurnInv, NoNullFront, Orders, holderVars
    <2> QED BY <2>3, <2>4 DEF IInv
  <1> QED BY <1>1, <1>2, <1>3

LEMMA StopStreamsKeepsInv ==
  ASSUME IInv, StopStreams
  PROVE  IInv'
  <1>1. /\ pc = "stop" /\ pc' \in {"stop", "done"}
        /\ UNCHANGED <<obFrames, stamp, dropped, deviceIndex, destroy, turn, k, order, refTsp,
                       refHalfTspGap, cmp, taken, primary, startOrder, groups>>
    BY DEF StopStreams, StopStream, split, holderVars
  <1>2. /\ holderList' \in Seq(Holders)
        /\ startStream' \in [Holders -> BOOLEAN] /\ running' \in [Holders -> BOOLEAN]
    <2>1. CASE holderList # <<>> /\ StopStream(Head(holderList)) /\ holderList' = Tail(holderList)
      <3>1. Head(holderList) \in Holders /\ Tail(holderList) \in Seq(Holders)
        BY <2>1, TailFacts DEF IInv, TypeOK, PairingTypeOK
      <3>2. startStream' \in [Holders -> BOOLEAN]
        BY <2>1, <3>1 DEF StopStream, IInv, TypeOK, HoldersTypeOK
      <3>3. PICK on \in {FALSE, running[Head(holderList)]} :
               running' = [running EXCEPT ![Head(holderList)] = on]
        BY <2>1 DEF StopStream
      <3>4. on \in BOOLEAN
        BY <3>1 DEF IInv, TypeOK, HoldersTypeOK
      <3>5. running' \in [Holders -> BOOLEAN]
        BY <3>3, <3>4 DEF IInv, TypeOK, HoldersTypeOK
      <3> QED BY <2>1, <3>1, <3>2, <3>5
    <2>2. CASE UNCHANGED <<holderVars, holderList>>
      BY <2>2 DEF holderVars, IInv, TypeOK, HoldersTypeOK, PairingTypeOK
    <2> QED BY <2>1, <2>2 DEF StopStreams
  <1>3. TypeOK'
    BY <1>1, <1>2 DEF IInv, TypeOK, HoldersTypeOK, PairingTypeOK
  <1>4. StartInv'
    BY <1>1 DEF IInv, StartInv, N
  <1>5. TurnInv'
    BY <1>1 DEF IInv, TurnInv, NoNullFront
  <1> QED BY <1>1, <1>3, <1>4, <1>5, QueueInvKept DEF IInv

-----------------------------------------------------------------------------
(* getFramePairs *)

\* It returns, to a window that shows what it showed or what it is given.
LEMMA ReturnKeepsInv ==
  ASSUME IInv, ReturnNothing, UNCHANGED holderVars,
         (pc = "pairing" /\ pc' = "run") \/ pc' = "failed",
         UNCHANGED <<primary, startOrder>>,
         groups' \in [GroupIds -> (Frame \cup {NoFrame}) \X (Frame \cup {NoFrame})]
  PROVE  IInv'
  <1>1. /\ turn' = "no" /\ k' = 1 /\ order' = <<>> /\ refTsp' = 0 /\ refHalfTspGap' = 0
        /\ cmp' = 0 /\ taken' = NoFrames
        /\ UNCHANGED <<holderList, deviceIndex, destroy>>
    BY DEF ReturnNothing, fixed
  <1>2. HoldersTypeOK' /\ QueueInv'
    BY DEF IInv, TypeOK, HoldersTypeOK, holderVars, QueueInv, QueuesAreOrdered
  <1>3. PairingTypeOK'
    <2>1. 0 \in 0..MaxStamp
      BY MaxStampAssumption
    <2>2. taken' \in [Slots -> Frame \cup {NoFrame}] /\ order' \in Seq(Holders)
      BY <1>1 DEF NoFrames
    <2> QED BY <1>1, <2>1, <2>2 DEF IInv, TypeOK, PairingTypeOK, Turns
  <1>4. TypeOK'
    BY <1>2, <1>3 DEF IInv, TypeOK
  <1>5. StartInv'
    BY <1>1 DEF IInv, StartInv, HoldersOf, N
  <1>6. TurnInv'
    BY <1>1 DEF TurnInv, NoNullFront
  <1> QED BY <1>2, <1>4, <1>5, <1>6 DEF IInv

\* A step within getFramePairs that leaves queues and fixed alone.
LEMMA StayKeepsInv ==
  ASSUME IInv, pc = "pairing", pc' = pc, UNCHANGED holderVars, UNCHANGED fixed,
         UNCHANGED <<split, groups>>, PairingTypeOK', TurnInv'
  PROVE  IInv'
  <1>1. TypeOK' /\ QueueInv'
    BY DEF IInv, TypeOK, HoldersTypeOK, holderVars, split, QueueInv, QueuesAreOrdered
  <1>2. StartInv'
    BY DEF IInv, StartInv, HoldersOf, N, split, fixed
  <1> QED BY <1>1, <1>2 DEF IInv

\* In getFramePairs there are holders.
LEMMA ListFacts ==
  ASSUME IInv, pc = "pairing"
  PROVE  /\ holderList \in Seq(Holders) /\ Len(holderList) \in Nat \ {0}
         /\ DOMAIN holderList = 1..Len(holderList)
         /\ \A i \in 1..Len(holderList) : holderList[i] \in Holders
  <1>1. holderList \in Seq(Holders)
    BY DEF IInv, TypeOK, PairingTypeOK
  <1>2. Len(holderList) = 2 * N /\ N \in 1..MaxDevices
    BY DEF IInv, StartInv
  <1>3. Len(holderList) # 0
    BY <1>2, DevicesCount
  <1> QED BY <1>1, <1>3, ElementFacts

LEMMA CheckKeepsInv ==
  ASSUME IInv, Pairing, HolderReady \/ HolderNotReady \/ AllReady
  PROVE  IInv'
  <1> USE ListFacts
  <1>1. pc = "pairing" /\ turn = "checking" /\ UNCHANGED <<split, groups>>
    BY DEF Pairing, HolderReady, HolderNotReady, AllReady
  <1>2. /\ k \in Nat /\ k >= 1 /\ k <= Len(holderList) + 1
        /\ \A i \in 1..(k - 1) : obFrames[holderList[i]] # <<>>
    BY <1>1 DEF IInv, TypeOK, PairingTypeOK, TurnInv
  <1>3. CASE HolderReady
    <2>1. /\ k <= Len(holderList) /\ obFrames[holderList[k]] # <<>> /\ k' = k + 1 /\ pc' = pc
          /\ UNCHANGED holderVars /\ UNCHANGED fixed
          /\ UNCHANGED <<turn, order, refTsp, refHalfTspGap, cmp, taken>>
      BY <1>1, <1>3 DEF HolderReady, Pairing
    <2>2. PairingTypeOK'
      BY <2>1 DEF IInv, TypeOK, PairingTypeOK, fixed
    <2>3. \A i \in 1..(k' - 1) : obFrames'[holderList'[i]] # <<>>
      <3> SUFFICES ASSUME NEW i \in 1..k PROVE obFrames[holderList[i]] # <<>>
        BY <1>2, <2>1 DEF holderVars, fixed
      <3>1. i = k \/ i \in 1..(k - 1)
        BY <1>2
      <3> QED BY <1>2, <2>1, <3>1
    <2>4. TurnInv'
      BY <1>1, <1>2, <2>1, <2>3 DEF TurnInv, NoNullFront, fixed
    <2> QED BY <1>1, <2>1, <2>2, <2>4, StayKeepsInv
  <1>4. CASE HolderNotReady
    <2>1. /\ k' = 1 /\ pc' = pc
          /\ UNCHANGED holderVars /\ UNCHANGED fixed
          /\ UNCHANGED <<turn, order, refTsp, refHalfTspGap, cmp, taken>>
      BY <1>1, <1>4 DEF HolderNotReady, Pairing
    <2>2. PairingTypeOK'
      BY <2>1 DEF IInv, TypeOK, PairingTypeOK, fixed
    <2>3. TurnInv'
      BY <1>1, <2>1 DEF TurnInv, NoNullFront, fixed
    <2> QED BY <1>1, <2>1, <2>2, <2>3, StayKeepsInv
  <1>5. CASE AllReady
    <2>1. /\ k > Len(holderList) /\ turn' = "sort" /\ k' = 1 /\ pc' = pc
          /\ UNCHANGED holderVars /\ UNCHANGED fixed
          /\ UNCHANGED <<order, refTsp, refHalfTspGap, cmp, taken>>
      BY <1>1, <1>5 DEF AllReady, Pairing
    <2>2. PairingTypeOK'
      BY <2>1 DEF IInv, TypeOK, PairingTypeOK, fixed, Turns
    <2>3. \A i \in 1..Len(holderList) : obFrames[holderList[i]] # <<>>
      <3>1. k - 1 = Len(holderList)
        BY <1>1, <1>2, <2>1
      <3> QED BY <1>2, <3>1
    <2>4. TurnInv'
      BY <1>1, <2>1, <2>3 DEF TurnInv, NoNullFront, holderVars, fixed
    <2> QED BY <1>1, <2>1, <2>2, <2>4, StayKeepsInv
  <1> QED BY <1>3, <1>4, <1>5

\* The front of a queue that is not empty.
LEMMA FrontFacts ==
  ASSUME IInv, NEW h \in Holders, obFrames[h] # <<>>
  PROVE  FrontFrame(h) \in 0..MaxStamp /\ FrontFrame(h) = obFrames[h][1]
  BY TailFacts DEF IInv, TypeOK, HoldersTypeOK, FrontFrame

\* What is not taken yet is there.
LEMMA WaitingFacts ==
  ASSUME IInv, pc = "pairing", turn \in {"compare", "take"}
  PROVE  /\ order \in Orders /\ order \in Seq(Holders) /\ Len(order) = Len(holderList)
         /\ k \in 1..Len(order) /\ order[k] \in Holders
         /\ \A i \in k..Len(order) : obFrames[order[i]] # <<>>
  <1>1. order \in Orders /\ k \in Nat /\ k >= 1 /\ k <= Len(holderList)
    BY DEF IInv, TypeOK, PairingTypeOK, TurnInv
  <1>2. /\ order \in Seq(Holders) /\ Len(order) = Len(holderList)
        /\ \A i \in 1..Len(order) : order[i] \in Holders
    BY <1>1, ListFacts, OrderFacts
  <1>3. k \in 1..Len(order)
    BY <1>1, <1>2, ListFacts
  <1>4. \A i \in k..Len(order) : obFrames[order[i]] # <<>>
    BY DEF IInv, TurnInv, NoNullFront
  <1> QED BY <1>1, <1>2, <1>3, <1>4

LEMMA SortKeepsInv ==
  ASSUME IInv, Pairing, SortFrameMap \/ TakeReference
  PROVE  IInv'
  <1> USE ListFacts
  <1>1. pc = "pairing" /\ UNCHANGED <<split, groups>>
    BY DEF Pairing
  <1>2. CASE SortFrameMap
    <2>1. /\ order' \in Orders /\ turn = "sort" /\ turn' = "ref" /\ pc' = pc
          /\ UNCHANGED holderVars /\ UNCHANGED fixed
          /\ UNCHANGED <<k, refTsp, refHalfTspGap, cmp, taken>>
      BY <1>1, <1>2 DEF SortFrameMap, Pairing
    <2>2. PairingTypeOK'
      <3>1. order' \in Seq(Holders)
        BY <1>1, <2>1, OrderFacts
      <3> QED BY <2>1, <3>1 DEF IInv, TypeOK, PairingTypeOK, fixed, Turns
    <2>3. TurnInv'
      BY <1>1, <2>1 DEF IInv, TurnInv, NoNullFront, Orders, fixed, holderVars
    <2> QED BY <1>1, <2>1, <2>2, <2>3, StayKeepsInv
  <1>3. CASE TakeReference
    <2>1. /\ turn = "ref" /\ turn' = "compare" /\ pc' = pc
          /\ refTsp' = FrontFrame(order[1]) /\ refHalfTspGap' = HalfTspGap[order[1]]
          /\ UNCHANGED holderVars /\ UNCHANGED fixed /\ UNCHANGED <<k, order, cmp, taken>>
      BY <1>1, <1>3 DEF TakeReference, Pairing
    <2>2. /\ order \in Orders /\ k = 1
          /\ \A i \in 1..Len(holderList) : obFrames[holderList[i]] # <<>>
      BY <1>1, <2>1 DEF IInv, TurnInv, NoNullFront
    <2>3. /\ Len(order) = Len(holderList)
          /\ \A i \in 1..Len(order) : order[i] \in Holders
          /\ \A i \in 1..Len(order) : \E j \in 1..Len(order) : order[i] = holderList[j]
      BY <1>1, <2>2, OrderFacts
    <2>4. \A i \in 1..Len(order) : order[i] \in Holders /\ obFrames[order[i]] # <<>>
      BY <2>2, <2>3
    <2>5. 1 \in 1..Len(order)
      BY <1>1, <2>3
    <2>6. PairingTypeOK'
      <3>1. refTsp' \in 0..MaxStamp
        BY <2>1, <2>4, <2>5, FrontFacts
      <3>2. refHalfTspGap' \in Nat
        BY <2>1, <2>4, <2>5, HalfTspGapAssumption
      <3> QED BY <2>1, <3>1, <3>2 DEF IInv, TypeOK, PairingTypeOK, fixed, Turns
    <2>7. TurnInv'
      BY <1>1, <2>1, <2>2, <2>3, <2>4 DEF TurnInv, NoNullFront, Orders, fixed, holderVars
    <2> QED BY <1>1, <2>1, <2>6, <2>7, StayKeepsInv
  <1> QED BY <1>2, <1>3

LEMMA CompareKeepsInv ==
  ASSUME IInv, Pairing, CompareFront, turn' # "no"
  PROVE  IInv'
  <1>1. /\ pc = "pairing" /\ pc' = pc /\ turn = "compare" /\ turn' = "take"
        /\ cmp' = FrontFrame(order[k]) /\ refHalfTspGap' = HalfTspGap[order[k]]
        /\ UNCHANGED holderVars /\ UNCHANGED fixed /\ UNCHANGED <<k, order, refTsp, taken>>
        /\ UNCHANGED <<split, groups>>
    BY DEF Pairing, CompareFront, ReturnNothing
  <1>2. order[k] \in Holders /\ obFrames[order[k]] # <<>>
    BY <1>1, WaitingFacts
  <1>3. PairingTypeOK'
    <2>1. cmp' \in 0..MaxStamp /\ refHalfTspGap' \in Nat
      BY <1>1, <1>2, FrontFacts, HalfTspGapAssumption
    <2> QED BY <1>1, <2>1 DEF IInv, TypeOK, PairingTypeOK, fixed, Turns
  <1>4. TurnInv'
    BY <1>1 DEF IInv, TurnInv, NoNullFront, Orders, fixed, holderVars
  <1> QED BY <1>1, <1>3, <1>4, StayKeepsInv

LEMMA TakeKeepsInv ==
  ASSUME IInv, Pairing, TakeFrame
  PROVE  IInv'
  <1> DEFINE h == order[k]
             slot == <<h[2], deviceIndex[h[1]]>>
             f == [dev |-> h[1], tsp |-> FrontFrame(h)]
  <1>1. /\ pc = "pairing" /\ pc' = pc /\ turn = "take" /\ GetFrame(h) /\ k' = k + 1
        /\ turn' = IF k = Len(holderList) THEN "pairs" ELSE "compare"
        /\ taken' = [taken EXCEPT ![slot] = f]
        /\ UNCHANGED fixed /\ UNCHANGED <<order, refTsp, refHalfTspGap, cmp>>
        /\ UNCHANGED <<split, groups>>
    BY DEF Pairing, TakeFrame
  <1>2. /\ order \in Orders /\ order \in Seq(Holders) /\ Len(order) = Len(holderList)
        /\ k \in 1..Len(order) /\ h \in Holders /\ Len(order) \in Nat
        /\ \A i \in k..Len(order) : obFrames[order[i]] # <<>>
        /\ \A i \in 1..Len(order) : order[i] \in Holders
        /\ \A i, j \in 1..Len(order) : order[i] = order[j] => i = j
    BY <1>1, WaitingFacts, ListFacts, OrderFacts
  <1>3. obFrames[h] # <<>>
    BY <1>2
  <1>4. slot \in Slots /\ f \in Frame
    BY <1>2, <1>3, HolderFacts, FrontFacts DEF IInv, TypeOK, PairingTypeOK, Slots, Frame
  <1> HIDE DEF slot, f
  <1>5. /\ HoldersTypeOK' /\ QueueInv'
        /\ \A g \in Holders : g # h => obFrames'[g] = obFrames[g]
    BY <1>1, <1>2, GetFrameKeepsQueues DEF IInv, TypeOK
  <1>6. PairingTypeOK'
    <2>1. taken' \in [Slots -> Frame \cup {NoFrame}]
      BY <1>1, <1>4 DEF IInv, TypeOK, PairingTypeOK
    <2>2. k' \in Nat /\ turn' \in Turns
      BY <1>1, <1>2 DEF Turns
    <2> QED BY <1>1, <2>1, <2>2 DEF IInv, TypeOK, PairingTypeOK, fixed
  <1>7. TypeOK' /\ StartInv'
    BY <1>1, <1>5, <1>6 DEF IInv, TypeOK, StartInv, HoldersOf, N, split, fixed
  <1>8. \A i \in (k + 1)..Len(order) : obFrames'[order[i]] # <<>>
    <2> TAKE i \in (k + 1)..Len(order)
    <2>1. i \in k..Len(order) /\ i \in 1..Len(order) /\ i # k
      BY <1>2
    <2>2. order[i] # h /\ order[i] \in Holders
      BY <1>2, <2>1
    <2> QED BY <1>2, <1>5, <2>1, <2>2
  <1>9. TurnInv'
    <2>1. turn' = "compare" => k + 1 <= Len(holderList)
      BY <1>1, <1>2
    <2>2. k' >= 1
      BY <1>1, <1>2
    <2>3. order' \in Orders' /\ pc' = "pairing" /\ k' = k + 1 /\ order' = order
      <3>1. holderList' = holderList /\ order' = order
        BY <1>1 DEF fixed
      <3>2. Orders' = Orders
        BY <3>1 DEF Orders
      <3> QED BY <1>1, <1>2, <3>1, <3>2
    <2>4. turn' \in {"compare", "pairs"} /\ Len(holderList') = Len(holderList)
      BY <1>1 DEF fixed
    <2>5. NoNullFront'
      BY <1>8, <2>3, <2>4 DEF NoNullFront
    <2> QED BY <2>1, <2>2, <2>3, <2>4, <2>5 DEF TurnInv
  <1> QED BY <1>5, <1>7, <1>9 DEF IInv

\* There is one index per device.
LEMMA PairsFit ==
  ASSUME IInv, turn = "pairs", pc = "pairing"
  PROVE  \A i \in DOMAIN FramePairs :
           i \in Indices /\ FramePairs[i] \in (Frame \cup {NoFrame}) \X (Frame \cup {NoFrame})
  <1> DEFINE D == {deviceIndex[h[1]] : h \in {holderList[i] : i \in DOMAIN holderList}}
  <1>1. D \in SUBSET Indices
    BY ListFacts, HolderFacts DEF IInv, TypeOK, PairingTypeOK
  <1>2. IsFiniteSet(Indices) /\ Cardinality(Indices) = MaxDevices
    <2>1. 0 \in Int /\ MaxDevices - 1 \in Int
      BY DevicesCount
    <2> QED BY <2>1, DevicesCount, FS_Interval DEF Indices, MaxDevices
  <1>3. Cardinality(D) \in Nat /\ Cardinality(D) <= MaxDevices
    BY <1>1, <1>2, FS_Subset, FS_CardinalityType
  <1>4. DepthHolders = Cardinality(D)
    BY DEF DepthHolders
  <1> HIDE DEF D
  <1>5. \A i \in 0 .. DepthHolders - 1 : i \in Indices
    BY <1>3, <1>4, DevicesCount DEF Indices, MaxDevices
  <1>6. \A i \in Indices : Pair(i) \in (Frame \cup {NoFrame}) \X (Frame \cup {NoFrame})
    BY DEF IInv, TypeOK, PairingTypeOK, Pair, Slots
  <1> QED BY <1>5, <1>6 DEF FramePairs

LEMMA PushKeepsInv ==
  ASSUME IInv, PushPairs
  PROVE  IInv'
  <1>1. /\ pc = "pairing" /\ pc' = "run" /\ turn = "pairs" /\ ReturnNothing
        /\ UNCHANGED holderVars /\ UNCHANGED <<primary, startOrder>>
        /\ groups' = [g \in GroupIds |-> IF g - 1 \in DOMAIN FramePairs
                                       THEN FramePairs[g - 1] ELSE groups[g]]
    BY DEF PushPairs, EndPairing, split
  <1>2. groups' \in [GroupIds -> (Frame \cup {NoFrame}) \X (Frame \cup {NoFrame})]
    BY <1>1, PairsFit DEF IInv, TypeOK
  <1> QED BY <1>1, <1>2, ReturnKeepsInv

LEMMA PairingKeepsInv ==
  ASSUME IInv, Pairing
  PROVE  IInv'
  <1>1. /\ pc = "pairing" /\ PairingStep /\ (turn' = "no" => pc' = "run")
        /\ UNCHANGED <<primary, startOrder, groups>>
    BY DEF Pairing, split
  <1>2. groups' \in [GroupIds -> (Frame \cup {NoFrame}) \X (Frame \cup {NoFrame})]
    BY <1>1 DEF IInv, TypeOK
  <1>3. CASE TimeOut
    BY <1>1, <1>2, <1>3, ReturnKeepsInv DEF TimeOut, ReturnNothing
  <1>4. CASE CompareFront /\ turn' = "no"
    <2>1. ReturnNothing /\ UNCHANGED holderVars
      BY <1>4 DEF CompareFront
    <2> QED BY <1>1, <1>2, <1>4, <2>1, ReturnKeepsInv
  <1> QED BY <1>1, <1>3, <1>4, CheckKeepsInv, SortKeepsInv, CompareKeepsInv, TakeKeepsInv
     DEF PairingStep

LEMMA ThrowKeepsInv ==
  ASSUME IInv, MainThrows
  PROVE  IInv'
  <1>1. /\ ReturnNothing /\ UNCHANGED holderVars /\ pc' = "failed"
        /\ UNCHANGED <<primary, startOrder, groups>>
    BY DEF MainThrows, split
  <1>2. groups' \in [GroupIds -> (Frame \cup {NoFrame}) \X (Frame \cup {NoFrame})]
    BY <1>1 DEF IInv, TypeOK
  <1> QED BY <1>1, <1>2, ReturnKeepsInv

LEMMA NextIInv == IInv /\ [Next]_vars => IInv'
  <1> SUFFICES ASSUME IInv, [Next]_vars PROVE IInv'
    OBVIOUS
  <1>1. CASE UNCHANGED vars
    <2> USE <1>1 DEF vars, holderVars, pairingVars, mainVars, IInv
    <2>1. TypeOK'
      BY DEF TypeOK, HoldersTypeOK, PairingTypeOK
    <2>2. QueueInv'
      BY DEF QueueInv, QueuesAreOrdered
    <2>3. StartInv'
      BY DEF StartInv, HoldersOf, N
    <2>4. TurnInv'
      BY DEF TurnInv, NoNullFront, Orders
    <2> QED BY <2>1, <2>2, <2>3, <2>4
  <1> QED BY <1>1, FrameArrivesKeepsInv, CreateHolderKeepsInv, StartStreamKeepsInv, LoopKeepsInv,
             PairingKeepsInv, PushKeepsInv, StopStreamsKeepsInv, ThrowKeepsInv
     DEF Next, Main

\* The inductive invariant: types, queues, start-up and the loops' positions.
THEOREM Invariance == Spec => []IInv
  BY InitIInv, NextIInv, PTL DEF Spec

\* The types, for any cameras, queues and timestamps.
THEOREM Types == Spec => []TypeOK
  <1>1. IInv => TypeOK
    BY DEF IInv
  <1> QED BY <1>1, Invariance, PTL

\* The queues keep their limit and the order of delivery.
THEOREM QueuesTheorem == Spec => []QueuesAreOrdered
  <1>1. IInv => QueuesAreOrdered
    BY DEF IInv, QueueInv
  <1> QED BY <1>1, Invariance, PTL

\* The pairing never looks at a null front, whatever the SDK's threads do
\* between its looks.
THEOREM NoNullFrontTheorem == Spec => []NoNullFront
  <1>1. IInv => NoNullFront
    BY DEF IInv, TurnInv
  <1> QED BY <1>1, Invariance, PTL

-----------------------------------------------------------------------------
(* What is given back *)

Slot(h) == <<h[2], deviceIndex[h[1]]>>
Given(h) == taken[Slot(h)]
InReach(t) == \E g \in Holders : t <= HalfTspGap[g]

\* The frame taken from h: not before the reference and, unless the queue has
\* dropped frames in this turn, not too far after it.
Taken(h) ==
    /\ Given(h) \in Frame /\ Given(h).dev = h[1]
    /\ Given(h).tsp >= refTsp
    /\ h \notin dropped => InReach(Given(h).tsp - refTsp)

PairInv ==
    /\ turn \in {"compare", "take", "pairs"} =>
         \A j \in 1..Len(holderList) : j < k => Taken(order[j])
    /\ turn \in {"compare", "take"} => \E g \in Holders : refHalfTspGap = HalfTspGap[g]
    /\ turn = "take" =>
         /\ cmp >= refTsp /\ InReach(cmp - refTsp)
         /\ FrontFrame(order[k]) >= cmp
         /\ order[k] \notin dropped => FrontFrame(order[k]) = cmp
    /\ turn = "pairs" => k = Len(holderList) + 1

\* While the pairing runs, every holder is the depth or color holder of a
\* device, whose index is its place in startOrder.
LEMMA HolderAt ==
  ASSUME IInv, pc = "pairing", NEW i \in 1..Len(holderList)
  PROVE  \E n \in 1..N, s \in {"depth", "color"} :
           holderList[i] = <<startOrder[n], s>> /\ deviceIndex[startOrder[n]] = n - 1
  <1>1. Len(holderList) = 2 * N /\ N \in Nat /\ \A n \in 1..N : HoldersOf(n)
    BY DevicesCount DEF IInv, StartInv
  <1>2. i \in Nat /\ i >= 1 /\ i <= 2 * N
    BY <1>1
  <1>3. PICK m \in Nat : i = 2 * m \/ i = 2 * m + 1
    <2>1. i \div 2 \in Nat /\ i % 2 \in {0, 1} /\ i = 2 * (i \div 2) + (i % 2)
      BY <1>2, HalfFacts
    <2>2. i = 2 * (i \div 2) \/ i = 2 * (i \div 2) + 1
      BY <2>1
    <2> QED BY <2>1, <2>2
  <1>4. CASE i = 2 * m
    <2>1. m \in 1..N /\ 2 * m <= Len(holderList) /\ 2 * m - 1 <= Len(holderList)
      BY <1>1, <1>2, <1>4
    <2> QED BY <1>1, <1>4, <2>1 DEF HoldersOf
  <1>5. CASE i = 2 * m + 1
    <2>1. m + 1 \in 1..N /\ 2 * (m + 1) - 1 = i
      BY <1>1, <1>2, <1>5
    <2>2. HoldersOf(m + 1) /\ 2 * (m + 1) - 1 <= Len(holderList)
      BY <1>1, <1>2, <2>1
    <2> QED BY <2>1, <2>2 DEF HoldersOf
  <1> QED BY <1>3, <1>4, <1>5

LEMMA SlotsDiffer ==
  ASSUME IInv, pc = "pairing", NEW i \in 1..Len(holderList), NEW j \in 1..Len(holderList),
         Slot(holderList[i]) = Slot(holderList[j])
  PROVE  holderList[i] = holderList[j]
  <1>1. PICK n \in 1..N, s \in {"depth", "color"} :
            holderList[i] = <<startOrder[n], s>> /\ deviceIndex[startOrder[n]] = n - 1
    BY HolderAt
  <1>2. PICK m \in 1..N, r \in {"depth", "color"} :
            holderList[j] = <<startOrder[m], r>> /\ deviceIndex[startOrder[m]] = m - 1
    BY HolderAt
  <1>3. s = r /\ n - 1 = m - 1
    BY <1>1, <1>2 DEF Slot
  <1>4. n = m
    BY <1>3, DevicesCount DEF IInv, StartInv
  <1> QED BY <1>1, <1>2, <1>3, <1>4

LEMMA SlotsOfOrder ==
  ASSUME IInv, pc = "pairing", order \in Orders, NEW i \in 1..Len(holderList),
         NEW j \in 1..Len(holderList), i # j
  PROVE  Slot(order[i]) # Slot(order[j])
  <1>1. /\ Len(order) = Len(holderList)
        /\ \A a \in 1..Len(order) : \E b \in 1..Len(order) : order[a] = holderList[b]
        /\ \A a, b \in 1..Len(order) : order[a] = order[b] => a = b
    BY ListFacts, OrderFacts
  <1>2. PICK a \in 1..Len(holderList) : order[i] = holderList[a]
    BY <1>1
  <1>3. PICK b \in 1..Len(holderList) : order[j] = holderList[b]
    BY <1>1
  <1> QED BY <1>1, <1>2, <1>3, SlotsDiffer

LEMMA TwoAtLeast ==
  ASSUME NEW n \in Nat, n # 0, n # 1
  PROVE  1 \in 1..(n - 1) /\ 2 \in 1..n /\ 1 \in 1..n /\ 1 + 1 = 2
  OBVIOUS

\* A push changes a front only when the queue was full, and then to a newer one.
LEMMA PushedFront ==
  ASSUME IInv, NEW h \in Holders, NEW t \in 0..MaxStamp, ProcessFrame(h, t),
         NEW g \in Holders, obFrames[g] # <<>>
  PROVE  /\ FrontFrame(g)' >= FrontFrame(g) /\ dropped \subseteq dropped'
         /\ g \notin dropped' => FrontFrame(g)' = FrontFrame(g)
  <1> DEFINE s == obFrames[h]
             q == IF Len(s) >= MaxFrameSize THEN Tail(s) ELSE s
  <1>1. /\ obFrames \in [Holders -> Seq(0..MaxStamp)]
        /\ t > stamp[h] /\ s \in Seq(0..MaxStamp)
        /\ HolderQueue(s, stamp[h]) /\ stamp[h] \in -1..MaxStamp
        /\ FrontFrame(g) \in 0..MaxStamp /\ FrontFrame(g) = obFrames[g][1]
    BY QueueInvOf, FrontFacts DEF IInv, TypeOK, HoldersTypeOK, ProcessFrame
  <1>2. dropped \subseteq dropped'
    BY DEF ProcessFrame
  <1>3. CASE g # h \/ ~startStream[h]
    <2>1. obFrames'[g] = obFrames[g]
      BY <1>1, <1>3 DEF ProcessFrame
    <2> QED BY <1>1, <1>2, <2>1 DEF FrontFrame
  <1>4. CASE g = h /\ startStream[h]
    <2>1. /\ obFrames'[g] = Append(q, t)
          /\ Len(s) >= MaxFrameSize => g \in dropped'
      BY <1>1, <1>4 DEF ProcessFrame
    <2>2. Len(s) \in Nat /\ Len(s) # 0 /\ s # <<>> /\ s[1] \in 0..MaxStamp
      BY <1>1, <1>4, ElementFacts
    <2>3. CASE ~(Len(s) >= MaxFrameSize)
      <3>1. Append(q, t)[1] = s[1] /\ Append(q, t) \in Seq(0..MaxStamp) /\ Append(q, t) # <<>>
        BY <1>1, <2>2, <2>3, AppendFacts
      <3>2. FrontFrame(g)' = s[1]
        BY <2>1, <3>1, TailFacts DEF FrontFrame
      <3> QED BY <1>1, <1>2, <1>4, <3>2
    <2>4. CASE Len(s) >= MaxFrameSize
      <3>1. /\ Tail(s) \in Seq(0..MaxStamp) /\ Len(Tail(s)) = Len(s) - 1
            /\ \A i \in 1..(Len(s) - 1) : Tail(s)[i] = s[i + 1]
        BY <1>1, <2>2, TailFacts
      <3>2. /\ Append(Tail(s), t) \in Seq(0..MaxStamp) /\ Append(Tail(s), t) # <<>>
            /\ \A i \in 1..Len(Tail(s)) : Append(Tail(s), t)[i] = Tail(s)[i]
            /\ Append(Tail(s), t)[Len(Tail(s)) + 1] = t
        BY <3>1, AppendFacts
      <3>3. FrontFrame(g)' = Append(Tail(s), t)[1]
        BY <2>1, <2>4, <3>2, TailFacts DEF FrontFrame
      <3>4. CASE Len(s) = 1
        <4>1. Append(Tail(s), t)[1] = t
          BY <3>1, <3>2, <3>4
        <4>2. s[1] <= stamp[h]
          BY <1>1, <2>2 DEF HolderQueue, Upto
        <4>3. t >= s[1]
          BY <1>1, <2>2, <4>2, MaxStampAssumption
        <4> QED BY <1>1, <1>2, <1>4, <2>1, <2>4, <3>3, <4>1, <4>3
      <3>5. CASE Len(s) # 1
        <4>1. 1 \in 1..(Len(s) - 1) /\ 2 \in 1..Len(s) /\ 1 \in 1..Len(s) /\ 1 + 1 = 2
          BY <2>2, <3>5, TwoAtLeast
        <4>2. Append(Tail(s), t)[1] = s[2]
          BY <3>1, <3>2, <4>1
        <4>3. s[1] < s[2]
          BY <1>1, <4>1 DEF HolderQueue, Increasing
        <4>4. s[2] \in 0..MaxStamp
          BY <1>1, <4>1, ElementFacts
        <4>5. s[2] >= s[1]
          BY <2>2, <4>3, <4>4, MaxStampAssumption
        <4> QED BY <1>1, <1>2, <1>4, <2>1, <2>4, <3>3, <4>2, <4>5
      <3> QED BY <3>4, <3>5
    <2> QED BY <2>3, <2>4
  <1> QED BY <1>3, <1>4

LEMMA FrameArrivesKeepsPairs ==
  ASSUME IInv, PairInv, NEW h \in Holders, FrameArrives(h)
  PROVE  PairInv'
  <1>1. PICK t \in 0..MaxStampWith[N] : ProcessFrame(h, t) /\ UNCHANGED <<pairingVars, mainVars>>
    BY DEF FrameArrives
  <1>2. t \in 0..MaxStamp
    <2>1. MaxStampWith[N] \in 0..MaxStamp
      BY MaxStampWithAssumption DEF IInv, StartInv
    <2> QED BY <2>1, MaxStampAssumption
  <1>3. UNCHANGED <<turn, k, order, holderList, taken, deviceIndex, refTsp, refHalfTspGap, cmp>>
    BY <1>1 DEF pairingVars
  <1>4. dropped \subseteq dropped'
    BY <1>1 DEF ProcessFrame
  <1>5. \A g : Taken(g) => Taken(g)'
    BY <1>3, <1>4 DEF Taken, Given, Slot
  <1>6. turn = "take" => /\ FrontFrame(order[k])' >= cmp
                         /\ order[k] \notin dropped' => FrontFrame(order[k])' = cmp
    <2> SUFFICES ASSUME turn = "take"
                 PROVE  /\ FrontFrame(order[k])' >= cmp
                        /\ order[k] \notin dropped' => FrontFrame(order[k])' = cmp
      OBVIOUS
    <2>1. pc = "pairing"
      BY DEF IInv, TurnInv
    <2>2. order[k] \in Holders /\ obFrames[order[k]] # <<>>
      BY <2>1, WaitingFacts
    <2>3. PICK g \in Holders : g = order[k]
      BY <2>2
    <2>4. /\ FrontFrame(g)' >= FrontFrame(g)
          /\ g \notin dropped' => FrontFrame(g)' = FrontFrame(g)
      BY <1>1, <1>2, <2>2, <2>3, PushedFront
    <2>5. FrontFrame(g) \in Int /\ FrontFrame(g)' \in Int /\ cmp \in Int
      <3>1. FrontFrame(g) \in 0..MaxStamp /\ cmp \in 0..MaxStamp
        BY <2>2, <2>3, FrontFacts DEF IInv, TypeOK, PairingTypeOK
      <3>2. HoldersTypeOK' /\ obFrames'[g] # <<>>
        BY <1>1, <1>2, <2>2, <2>3, ProcessFrameKeepsQueues DEF IInv, TypeOK
      <3>3. Head(obFrames'[g]) \in 0..MaxStamp
        BY <3>2, TailFacts DEF HoldersTypeOK
      <3> QED BY <3>1, <3>3, MaxStampAssumption DEF FrontFrame
    <2>6. FrontFrame(g) >= cmp /\ (g \notin dropped => FrontFrame(g) = cmp)
      BY <2>3 DEF PairInv
    <2>7. order' = order /\ k' = k
      BY <1>3
    <2> QED BY <1>4, <2>3, <2>4, <2>5, <2>6, <2>7
  <1> QED BY <1>3, <1>5, <1>6 DEF PairInv, InReach

\* The test of CompareFront: a front that passes is not older than the reference.
LEMMA NotApart ==
  ASSUME NEW tar \in 0..MaxStamp, NEW ref \in 0..MaxStamp, NEW h \in Holders, NEW g \in Holders,
         ~(DiffTsp(tar, ref) > Larger(HalfTspGap[h], HalfTspGap[g]))
  PROVE  tar >= ref /\ InReach(tar - ref)
  <1>1. /\ HalfTspGap[h] \in Nat /\ HalfTspGap[g] \in Nat
        /\ MaxStamp + HalfTspGap[h] < Two64 /\ MaxStamp + HalfTspGap[g] < Two64
        /\ Two64 \in Nat /\ MaxStamp \in Nat
    BY HalfTspGapAssumption, Two64Assumption, MaxStampAssumption
  <1>2. tar \in Nat /\ ref \in Nat /\ ref <= MaxStamp
    BY <1>1
  <1>3. tar >= ref
    BY <1>1, <1>2 DEF DiffTsp, Larger
  <1>4. tar - ref <= HalfTspGap[h] \/ tar - ref <= HalfTspGap[g]
    BY <1>1, <1>2, <1>3 DEF DiffTsp, Larger
  <1> QED BY <1>3, <1>4 DEF InReach

LEMMA CompareKeepsPairs ==
  ASSUME IInv, PairInv, Pairing, CompareFront
  PROVE  PairInv'
  <1>1. CASE turn' = "no"
    BY <1>1 DEF PairInv
  <1>2. CASE turn' # "no"
    <2> DEFINE h == order[k]
               tar == FrontFrame(h)
    <2>1. /\ pc = "pairing" /\ turn = "compare" /\ turn' = "take"
          /\ ~(DiffTsp(tar, refTsp) > Larger(HalfTspGap[h], refHalfTspGap))
          /\ cmp' = tar /\ refHalfTspGap' = HalfTspGap[h]
          /\ UNCHANGED holderVars /\ UNCHANGED fixed /\ UNCHANGED <<k, order, refTsp, taken>>
      BY <1>2 DEF Pairing, CompareFront, ReturnNothing
    <2>2. h \in Holders /\ obFrames[h] # <<>>
      BY <2>1, WaitingFacts
    <2>3. tar \in 0..MaxStamp /\ refTsp \in 0..MaxStamp
      BY <2>2, FrontFacts DEF IInv, TypeOK, PairingTypeOK
    <2>4. PICK g \in Holders : refHalfTspGap = HalfTspGap[g]
      BY <2>1 DEF PairInv
    <2>5. tar >= refTsp /\ InReach(tar - refTsp)
      BY <2>1, <2>2, <2>3, <2>4, NotApart
    <2>6. \A x : Taken(x) => Taken(x)'
      BY <2>1 DEF Taken, Given, Slot, InReach, holderVars, fixed
    <2>7. FrontFrame(order[k])' = cmp' /\ tar \in Int
      BY <2>1, <2>3, MaxStampAssumption DEF FrontFrame, holderVars
    <2> QED BY <2>1, <2>2, <2>5, <2>6, <2>7 DEF PairInv, InReach, fixed
  <1> QED BY <1>1, <1>2

LEMMA TakeKeepsPairs ==
  ASSUME IInv, PairInv, Pairing, TakeFrame
  PROVE  PairInv'
  <1>1. pc = "pairing" /\ turn = "take"
    BY DEF Pairing, TakeFrame
  <1>2. /\ order \in Orders /\ Len(order) = Len(holderList) /\ Len(order) \in Nat
        /\ k \in 1..Len(order) /\ order[k] \in Holders /\ obFrames[order[k]] # <<>>
        /\ \A i \in 1..Len(order) : order[i] \in Holders
    <2>1. /\ order \in Orders /\ Len(order) = Len(holderList)
          /\ k \in 1..Len(order) /\ order[k] \in Holders
          /\ \A i \in k..Len(order) : obFrames[order[i]] # <<>>
      BY <1>1, WaitingFacts
    <2>2. Len(order) \in Nat /\ \A i \in 1..Len(order) : order[i] \in Holders
      BY <1>1, <2>1, ListFacts, OrderFacts
    <2>3. k \in k..Len(order)
      BY <2>1, <2>2
    <2> QED BY <2>1, <2>2, <2>3
  <1> DEFINE front == FrontFrame(order[k])
  <1>3. PICK h \in Holders, f \in {[dev |-> order[k][1], tsp |-> front]} :
             h = order[k] /\ f = [dev |-> h[1], tsp |-> front]
    BY <1>2
  <1>4. /\ pc = "pairing" /\ turn = "take" /\ k' = k + 1
        /\ turn' = IF k = Len(holderList) THEN "pairs" ELSE "compare"
        /\ taken' = [taken EXCEPT ![Slot(h)] = f]
        /\ UNCHANGED fixed /\ UNCHANGED <<order, refTsp, refHalfTspGap, dropped>>
    BY <1>3 DEF Pairing, TakeFrame, GetFrame, Slot
  <1>5. /\ front \in 0..MaxStamp /\ front >= cmp /\ cmp >= refTsp
        /\ cmp \in 0..MaxStamp /\ refTsp \in 0..MaxStamp
        /\ InReach(cmp - refTsp) /\ (h \notin dropped => front = cmp)
    BY <1>4, <1>2, <1>3, FrontFacts DEF IInv, TypeOK, PairingTypeOK, PairInv
  <1> HIDE DEF front
  <1>6. Slot(h) \in Slots /\ f \in Frame
    BY <1>5, <1>3, HolderFacts DEF IInv, TypeOK, PairingTypeOK, Slot, Slots, Frame
  <1>7. /\ taken'[Slot(h)] = f
        /\ \A s \in Slots : s # Slot(h) => taken'[s] = taken[s]
    BY <1>4, <1>6 DEF IInv, TypeOK, PairingTypeOK
  <1>8. Taken(h)'
    <2>1. Given(h)' = f /\ f.dev = h[1] /\ f.tsp = front
      BY <1>4, <1>7, <1>3 DEF Given, Slot, fixed
    <2>2. f.tsp >= refTsp
      BY <1>5, <2>1, MaxStampAssumption
    <2>3. h \notin dropped => InReach(f.tsp - refTsp)
      BY <1>5, <2>1
    <2> QED BY <1>4, <1>6, <2>1, <2>2, <2>3 DEF Taken, InReach
  <1>9. \A j \in 1..Len(holderList) : j < k => Taken(order[j])'
    <2> SUFFICES ASSUME NEW j \in 1..Len(holderList), j < k PROVE Taken(order[j])'
      OBVIOUS
    <2>1. Taken(order[j])
      BY <1>4 DEF PairInv
    <2>2. j # k /\ k \in 1..Len(holderList)
      BY <1>2
    <2>3. Slot(order[j]) # Slot(h)
      BY <1>4, <1>2, <1>3, <2>2, SlotsOfOrder
    <2>4. Slot(order[j]) \in Slots
      BY <1>2, HolderFacts DEF IInv, TypeOK, PairingTypeOK, Slot, Slots
    <2>5. Given(order[j])' = Given(order[j])
      BY <1>4, <1>7, <2>3, <2>4 DEF Given, Slot, fixed
    <2> QED BY <1>4, <2>1, <2>5 DEF Taken, InReach
  <1>10. \A j \in 1..Len(holderList) : j < k + 1 => j < k \/ j = k
    BY <1>2
  <1>11. k = Len(holderList) => k' = Len(holderList) + 1
    BY <1>4
  <1>12. \A j \in 1..Len(holderList) : j < k + 1 => Taken(order[j])'
    <2> SUFFICES ASSUME NEW j \in 1..Len(holderList), j < k + 1 PROVE Taken(order[j])'
      OBVIOUS
    <2>1. CASE j < k
      BY <1>9, <2>1
    <2>2. CASE j = k
      <3>1. order'[j] = h
        BY <1>4, <1>3, <2>2
      <3> QED BY <1>8, <3>1
    <2> QED BY <1>10, <2>1, <2>2
  <1> QED BY <1>4, <1>11, <1>12 DEF PairInv, fixed

LEMMA NextPairInv == IInv /\ PairInv /\ [Next]_vars => PairInv'
  <1> SUFFICES ASSUME IInv, PairInv, [Next]_vars PROVE PairInv'
    OBVIOUS
  <1>1. CASE Pairing
    <2>1. CASE HolderReady \/ HolderNotReady \/ TimeOut \/ AllReady \/ SortFrameMap
      <3>1. turn' \in {"checking", "no", "sort", "ref"}
        BY <2>1 DEF HolderReady, HolderNotReady, TimeOut, AllReady, SortFrameMap, ReturnNothing
      <3> QED BY <3>1 DEF PairInv
    <2>2. CASE TakeReference
      <3>1. /\ turn = "ref" /\ turn' = "compare" /\ refHalfTspGap' = HalfTspGap[order[1]]
            /\ k' = k /\ order' = order /\ holderList' = holderList /\ pc = "pairing"
        BY <1>1, <2>2 DEF TakeReference, Pairing, fixed
      <3>2. k = 1 /\ order \in Orders
        BY <3>1 DEF IInv, TurnInv
      <3>3. order[1] \in Holders
        <4>1. 1 \in 1..Len(order)
          BY <3>1, <3>2, ListFacts, OrderFacts
        <4> QED BY <3>1, <3>2, <4>1, ListFacts, OrderFacts
      <3>4. \A j \in 1..Len(holderList) : ~(j < 1)
        BY <3>1, ListFacts
      <3> QED BY <3>1, <3>2, <3>3, <3>4 DEF PairInv
    <2> QED BY <1>1, <2>1, <2>2, CompareKeepsPairs, TakeKeepsPairs DEF Pairing, PairingStep
  <1>2. CASE PushPairs \/ RunWindow \/ MainThrows
    <2>1. turn' \in {"checking", "no"}
      BY <1>2 DEF PushPairs, RunWindow, MainThrows, BeginPairing, EndPairing, ReturnNothing
    <2> QED BY <2>1 DEF PairInv
  <1>3. CASE CreateHolder \/ StartStream \/ StartStreamFails \/ StartStreamReturns
             \/ EnterLoop \/ PressEsc \/ StopStreams
    <2>1. pc # "pairing" /\ turn' = turn
      BY <1>3 DEF CreateHolder, StartStream, StartStreamFails, StartStreamReturns, EnterLoop,
                  PressEsc, StopStreams, pairingVars
    <2>2. turn' = "no"
      BY <2>1 DEF IInv, TurnInv
    <2> QED BY <2>2 DEF PairInv
  <1>4. CASE UNCHANGED vars
    BY <1>4 DEF vars, holderVars, pairingVars, PairInv, Taken, Given, Slot, InReach, FrontFrame
  <1> QED BY <1>1, <1>2, <1>3, <1>4, FrameArrivesKeepsPairs DEF Next, Main

\* What has been taken so far is of the right device and close enough.
THEOREM PairInvariance == Spec => [](IInv /\ PairInv)
  <1>1. Init => IInv /\ PairInv
    BY InitIInv DEF Init, PairingInit, PairInv
  <1>2. IInv /\ PairInv /\ [Next]_vars => (IInv /\ PairInv)'
    BY NextIInv, NextPairInv
  <1> QED BY <1>1, <1>2, PTL DEF Spec

\* When the loop is through, the frames of all holders are there.
LEMMA AllTaken ==
  ASSUME IInv, PairInv, turn = "pairs", NEW n \in 1..N, NEW s \in {"depth", "color"}
  PROVE  /\ <<startOrder[n], s>> \in Holders
         /\ Slot(<<startOrder[n], s>>) = <<s, n - 1>>
         /\ Taken(<<startOrder[n], s>>)
         /\ \E i \in DOMAIN holderList : holderList[i] = <<startOrder[n], s>>
  <1>1. pc = "pairing" /\ order \in Orders /\ k = Len(holderList) + 1
    BY DEF IInv, TurnInv, PairInv
  <1>2. Len(holderList) = 2 * N /\ N \in Nat /\ HoldersOf(n)
    BY <1>1, DevicesCount DEF IInv, StartInv
  <1>3. n \in Nat /\ 2 * n - 1 \in 1..Len(holderList) /\ 2 * n \in 1..Len(holderList)
    BY <1>2
  <1>4. 2 * n - 1 <= Len(holderList) /\ 2 * n <= Len(holderList)
    BY <1>2
  <1>5. PICK i \in 1..Len(holderList) : holderList[i] = <<startOrder[n], s>>
    BY <1>2, <1>3, <1>4 DEF HoldersOf
  <1>6. deviceIndex[startOrder[n]] = n - 1
    BY <1>2, <1>4 DEF HoldersOf
  <1>7. PICK j \in 1..Len(holderList) : order[j] = <<startOrder[n], s>>
    <2>1. DOMAIN holderList = 1..Len(holderList)
      BY ListFacts DEF IInv
    <2>2. \E j \in DOMAIN holderList : order[j] = holderList[i]
      BY <1>1, <1>5, <2>1 DEF Orders
    <2> QED BY <1>5, <2>1, <2>2
  <1>8. j < k
    BY <1>1, ListFacts
  <1>9. Taken(order[j])
    BY <1>8 DEF PairInv
  <1> QED BY <1>1, <1>5, <1>6, <1>7, <1>9, ListFacts DEF Slot

\* One pair is given back for every device that was started.
LEMMA AsManyPairs ==
  ASSUME IInv, PairInv, turn = "pairs"
  PROVE  DOMAIN FramePairs = 0 .. N - 1 /\ N \in Nat
  <1> DEFINE D == {deviceIndex[h[1]] : h \in {holderList[i] : i \in DOMAIN holderList}}
  <1>1. pc = "pairing" /\ N \in Nat /\ DOMAIN holderList = 1..Len(holderList)
    BY ListFacts, DevicesCount DEF IInv, TurnInv, StartInv
  <1>2. ASSUME NEW x \in D PROVE x \in 0 .. N - 1
    <2>1. PICK i \in 1..Len(holderList) : x = deviceIndex[holderList[i][1]]
      BY <1>1
    <2>2. PICK n \in 1..N, s \in {"depth", "color"} :
              holderList[i] = <<startOrder[n], s>> /\ deviceIndex[startOrder[n]] = n - 1
      BY <1>1, HolderAt
    <2> QED BY <1>1, <2>1, <2>2
  <1>3. ASSUME NEW x \in 0 .. N - 1 PROVE x \in D
    <2>1. x + 1 \in 1..N /\ (x + 1) - 1 = x
      BY <1>1
    <2>2. /\ Slot(<<startOrder[x + 1], "depth">>) = <<"depth", x>>
          /\ \E i \in DOMAIN holderList : holderList[i] = <<startOrder[x + 1], "depth">>
      BY <2>1, AllTaken
    <2> QED BY <2>2 DEF Slot
  <1>4. D = 0 .. N - 1
    BY <1>2, <1>3
  <1>5. Cardinality(0 .. N - 1) = N
    <2>1. 0 \in Int /\ N - 1 \in Int
      BY <1>1
    <2> QED BY <1>1, <2>1, FS_Interval
  <1> QED BY <1>1, <1>4, <1>5 DEF FramePairs, DepthHolders

\* Each pair given back is the depth and the color frame of one camera, and
\* every camera that was started has one, whatever their roles.
THEOREM OnePairTheorem == Spec => []OnePairPerDevice
  <1>1. ASSUME IInv, PairInv PROVE OnePairPerDevice
    <2> SUFFICES ASSUME turn = "pairs"
                 PROVE  /\ \A i \in DOMAIN FramePairs :
                             /\ NoFrame \notin {Pair(i)[1], Pair(i)[2]}
                             /\ Pair(i)[1].dev = Pair(i)[2].dev
                        /\ \A j \in DOMAIN startOrder :
                             \E i \in DOMAIN FramePairs : Pair(i)[1].dev = startOrder[j]
      BY DEF OnePairPerDevice
    <2>1. DOMAIN FramePairs = 0 .. N - 1 /\ N \in Nat
      BY <1>1, AsManyPairs
    <2>2. ASSUME NEW n \in 1..N
          PROVE  /\ taken[<<"depth", n - 1>>] \in Frame /\ taken[<<"color", n - 1>>] \in Frame
                 /\ taken[<<"depth", n - 1>>].dev = startOrder[n]
                 /\ taken[<<"color", n - 1>>].dev = startOrder[n]
      BY <1>1, AllTaken DEF Taken, Given, Slot
    <2>3. NoFrame \notin Frame
      <3>1. NoFrame.tsp = -1 /\ \A f \in Frame : f.tsp \in 0..MaxStamp
        BY DEF NoFrame, Frame
      <3> QED BY <3>1, MaxStampAssumption
    <2>4. \A i \in DOMAIN FramePairs :
             /\ NoFrame \notin {Pair(i)[1], Pair(i)[2]}
             /\ Pair(i)[1].dev = startOrder[i + 1] /\ Pair(i)[2].dev = startOrder[i + 1]
      <3> TAKE i \in DOMAIN FramePairs
      <3>1. i + 1 \in 1..N /\ (i + 1) - 1 = i
        BY <2>1
      <3> QED BY <2>2, <2>3, <3>1 DEF Pair
    <2>5. ASSUME NEW j \in DOMAIN startOrder
          PROVE  \E i \in DOMAIN FramePairs : Pair(i)[1].dev = startOrder[j]
      <3>1. j \in 1..N
        BY <1>1, ElementFacts DEF IInv, TypeOK, N
      <3>2. j - 1 \in DOMAIN FramePairs /\ (j - 1) + 1 = j
        BY <2>1, <3>1
      <3> QED BY <2>4, <3>2
    <2> QED BY <2>4, <2>5
  <1> QED BY <1>1, PairInvariance, PTL

\* The frames given back together are close, unless a queue was full.
THEOREM PairsAreCloseTheorem == Spec => []PairsAreClose
  <1>1. ASSUME IInv, PairInv PROVE PairsAreClose
    <2> SUFFICES ASSUME turn = "pairs", NEW j \in 1..N, NEW s \in {"depth", "color"}
                 PROVE  LET f == taken[<<s, deviceIndex[startOrder[j]]>>] IN
                        /\ f.tsp >= refTsp
                        /\ <<startOrder[j], s>> \notin dropped =>
                             \E h \in Holders : f.tsp - refTsp <= HalfTspGap[h]
      BY DEF PairsAreClose
    <2>1. Taken(<<startOrder[j], s>>)
      BY <1>1, AllTaken
    <2> QED BY <2>1 DEF Taken, Given, Slot, InReach
  <1> QED BY <1>1, PairInvariance, PTL

-----------------------------------------------------------------------------
(* What the window shows *)

\* A frame of time t was delivered before anything that is still queued.
Before(t, q, last) == t <= last /\ \A j \in 1..Len(q) : t < q[j]
Older(t, h) == Before(t, obFrames[h], stamp[h])

Shown(n, s) == groups[n][IF s = "depth" THEN 1 ELSE 2]

\* The n-th device and one of its sensors: what was taken of it is older than
\* what is queued, and what the window shows of it is older than both.
SlotInv(n, s) ==
    LET h == <<startOrder[n], s>>
        f == taken[<<s, n - 1>>]
    IN
    /\ f # NoFrame => Older(f.tsp, h)
    /\ Shown(n, s) # NoFrame =>
         /\ Shown(n, s).dev = startOrder[n]
         /\ Older(Shown(n, s).tsp, h)
         /\ f # NoFrame => Shown(n, s).tsp < f.tsp

ViewInv ==
    /\ \A g \in GroupIds : g > N => groups[g] = NoGroup
    /\ \A n \in 1..N, s \in {"depth", "color"} : SlotInv(n, s)

LEMMA PushedAfter ==
  ASSUME NEW u \in Int, NEW q, NEW last \in -1..MaxStamp, HolderQueue(q, last),
         Before(u, q, last), NEW t \in 0..MaxStamp, t > last
  PROVE  /\ Before(u, q, t)
         /\ Before(u, Append(IF Len(q) >= MaxFrameSize THEN Tail(q) ELSE q, t), t)
  <1>1. u < t /\ u <= t
    BY MaxStampAssumption DEF Before
  <1>2. q \in Seq(0..MaxStamp) /\ Len(q) \in Nat
    BY DEF HolderQueue
  <1>3. PICK p : p = IF Len(q) >= MaxFrameSize THEN Tail(q) ELSE q
    OBVIOUS
  <1>4. p \in Seq(0..MaxStamp) /\ Len(p) \in Nat /\ \A j \in 1..Len(p) : u < p[j]
    <2>1. CASE Len(q) >= MaxFrameSize
      <3>1. q # <<>>
        BY <1>2, <2>1, MaxFrameSizeAssumption
      <3>2. /\ p = Tail(q) /\ p \in Seq(0..MaxStamp) /\ Len(p) = Len(q) - 1
            /\ \A i \in 1..(Len(q) - 1) : p[i] = q[i + 1]
        BY <1>2, <1>3, <2>1, <3>1, TailFacts
      <3>3. \A j \in 1..Len(p) : j + 1 \in 1..Len(q)
        BY <1>2, <3>2
      <3> QED BY <1>2, <3>2, <3>3 DEF Before
    <2>2. CASE ~(Len(q) >= MaxFrameSize)
      BY <1>2, <1>3, <2>2 DEF Before
    <2> QED BY <2>1, <2>2
  <1>5. /\ Len(Append(p, t)) = Len(p) + 1
        /\ \A i \in 1..Len(p) : Append(p, t)[i] = p[i]
        /\ Append(p, t)[Len(p) + 1] = t
    BY <1>4, AppendFacts
  <1>6. \A j \in 1..Len(Append(p, t)) : u < Append(p, t)[j]
    <2> SUFFICES ASSUME NEW j \in 1..(Len(p) + 1) PROVE u < Append(p, t)[j]
      BY <1>5
    <2>1. j \in 1..Len(p) \/ j = Len(p) + 1
      BY <1>4
    <2> QED BY <1>1, <1>4, <1>5, <2>1
  <1> QED BY <1>1, <1>3, <1>6 DEF Before

LEMMA TakenBefore ==
  ASSUME NEW q, NEW last \in -1..MaxStamp, HolderQueue(q, last), q # <<>>
  PROVE  /\ Before(Head(q), Tail(q), last) /\ Head(q) \in 0..MaxStamp
         /\ \A u \in Int : Before(u, q, last) => Before(u, Tail(q), last) /\ u < Head(q)
  <1>1. /\ q \in Seq(0..MaxStamp) /\ Tail(q) \in Seq(0..MaxStamp)
        /\ Len(q) \in Nat \ {0} /\ Len(Tail(q)) = Len(q) - 1
        /\ \A i \in 1..(Len(q) - 1) : Tail(q)[i] = q[i + 1]
        /\ Head(q) = q[1] /\ Head(q) \in 0..MaxStamp
    BY TailFacts DEF HolderQueue
  <1>2. 1 \in 1..Len(q)
    BY <1>1
  <1>3. \A j \in 1..Len(Tail(q)) : j + 1 \in 1..Len(q) /\ 1 < j + 1 /\ Tail(q)[j] = q[j + 1]
    BY <1>1
  <1>4. Before(Head(q), Tail(q), last)
    BY <1>1, <1>2, <1>3 DEF Before, HolderQueue, Upto, Increasing
  <1>5. ASSUME NEW u \in Int, Before(u, q, last)
        PROVE  Before(u, Tail(q), last) /\ u < Head(q)
    BY <1>1, <1>2, <1>3, <1>5 DEF Before
  <1> QED BY <1>1, <1>4, <1>5

LEMMA SlotFacts ==
  ASSUME IInv, NEW n \in 1..N, NEW s \in {"depth", "color"}
  PROVE  /\ <<startOrder[n], s>> \in Holders /\ startOrder[n] \in Devices
         /\ <<s, n - 1>> \in Slots /\ n \in GroupIds /\ n \in Nat /\ N \in Nat
         /\ taken[<<s, n - 1>>] \in Frame \cup {NoFrame}
         /\ Shown(n, s) \in Frame \cup {NoFrame}
  <1>1. N \in 1..MaxDevices /\ startOrder \in Seq(Devices) /\ N = Len(startOrder)
    BY DEF IInv, StartInv, TypeOK, N
  <1>2. startOrder[n] \in Devices
    BY <1>1, ElementFacts
  <1>3. n \in GroupIds /\ n \in Nat /\ N \in Nat /\ n - 1 \in 0..MaxDevices - 1
    BY <1>1, DevicesCount DEF GroupIds
  <1>4. <<s, n - 1>> \in Slots
    BY <1>3 DEF Slots, Indices, MaxDevices
  <1>5. taken[<<s, n - 1>>] \in Frame \cup {NoFrame}
    BY <1>4 DEF IInv, TypeOK, PairingTypeOK
  <1>6. Shown(n, s) \in Frame \cup {NoFrame}
    BY <1>3 DEF IInv, TypeOK, Shown
  <1> QED BY <1>2, <1>3, <1>4, <1>5, <1>6, HoldersAssumption

LEMMA FrameFacts ==
  /\ \A f \in Frame : f.dev \in Devices /\ f.tsp \in 0..MaxStamp /\ f.tsp \in Int /\ f # NoFrame
  <1>1. \A f \in Frame : f.tsp \in 0..MaxStamp /\ f.dev \in Devices
    BY DEF Frame
  <1>2. NoFrame.tsp = -1
    BY DEF NoFrame
  <1> QED BY <1>1, <1>2, MaxStampAssumption

\* Steps that show nothing new and take nothing new.
LEMMA ViewKept ==
  ASSUME IInv, ViewInv, startOrder' = startOrder, groups' = groups,
         \A x \in Slots : taken'[x] = taken[x] \/ taken'[x] = NoFrame,
         \A h \in Holders, u \in Int : Older(u, h) => Older(u, h)'
  PROVE  ViewInv'
  <1>1. N' = N /\ GroupIds' = GroupIds
    BY DEF N
  <1>2. \A g \in GroupIds : g > N => groups'[g] = NoGroup
    BY DEF ViewInv
  <1>3. ASSUME NEW n \in 1..N, NEW s \in {"depth", "color"} PROVE SlotInv(n, s)'
    <2> DEFINE h == <<startOrder[n], s>>
               f == taken[<<s, n - 1>>]
               v == Shown(n, s)
    <2>1. h \in Holders /\ <<s, n - 1>> \in Slots /\ f \in Frame \cup {NoFrame}
          /\ v \in Frame \cup {NoFrame}
      BY SlotFacts
    <2>2. /\ f # NoFrame => Older(f.tsp, h)
          /\ v # NoFrame => /\ v.dev = startOrder[n] /\ Older(v.tsp, h)
                            /\ f # NoFrame => v.tsp < f.tsp
      BY DEF ViewInv, SlotInv
    <2>3. Shown(n, s)' = v
      BY DEF Shown
    <2>4. taken'[<<s, n - 1>>] = f \/ taken'[<<s, n - 1>>] = NoFrame
      BY <2>1
    <2>5. /\ f # NoFrame => f.tsp \in Int
          /\ v # NoFrame => v.tsp \in Int
      BY <2>1, FrameFacts
    <2>6. /\ v # NoFrame => Before(v.tsp, obFrames'[h], stamp'[h])
          /\ f # NoFrame => Before(f.tsp, obFrames'[h], stamp'[h])
      BY <2>1, <2>2, <2>5 DEF Older
    <2> QED BY <2>2, <2>3, <2>4, <2>6 DEF SlotInv, Older
  <1> QED BY <1>1, <1>2, <1>3 DEF ViewInv

LEMMA FrameArrivesKeepsView ==
  ASSUME IInv, ViewInv, NEW g \in Holders, FrameArrives(g)
  PROVE  ViewInv'
  <1>1. PICK t \in 0..MaxStampWith[N] : ProcessFrame(g, t) /\ UNCHANGED <<pairingVars, mainVars>>
    BY DEF FrameArrives
  <1>2. t \in 0..MaxStamp
    <2>1. MaxStampWith[N] \in 0..MaxStamp
      BY MaxStampWithAssumption DEF IInv, StartInv
    <2> QED BY <2>1, MaxStampAssumption
  <1>3. startOrder' = startOrder /\ groups' = groups /\ taken' = taken
    BY <1>1 DEF pairingVars, mainVars
  <1>4. /\ obFrames \in [Holders -> Seq(0..MaxStamp)] /\ stamp \in [Holders -> -1..MaxStamp]
        /\ t > stamp[g]
    BY <1>1 DEF IInv, TypeOK, HoldersTypeOK, ProcessFrame
  <1>5. /\ stamp'[g] = t
        /\ obFrames'[g] \in {obFrames[g],
             Append(IF Len(obFrames[g]) >= MaxFrameSize THEN Tail(obFrames[g]) ELSE obFrames[g], t)}
        /\ \A h \in Holders : h # g => obFrames'[h] = obFrames[h] /\ stamp'[h] = stamp[h]
    BY <1>1, <1>4 DEF ProcessFrame
  <1>6. HolderQueue(obFrames[g], stamp[g])
    BY <1>4, QueueInvOf DEF IInv
  <1>7. ASSUME NEW h \in Holders, NEW u \in Int, Older(u, h) PROVE Older(u, h)'
    <2>1. CASE h = g
      <3>1. Before(u, obFrames[g], stamp[g]) /\ stamp[g] \in -1..MaxStamp
        BY <1>4, <1>7, <2>1 DEF Older
      <3> DEFINE q == obFrames[g]
                 p == Append(IF Len(q) >= MaxFrameSize THEN Tail(q) ELSE q, t)
      <3>2. Before(u, q, t) /\ Before(u, p, t)
        BY <1>2, <1>4, <1>6, <3>1, PushedAfter
      <3>3. obFrames'[h] \in {q, p} /\ stamp'[h] = t
        BY <1>5, <2>1
      <3> HIDE DEF q, p
      <3>4. Before(u, obFrames'[h], stamp'[h])
        BY <3>2, <3>3
      <3> QED BY <3>4 DEF Older
    <2>2. CASE h # g
      BY <1>5, <1>7, <2>2 DEF Older, Before
    <2> QED BY <2>1, <2>2
  <1> QED BY <1>3, <1>7, ViewKept

\* The frame just taken: newer than what is shown, older than what is queued.
LEMMA TakeKeepsView ==
  ASSUME IInv, ViewInv, Pairing, TakeFrame
  PROVE  ViewInv'
  <1>1. pc = "pairing" /\ turn = "take"
    BY DEF Pairing, TakeFrame
  <1>2. order \in Orders /\ k \in 1..Len(order) /\ Len(order) = Len(holderList)
        /\ order[k] \in Holders /\ obFrames[order[k]] # <<>>
    <2>1. /\ order \in Orders /\ k \in 1..Len(order) /\ Len(order) = Len(holderList)
          /\ order[k] \in Holders /\ \A i \in k..Len(order) : obFrames[order[i]] # <<>>
      BY <1>1, WaitingFacts
    <2>2. k \in k..Len(order)
      BY <2>1, <1>1, ListFacts
    <2> QED BY <2>1, <2>2
  <1>3. PICK m \in 1..N, r \in {"depth", "color"} :
            order[k] = <<startOrder[m], r>> /\ deviceIndex[startOrder[m]] = m - 1
    <2>1. PICK j \in 1..Len(holderList) : order[k] = holderList[j]
      BY <1>1, <1>2, ListFacts, OrderFacts
    <2> QED BY <1>1, <2>1, HolderAt
  <1>4. PICK g \in Holders : g = order[k] /\ g = <<startOrder[m], r>>
    BY <1>2, <1>3
  <1>5. PICK f : f = [dev |-> startOrder[m], tsp |-> Head(obFrames[g])]
    OBVIOUS
  <1>6. /\ GetFrame(g) /\ taken' = [taken EXCEPT ![<<r, m - 1>>] = f]
        /\ startOrder' = startOrder /\ groups' = groups
    <2>1. /\ GetFrame(order[k]) /\ startOrder' = startOrder /\ groups' = groups
          /\ taken' = [taken EXCEPT ![<<order[k][2], deviceIndex[order[k][1]]>>] =
                          [dev |-> order[k][1], tsp |-> Head(obFrames[order[k]])]]
      BY DEF TakeFrame, Pairing, FrontFrame, split
    <2>2. order[k][2] = r /\ order[k][1] = startOrder[m]
      BY <1>3
    <2> QED BY <1>3, <1>4, <1>5, <2>1, <2>2
  <1>7. /\ obFrames \in [Holders -> Seq(0..MaxStamp)] /\ stamp \in [Holders -> -1..MaxStamp]
        /\ HolderQueue(obFrames[g], stamp[g]) /\ obFrames[g] # <<>>
    BY <1>2, <1>4, QueueInvOf DEF IInv, TypeOK, HoldersTypeOK
  <1>8. /\ obFrames'[g] = Tail(obFrames[g]) /\ stamp' = stamp
        /\ \A h \in Holders : h # g => obFrames'[h] = obFrames[h]
    BY <1>6, <1>7 DEF GetFrame
  <1>9. /\ Before(f.tsp, obFrames'[g], stamp'[g]) /\ f.tsp \in Int /\ f.dev = startOrder[m]
        /\ \A u \in Int : Before(u, obFrames[g], stamp[g]) =>
                            Before(u, obFrames'[g], stamp'[g]) /\ u < f.tsp
    <2>1. stamp[g] \in -1..MaxStamp
      BY <1>7
    <2>2. f.tsp = Head(obFrames[g]) /\ f.dev = startOrder[m]
      BY <1>5
    <2>3. /\ Before(Head(obFrames[g]), Tail(obFrames[g]), stamp[g]) /\ Head(obFrames[g]) \in Int
          /\ \A u \in Int : Before(u, obFrames[g], stamp[g]) =>
                 Before(u, Tail(obFrames[g]), stamp[g]) /\ u < Head(obFrames[g])
      BY <1>7, <2>1, TakenBefore, MaxStampAssumption
    <2> QED BY <1>8, <2>2, <2>3
  <1>10. N' = N /\ \A g1 \in GroupIds : g1 > N => groups'[g1] = NoGroup
    BY <1>6 DEF N, ViewInv
  <1>11. ASSUME NEW n \in 1..N, NEW s \in {"depth", "color"} PROVE SlotInv(n, s)'
    <2> DEFINE h == <<startOrder[n], s>>
               v == Shown(n, s)
               old == taken[<<s, n - 1>>]
    <2>1. /\ h \in Holders /\ <<s, n - 1>> \in Slots /\ old \in Frame \cup {NoFrame}
          /\ v \in Frame \cup {NoFrame} /\ n \in Nat
      BY SlotFacts
    <2>2. /\ old # NoFrame => Before(old.tsp, obFrames[h], stamp[h])
          /\ v # NoFrame => /\ v.dev = startOrder[n] /\ Before(v.tsp, obFrames[h], stamp[h])
                            /\ old # NoFrame => v.tsp < old.tsp
      BY DEF ViewInv, SlotInv, Older
    <2>3. Shown(n, s)' = v /\ startOrder'[n] = startOrder[n]
      BY <1>6 DEF Shown
    <2>4. /\ old # NoFrame => old.tsp \in Int
          /\ v # NoFrame => v.tsp \in Int
      BY <2>1, FrameFacts
    <2>5. m \in Nat /\ <<r, m - 1>> \in Slots
      BY SlotFacts
    <2>6. CASE n = m /\ s = r
      <3>1. taken'[<<s, n - 1>>] = f
        BY <1>6, <2>1, <2>6 DEF IInv, TypeOK, PairingTypeOK
      <3>2. h = g
        BY <1>4, <2>6
      <3> HIDE DEF v, h, old
      <3>3. v # NoFrame => Before(v.tsp, obFrames'[h], stamp'[h]) /\ v.tsp < f.tsp
        BY <1>9, <2>2, <2>4, <3>2
      <3> QED BY <1>9, <2>2, <2>3, <2>6, <3>1, <3>2, <3>3 DEF SlotInv, Older, h
    <2>7. CASE ~(n = m /\ s = r)
      <3>1. <<s, n - 1>> # <<r, m - 1>>
        BY <2>1, <2>5, <2>7
      <3>2. taken'[<<s, n - 1>>] = old
        BY <1>6, <2>1, <3>1 DEF IInv, TypeOK, PairingTypeOK
      <3>3. h # g
        <4>1. startOrder[n] = startOrder[m] => n = m
          BY DEF IInv, StartInv
        <4> QED BY <1>4, <2>7, <4>1
      <3>4. obFrames'[h] = obFrames[h] /\ stamp'[h] = stamp[h]
        BY <1>8, <2>1, <3>3
      <3> QED BY <2>2, <2>3, <3>2, <3>4 DEF SlotInv, Older
    <2> QED BY <2>6, <2>7
  <1> QED BY <1>10, <1>11 DEF ViewInv

\* The pairs reach the window.
LEMMA PushShows ==
  ASSUME IInv, PairInv, ViewInv, PushPairs
  PROVE  /\ startOrder' = startOrder /\ UNCHANGED holderVars /\ taken' = NoFrames
         /\ \A g \in GroupIds : g > N => groups'[g] = NoGroup
         /\ \A n \in 1..N, s \in {"depth", "color"} :
              /\ groups'[n][IF s = "depth" THEN 1 ELSE 2] = taken[<<s, n - 1>>]
              /\ taken[<<s, n - 1>>] \in Frame
              /\ taken[<<s, n - 1>>].dev = startOrder[n]
  <1>1. /\ turn = "pairs" /\ ReturnNothing /\ UNCHANGED holderVars /\ startOrder' = startOrder
        /\ groups' = [g \in GroupIds |-> IF g - 1 \in DOMAIN FramePairs
                                       THEN FramePairs[g - 1] ELSE groups[g]]
    BY DEF PushPairs, EndPairing, split
  <1>2. DOMAIN FramePairs = 0 .. N - 1 /\ N \in Nat
    BY <1>1, AsManyPairs
  <1>3. ASSUME NEW g \in GroupIds, g > N PROVE groups'[g] = NoGroup
    <2>1. g - 1 \notin 0 .. N - 1
      BY <1>2, <1>3, DevicesCount DEF GroupIds
    <2>2. groups'[g] = groups[g]
      BY <1>1, <1>2, <2>1
    <2> QED BY <1>3, <2>2 DEF ViewInv
  <1>4. ASSUME NEW n \in 1..N, NEW s \in {"depth", "color"}
        PROVE  /\ groups'[n][IF s = "depth" THEN 1 ELSE 2] = taken[<<s, n - 1>>]
               /\ taken[<<s, n - 1>>] \in Frame
               /\ taken[<<s, n - 1>>].dev = startOrder[n]
    <2>1. n \in GroupIds /\ n - 1 \in 0 .. N - 1
      <3>1. n \in GroupIds
        BY SlotFacts
      <3>2. n - 1 \in 0 .. N - 1
        BY <1>2
      <3> QED BY <3>1, <3>2
    <2>2. groups'[n] = Pair(n - 1)
      BY <1>1, <1>2, <2>1 DEF FramePairs
    <2>3. /\ taken[<<s, n - 1>>] \in Frame /\ taken[<<s, n - 1>>].dev = startOrder[n]
      BY <1>1, AllTaken DEF Taken, Given
    <2>4. groups'[n][1] = taken[<<"depth", n - 1>>] /\ groups'[n][2] = taken[<<"color", n - 1>>]
      BY <2>2 DEF Pair
    <2>5. groups'[n][IF s = "depth" THEN 1 ELSE 2] = taken[<<s, n - 1>>]
      <3>1. CASE s = "depth"
        BY <2>4, <3>1
      <3>2. CASE s = "color"
        BY <2>4, <3>2
      <3> QED BY <3>1, <3>2
    <2> QED BY <2>3, <2>5
  <1> QED BY <1>1, <1>3, <1>4 DEF ReturnNothing

LEMMA PushKeepsView ==
  ASSUME IInv, PairInv, ViewInv, PushPairs
  PROVE  ViewInv'
  <1>1. N' = N
    BY PushShows DEF N
  <1>2. ASSUME NEW n \in 1..N, NEW s \in {"depth", "color"} PROVE SlotInv(n, s)'
    <2>1. taken'[<<s, n - 1>>] = NoFrame
      BY PushShows, SlotFacts DEF NoFrames
    <2>2. Shown(n, s)' = taken[<<s, n - 1>>] /\ taken[<<s, n - 1>>] \in Frame
          /\ taken[<<s, n - 1>>].dev = startOrder[n]
      BY PushShows DEF Shown
    <2>3. taken[<<s, n - 1>>] # NoFrame
      BY <2>2, FrameFacts
    <2>4. Older(taken[<<s, n - 1>>].tsp, <<startOrder[n], s>>)
      BY <2>3 DEF ViewInv, SlotInv
    <2>5. startOrder' = startOrder /\ obFrames' = obFrames /\ stamp' = stamp
      BY PushShows DEF holderVars
    <2> QED BY <2>1, <2>2, <2>4, <2>5 DEF SlotInv, Older
  <1> QED BY <1>1, <1>2, PushShows DEF ViewInv

LEMMA NextViewInv == IInv /\ PairInv /\ ViewInv /\ [Next]_vars => ViewInv'
  <1> SUFFICES ASSUME IInv, PairInv, ViewInv, [Next]_vars PROVE ViewInv'
    OBVIOUS
  <1>1. CASE PressEsc
    <2>1. /\ groups' = [g \in GroupIds |-> NoGroup] /\ UNCHANGED <<holderVars, taken, startOrder>>
      BY <1>1 DEF PressEsc, split
    <2>2. N' = N
      BY <2>1 DEF N
    <2>3. ASSUME NEW n \in 1..N, NEW s \in {"depth", "color"} PROVE SlotInv(n, s)'
      <3>1. SlotInv(n, s)
        BY DEF ViewInv
      <3>2. Shown(n, s)' = NoFrame
        BY <2>1, SlotFacts DEF Shown, NoGroup
      <3> QED BY <2>1, <3>1, <3>2 DEF SlotInv, Older, holderVars
    <2> QED BY <2>1, <2>2, <2>3 DEF ViewInv
  <1>2. CASE CreateHolder \/ StartStream \/ StartStreamFails \/ StartStreamReturns
             \/ EnterLoop \/ RunWindow \/ StopStreams \/ UNCHANGED vars
    <2>1. UNCHANGED <<obFrames, stamp, taken, startOrder, groups>>
      BY <1>2 DEF CreateHolder, StartStream, StartPipeline, StartStreamFails, StartStreamReturns,
                  MarkStarted, EnterLoop, RunWindow, BeginPairing, StopStreams, StopStream,
                  vars, holderVars, pairingVars, mainVars, split
    <2>2. \A h \in Holders, u \in Int : Older(u, h) => Older(u, h)'
      BY <2>1 DEF Older
    <2> QED BY <2>1, <2>2, ViewKept
  <1>3. CASE (Pairing /\ ~TakeFrame) \/ MainThrows
    <2>1. /\ UNCHANGED <<holderVars, startOrder, groups>>
          /\ taken' = taken \/ taken' = NoFrames
      BY <1>3 DEF MainThrows, Pairing, PairingStep, HolderReady, HolderNotReady, TimeOut, AllReady,
                  SortFrameMap, TakeReference, CompareFront, ReturnNothing, split
    <2>2. \A h \in Holders, u \in Int : Older(u, h) => Older(u, h)'
      BY <2>1 DEF Older, holderVars
    <2>3. \A x \in Slots : taken'[x] = taken[x] \/ taken'[x] = NoFrame
      BY <2>1 DEF NoFrames
    <2> QED BY <2>1, <2>2, <2>3, ViewKept
  <1> QED BY <1>1, <1>2, <1>3, FrameArrivesKeepsView, TakeKeepsView, PushKeepsView DEF Next, Main

LEMMA InitViewInv == Init => ViewInv
  <1> SUFFICES ASSUME Init PROVE ViewInv
    OBVIOUS
  <1>1. groups = [g \in GroupIds |-> NoGroup] /\ taken = NoFrames /\ IInv
    BY InitIInv DEF Init, PairingInit
  <1>2. ASSUME NEW n \in 1..N, NEW s \in {"depth", "color"} PROVE SlotInv(n, s)
    <2>1. taken[<<s, n - 1>>] = NoFrame /\ Shown(n, s) = NoFrame
      BY <1>1, SlotFacts DEF Shown, NoFrames, NoGroup
    <2> QED BY <2>1 DEF SlotInv
  <1> QED BY <1>1, <1>2 DEF ViewInv

\* What is shown, what is taken and what is queued of a sensor stay in order.
THEOREM ViewInvariance == Spec => [](IInv /\ PairInv /\ ViewInv)
  <1>1. Init => ViewInv
    BY InitViewInv
  <1>2. IInv /\ PairInv /\ ViewInv /\ [Next]_vars => ViewInv'
    BY NextViewInv
  <1> QED BY <1>1, <1>2, PairInvariance, PTL DEF Spec

\* What ViewNeverGoesBack says of one step.
ShowsOnward ==
    \A g \in GroupIds : \A i \in {1, 2} :
        LET old == groups[g][i]  new == groups'[g][i] IN
        new # NoFrame /\ old # NoFrame /\ new # old =>
            old.dev = new.dev /\ old.tsp < new.tsp

LEMMA EveryStepShowsOnward ==
  ASSUME IInv, PairInv, ViewInv, [Next]_vars
  PROVE  ShowsOnward
  <1>1. CASE groups' = groups
    BY <1>1 DEF ShowsOnward
  <1>2. CASE PressEsc
    BY <1>2 DEF PressEsc, ShowsOnward, NoGroup
  <1>3. CASE PushPairs
    <2> SUFFICES ASSUME NEW g \in GroupIds, NEW i \in {1, 2},
                        groups'[g][i] # NoFrame, groups[g][i] # NoFrame
                 PROVE  /\ groups[g][i].dev = groups'[g][i].dev
                        /\ groups[g][i].tsp < groups'[g][i].tsp
      BY DEF ShowsOnward
    <2>1. PICK s \in {"depth", "color"} : i = IF s = "depth" THEN 1 ELSE 2
      <3>1. i = (IF "depth" = "depth" THEN 1 ELSE 2) \/ i = (IF "color" = "depth" THEN 1 ELSE 2)
        OBVIOUS
      <3> QED BY <3>1
    <2>2. g \in 1..N
      <3>1. N \in Nat /\ g \in Nat /\ g >= 1
        BY DevicesCount DEF GroupIds, IInv, StartInv
      <3>2. g > N => groups'[g] = NoGroup
        BY <1>3, PushShows
      <3>3. ~(g > N)
        BY <3>2 DEF NoGroup
      <3> QED BY <3>1, <3>3
    <2>3. /\ groups'[g][i] = taken[<<s, g - 1>>]
          /\ taken[<<s, g - 1>>] \in Frame /\ taken[<<s, g - 1>>].dev = startOrder[g]
      BY <1>3, <2>1, <2>2, PushShows
    <2>4. Shown(g, s) = groups[g][i]
      BY <2>1 DEF Shown
    <2>5. SlotInv(g, s)
      BY <2>2 DEF ViewInv
    <2> QED BY <2>3, <2>4, <2>5 DEF SlotInv
  <1>4. CASE ~(PressEsc \/ PushPairs)
    <2>1. groups' = groups
      BY <1>4 DEF Next, Main, CreateHolder, StartStream, StartStreamFails, StartStreamReturns,
                  EnterLoop, RunWindow, Pairing, StopStreams, MainThrows, FrameArrives, vars,
                  mainVars
    <2> QED BY <1>1, <2>1
  <1> QED BY <1>2, <1>3, <1>4

\* What the window shows of a camera never goes back in time, whatever is
\* dropped, given up or pushed between two looks at it.
THEOREM ViewTheorem == Spec => ViewNeverGoesBack
  <1>1. (IInv /\ PairInv /\ ViewInv) /\ [Next]_vars => [ShowsOnward]_vars
    BY EveryStepShowsOnward
  <1>2. Spec => [][ShowsOnward]_vars
    BY <1>1, ViewInvariance, PTL DEF Spec
  <1> QED BY <1>2 DEF ViewNeverGoesBack, ShowsOnward
=============================================================================
