---------------------------- MODULE ProgramsProofs ----------------------------
(***************************************************************************)
(* Proofs about the programs around one camera: the window of the          *)
(* examples, for any groups and types, the playback, common_usages and the *)
(* viewers of the verification tool, and, with the theorems about the      *)
(* firmware updates and the bridge, that all of them hold of the programs  *)
(* side by side.                                                           *)
(***************************************************************************)
EXTENDS MCPrograms, FirmwareUpdateProofs, FemtoMegaNodeProofs

-----------------------------------------------------------------------------
(* The window *)

\* How far the search for rows and columns has come.
Square(r, c, n) == c = r /\ IsSqrt(r, n)
OneMore(r, c, n) == c = r + 1 /\ IsSqrt(r, n) /\ r * r < n
Fits(r, c, n) == r * c >= n /\ (r - 1) * c < n /\ r * (c - 1) < n

GridInv ==
    /\ worker = "columns" => Square(grid.rows, grid.cols, Count)
                             \/ Fits(grid.rows, grid.cols, Count)
    /\ worker = "rows" => OneMore(grid.rows, grid.cols, Count)
    /\ worker = "render" => Fits(grid.rows, grid.cols, Count)

\* What arrangeFrames needs, and which thread is there in each step of close().
ThreadsInv ==
    /\ worker \in {"arrange", "columns", "rows", "render"} => mats # {}
    /\ wMain \in {"idle", "clearing", "done"} => worker = "joined"

WindowInv ==
    /\ WindowTypeOK
    /\ ClearedAfterTheThread
    /\ ThreadsInv
    /\ GridInv

LEMMA NoGroupsAreGroups == NoGroups \in FrameGroups
  <1>1. NoGroups \in [{} -> SUBSET Types]
    BY DEF NoGroups
  <1>2. {} \in SUBSET Groups
    OBVIOUS
  <1> QED BY <1>1, <1>2 DEF FrameGroups

LEMMA ReplacedIsGroups ==
  ASSUME srcFrames \in FrameGroups, NEW g \in Groups, NEW F \in SUBSET Types
  PROVE  Replaced(g, F) \in FrameGroups
  <1>1. PICK S \in SUBSET Groups : srcFrames \in [S -> SUBSET Types]
    BY DEF FrameGroups
  <1>2. S \cup {g} \in SUBSET Groups
    OBVIOUS
  <1>3. Replaced(g, F) \in [S \cup {g} -> SUBSET Types]
    BY <1>1 DEF Replaced
  <1> QED BY <1>2, <1>3 DEF FrameGroups

LEMMA InitWindowInv == WindowInit => WindowInv
  <1> SUFFICES ASSUME WindowInit PROVE WindowInv
    OBVIOUS
  <1>1. WindowTypeOK
    BY NoGroupsAreGroups DEF WindowInit, WindowTypeOK
  <1>2. ClearedAfterTheThread /\ ThreadsInv /\ GridInv
    BY DEF WindowInit, ClearedAfterTheThread, ThreadsInv, GridInv
  <1> QED BY <1>1, <1>2 DEF WindowInv

LEMMA CountType ==
  ASSUME WindowTypeOK
  PROVE  Count \in Nat /\ (mats # {} => Count # 0)
  <1>1. IsFiniteSet(Uids)
    BY FramesAssumption, FS_Product DEF Uids
  <1>2. IsFiniteSet(mats)
    BY <1>1, FS_Subset DEF WindowTypeOK
  <1> QED BY <1>2, FS_CardinalityType, FS_EmptySet DEF Count

\* The arithmetic of the search: what its two steps make of a grid.
LEMMA Squares ==
  ASSUME NEW r \in Nat
  PROVE  /\ r * r \in Nat /\ (r + 1) * (r + 1) = r * r + 2 * r + 1
         /\ r * (r + 1) = r * r + r /\ (r + 1) * r = r * r + r
         /\ (r - 1) * r = r * r - r /\ r * (r - 1) = r * r - r
         /\ (r - 1) * (r + 1) = r * r - 1
         /\ (r + 1) - 1 = r
  OBVIOUS

LEMMA SquareFits ==
  ASSUME NEW r \in Nat, NEW c \in Nat, NEW n \in Nat \ {0}, Square(r, c, n),
         ~(r * c < n)
  PROVE  Fits(r, c, n)
  <1>1. r # 0
    BY DEF Square
  <1> QED BY <1>1, Squares DEF Square, IsSqrt, Fits

LEMMA ColumnIsOneMore ==
  ASSUME NEW r \in Nat, NEW c \in Nat, NEW n \in Nat, Square(r, c, n), r * c < n
  PROVE  OneMore(r, c + 1, n)
  BY DEF Square, OneMore

LEMMA OneMoreFits ==
  ASSUME NEW r \in Nat, NEW c \in Nat, NEW n \in Nat, OneMore(r, c, n)
  PROVE  IF r * c < n THEN Fits(r + 1, c, n) ELSE Fits(r, c, n)
  BY Squares DEF OneMore, IsSqrt, Fits

LEMMA ArrangeKeepsInv ==
  ASSUME WindowInv, ArrangeFrames
  PROVE  WindowInv'
  <1>1. /\ Count \in Nat /\ grid.rows \in Nat /\ grid.cols \in Nat
        /\ worker \in {"arrange", "columns", "rows", "render"} => Count # 0
    BY CountType DEF WindowInv, WindowTypeOK, ThreadsInv
  <1>2. worker # "joined" /\ wMain \notin {"idle", "clearing", "done"}
    BY DEF ArrangeFrames, ArrangeOther, ArrangeGrid, AddColumn, AddRow, RenderGrid,
           WindowInv, ThreadsInv
  <1>3. /\ UNCHANGED <<wMain, closed, srcFrames, copied, mats, missed>>
        /\ Count' = Count
    BY DEF ArrangeFrames, ArrangeOther, ArrangeGrid, AddColumn, AddRow, RenderGrid,
           Count
  <1>4. /\ worker' \in {"test", "columns", "rows", "render"}
        /\ worker \in {"arrange", "columns", "rows", "render"}
    BY DEF ArrangeFrames, ArrangeOther, ArrangeGrid, AddColumn, AddRow, RenderGrid
  <1>5. grid' \in [rows : Nat, cols : Nat] /\ GridInv'
    <2>1. CASE ArrangeOther \/ RenderGrid
      BY <2>1 DEF ArrangeOther, RenderGrid, WindowInv, WindowTypeOK, GridInv
    <2>2. CASE ArrangeGrid
      <3>1. PICK s \in 0..Count : IsSqrt(s, Count) /\ grid' = [rows |-> s, cols |-> s]
        BY <2>2 DEF ArrangeGrid
      <3>2. s \in Nat /\ worker' = "columns"
        BY <1>1, <2>2 DEF ArrangeGrid
      <3> QED BY <1>3, <3>1, <3>2 DEF GridInv, Square
    <2>3. CASE AddColumn /\ grid.rows * grid.cols < Count
      <3>1. Square(grid.rows, grid.cols, Count)
        BY <1>1, <2>3 DEF AddColumn, WindowInv, GridInv, Fits
      <3>2. /\ worker' = "rows" /\ grid' = [grid EXCEPT !.cols = @ + 1]
            /\ grid \in [rows : Nat, cols : Nat]
        BY <2>3 DEF AddColumn, WindowInv, WindowTypeOK
      <3>3. /\ grid'.rows = grid.rows /\ grid'.cols = grid.cols + 1
            /\ grid' \in [rows : Nat, cols : Nat]
        BY <3>2
      <3>4. OneMore(grid'.rows, grid'.cols, Count)
        BY <1>1, <2>3, <3>1, <3>3, ColumnIsOneMore
      <3> QED BY <1>3, <3>2, <3>3, <3>4 DEF GridInv
    <2>4. CASE AddColumn /\ ~(grid.rows * grid.cols < Count)
      <3>1. worker' = "render" /\ grid' = grid /\ worker = "columns"
        BY <2>4 DEF AddColumn
      <3>2. Fits(grid.rows, grid.cols, Count)
        BY <1>1, <2>4, <3>1, SquareFits DEF WindowInv, GridInv
      <3> QED BY <1>3, <3>1, <3>2 DEF GridInv, WindowInv, WindowTypeOK
    <2>5. CASE AddRow
      <3>1. worker' = "columns" /\ OneMore(grid.rows, grid.cols, Count)
        BY <2>5 DEF AddRow, WindowInv, GridInv
      <3>2. IF grid.rows * grid.cols < Count
            THEN Fits(grid.rows + 1, grid.cols, Count)
            ELSE Fits(grid.rows, grid.cols, Count)
        BY <1>1, <3>1, OneMoreFits
      <3>3. grid' = IF grid.rows * grid.cols < Count
                    THEN [grid EXCEPT !.rows = @ + 1] ELSE grid
        BY <2>5 DEF AddRow
      <3>4. grid \in [rows : Nat, cols : Nat]
        BY DEF WindowInv, WindowTypeOK
      <3>5. grid' \in [rows : Nat, cols : Nat]
        BY <3>3, <3>4
      <3>6. Fits(grid'.rows, grid'.cols, Count)
        BY <3>2, <3>3, <3>4
      <3> QED BY <1>3, <3>1, <3>5, <3>6 DEF GridInv
    <2> QED BY <2>1, <2>2, <2>3, <2>4, <2>5 DEF ArrangeFrames
  <1> QED BY <1>1, <1>2, <1>3, <1>4, <1>5
      DEF WindowInv, WindowTypeOK, ClearedAfterTheThread, ThreadsInv

LEMMA PushKeepsInv ==
  ASSUME WindowInv, PushFrames
  PROVE  WindowInv'
  <1>1. srcFrames' \in FrameGroups
    BY ReplacedIsGroups DEF PushFrames, WindowInv, WindowTypeOK
  <1>2. worker' = worker \/ (worker = "asleep" /\ worker' = "awake")
    BY DEF PushFrames, Notified
  <1>3. /\ wMain = "push" /\ wMain' = "run"
        /\ UNCHANGED <<closed, copied, mats, grid, missed, Count>>
    BY DEF PushFrames, Count
  <1> QED BY <1>1, <1>2, <1>3
      DEF WindowInv, WindowTypeOK, ClearedAfterTheThread, ThreadsInv, GridInv

LEMMA DrawKeepsInv ==
  ASSUME WindowInv, Draw
  PROVE  WindowInv'
  <1>1. mats' \in SUBSET Uids /\ copied' \in FrameGroups
    BY NoGroupsAreGroups DEF Draw, FramesOf, WindowInv, WindowTypeOK
  <1>2. /\ worker = "draw"
        /\ worker' = IF mats' = {} THEN "test" ELSE "arrange"
        /\ UNCHANGED <<wMain, closed, srcFrames, grid, missed>>
    BY DEF Draw
  <1> QED BY <1>1, <1>2
      DEF WindowInv, WindowTypeOK, ClearedAfterTheThread, ThreadsInv, GridInv

LEMMA NextWindowInv == WindowInv /\ [WindowNext]_windowVars => WindowInv'
  <1> SUFFICES ASSUME WindowInv, [WindowNext]_windowVars PROVE WindowInv'
    OBVIOUS
  <1> USE DEF WindowInv, WindowTypeOK, ClearedAfterTheThread, ThreadsInv, GridInv, Count
  <1>1. CASE CreateWindow
    BY <1>1 DEF CreateWindow
  <1>2. CASE RunEsc \/ RunNoEsc \/ WaitThrows
    BY <1>2 DEF RunEsc, RunNoEsc, WaitThrows, Notified
  <1>3. CASE CloseBegin
    BY <1>3 DEF CloseBegin, Notified
  <1>4. CASE CloseJoin
    BY <1>4 DEF CloseJoin
  <1>5. CASE CloseClear
    BY <1>5, NoGroupsAreGroups DEF CloseClear
  <1>6. CASE TestClosed \/ FallAsleep \/ WakeSpuriously
    BY <1>6 DEF TestClosed, FallAsleep, WakeSpuriously
  <1>7. CASE CopyFrames \/ DrawThrows
    BY <1>7 DEF CopyFrames, DrawThrows
  <1>8. CASE UNCHANGED windowVars
    BY <1>8 DEF windowVars
  <1> QED BY <1>1, <1>2, <1>3, <1>4, <1>5, <1>6, <1>7, <1>8, PushKeepsInv, DrawKeepsInv,
             ArrangeKeepsInv
     DEF WindowNext, WindowMain, ProcessFrames

\* The window's inductive invariant: which of its threads is still there in
\* each step of close(), and how far the search for the grid has come.
THEOREM WindowInvariance == WindowSpec => []WindowInv
  BY InitWindowInv, NextWindowInv, PTL DEF WindowSpec

\* The mats and frames are cleared when the processing thread is gone, and
\* nothing is left of what it drew.
THEOREM ClearedTheorem == WindowSpec => []ClearedAfterTheThread
  <1>1. WindowInv => ClearedAfterTheThread
    BY DEF WindowInv
  <1> QED BY <1>1, WindowInvariance, PTL

\* Whatever the number of mats, the search ends with a grid that holds them all
\* and would not with one row or one column less.
THEOREM GridTheorem == WindowSpec => []GridFits
  <1>1. WindowInv => GridFits
    BY DEF WindowInv, GridInv, Fits, GridFits
  <1> QED BY <1>1, WindowInvariance, PTL

-----------------------------------------------------------------------------
(* The playback *)

\* Only the replay thread starts the pipeline once main shows frames, and it
\* stops it last; main does not return before.
PlaybackInv ==
    /\ PlaybackTypeOK
    /\ pMain = "end" => replay = "ended"
    /\ replay = "ended" => ~playing

LEMMA InitPlaybackInv == PlaybackInit => PlaybackInv
  BY DEF PlaybackInit, PlaybackInv, PlaybackTypeOK

LEMMA NextPlaybackInv == PlaybackInv /\ [PlaybackNext]_playbackVars => PlaybackInv'
  <1> SUFFICES ASSUME PlaybackInv, [PlaybackNext]_playbackVars PROVE PlaybackInv'
    OBVIOUS
  <1> USE DEF PlaybackInv, PlaybackTypeOK
  <1>1. CASE StartPlayback
    BY <1>1 DEF StartPlayback
  <1>2. CASE CloseView \/ StopPipe \/ SetExited \/ Join
    <2>1. CASE CloseView
      BY <2>1 DEF CloseView
    <2>2. CASE StopPipe
      BY <2>2 DEF StopPipe
    <2>3. CASE SetExited
      BY <2>3 DEF SetExited
    <2>4. CASE Join
      BY <2>4 DEF Join
    <2> QED BY <1>2, <2>1, <2>2, <2>3, <2>4
  <1>3. CASE NotifyExit
    BY <1>3 DEF NotifyExit, Woken, Missed
  <1>4. CASE TestReplay \/ SleepReplay
    BY <1>4 DEF TestReplay, SleepReplay
  <1>5. CASE StopForReplay \/ EndPause
    BY <1>5 DEF StopForReplay, EndPause
  <1>6. CASE PlayAgain \/ StopLast
    <2>1. CASE PlayAgain
      <3>1. PlaybackTypeOK'
        BY <2>1 DEF PlayAgain
      <3>2. pMain' = pMain /\ replay \in {"paused", "start"} /\ replay' # "ended"
        BY <2>1 DEF PlayAgain
      <3> QED BY <3>1, <3>2
    <2>2. CASE StopLast
      BY <2>2 DEF StopLast
    <2> QED BY <1>6, <2>1, <2>2
  <1>7. CASE StatusChanges
    BY <1>7 DEF StatusChanges, Woken, Missed
  <1>8. CASE RecordingEnds
    BY <1>8 DEF RecordingEnds
  <1>9. CASE StartFails \/ StopThrows \/ ReplayThrows
    BY <1>9 DEF StartFails, StopThrows, ReplayThrows, Dies
  <1>10. CASE UNCHANGED playbackVars
    BY <1>10 DEF playbackVars
  <1> QED BY <1>1, <1>2, <1>3, <1>4, <1>5, <1>6, <1>7, <1>8, <1>9, <1>10
     DEF PlaybackNext, PlaybackMain, Replay

\* The inductive invariant of the playback example: what the replay thread may
\* still do at each step of main.
THEOREM PlaybackInvariance == PlaybackSpec => []PlaybackInv
  BY InitPlaybackInv, NextPlaybackInv, PTL DEF PlaybackSpec

\* When main returns nothing plays, whatever the replay thread did after
\* main's own stop.
THEOREM NothingPlaysTheorem == PlaybackSpec => []NothingPlaysAtTheEnd
  <1>1. PlaybackInv => NothingPlaysAtTheEnd
    BY DEF PlaybackInv, NothingPlaysAtTheEnd
  <1> QED BY <1>1, PlaybackInvariance, PTL

-----------------------------------------------------------------------------
(* common_usages *)

\* A callback to come will let go of the connection h, or open it.
LeavePending(h) ==
    \E i \in 1..Len(changes) :
        h \in changes[i].removed /\ (i = 1 => callback \in {"no", "removed", "drop device"})
ComePending(h) ==
    \E i \in 1..Len(changes) :
        h \in changes[i].added /\ (i = 1 => callback # "starting")

ChangesType == [removed : SUBSET Plugged, added : SUBSET Plugged]

\* The open device is connected, or its removal has yet to be told.
LeavesInv == device \in Present \cup {NoCamera} \/ LeavePending(device)

\* Who opens a device finds none open; who lets go of one finds it still there.
OpeningInv ==
    /\ opener # "" => device # NoCamera /\ pipeline \in {device, NoCamera}
    /\ callback = "drop device" =>
         /\ opener = "" /\ device # NoCamera
         /\ device.cam \in {h.cam : h \in Change.removed}
    /\ callback # "no" => changes # <<>>
    /\ "between" \notin mishaps =>
         IF callback = "drop pipeline" THEN device = NoCamera ELSE pipeline = device

\* What left before it came again will be told to have come.
ChainInv ==
    \A i \in 1..Len(changes) : \A h \in changes[i].removed :
        plug[h.cam] # 0 =>
          \E j \in i..Len(changes) : PluggedIn(h.cam) \in changes[j].added

UsedInv ==
    /\ \A c \in Cameras : plug[c] # 0 => c \in cUsed
    /\ device # NoCamera => device.cam \in cUsed

\* The only camera, when it is connected and not open, will be opened: by main,
\* or by a callback to come.
ComesInv ==
    Running /\ device = NoCamera /\ "failed" \notin mishaps /\ (\E x \in Cameras : cUsed = {x}) =>
       \A c \in Cameras : plug[c] # 0 =>
         \/ cPc = "query"
         \/ cPc = "open" /\ PluggedIn(c) \in found
         \/ ComePending(PluggedIn(c))

IdleInv ==
    cPc = "idle" => /\ device = NoCamera /\ pipeline = NoCamera /\ changes = <<>>
                    /\ opener = "" /\ callback = "no" /\ mishaps = {}

CoreInv ==
    /\ UsagesTypeOK /\ changes \in Seq(ChangesType)
    /\ LeavesInv /\ OpeningInv /\ ChainInv /\ UsedInv /\ ComesInv /\ IdleInv

LEMMA AppendToFacts ==
  ASSUME NEW S, NEW s \in Seq(S), NEW e \in S
  PROVE  /\ Append(s, e) \in Seq(S) /\ Append(s, e) # <<>>
         /\ Len(Append(s, e)) = Len(s) + 1 /\ Len(s) \in Nat
         /\ \A i \in 1..Len(s) : Append(s, e)[i] = s[i]
         /\ Append(s, e)[Len(s) + 1] = e
  OBVIOUS

LEMMA TailOfFacts ==
  ASSUME NEW S, NEW s \in Seq(S), s # <<>>
  PROVE  /\ Tail(s) \in Seq(S)
         /\ Len(s) \in Nat \ {0} /\ Len(Tail(s)) = Len(s) - 1
         /\ \A i \in 1..(Len(s) - 1) : Tail(s)[i] = s[i + 1]
         /\ Head(s) = s[1] /\ Head(s) \in S
  OBVIOUS

LEMMA HeadStays ==
  ASSUME NEW S, NEW s \in Seq(S), NEW e \in S, s # <<>>
  PROVE  Head(Append(s, e)) = Head(s)
  <1>1. Len(s) \in Nat \ {0} /\ Head(s) = s[1]
    BY TailOfFacts
  <1>2. Append(s, e)[1] = s[1] /\ Append(s, e) \in Seq(S) /\ Append(s, e) # <<>>
    BY <1>1, AppendToFacts
  <1>3. Head(Append(s, e)) = Append(s, e)[1]
    BY <1>2, TailOfFacts
  <1> QED BY <1>1, <1>2, <1>3

LEMMA ElementsOf ==
  ASSUME NEW S, NEW s \in Seq(S)
  PROVE  /\ DOMAIN s = 1..Len(s) /\ Len(s) \in Nat
         /\ \A i \in 1..Len(s) : s[i] \in S
         /\ s = <<>> <=> Len(s) = 0
  OBVIOUS

LEMMA NoCameraFacts ==
  /\ NoCamera \notin Plugged /\ NoCamera.cam \notin Cameras
  /\ \A h \in Plugged : h.cam \in Cameras /\ h.plug \in 1..MaxPlugs /\ h.plug # 0
                        /\ h = [cam |-> h.cam, plug |-> h.plug]
  BY CamerasAssumption, MaxPlugsAssumption DEF NoCamera, Plugged

LEMMA PresentFacts ==
  ASSUME UsagesTypeOK
  PROVE  /\ Present \subseteq Plugged /\ NoCamera \notin Present
         /\ \A c \in Cameras : plug[c] # 0 => PluggedIn(c) \in Present
         /\ \A h \in Present : plug[h.cam] = h.plug /\ h.plug # 0 /\ h.cam \in Cameras
                               /\ h = PluggedIn(h.cam)
         /\ \A h \in Plugged : plug[h.cam] = h.plug => h \in Present
  <1>1. \A c \in Cameras : plug[c] # 0 => PluggedIn(c) \in Plugged
    <2> SUFFICES ASSUME NEW c \in Cameras, plug[c] # 0 PROVE PluggedIn(c) \in Plugged
      OBVIOUS
    <2>1. plug[c] \in 0..MaxPlugs
      BY DEF UsagesTypeOK
    <2>2. plug[c] \in 1..MaxPlugs
      BY <2>1, MaxPlugsAssumption
    <2> QED BY <2>2 DEF Plugged, PluggedIn
  <1>2. \A c \in Cameras : PluggedIn(c).cam = c /\ PluggedIn(c).plug = plug[c]
    BY DEF PluggedIn
  <1>3. \A h \in Present : \E c \in Cameras : plug[c] # 0 /\ h = PluggedIn(c)
    BY DEF Present
  <1>4. \A c \in Cameras : plug[c] # 0 => PluggedIn(c) \in Present
    <2> TAKE c \in Cameras
    <2> HAVE plug[c] # 0
    <2>1. c \in {x \in Cameras : plug[x] # 0}
      OBVIOUS
    <2> QED BY <2>1 DEF Present
  <1>5. ASSUME NEW h \in Plugged, plug[h.cam] = h.plug PROVE h \in Present
    <2>1. h.cam \in Cameras /\ h.plug # 0 /\ h = [cam |-> h.cam, plug |-> h.plug]
      BY NoCameraFacts
    <2>2. h = PluggedIn(h.cam)
      BY <1>5, <2>1 DEF PluggedIn
    <2> QED BY <1>4, <1>5, <2>1, <2>2
  <1> QED BY <1>1, <1>2, <1>3, <1>4, <1>5, NoCameraFacts

LEMMA InitCoreInv == UsagesInit => CoreInv
  <1> SUFFICES ASSUME UsagesInit PROVE CoreInv
    OBVIOUS
  <1>1. changes = <<>> /\ changes \in Seq(ChangesType) /\ Len(changes) = 0
    <2>1. changes = <<>>
      BY DEF UsagesInit
    <2>2. \A S : <<>> \in Seq(S)
      OBVIOUS
    <2> QED BY <2>1, <2>2, ElementsOf
  <1>2. UsagesTypeOK
    <2>1. 0 \in 0..MaxPlugs
      BY MaxPlugsAssumption
    <2>2. plug \in [Cameras -> 0..MaxPlugs] /\ plugs \in [Cameras -> 0..MaxPlugs]
      BY <2>1 DEF UsagesInit
    <2>3. \A n \in DOMAIN changes : changes[n] \in ChangesType
      BY <1>1, ElementsOf
    <2> QED BY <2>2, <2>3 DEF UsagesInit, UsagesTypeOK, ChangesType
  <1>3. LeavesInv /\ OpeningInv /\ IdleInv
    BY DEF UsagesInit, LeavesInv, OpeningInv, IdleInv
  <1>4. ChainInv
    BY <1>1 DEF ChainInv
  <1>5. UsedInv /\ ComesInv
    BY DEF UsagesInit, UsedInv, ComesInv, Running, NoCamera
  <1> QED BY <1>1, <1>2, <1>3, <1>4, <1>5 DEF CoreInv

Places == {"idle", "query", "open", "starting", "await", "use", "run", "stop", "stopping",
           "unregister", "reset pipeline", "reset device", "end", "failed", "crashed"}

\* The changes and what is open stay.
LEMMA MainPlaceKeepsInv ==
  ASSUME CoreInv, UNCHANGED <<cUsed, plug, plugs, changes, device, pipeline, opener,
                                callback, mishaps>>,
         found' \in SUBSET Plugged, cPc' \in Places \ {"idle"}, ComesInv'
  PROVE  CoreInv'
  <1>1. UsagesTypeOK' /\ (changes \in Seq(ChangesType))'
    BY DEF CoreInv, UsagesTypeOK, Places
  <1>2. LeavesInv' /\ OpeningInv' /\ ChainInv' /\ UsedInv' /\ IdleInv'
    BY DEF CoreInv, LeavesInv, LeavePending, OpeningInv, ChainInv, UsedInv, IdleInv, Present,
           PluggedIn, Change
  <1> QED BY <1>1, <1>2 DEF CoreInv

LEMMA QueryKeepsInv ==
  ASSUME CoreInv, QueryDevices
  PROVE  CoreInv'
  <1>1. /\ found' = Present /\ cPc' = (IF Present = {} THEN "await" ELSE "open")
        /\ UNCHANGED <<cUsed, plug, plugs, changes, device, pipeline, opener, callback, mishaps>>
    BY DEF QueryDevices, sdk
  <1>2. Present \subseteq Plugged /\ \A c \in Cameras : plug[c] # 0 => PluggedIn(c) \in Present
    BY PresentFacts DEF CoreInv
  <1>3. ComesInv'
    <2>1. \A c \in Cameras : plug'[c] # 0 => cPc' = "open" /\ PluggedIn(c)' \in found'
      BY <1>1, <1>2 DEF PluggedIn
    <2> QED BY <2>1 DEF ComesInv
  <1> QED BY <1>1, <1>2, <1>3, MainPlaceKeepsInv DEF Places

\* Main touches nothing, or the program ends in a thread of the SDK.
OnlyMainGoesOn ==
    \/ AwaitDevice \/ UseDevice \/ CloseUsages \/ TestPipeline \/ StopPipeline
    \/ UnregisterCallback \/ CallbackThrows
    \/ \E t \in {"main", "sdk"} : StartWithout(t) \/ StreamFails(t)

LEMMA MainGoesOnFacts ==
  ASSUME OnlyMainGoesOn
  PROVE  /\ UNCHANGED <<cUsed, plug, plugs, changes, found, device, pipeline, opener, callback, mishaps>>
         /\ cPc \notin {"idle", "query", "open", "starting"} \/ cPc' \in {"failed", "crashed"}
         /\ cPc' \in {"use", "run", "stop", "stopping", "unregister", "reset pipeline", "failed", "crashed"}
         /\ Running
  <1>1. CASE AwaitDevice
    BY <1>1 DEF AwaitDevice, MainGoesOn, sdk, Running
  <1>2. CASE UseDevice
    BY <1>2 DEF UseDevice, MainGoesOn, sdk, Running
  <1>3. CASE CloseUsages \/ UnregisterCallback
    BY <1>3 DEF CloseUsages, UnregisterCallback, MainGoesOn, sdk, Running
  <1>4. CASE TestPipeline
    BY <1>4 DEF TestPipeline, MainGoesOn, sdk, Running
  <1>5. CASE StopPipeline
    BY <1>5 DEF StopPipeline, MainGoesOn, sdk, Running
  <1>6. CASE CallbackThrows \/ \E t \in {"main", "sdk"} : StartWithout(t) \/ StreamFails(t)
    BY <1>6 DEF CallbackThrows, StartWithout, StreamFails, sdk
  <1> QED BY <1>1, <1>2, <1>3, <1>4, <1>5, <1>6 DEF OnlyMainGoesOn

LEMMA MainGoesOnKeepsInv ==
  ASSUME CoreInv, OnlyMainGoesOn
  PROVE  CoreInv'
  <1>1. /\ UNCHANGED <<cUsed, plug, plugs, changes, found, device, pipeline, opener, callback, mishaps>>
        /\ cPc \notin {"idle", "query", "open", "starting"} \/ cPc' \in {"failed", "crashed"}
        /\ cPc' \in Places \ {"idle"} /\ Running
    BY MainGoesOnFacts DEF Places
  <1>2. ComesInv'
    <2> SUFFICES ASSUME Running', device = NoCamera, "failed" \notin mishaps,
                        \E x \in Cameras : cUsed = {x}, NEW c \in Cameras, plug[c] # 0
                 PROVE  ComePending(PluggedIn(c))'
      BY <1>1 DEF ComesInv
    <2>1. Running /\ cPc \notin {"query", "open"}
      BY <1>1 DEF Running
    <2>2. ComePending(PluggedIn(c))
      BY <2>1 DEF CoreInv, ComesInv
    <2> QED BY <1>1, <2>2 DEF ComePending, PluggedIn
  <1>3. found' \in SUBSET Plugged
    BY <1>1 DEF CoreInv, UsagesTypeOK
  <1> QED BY <1>1, <1>2, <1>3, MainPlaceKeepsInv

LEMMA StartUsagesKeepsInv ==
  ASSUME CoreInv, StartUsages
  PROVE  CoreInv'
  <1>1. PICK S \in SUBSET cUsed' : plug' = [c \in Cameras |-> IF c \in S THEN 1 ELSE 0]
    BY DEF StartUsages
  <1>2. /\ cUsed' \in SUBSET Cameras /\ plugs' = plug' /\ cPc = "idle" /\ cPc' = "query"
        /\ UNCHANGED <<changes, found, device, pipeline, opener, callback, mishaps>>
    BY DEF StartUsages
  <1>3. device = NoCamera /\ pipeline = NoCamera /\ changes = <<>> /\ opener = "" /\ callback = "no"
    BY <1>2 DEF CoreInv, IdleInv
  <1>4. UsagesTypeOK' /\ (changes \in Seq(ChangesType))'
    <2>1. 0 \in 0..MaxPlugs /\ 1 \in 0..MaxPlugs
      BY MaxPlugsAssumption
    <2>2. plug' \in [Cameras -> 0..MaxPlugs]
      BY <1>1, <2>1
    <2> QED BY <1>2, <2>2 DEF CoreInv, UsagesTypeOK
  <1>5. Len(changes) = 0
    BY <1>3, ElementsOf DEF CoreInv
  <1>6. LeavesInv' /\ OpeningInv' /\ ChainInv' /\ ComesInv' /\ IdleInv'
    <2>1. LeavesInv'
      BY <1>2, <1>3 DEF LeavesInv
    <2>2. OpeningInv' /\ IdleInv'
      BY <1>2, <1>3 DEF OpeningInv, IdleInv
    <2>3. ChainInv'
      BY <1>2, <1>5 DEF ChainInv
    <2>4. ComesInv'
      BY <1>2 DEF ComesInv
    <2> QED BY <2>1, <2>2, <2>3, <2>4
  <1>7. UsedInv'
    BY <1>1, <1>2, <1>3 DEF UsedInv
  <1> QED BY <1>4, <1>6, <1>7 DEF CoreInv

-----------------------------------------------------------------------------
(* The callback *)

\* The callback goes on without opening anything: what is open may be let go.
LEMMA CallbackGoesOnKeepsInv ==
  ASSUME CoreInv, Running, callback # "no" \/ changes # <<>>,
         UNCHANGED <<cPc, cUsed, plug, plugs, changes, found, opener, mishaps>>,
         callback' \in {"removed", "drop device", "drop pipeline", "added"},
         pipeline' \in {pipeline, NoCamera}, LeavesInv', OpeningInv', UsedInv', ComesInv',
         device' \in {device, NoCamera}
  PROVE  CoreInv'
  <1>1. UsagesTypeOK' /\ (changes \in Seq(ChangesType))'
    BY DEF CoreInv, UsagesTypeOK
  <1>2. ChainInv'
    BY DEF CoreInv, ChainInv, PluggedIn
  <1>3. IdleInv'
    BY DEF IdleInv, Running
  <1> QED BY <1>1, <1>2, <1>3 DEF CoreInv

\* A device to come is still to come unless the callback has opened it.
LEMMA StillToCome ==
  ASSUME UNCHANGED <<cPc, plug, changes, found>>, callback' # "starting", device = NoCamera,
         UNCHANGED <<cUsed, mishaps>>, ComesInv
  PROVE  ComesInv'
  <1>1. \A c : ComePending(PluggedIn(c)) => ComePending(PluggedIn(c))'
    BY DEF ComePending, PluggedIn
  <1> QED BY <1>1 DEF ComesInv, Running, PluggedIn

LEMMA BeginKeepsInv ==
  ASSUME CoreInv, BeginCallback
  PROVE  CoreInv'
  <1>1. /\ Running /\ callback = "no" /\ changes # <<>> /\ callback' = "removed"
        /\ UNCHANGED <<cUsed, plug, plugs, changes, cPc, found, device, pipeline, opener, mishaps>>
    BY DEF BeginCallback, Registered, sdk, mainPlace
  <1>2. LeavesInv' /\ OpeningInv' /\ UsedInv'
    BY <1>1 DEF CoreInv, LeavesInv, LeavePending, OpeningInv, UsedInv, Present, PluggedIn
  <1>3. ComesInv'
    BY <1>1, StillToCome DEF CoreInv, ComesInv
  <1> QED BY <1>1, <1>2, <1>3, CallbackGoesOnKeepsInv

LEMMA ReadSnKeepsInv ==
  ASSUME CoreInv, ReadCurrentSn
  PROVE  CoreInv'
  <1>1. /\ Running /\ callback = "removed" /\ opener = ""
        /\ callback' = IF device.cam \in {h.cam : h \in Change.removed}
                         THEN "drop device" ELSE "added"
        /\ UNCHANGED <<cUsed, plug, plugs, changes, cPc, found, device, pipeline, opener, mishaps>>
    BY DEF ReadCurrentSn, sdk, mainPlace
  <1>2. changes # <<>> /\ Change = changes[1] /\ Change \in ChangesType /\ Len(changes) \in Nat \ {0}
    BY <1>1, TailOfFacts DEF CoreInv, OpeningInv, Change
  <1>3. ASSUME device.cam \in {h.cam : h \in Change.removed} PROVE device # NoCamera
    <2>1. PICK h \in Change.removed : device.cam = h.cam
      BY <1>3
    <2>2. h \in Plugged
      BY <1>2, <2>1 DEF ChangesType
    <2> QED BY <2>1, <2>2, NoCameraFacts
  <1>4. LeavesInv'
    <2>1. CASE device \in Present \cup {NoCamera}
      BY <1>1, <2>1 DEF LeavesInv, Present, PluggedIn
    <2>2. CASE LeavePending(device)
      <3>1. PICK i \in 1..Len(changes) : device \in changes[i].removed
        BY <2>2 DEF LeavePending
      <3>2. i = 1 => device.cam \in {h.cam : h \in Change.removed}
        BY <1>2, <3>1
      <3>3. i = 1 => callback' = "drop device"
        BY <1>1, <3>2
      <3>4. LeavePending(device)'
        BY <1>1, <3>1, <3>3 DEF LeavePending
      <3> QED BY <3>4 DEF LeavesInv
    <2> QED BY <2>1, <2>2 DEF CoreInv, LeavesInv
  <1>5. OpeningInv'
    <2>1. callback' \in {"drop device", "added"}
      BY <1>1
    <2>2. Change' = Change
      BY <1>1 DEF Change
    <2>3. callback' = "drop device" =>
            device # NoCamera /\ device.cam \in {h.cam : h \in Change.removed}
      BY <1>1, <1>3
    <2>4. "between" \notin mishaps => pipeline = device
      BY <1>1 DEF CoreInv, OpeningInv
    <2> QED BY <1>1, <1>2, <2>1, <2>2, <2>3, <2>4 DEF OpeningInv
  <1>6. UsedInv'
    BY <1>1 DEF CoreInv, UsedInv
  <1>7. ComesInv'
    BY <1>1, StillToCome DEF CoreInv, ComesInv
  <1>8. callback' \in {"removed", "drop device", "drop pipeline", "added"}
    BY <1>1
  <1> QED BY <1>1, <1>2, <1>4, <1>5, <1>6, <1>7, <1>8, CallbackGoesOnKeepsInv

\* The camera let go of, when it is the only one, is still to come again.
LEMMA DropDeviceKeepsInv ==
  ASSUME CoreInv, DropDevice
  PROVE  CoreInv'
  <1>1. /\ Running /\ callback = "drop device" /\ callback' = "drop pipeline"
        /\ device' = NoCamera
        /\ UNCHANGED <<cUsed, plug, plugs, changes, cPc, found, pipeline, opener, mishaps>>
    BY DEF DropDevice, sdk, mainPlace
  <1>2. /\ opener = "" /\ device # NoCamera /\ changes # <<>>
        /\ device.cam \in {h.cam : h \in Change.removed}
    BY <1>1 DEF CoreInv, OpeningInv
  <1>3. Change = changes[1] /\ Change \in ChangesType /\ Len(changes) \in Nat \ {0}
    BY <1>2, TailOfFacts DEF CoreInv, Change
  <1>4. LeavesInv' /\ OpeningInv' /\ UsedInv'
    BY <1>1, <1>2 DEF LeavesInv, OpeningInv, UsedInv, CoreInv
  <1>5. ComesInv'
    <2> SUFFICES ASSUME NEW x \in Cameras, cUsed = {x}, NEW c \in Cameras, plug[c] # 0
                 PROVE  ComePending(PluggedIn(c))'
      BY <1>1 DEF ComesInv
    <2>1. c = x /\ device.cam = x
      BY <1>2 DEF CoreInv, UsedInv
    <2>2. PICK h \in Change.removed : h.cam = c
      BY <1>2, <2>1
    <2>3. 1 \in 1..Len(changes)
      BY <1>3
    <2>4. PICK j \in 1..Len(changes) : PluggedIn(c) \in changes[j].added
      BY <1>3, <2>2, <2>3 DEF CoreInv, ChainInv
    <2> QED BY <1>1, <2>4 DEF ComePending, PluggedIn
  <1> QED BY <1>1, <1>2, <1>4, <1>5, CallbackGoesOnKeepsInv

LEMMA DropPipelineKeepsInv ==
  ASSUME CoreInv, DropPipeline
  PROVE  CoreInv'
  <1>1. /\ Running /\ callback = "drop pipeline" /\ callback' = "added"
        /\ pipeline' = NoCamera
        /\ UNCHANGED <<cUsed, plug, plugs, changes, cPc, found, device, opener, mishaps>>
    BY DEF DropPipeline, sdk, mainPlace
  <1>2. changes # <<>>
    BY <1>1 DEF CoreInv, OpeningInv
  <1>3. LeavesInv'
    BY <1>1 DEF CoreInv, LeavesInv, LeavePending, Present, PluggedIn
  <1>4. OpeningInv' /\ UsedInv'
    BY <1>1 DEF OpeningInv, UsedInv, CoreInv
  <1>5. ComesInv'
    BY <1>1, StillToCome DEF CoreInv, ComesInv
  <1> QED BY <1>1, <1>2, <1>3, <1>4, <1>5, CallbackGoesOnKeepsInv

-----------------------------------------------------------------------------
(* Opening *)

LEMMA MainOpensKeepsInv ==
  ASSUME CoreInv, MainOpens
  PROVE  CoreInv'
  <1>1. cPc = "open" /\ found' = {} /\ UNCHANGED <<cUsed, plug, plugs, changes, callback>>
    BY DEF MainOpens, sdk
  <1>2. Present' = Present /\ \A c : PluggedIn(c)' = PluggedIn(c)
    BY <1>1 DEF Present, PluggedIn
  <1>3. (changes \in Seq(ChangesType))' /\ ChainInv'
    BY <1>1, <1>2 DEF CoreInv, ChainInv, PluggedIn
  <1>4. CASE OpenDevice("main", found) /\ cPc' = "starting"
             /\ mishaps' = mishaps \cup {x \in {"between"} : callback = "drop pipeline"}
    <2>1. PICK h \in found \cap Present : device' = h /\ pipeline' = h
      BY <1>4 DEF OpenDevice
    <2>2. opener = "" /\ device = NoCamera /\ opener' = "main"
      BY <1>4 DEF OpenDevice
    <2>3. h \in Plugged /\ h # NoCamera /\ h.cam \in cUsed
      BY <2>1, PresentFacts DEF CoreInv, UsedInv
    <2>4. mishaps' \in SUBSET {"failed", "between"}
      BY <1>4 DEF CoreInv, UsagesTypeOK
    <2>5. UsagesTypeOK'
      BY <1>1, <1>4, <2>1, <2>2, <2>3, <2>4 DEF CoreInv, UsagesTypeOK
    <2>6. LeavesInv' /\ UsedInv' /\ ComesInv' /\ IdleInv'
      BY <1>1, <1>2, <1>4, <2>1, <2>3 DEF CoreInv, LeavesInv, UsedInv, ComesInv, IdleInv
    <2>7. OpeningInv'
      <3>1. callback # "drop device"
        BY <2>2 DEF CoreInv, OpeningInv
      <3>2. "between" \notin mishaps' => callback # "drop pipeline"
        BY <1>4
      <3> QED BY <1>1, <2>1, <2>2, <2>3, <3>1, <3>2 DEF CoreInv, OpeningInv
    <2> QED BY <1>3, <2>5, <2>6, <2>7 DEF CoreInv
  <1>5. CASE /\ UNCHANGED <<device, pipeline, opener, mishaps>>
             /\ (device # NoCamera /\ cPc' = "await") \/ cPc' = "failed"
    <2>1. ComesInv'
      BY <1>5 DEF ComesInv, Running
    <2>2. cPc' \in Places \ {"idle"}
      BY <1>5 DEF Places
    <2> QED BY <1>1, <1>5, <2>1, <2>2, MainPlaceKeepsInv
  <1> QED BY <1>4, <1>5 DEF MainOpens

\* startStream finds what was opened, or nothing.
LEMMA StartFacts ==
  ASSUME CoreInv, NEW t \in {"main", "sdk"}, StartStreamOf(t)
  PROVE  /\ device' = device /\ pipeline' = pipeline /\ opener' = ""
         /\ device # NoCamera /\ pipeline = device
  BY DEF StartStreamOf, CoreInv, OpeningInv

LEMMA MainStartsKeepsInv ==
  ASSUME CoreInv, MainStarts
  PROVE  CoreInv'
  <1>1. /\ StartStreamOf("main") /\ cPc' = "await"
        /\ UNCHANGED <<cUsed, plug, plugs, changes, found, callback, mishaps>>
    BY DEF MainStarts, sdk
  <1>2. /\ device' = device /\ pipeline' = pipeline /\ opener' = ""
        /\ device # NoCamera /\ pipeline = device
    BY <1>1, StartFacts
  <1>3. UsagesTypeOK' /\ (changes \in Seq(ChangesType))'
    BY <1>1, <1>2 DEF CoreInv, UsagesTypeOK
  <1>4. LeavesInv' /\ ChainInv' /\ UsedInv'
    BY <1>1, <1>2 DEF CoreInv, LeavesInv, LeavePending, ChainInv, UsedInv, Present, PluggedIn
  <1>5. OpeningInv' /\ ComesInv' /\ IdleInv'
    BY <1>1, <1>2 DEF CoreInv, OpeningInv, ComesInv, IdleInv, Change
  <1> QED BY <1>3, <1>4, <1>5 DEF CoreInv

\* The callback is through with the first change.
LEMMA PopFacts ==
  ASSUME CoreInv, callback \in {"added", "starting"}, changes' = Tail(changes),
         callback' = "no", UNCHANGED <<plug, device>>
  PROVE  /\ (changes \in Seq(ChangesType))' /\ LeavesInv' /\ ChainInv'
         /\ \A h : ComePending(h) => ComePending(h)' \/ (callback = "added" /\ h \in Change.added)
  <1>1. changes # <<>> /\ changes \in Seq(ChangesType)
    BY DEF CoreInv, OpeningInv
  <1>2. /\ changes' \in Seq(ChangesType) /\ Change = changes[1]
        /\ Len(changes) \in Nat \ {0} /\ Len(changes') = Len(changes) - 1
        /\ \A i \in 1..(Len(changes) - 1) : changes'[i] = changes[i + 1]
    BY <1>1, TailOfFacts DEF Change
  <1>3. \A i \in 1..Len(changes) : i # 1 =>
          /\ i - 1 \in 1..Len(changes') /\ changes'[i - 1] = changes[i]
    <2> SUFFICES ASSUME NEW i \in 1..Len(changes), i # 1
                 PROVE  i - 1 \in 1..Len(changes') /\ changes'[i - 1] = changes[i]
      OBVIOUS
    <2>1. i - 1 \in 1..(Len(changes) - 1) /\ (i - 1) + 1 = i
      BY <1>2
    <2> QED BY <1>2, <2>1
  <1>4. LeavesInv'
    <2>1. CASE device \in Present \cup {NoCamera}
      BY <2>1 DEF LeavesInv, Present, PluggedIn
    <2>2. CASE LeavePending(device)
      <3>1. PICK i \in 1..Len(changes) : device \in changes[i].removed /\ i # 1
        BY <2>2 DEF LeavePending
      <3>2. i - 1 \in 1..Len(changes') /\ device' \in changes'[i - 1].removed
        BY <1>3, <3>1
      <3> QED BY <3>2 DEF LeavesInv, LeavePending
    <2> QED BY <2>1, <2>2 DEF CoreInv, LeavesInv
  <1>5. ChainInv'
    <2> SUFFICES ASSUME NEW i \in 1..Len(changes'), NEW h \in changes'[i].removed, plug[h.cam] # 0
                 PROVE  \E j \in i..Len(changes') : PluggedIn(h.cam) \in changes'[j].added
      BY DEF ChainInv, PluggedIn
    <2>1. i \in Nat /\ i + 1 \in 1..Len(changes) /\ changes'[i] = changes[i + 1]
      BY <1>2
    <2>2. PICK j \in (i + 1)..Len(changes) : PluggedIn(h.cam) \in changes[j].added
      BY <2>1 DEF CoreInv, ChainInv
    <2>3. j \in 1..Len(changes) /\ j # 1 /\ j - 1 \in i..Len(changes')
      BY <1>2, <2>1
    <2> QED BY <1>3, <2>2, <2>3
  <1>6. ASSUME NEW h, ComePending(h)
        PROVE  ComePending(h)' \/ (callback = "added" /\ h \in Change.added)
    <2>1. PICK i \in 1..Len(changes) :
              h \in changes[i].added /\ (i = 1 => callback # "starting")
      BY <1>6 DEF ComePending
    <2>2. CASE i = 1
      BY <1>2, <2>1, <2>2
    <2>3. CASE i # 1
      <3>1. i - 1 \in 1..Len(changes') /\ h \in changes'[i - 1].added
        BY <1>3, <2>1, <2>3
      <3> QED BY <3>1 DEF ComePending
    <2> QED BY <2>2, <2>3
  <1> QED BY <1>2, <1>4, <1>5, <1>6

LEMMA CallbackOpensKeepsInv ==
  ASSUME CoreInv, CallbackOpens
  PROVE  CoreInv'
  <1>1. Running /\ callback = "added" /\ UNCHANGED <<cUsed, plug, plugs, cPc, found>>
    BY DEF CallbackOpens, mainPlace
  <1>2. Present' = Present /\ \A c : PluggedIn(c)' = PluggedIn(c)
    BY <1>1 DEF Present, PluggedIn
  <1>3. changes # <<>> /\ changes \in Seq(ChangesType)
    BY <1>1 DEF CoreInv, OpeningInv
  <1>4. CASE OpenDevice("sdk", Change.added) /\ callback' = "starting" /\ UNCHANGED <<changes, mishaps>>
    <2>1. PICK h \in Present : device' = h /\ pipeline' = h
      BY <1>4 DEF OpenDevice
    <2>2. opener' = "sdk"
      BY <1>4 DEF OpenDevice
    <2>3. h \in Plugged /\ h # NoCamera /\ h.cam \in cUsed
      BY <2>1, PresentFacts DEF CoreInv, UsedInv
    <2>4. UsagesTypeOK' /\ (changes \in Seq(ChangesType))'
      BY <1>1, <1>4, <2>1, <2>2, <2>3 DEF CoreInv, UsagesTypeOK
    <2>5. LeavesInv' /\ ComesInv' /\ IdleInv'
      BY <1>1, <1>2, <2>1, <2>3 DEF LeavesInv, ComesInv, IdleInv, Running
    <2>6. UsedInv' /\ OpeningInv'
      BY <1>1, <1>3, <1>4, <2>1, <2>2, <2>3 DEF CoreInv, UsedInv, OpeningInv
    <2>7. ChainInv'
      BY <1>1, <1>4 DEF CoreInv, ChainInv, PluggedIn
    <2> QED BY <2>4, <2>5, <2>6, <2>7 DEF CoreInv
  <1>5. CASE /\ mishaps' = mishaps \cup {x \in {"failed"} : Change.added # {} /\ device = NoCamera}
             /\ callback' = "no" /\ changes' = Tail(changes)
             /\ UNCHANGED <<device, pipeline, opener>>
    <2>1. /\ (changes \in Seq(ChangesType))' /\ LeavesInv' /\ ChainInv'
          /\ \A h : ComePending(h) => ComePending(h)' \/ h \in Change.added
      BY <1>1, <1>5, PopFacts
    <2>2. mishaps' \in SUBSET {"failed", "between"} /\ mishaps \subseteq mishaps'
      BY <1>5 DEF CoreInv, UsagesTypeOK
    <2>3. UsagesTypeOK'
      <3>1. \A n \in DOMAIN changes' : changes'[n] \in ChangesType
        BY <2>1, ElementsOf
      <3> QED BY <1>1, <1>5, <2>2, <3>1 DEF CoreInv, UsagesTypeOK, ChangesType
    <2>4. UsedInv' /\ OpeningInv' /\ IdleInv'
      BY <1>1, <1>5, <2>2 DEF CoreInv, UsedInv, OpeningInv, IdleInv, Running
    <2>5. ComesInv'
      <3> SUFFICES ASSUME device = NoCamera, "failed" \notin mishaps',
                          \E x \in Cameras : cUsed = {x}, NEW c \in Cameras, plug[c] # 0
                   PROVE  \/ cPc = "query"
                          \/ cPc = "open" /\ PluggedIn(c) \in found
                          \/ ComePending(PluggedIn(c))'
        BY <1>1, <1>2, <1>5 DEF ComesInv
      <3>1. Change.added = {}
        BY <1>5
      <3>2. \/ cPc = "query"
            \/ cPc = "open" /\ PluggedIn(c) \in found
            \/ ComePending(PluggedIn(c))
        BY <1>1, <2>2 DEF CoreInv, ComesInv
      <3>3. PICK h : h = PluggedIn(c)
        OBVIOUS
      <3>4. ComePending(h) => ComePending(h)'
        BY <2>1, <3>1
      <3>5. h = PluggedIn(c)'
        BY <1>2, <3>3
      <3> QED BY <3>2, <3>3, <3>4, <3>5
    <2> QED BY <2>1, <2>3, <2>4, <2>5 DEF CoreInv
  <1> QED BY <1>4, <1>5 DEF CallbackOpens

LEMMA CallbackStartsKeepsInv ==
  ASSUME CoreInv, CallbackStarts
  PROVE  CoreInv'
  <1>1. /\ Running /\ callback = "starting" /\ StartStreamOf("sdk")
        /\ callback' = "no" /\ changes' = Tail(changes)
        /\ UNCHANGED <<cUsed, plug, plugs, cPc, found, mishaps>>
    BY DEF CallbackStarts, mainPlace
  <1>2. /\ device' = device /\ pipeline' = pipeline /\ opener' = ""
        /\ device # NoCamera /\ pipeline = device
    BY <1>1, StartFacts
  <1>3. (changes \in Seq(ChangesType))' /\ LeavesInv' /\ ChainInv'
    BY <1>1, <1>2, PopFacts
  <1>4. UsagesTypeOK'
    <2>1. \A n \in DOMAIN changes' : changes'[n] \in ChangesType
      BY <1>3, ElementsOf
    <2> QED BY <1>1, <1>2, <2>1 DEF CoreInv, UsagesTypeOK, ChangesType
  <1>5. UsedInv' /\ OpeningInv' /\ IdleInv' /\ ComesInv'
    BY <1>1, <1>2 DEF CoreInv, UsedInv, OpeningInv, IdleInv, ComesInv, Running
  <1> QED BY <1>3, <1>4, <1>5 DEF CoreInv

-----------------------------------------------------------------------------
(* The cameras come and go *)

\* What left is told to have left, what came to have come.
LEMMA ReplugFacts ==
  ASSUME UsagesTypeOK, NEW c \in Cameras, NEW to \in 0..MaxPlugs, Replug(c, to)
  PROVE  LET e == [removed |-> IF plug[c] # 0 THEN {PluggedIn(c)} ELSE {},
                   added |-> IF to # 0 THEN {[cam |-> c, plug |-> to]} ELSE {}]
         IN  /\ changes' = Append(changes, e) /\ e \in ChangesType
             /\ plug' = [plug EXCEPT ![c] = to] /\ plug'[c] = to
             /\ \A d \in Cameras : d # c => plug'[d] = plug[d] /\ PluggedIn(d)' = PluggedIn(d)
             /\ PluggedIn(c)' = [cam |-> c, plug |-> to]
             /\ UNCHANGED <<cUsed, cPc, found, device, pipeline, opener, callback, mishaps>>
  <1>1. /\ plug' = [plug EXCEPT ![c] = to] /\ plug \in [Cameras -> 0..MaxPlugs]
        /\ UNCHANGED <<cUsed, cPc, found, device, pipeline, opener, callback, mishaps>>
    BY DEF Replug, mainPlace, UsagesTypeOK
  <1>2. /\ plug'[c] = to /\ PluggedIn(c)' = [cam |-> c, plug |-> to]
        /\ \A d \in Cameras : d # c => plug'[d] = plug[d] /\ PluggedIn(d)' = PluggedIn(d)
    BY <1>1 DEF PluggedIn
  <1>3. PluggedIn(c) = [cam |-> c, plug |-> 0] <=> plug[c] = 0
    BY DEF PluggedIn
  <1>4. {PluggedIn(c)} \ {[cam |-> c, plug |-> 0]} = IF plug[c] # 0 THEN {PluggedIn(c)} ELSE {}
    BY <1>3
  <1>5. [cam |-> c, plug |-> to] = [cam |-> c, plug |-> 0] <=> to = 0
    OBVIOUS
  <1>6. {PluggedIn(c)'} \ {[cam |-> c, plug |-> 0]} =
            IF to # 0 THEN {[cam |-> c, plug |-> to]} ELSE {}
    BY <1>2, <1>5
  <1>7. changes' = Append(changes,
            [removed |-> {PluggedIn(c)} \ {[cam |-> c, plug |-> 0]},
             added |-> {PluggedIn(c)'} \ {[cam |-> c, plug |-> 0]}])
    BY DEF Replug
  <1>8. to # 0 => [cam |-> c, plug |-> to] \in Plugged
    BY MaxPlugsAssumption DEF Plugged
  <1>9. plug[c] # 0 => PluggedIn(c) \in Plugged
    BY PresentFacts
  <1> QED BY <1>1, <1>2, <1>4, <1>6, <1>7, <1>8, <1>9 DEF ChangesType

LEMMA ReplugKeepsInv ==
  ASSUME CoreInv, NEW c \in Cameras, NEW to \in 0..MaxPlugs, Replug(c, to), Running,
         to # 0 => c \in cUsed
  PROVE  CoreInv'
  <1>1. PICK e : /\ e = [removed |-> IF plug[c] # 0 THEN {PluggedIn(c)} ELSE {},
                         added |-> IF to # 0 THEN {[cam |-> c, plug |-> to]} ELSE {}]
                 /\ changes' = Append(changes, e) /\ e \in ChangesType
    BY ReplugFacts DEF CoreInv
  <1>2. /\ plug' = [plug EXCEPT ![c] = to] /\ plug'[c] = to
        /\ \A d \in Cameras : d # c => plug'[d] = plug[d] /\ PluggedIn(d)' = PluggedIn(d)
        /\ PluggedIn(c)' = [cam |-> c, plug |-> to]
        /\ UNCHANGED <<cUsed, cPc, found, device, pipeline, opener, callback, mishaps>>
    BY ReplugFacts DEF CoreInv
  <1>3. /\ changes \in Seq(ChangesType) /\ changes' \in Seq(ChangesType) /\ changes' # <<>>
        /\ Len(changes') = Len(changes) + 1 /\ Len(changes) \in Nat
        /\ \A i \in 1..Len(changes) : changes'[i] = changes[i]
        /\ changes'[Len(changes) + 1] = e
        /\ changes # <<>> => Change' = Change
    BY <1>1, AppendToFacts, HeadStays DEF CoreInv, Change
  <1>4. \A i \in 1..Len(changes) : i \in 1..Len(changes')
    BY <1>3
  <1>5. UsagesTypeOK'
    <2>1. plug' \in [Cameras -> 0..MaxPlugs] /\ plugs' \in [Cameras -> 0..MaxPlugs]
      BY <1>2 DEF Replug, CoreInv, UsagesTypeOK
    <2>2. \A n \in DOMAIN changes' : changes'[n] \in ChangesType
      BY <1>3, ElementsOf
    <2> QED BY <1>2, <2>1, <2>2 DEF CoreInv, UsagesTypeOK, ChangesType
  <1>6. LeavesInv'
    <2>1. CASE device = NoCamera
      BY <1>2, <2>1 DEF LeavesInv
    <2>2. CASE LeavePending(device)
      BY <1>2, <1>3, <1>4, <2>2 DEF LeavesInv, LeavePending
    <2>3. CASE device \in Present /\ device.cam # c
      <3>1. device.cam \in Cameras /\ plug[device.cam] = device.plug /\ device \in Plugged
        BY <2>3, PresentFacts DEF CoreInv
      <3>2. plug'[device.cam] = device.plug
        BY <1>2, <2>3, <3>1
      <3>3. device.plug # 0 /\ device = [cam |-> device.cam, plug |-> device.plug]
        BY <3>1, NoCameraFacts
      <3>4. PICK d \in Cameras : d = device.cam
        BY <3>1
      <3>5. d \in {x \in Cameras : plug'[x] # 0} /\ device = [cam |-> d, plug |-> plug'[d]]
        BY <3>2, <3>3, <3>4
      <3>6. device \in Present'
        BY <3>5 DEF Present, PluggedIn
      <3> QED BY <1>2, <3>6 DEF LeavesInv
    <2>4. CASE device \in Present /\ device.cam = c
      <3>1. device = PluggedIn(c) /\ plug[c] # 0
        BY <2>4, PresentFacts DEF CoreInv
      <3>2. device \in e.removed
        BY <1>1, <3>1
      <3>3. Len(changes) + 1 \in 1..Len(changes') /\ changes'[Len(changes) + 1] = e
        BY <1>3
      <3>4. Len(changes) + 1 = 1 => callback = "no"
        <4>1. Len(changes) + 1 = 1 => changes = <<>>
          BY <1>3, ElementsOf
        <4> QED BY <4>1 DEF CoreInv, OpeningInv
      <3>5. LeavePending(device)'
        BY <1>2, <3>2, <3>3, <3>4 DEF LeavePending
      <3> QED BY <3>5 DEF LeavesInv
    <2> QED BY <2>1, <2>2, <2>3, <2>4 DEF CoreInv, LeavesInv
  <1>7. OpeningInv'
    <2>1. callback = "drop device" => Change' = Change
      BY <1>3 DEF CoreInv, OpeningInv
    <2> QED BY <1>2, <1>3, <2>1 DEF CoreInv, OpeningInv
  <1>8. ChainInv'
    <2> SUFFICES ASSUME NEW i \in 1..Len(changes'), NEW h \in changes'[i].removed,
                        plug'[h.cam] # 0
                 PROVE  \E j \in i..Len(changes') : PluggedIn(h.cam)' \in changes'[j].added
      BY DEF ChainInv, PluggedIn
    <2>1. h \in Plugged /\ h.cam \in Cameras
      <3>1. changes'[i] \in ChangesType
        BY <1>3, ElementsOf
      <3>2. h \in Plugged
        BY <3>1 DEF ChangesType
      <3> QED BY <3>2, NoCameraFacts
    <2>2. CASE h.cam = c
      <3>1. PluggedIn(c)' \in e.added
        BY <1>1, <1>2, <2>2
      <3>2. Len(changes) + 1 \in i..Len(changes')
        BY <1>3
      <3> QED BY <1>3, <2>2, <3>1, <3>2
    <2>3. CASE h.cam # c
      <3>1. i \in 1..Len(changes)
        <4>1. i # Len(changes) + 1
          BY <1>1, <1>3, <2>3 DEF PluggedIn
        <4> QED BY <1>3, <4>1
      <3>2. h \in changes[i].removed /\ plug[h.cam] # 0
        BY <1>2, <1>3, <2>1, <2>3, <3>1
      <3>3. PICK j \in i..Len(changes) : PluggedIn(h.cam) \in changes[j].added
        BY <3>1, <3>2 DEF CoreInv, ChainInv
      <3>4. j \in i..Len(changes') /\ j \in 1..Len(changes)
        BY <1>3
      <3> QED BY <1>2, <1>3, <2>1, <2>3, <3>3, <3>4
    <2> QED BY <2>2, <2>3
  <1>9. UsedInv'
    <2>1. \A d \in Cameras : plug'[d] # 0 => d \in cUsed
      <3> SUFFICES ASSUME NEW d \in Cameras, plug'[d] # 0 PROVE d \in cUsed
        OBVIOUS
      <3>1. CASE d = c
        BY <1>2, <3>1
      <3>2. CASE d # c
        BY <1>2, <3>2 DEF CoreInv, UsedInv
      <3> QED BY <3>1, <3>2
    <2> QED BY <1>2, <2>1 DEF CoreInv, UsedInv
  <1>10. ComesInv'
    <2> SUFFICES ASSUME device = NoCamera, "failed" \notin mishaps,
                        \E x \in Cameras : cUsed = {x}, NEW d \in Cameras, plug'[d] # 0
                 PROVE  \/ cPc = "query"
                        \/ cPc = "open" /\ PluggedIn(d)' \in found
                        \/ ComePending(PluggedIn(d))'
      BY <1>2 DEF ComesInv
    <2>1. CASE d = c
      <3>1. PluggedIn(d)' \in e.added
        BY <1>1, <1>2, <2>1
      <3>2. Len(changes) + 1 \in 1..Len(changes') /\ changes'[Len(changes) + 1] = e
        BY <1>3
      <3>3. Len(changes) + 1 = 1 => callback = "no"
        <4>1. Len(changes) + 1 = 1 => changes = <<>>
          BY <1>3, ElementsOf
        <4> QED BY <4>1 DEF CoreInv, OpeningInv
      <3>4. ComePending(PluggedIn(d))'
        BY <1>2, <3>1, <3>2, <3>3 DEF ComePending
      <3> QED BY <3>4
    <2>2. CASE d # c
      <3>1. \/ cPc = "query"
            \/ cPc = "open" /\ PluggedIn(d) \in found
            \/ ComePending(PluggedIn(d))
        BY <1>2, <2>2 DEF CoreInv, ComesInv
      <3>2. ComePending(PluggedIn(d)) => ComePending(PluggedIn(d))'
        BY <1>2, <1>3, <1>4, <2>2 DEF ComePending
      <3> QED BY <1>2, <2>2, <3>1, <3>2
    <2> QED BY <2>1, <2>2
  <1>11. IdleInv'
    BY <1>2 DEF IdleInv, Running
  <1> QED BY <1>3, <1>5, <1>6, <1>7, <1>8, <1>9, <1>10, <1>11 DEF CoreInv

\* Every step but main's last two.
LEMMA NextCoreInv ==
  ASSUME CoreInv, [UsagesNext]_usagesVars, ~ResetPipeline, ~ResetDevice
  PROVE  CoreInv'
  <1>1. ASSUME NEW c \in Cameras, Unplugged(c) \/ PluggedAgain(c) PROVE CoreInv'
    <2>1. CASE Unplugged(c)
      <3>1. 0 \in 0..MaxPlugs /\ Replug(c, 0) /\ Running
        BY <2>1, MaxPlugsAssumption DEF Unplugged
      <3> QED BY <3>1, ReplugKeepsInv
    <2>2. CASE PluggedAgain(c)
      <3>1. plugs[c] \in 0..MaxPlugs /\ plugs[c] < MaxPlugs
        BY <2>2 DEF PluggedAgain, CoreInv, UsagesTypeOK
      <3>2. plugs[c] + 1 \in 0..MaxPlugs
        BY <3>1, MaxPlugsAssumption
      <3>3. Replug(c, plugs[c] + 1) /\ Running /\ c \in cUsed
        BY <2>2 DEF PluggedAgain
      <3> QED BY <3>2, <3>3, ReplugKeepsInv
    <2> QED BY <1>1, <2>1, <2>2
  <1>2. CASE UNCHANGED usagesVars
    <2>1. UNCHANGED <<cPc, cUsed, plug, plugs, changes, found, device, pipeline, opener,
                      callback, mishaps>>
      BY <1>2 DEF usagesVars
    <2>2. UsagesTypeOK' /\ (changes \in Seq(ChangesType))' /\ OpeningInv' /\ UsedInv' /\ IdleInv'
      BY <2>1 DEF CoreInv, UsagesTypeOK, OpeningInv, UsedInv, IdleInv, Change
    <2>3. LeavesInv' /\ ChainInv' /\ ComesInv'
      BY <2>1 DEF CoreInv, LeavesInv, LeavePending, ChainInv, ComesInv, ComePending, Running,
                  Present, PluggedIn
    <2> QED BY <2>2, <2>3 DEF CoreInv
  <1>3. CASE StartUsages
    BY <1>3, StartUsagesKeepsInv
  <1>4. CASE UsagesMain
    BY <1>4, QueryKeepsInv, MainOpensKeepsInv, MainStartsKeepsInv, MainGoesOnKeepsInv
       DEF UsagesMain, EndUsages, OnlyMainGoesOn
  <1>5. CASE UsagesCallback
    BY <1>5, BeginKeepsInv, ReadSnKeepsInv, DropDeviceKeepsInv, DropPipelineKeepsInv,
       CallbackOpensKeepsInv, CallbackStartsKeepsInv, MainGoesOnKeepsInv
       DEF UsagesCallback, OnlyMainGoesOn
  <1> QED BY <1>1, <1>2, <1>3, <1>4, <1>5 DEF UsagesNext

-----------------------------------------------------------------------------
(* Main's teardown resets pipeline and device while a callback may be running. *)

Late == cPc \in {"reset device", "end", "failed", "crashed"}

\* The changes and the types hold to the end.
TypedInv ==
    UsagesTypeOK /\ changes \in Seq(ChangesType) /\ (callback # "no" => changes # <<>>)

UsagesInv == TypedInv /\ (~Late => CoreInv)

\* The steps that leave the cameras and the changes to come alone.
LEMMA SameChangesKeepTyped ==
  ASSUME TypedInv, UNCHANGED <<cUsed, plug, plugs, changes>>,
         found' \in SUBSET Plugged, {device', pipeline'} \subseteq Plugged \cup {NoCamera},
         opener' \in {"", "main", "sdk"}, mishaps' \in SUBSET {"failed", "between"},
         callback' \in {"no", "removed", "drop device", "drop pipeline", "added", "starting"},
         callback' = "no" \/ callback # "no" \/ changes # <<>>, cPc' \in Places
  PROVE  TypedInv'
  <1>1. UsagesTypeOK'
    BY DEF TypedInv, UsagesTypeOK, Places
  <1> QED BY <1>1 DEF TypedInv

LEMMA OpenedIsTyped ==
  ASSUME TypedInv, NEW t, NEW list, OpenDevice(t, list)
  PROVE  {device', pipeline'} \subseteq Plugged \cup {NoCamera} /\ opener' = t
  BY PresentFacts DEF TypedInv, OpenDevice

LEMMA MainKeepsTyped ==
  ASSUME TypedInv, UsagesMain
  PROVE  TypedInv'
  <1>0. /\ found \in SUBSET Plugged /\ {device, pipeline} \subseteq Plugged \cup {NoCamera}
        /\ opener \in {"", "main", "sdk"} /\ mishaps \in SUBSET {"failed", "between"}
        /\ callback \in {"no", "removed", "drop device", "drop pipeline", "added", "starting"}
    BY DEF TypedInv, UsagesTypeOK
  <1>1. CASE OnlyMainGoesOn
    <2>1. /\ UNCHANGED <<cUsed, plug, plugs, changes, found, device, pipeline, opener, callback, mishaps>>
          /\ cPc' \in Places
      BY <1>1, MainGoesOnFacts DEF Places
    <2> QED BY <1>0, <2>1, SameChangesKeepTyped
  <1>2. CASE QueryDevices
    <2>1. found' \in SUBSET Plugged /\ cPc' \in Places
      BY <1>2, PresentFacts DEF QueryDevices, TypedInv, Places
    <2>2. UNCHANGED <<cUsed, plug, plugs, changes, device, pipeline, opener, callback, mishaps>>
      BY <1>2 DEF QueryDevices, sdk
    <2> QED BY <1>0, <2>1, <2>2, SameChangesKeepTyped
  <1>3. CASE MainOpens
    <2>1. /\ UNCHANGED <<cUsed, plug, plugs, changes, callback>> /\ found' = {}
          /\ cPc' \in Places /\ mishaps' \in SUBSET {"failed", "between"}
      BY <1>0, <1>3 DEF MainOpens, sdk, Places
    <2>2. {device', pipeline'} \subseteq Plugged \cup {NoCamera} /\ opener' \in {"", "main", "sdk"}
      BY <1>0, <1>3, OpenedIsTyped DEF MainOpens
    <2> QED BY <1>0, <2>1, <2>2, SameChangesKeepTyped
  <1>4. CASE MainStarts
    <2>1. /\ UNCHANGED <<cUsed, plug, plugs, changes, found, pipeline, callback, mishaps>>
          /\ device' = pipeline /\ opener' = "" /\ cPc' \in Places
      BY <1>4 DEF MainStarts, StartStreamOf, sdk, Places
    <2> QED BY <1>0, <2>1, SameChangesKeepTyped
  <1>5. CASE ResetPipeline \/ ResetDevice
    <2>1. /\ UNCHANGED <<cUsed, plug, plugs, changes, found, opener, callback, mishaps>>
          /\ device' \in {device, NoCamera} /\ pipeline' \in {pipeline, NoCamera} /\ cPc' \in Places
      BY <1>5 DEF ResetPipeline, ResetDevice, sdk, Places
    <2> QED BY <1>0, <2>1, SameChangesKeepTyped
  <1> QED BY <1>1, <1>2, <1>3, <1>4, <1>5 DEF UsagesMain, EndUsages, OnlyMainGoesOn

\* The callback is through with the first change.
LEMMA PopKeepsTyped ==
  ASSUME TypedInv, callback # "no", changes' = Tail(changes), callback' = "no",
         UNCHANGED <<cPc, cUsed, plug, plugs, found, pipeline>>,
         device' \in {device, pipeline}, opener' \in {opener, ""},
         mishaps' \in SUBSET {"failed", "between"}
  PROVE  TypedInv'
  <1>1. changes \in Seq(ChangesType) /\ changes # <<>>
    BY DEF TypedInv
  <1>2. changes' \in Seq(ChangesType)
    BY <1>1, TailOfFacts
  <1>3. \A n \in DOMAIN changes' : changes'[n] \in ChangesType
    BY <1>2, ElementsOf
  <1>4. UsagesTypeOK'
    BY <1>3 DEF TypedInv, UsagesTypeOK, ChangesType
  <1> QED BY <1>2, <1>4 DEF TypedInv

LEMMA CallbackKeepsTyped ==
  ASSUME TypedInv, UsagesCallback
  PROVE  TypedInv'
  <1>0. /\ found \in SUBSET Plugged /\ {device, pipeline} \subseteq Plugged \cup {NoCamera}
        /\ opener \in {"", "main", "sdk"} /\ mishaps \in SUBSET {"failed", "between"}
        /\ callback \in {"no", "removed", "drop device", "drop pipeline", "added", "starting"}
        /\ cPc \in Places
    BY DEF TypedInv, UsagesTypeOK, Places
  <1>1. CASE OnlyMainGoesOn
    <2>1. /\ UNCHANGED <<cUsed, plug, plugs, changes, found, device, pipeline, opener, callback, mishaps>>
          /\ cPc' \in Places
      BY <1>1, MainGoesOnFacts DEF Places
    <2> QED BY <1>0, <2>1, SameChangesKeepTyped
  <1>2. CASE BeginCallback \/ ReadCurrentSn \/ DropDevice \/ DropPipeline
    <2>1. /\ UNCHANGED <<cPc, cUsed, plug, plugs, changes, found, opener, mishaps>>
          /\ device' \in {device, NoCamera} /\ pipeline' \in {pipeline, NoCamera}
          /\ callback' \in {"no", "removed", "drop device", "drop pipeline", "added", "starting"}
          /\ callback # "no" \/ changes # <<>>
      BY <1>2 DEF BeginCallback, ReadCurrentSn, DropDevice, DropPipeline, sdk, mainPlace
    <2> QED BY <1>0, <2>1, SameChangesKeepTyped
  <1>3. CASE CallbackOpens
    <2>1. callback = "added" /\ UNCHANGED <<cPc, cUsed, plug, plugs, found>>
      BY <1>3 DEF CallbackOpens, mainPlace
    <2>2. CASE OpenDevice("sdk", Change.added) /\ callback' = "starting" /\ UNCHANGED <<changes, mishaps>>
      <3>1. {device', pipeline'} \subseteq Plugged \cup {NoCamera} /\ opener' = "sdk"
        BY <2>2, OpenedIsTyped
      <3> QED BY <1>0, <2>1, <2>2, <3>1, SameChangesKeepTyped
    <2>3. CASE /\ mishaps' \subseteq mishaps \cup {"failed"}
               /\ callback' = "no" /\ changes' = Tail(changes)
               /\ UNCHANGED <<device, pipeline, opener>>
      BY <1>0, <2>1, <2>3, PopKeepsTyped
    <2> QED BY <1>3, <2>2, <2>3 DEF CallbackOpens
  <1>4. CASE CallbackStarts
    <2>1. /\ callback = "starting" /\ callback' = "no" /\ changes' = Tail(changes)
          /\ UNCHANGED <<cPc, cUsed, plug, plugs, found, pipeline, mishaps>>
          /\ device' = pipeline /\ opener' = ""
      BY <1>4 DEF CallbackStarts, StartStreamOf, mainPlace
    <2> QED BY <1>0, <2>1, PopKeepsTyped
  <1> QED BY <1>1, <1>2, <1>3, <1>4 DEF UsagesCallback, OnlyMainGoesOn

LEMMA ReplugKeepsTyped ==
  ASSUME TypedInv, NEW c \in Cameras, Unplugged(c) \/ PluggedAgain(c)
  PROVE  TypedInv' /\ cPc' = cPc
  <1>1. PICK to \in 0..MaxPlugs : Replug(c, to)
    <2>1. plugs[c] \in 0..MaxPlugs
      BY DEF TypedInv, UsagesTypeOK
    <2>2. 0 \in 0..MaxPlugs /\ (plugs[c] < MaxPlugs => plugs[c] + 1 \in 0..MaxPlugs)
      BY <2>1, MaxPlugsAssumption
    <2> QED BY <2>2 DEF Unplugged, PluggedAgain
  <1>2. PICK e \in ChangesType : changes' = Append(changes, e)
    BY <1>1, ReplugFacts DEF TypedInv
  <1>3. UNCHANGED <<cUsed, cPc, found, device, pipeline, opener, callback, mishaps>>
    BY <1>1 DEF Replug, mainPlace
  <1>4. changes' \in Seq(ChangesType) /\ changes' # <<>>
    BY <1>2, AppendToFacts DEF TypedInv
  <1>5. plug' \in [Cameras -> 0..MaxPlugs] /\ plugs' \in [Cameras -> 0..MaxPlugs]
    BY <1>1 DEF Replug, TypedInv, UsagesTypeOK
  <1>6. \A n \in DOMAIN changes' : changes'[n] \in ChangesType
    BY <1>4, ElementsOf
  <1>7. UsagesTypeOK'
    BY <1>3, <1>5, <1>6 DEF TypedInv, UsagesTypeOK, ChangesType
  <1> QED BY <1>3, <1>4, <1>7 DEF TypedInv

\* Once main has reset pipeline it is near the end, or the program is over.
LEMMA LateStays ==
  ASSUME Late, [UsagesNext]_usagesVars
  PROVE  Late'
  <1>1. cPc \notin {"idle", "query", "open", "starting", "await", "use", "run", "stop",
                    "stopping", "unregister", "reset pipeline"}
    BY DEF Late
  <1>2. CASE UNCHANGED usagesVars
    BY <1>2 DEF usagesVars, Late
  <1>3. ~StartUsages
    BY <1>1 DEF StartUsages
  <1>4. CASE OnlyMainGoesOn
    <2>1. UNCHANGED cPc \/ cPc' \in {"failed", "crashed"}
      BY <1>1, <1>4 DEF OnlyMainGoesOn, AwaitDevice, UseDevice, CloseUsages, TestPipeline,
         StopPipeline, UnregisterCallback, MainGoesOn, CallbackThrows, StartWithout, StreamFails
    <2> QED BY <2>1 DEF Late
  <1>5. CASE QueryDevices \/ MainOpens \/ MainStarts \/ ResetPipeline \/ ResetDevice
    BY <1>1, <1>5 DEF QueryDevices, MainOpens, MainStarts, ResetPipeline, ResetDevice, Late
  <1>6. CASE UNCHANGED cPc
    BY <1>6 DEF Late
  <1>7. ASSUME UsagesMain PROVE Late'
    BY <1>4, <1>5, <1>7 DEF UsagesMain, EndUsages, OnlyMainGoesOn
  <1>8. ASSUME UsagesCallback PROVE Late'
    <2>1. CASE BeginCallback \/ ReadCurrentSn \/ DropDevice \/ DropPipeline \/ CallbackOpens
               \/ CallbackStarts
      <3>1. UNCHANGED cPc
        BY <2>1 DEF BeginCallback, ReadCurrentSn, DropDevice, DropPipeline, CallbackOpens,
                    CallbackStarts, mainPlace
      <3> QED BY <1>6, <3>1
    <2> QED BY <1>4, <1>8, <2>1 DEF UsagesCallback, OnlyMainGoesOn
  <1>9. ASSUME NEW c \in Cameras, Unplugged(c) \/ PluggedAgain(c) PROVE Late'
    <2>1. UNCHANGED cPc
      BY <1>9 DEF Unplugged, PluggedAgain, Replug, mainPlace
    <2> QED BY <1>6, <2>1
  <1> QED BY <1>2, <1>3, <1>7, <1>8, <1>9 DEF UsagesNext

LEMMA InitUsagesInv == UsagesInit => UsagesInv
  BY InitCoreInv DEF UsagesInv, TypedInv, CoreInv, OpeningInv

LEMMA NextUsagesInv == UsagesInv /\ [UsagesNext]_usagesVars => UsagesInv'
  <1> SUFFICES ASSUME UsagesInv, [UsagesNext]_usagesVars PROVE UsagesInv'
    OBVIOUS
  <1>1. TypedInv
    BY DEF UsagesInv
  <1>2. CASE Late
    <2>1. Late'
      BY <1>2, LateStays
    <2>2. CASE UNCHANGED usagesVars
      <3>1. TypedInv'
        BY <1>1, <2>2 DEF TypedInv, UsagesTypeOK, usagesVars
      <3> QED BY <2>1, <3>1 DEF UsagesInv
    <2>3. CASE StartUsages
      BY <1>2, <2>3 DEF Late, StartUsages
    <2>4. CASE UsagesMain
      BY <1>1, <2>1, <2>4, MainKeepsTyped DEF UsagesInv
    <2>5. CASE UsagesCallback
      BY <1>1, <2>1, <2>5, CallbackKeepsTyped DEF UsagesInv
    <2>6. ASSUME NEW c \in Cameras, Unplugged(c) \/ PluggedAgain(c) PROVE UsagesInv'
      BY <1>1, <2>1, <2>6, ReplugKeepsTyped DEF UsagesInv
    <2> QED BY <2>2, <2>3, <2>4, <2>5, <2>6 DEF UsagesNext
  <1>3. CASE ~Late /\ (ResetPipeline \/ ResetDevice)
    <2>1. UsagesMain
      BY <1>3 DEF UsagesMain, EndUsages
    <2>2. TypedInv'
      BY <1>1, <2>1, MainKeepsTyped
    <2>3. Late'
      BY <1>3 DEF Late, ResetPipeline, ResetDevice
    <2> QED BY <2>2, <2>3 DEF UsagesInv
  <1>4. CASE ~Late /\ ~ResetPipeline /\ ~ResetDevice
    <2>1. CoreInv'
      BY <1>4, NextCoreInv DEF UsagesInv
    <2> QED BY <2>1 DEF UsagesInv, TypedInv, CoreInv, OpeningInv
  <1> QED BY <1>2, <1>3, <1>4

\* The inductive invariant of the hot plug program.
THEOREM UsagesInvariance == UsagesSpec => []UsagesInv
  BY InitUsagesInv, NextUsagesInv, PTL DEF UsagesSpec

LEMMA SettledMeansConnected == UsagesInv => OpenDeviceIsConnected
  <1> SUFFICES ASSUME CoreInv, Settled PROVE OpenDeviceIsConnected
    BY DEF OpenDeviceIsConnected, UsagesInv, Late, Settled
  <1>1. cPc = "run" /\ changes = <<>> /\ callback = "no" /\ opener = "" /\ Len(changes) = 0
    BY ElementsOf DEF Settled, CoreInv
  <1>0. \A i \in 1..Len(changes) : FALSE
    <2>1. \A i \in 1..0 : FALSE
      OBVIOUS
    <2> QED BY <1>1, <2>1
  <1>2. device \in Present \cup {NoCamera}
    BY <1>0 DEF CoreInv, LeavesInv, LeavePending
  <1>3. "between" \notin mishaps => pipeline = device
    BY <1>1 DEF CoreInv, OpeningInv
  <1>4. ASSUME Cardinality(cUsed) = 1, Present # {}, "failed" \notin mishaps
        PROVE  device # NoCamera
    <2>1. IsFiniteSet(cUsed)
      BY CamerasAssumption, FS_Subset DEF CoreInv, UsagesTypeOK
    <2>2. PICK x : cUsed = {x}
      BY <1>4, <2>1, FS_Singleton
    <2>3. x \in Cameras
      BY <2>2 DEF CoreInv, UsagesTypeOK
    <2>4. PICK h \in Present : TRUE
      BY <1>4
    <2>5. h.cam \in Cameras /\ plug[h.cam] # 0
      BY <2>4, PresentFacts DEF CoreInv
    <2>6. ~ComePending(PluggedIn(h.cam))
      BY <1>0 DEF ComePending
    <2> QED BY <1>1, <1>4, <2>2, <2>3, <2>5, <2>6 DEF CoreInv, ComesInv, Running
  <1> QED BY <1>2, <1>3, <1>4 DEF OpenDeviceIsConnected

\* Once the callbacks are through, the open camera is a connected one, streams
\* unless main opened it between the two resets, and the only camera is open
\* when it is connected, however often cameras came and left meanwhile.
THEOREM OpenDeviceTheorem == UsagesSpec => []OpenDeviceIsConnected
  BY UsagesInvariance, SettledMeansConnected, PTL

-----------------------------------------------------------------------------
(* The viewers of the verification tool *)

\* The pipeline streams exactly while the viewer runs.
ViewerInv ==
    /\ ViewerTypeOK
    /\ vPc = "idle" => frames = {} /\ clicked = {}
    /\ streaming <=> vPc \notin {"idle", "end"}

LEMMA InitViewerInv == ViewerInit => ViewerInv
  <1> SUFFICES ASSUME ViewerInit PROVE ViewerInv
    OBVIOUS
  <1>1. \A S : <<>> \in Seq(S)
    OBVIOUS
  <1>2. pressed \in Seq(Keys) /\ console \in Seq(Keys)
    BY <1>1 DEF ViewerInit
  <1> QED BY <1>2 DEF ViewerInit, ViewerInv, ViewerTypeOK

LEMMA NextViewerInv == ViewerInv /\ [ViewerNext]_viewerVars => ViewerInv'
  <1> SUFFICES ASSUME ViewerInv, [ViewerNext]_viewerVars PROVE ViewerInv'
    OBVIOUS
  <1> USE DEF ViewerInv, ViewerTypeOK
  <1>1. CASE StartViewer
    <2>1. /\ viewer' \in {"view_camera", "view_sbs"} /\ enabled' \in SUBSET {"color", "depth"}
          /\ visible' = Windows' /\ streaming' = TRUE /\ vPc' = "keys" /\ vPc = "idle"
          /\ UNCHANGED <<clicked, pressed, console, frames, vExit>>
      BY <1>1 DEF StartViewer, userVars
    <2>2. visible' \in SUBSET {"color", "depth", "sbs"}
      BY <2>1 DEF Windows
    <2> QED BY <2>1, <2>2
  <1>2. ASSUME NEW at \in {"idle", "wait", "stop", "show"}, ViewerFails(at) PROVE ViewerInv'
    BY <1>2 DEF ViewerFails, userVars
  <1>3. CASE ViewerThrows
    BY <1>2, <1>3 DEF ViewerThrows
  <1>4. CASE LookAtKeys
    <2>1. /\ vPc = "keys" /\ visible' = visible \ clicked /\ clicked' = {}
          /\ vPc' \in {"stop", "console", "windows"}
          /\ UNCHANGED <<viewer, enabled, console, frames, streaming, vExit>>
      BY <1>4 DEF LookAtKeys
    <2>2. pressed' \in Seq(Keys)
      <3>1. CASE pressed = <<>>
        BY <1>4, <3>1 DEF LookAtKeys
      <3>2. CASE pressed # <<>>
        <4>1. pressed' = Tail(pressed)
          BY <1>4, <3>2 DEF LookAtKeys
        <4>2. pressed \in Seq(Keys)
          OBVIOUS
        <4> QED BY <3>2, <4>1, <4>2, TailOfFacts
      <3> QED BY <3>1, <3>2
    <2> QED BY <2>1, <2>2
  <1>5. CASE ReadConsole
    <2>1. /\ vPc = "console" /\ vPc' \in {"stop", "windows"}
          /\ UNCHANGED <<viewer, enabled, visible, clicked, pressed, frames, streaming, vExit>>
      BY <1>5 DEF ReadConsole
    <2>2. console' \in Seq(Keys)
      <3>1. CASE console = <<>>
        BY <1>5, <3>1 DEF ReadConsole
      <3>2. CASE console # <<>>
        <4>1. console' = Tail(console)
          BY <1>5, <3>2 DEF ReadConsole
        <4>2. console \in Seq(Keys)
          OBVIOUS
        <4> QED BY <3>2, <4>1, <4>2, TailOfFacts
      <3> QED BY <3>1, <3>2
    <2> QED BY <2>1, <2>2
  <1>6. CASE CheckWindows
    BY <1>6 DEF CheckWindows, userVars
  <1>7. CASE WaitForFrameset
    BY <1>7 DEF WaitForFrameset, userVars
  <1>8. CASE ShowFrames
    <2>1. PICK shown \in SUBSET Windows : visible' = visible \cup shown
      BY <1>8 DEF ShowFrames
    <2>2. visible' \in SUBSET {"color", "depth", "sbs"}
      BY <2>1 DEF Windows
    <2>3. /\ vPc = "show" /\ vPc' = "keys" /\ frames' = {}
          /\ UNCHANGED <<viewer, enabled, clicked, pressed, console, streaming, vExit>>
      BY <1>8 DEF ShowFrames, userVars
    <2> QED BY <2>1, <2>2, <2>3
  <1>9. CASE StopViewer
    BY <1>9 DEF StopViewer
  <1>10. CASE \E w \in visible : ClickClose(w)
    <2>1. PICK w \in visible : clicked' = clicked \cup {w}
      BY <1>10 DEF ClickClose
    <2>2. /\ vPc # "idle" /\ clicked' \in SUBSET visible
          /\ UNCHANGED <<vPc, viewer, enabled, visible, pressed, console, frames, streaming, vExit>>
      <3>1. clicked \in SUBSET visible
        OBVIOUS
      <3> QED BY <1>10, <2>1, <3>1 DEF ClickClose
    <2> QED BY <2>2
  <1>11. ASSUME NEW k \in Keys, PressKey(k) \/ TypeOnConsole(k) PROVE ViewerInv'
    <2>1. CASE PressKey(k)
      <3>1. pressed' \in Seq(Keys)
        BY <2>1, AppendToFacts DEF PressKey
      <3> QED BY <2>1, <3>1 DEF PressKey
    <2>2. CASE TypeOnConsole(k)
      <3>1. console' \in Seq(Keys)
        BY <2>2, AppendToFacts DEF TypeOnConsole
      <3> QED BY <2>2, <3>1 DEF TypeOnConsole
    <2> QED BY <1>11, <2>1, <2>2
  <1>12. CASE UNCHANGED viewerVars
    BY <1>12 DEF viewerVars
  <1> QED BY <1>1, <1>3, <1>4, <1>5, <1>6, <1>7, <1>8, <1>9, <1>10, <1>11, <1>12
     DEF ViewerNext, ViewerMain

\* The types of the viewers, and that nothing streams before and after.
THEOREM ViewerInvariance == ViewerSpec => []ViewerInv
  BY InitViewerInv, NextViewerInv, PTL DEF ViewerSpec

-----------------------------------------------------------------------------
(* The programs side by side *)

\* A step of the programs together is for each of them a step of its own or
\* none.
LEMMA StepOfEach ==
  ASSUME [Next]_vars
  PROVE  /\ [WindowNext]_windowVars /\ [UpdateNext]_updateVars /\ [MultiNext]_multiVars
         /\ [PlaybackNext]_playbackVars /\ [NodeNext]_nodeVars /\ [UsagesNext]_usagesVars
         /\ [ViewerNext]_viewerVars
  BY DEF Next, vars

\* The programs side by side implement each program alone.
THEOREM EachProgram ==
  Spec => /\ WindowSpec /\ UpdateSpec /\ MultiSpec /\ PlaybackSpec
          /\ NodeSpec /\ UsagesSpec /\ ViewerSpec
  <1>1. Init => /\ WindowInit /\ UpdateInit /\ MultiInit /\ PlaybackInit /\ NodeInit
                /\ UsagesInit /\ ViewerInit
    BY DEF Init
  <1> QED BY <1>1, StepOfEach, PTL
     DEF Spec, WindowSpec, UpdateSpec, MultiSpec, PlaybackSpec, NodeSpec, UsagesSpec, ViewerSpec

\* The types of all programs.
THEOREM ProgramsTypes == Spec => []ProgramsTypeOK
  <1>1. /\ WindowInv => WindowTypeOK
        /\ MultiInv => MultiTypeOK
        /\ PlaybackInv => PlaybackTypeOK
        /\ NodeInv => NodeTypeOK
        /\ UsagesInv => UsagesTypeOK
        /\ ViewerInv => ViewerTypeOK
    BY DEF WindowInv, MultiInv, PlaybackInv, NodeInv, UsagesInv, TypedInv, ViewerInv
  <1>2. /\ WindowTypeOK /\ UpdateTypeOK /\ MultiTypeOK /\ PlaybackTypeOK /\ NodeTypeOK
        /\ UsagesTypeOK /\ ViewerTypeOK
        => ProgramsTypeOK
    BY DEF ProgramsTypeOK
  <1> QED BY <1>1, <1>2, EachProgram, WindowInvariance, UpdateTypes, MultiInvariance,
            PlaybackInvariance, NodeInvariance, UsagesInvariance, ViewerInvariance, PTL

\* What each program guarantees alone, it guarantees among the others: all
\* invariants of the run, for any values of the constants.
THEOREM ProgramsAreSafe ==
  Spec => [](/\ ClearedAfterTheThread /\ GridFits
             /\ SecondUpdateIsAfterTheReboot /\ ListedAsReported /\ NothingPlaysAtTheEnd
             /\ PublishedFramesAreKnown /\ OpenDeviceIsConnected)
  BY EachProgram, ClearedTheorem, GridTheorem, SecondUpdateTheorem, ListedTheorem, NothingPlaysTheorem,
     PublishedTheorem, OpenDeviceTheorem, PTL
=============================================================================
