------------------------------ MODULE CVWindow ------------------------------
(***************************************************************************)
(* The window of the SDK's examples (utils/utils_opencv.cpp) under its     *)
(* simplest program (0.basic.quick_start): the main thread pushes frames   *)
(* and polls the keys, a processing thread turns the frames into mats and  *)
(* arranges them.  The two meet in closed_, which no lock protects, in the *)
(* condition variable, which close() notifies under another mutex than the *)
(* one the thread waits with, and in the mats, which close() clears.       *)
(* A frame is known by its group and its type.                             *)
(***************************************************************************)
EXTENDS Integers, FiniteSets

CONSTANTS Groups, Types   \* group ids, and the frame types of a frameset

ASSUME FramesAssumption == IsFiniteSet(Groups) /\ IsFiniteSet(Types)

Uids == Groups \X Types   \* groupId * OB_FRAME_TYPE_COUNT + type

VARIABLES
    wMain,     \* the program: "idle" (not started), "run", "push", "closing", ...
    closed,    \* closed_
    worker,    \* where processFrames is; "joined" when there is no thread
    srcFrames, \* srcFrameGroups_: the frame types of each group pushed so far
    copied,    \* the processing thread's copy of it
    mats,      \* matGroups_
    grid,      \* rows and cols of arrangeFrames
    missed     \* close()'s notification found the thread between its test of
               \* closed_ and its wait (a history variable)

windowVars == <<wMain, closed, worker, srcFrames, copied, mats, grid, missed>>

\* A group may be there with no frames at all: a null frameset was pushed.
FrameGroups == UNION {[S -> SUBSET Types] : S \in SUBSET Groups}

NoGroups == [g \in {} |-> {}]

FramesOf(groups) == {u \in Uids : u[1] \in DOMAIN groups /\ u[2] \in groups[u[1]]}

WindowTypeOK ==
    /\ wMain \in {"idle", "run", "push", "closing", "joining", "clearing", "done", "dead"}
    /\ closed \in BOOLEAN /\ missed \in BOOLEAN
    /\ worker \in {"test", "locked", "asleep", "awake", "draw", "arrange", "columns",
                   "rows", "render", "ended", "joined", "dead"}
    /\ srcFrames \in FrameGroups /\ copied \in FrameGroups
    /\ mats \in SUBSET Uids
    /\ grid \in [rows : Nat, cols : Nat]

WindowInit ==
    /\ wMain = "idle"
    /\ closed = FALSE /\ missed = FALSE
    /\ worker = "joined"
    /\ srcFrames = NoGroups /\ copied = NoGroups /\ mats = {}
    /\ grid = [rows |-> 0, cols |-> 0]

\* The constructor: the processing thread starts.
CreateWindow ==
    /\ wMain = "idle"
    /\ wMain' = "run"
    /\ worker' = "test"
    /\ UNCHANGED <<closed, srcFrames, copied, mats, grid, missed>>

\* The thread after a notify_one or notify_all of the condition variable.
Notified == IF worker = "asleep" THEN "awake" ELSE worker

\* run(): ESC closes and notifies without a lock; other keys change the layout.
RunEsc ==
    /\ wMain = "run"
    /\ closed' = TRUE /\ worker' = Notified
    /\ wMain' = "closing"
    /\ UNCHANGED <<srcFrames, copied, mats, grid, missed>>

RunNoEsc ==
    /\ wMain = "run"
    /\ wMain' = "push"
    /\ UNCHANGED <<closed, worker, srcFrames, copied, mats, grid, missed>>

\* The group's frames are replaced.
Replaced(g, F) ==
    [h \in DOMAIN srcFrames \cup {g} |-> IF h = g THEN F ELSE srcFrames[h]]

\* Wrong variant of PushFrames: nobody is told.
PushFramesSilently ==
    /\ wMain = "push"
    /\ \E g \in Groups, F \in SUBSET Types : srcFrames' = Replaced(g, F)
    /\ wMain' = "run"
    /\ UNCHANGED <<closed, worker, copied, mats, grid, missed>>

\* pushFramesToView; a null frameset, after a wait in vain, has no frames.
PushFrames ==
    /\ wMain = "push"
    /\ \E g \in Groups, F \in SUBSET Types : srcFrames' = Replaced(g, F)
    /\ worker' = Notified
    /\ wMain' = "run"
    /\ UNCHANGED <<closed, copied, mats, grid, missed>>

\* waitForFrameset throws: main's handler is reached through the window's
\* destructor.
WaitThrows ==
    /\ wMain = "push"
    /\ wMain' = "closing"
    /\ UNCHANGED <<closed, worker, srcFrames, copied, mats, grid, missed>>

\* Wrong variant of CloseBegin: nobody is told.
CloseSilently ==
    /\ wMain = "closing"
    /\ closed' = TRUE /\ worker' = worker
    /\ missed' = (worker = "locked")
    /\ wMain' = "joining"
    /\ UNCHANGED <<srcFrames, copied, mats, grid>>

\* The destructor's close(): closed_ and the notification ...
CloseBegin ==
    /\ wMain = "closing"
    /\ closed' = TRUE /\ worker' = Notified
    /\ missed' = (worker = "locked")
    /\ wMain' = "joining"
    /\ UNCHANGED <<srcFrames, copied, mats, grid>>

\* Wrong variant of CloseJoin: the thread is not waited for.
CloseWithoutJoin ==
    /\ wMain = "joining"
    /\ wMain' = "clearing"
    /\ UNCHANGED <<closed, worker, srcFrames, copied, mats, grid, missed>>

\* ... the join ...
CloseJoin ==
    /\ wMain = "joining" /\ worker = "ended"
    /\ worker' = "joined"
    /\ wMain' = "clearing"
    /\ UNCHANGED <<closed, srcFrames, copied, mats, grid, missed>>

\* ... and the maps, without a lock.
CloseClear ==
    /\ wMain = "clearing"
    /\ mats' = {} /\ srcFrames' = NoGroups
    /\ wMain' = "done"
    /\ UNCHANGED <<closed, worker, copied, grid, missed>>

WindowMain ==
    \/ RunEsc \/ RunNoEsc \/ PushFrames \/ WaitThrows
    \/ CloseBegin \/ CloseJoin \/ CloseClear

-----------------------------------------------------------------------------
(* processFrames *)

TestClosed ==
    /\ worker = "test"
    /\ worker' = IF closed THEN "ended" ELSE "locked"
    /\ UNCHANGED <<wMain, closed, srcFrames, copied, mats, grid, missed>>

\* srcFrameGroupsCv_.wait(lk), without a predicate.
FallAsleep ==
    /\ worker = "locked"
    /\ worker' = "asleep"
    /\ UNCHANGED <<wMain, closed, srcFrames, copied, mats, grid, missed>>

WakeSpuriously ==
    /\ worker = "asleep"
    /\ worker' = "awake"
    /\ UNCHANGED <<wMain, closed, srcFrames, copied, mats, grid, missed>>

CopyFrames ==
    /\ worker = "awake"
    /\ copied' = srcFrames
    /\ worker' = IF DOMAIN srcFrames = {} THEN "test" ELSE "draw"
    /\ UNCHANGED <<wMain, closed, srcFrames, mats, grid, missed>>

\* visualize: a frame whose format it does not know gives no mat.  Mats of
\* earlier frames stay; the copy is not used again.
Draw ==
    /\ worker = "draw"
    /\ \E S \in SUBSET FramesOf(copied) : mats' = mats \cup S
    /\ copied' = NoGroups
    /\ worker' = IF mats' = {} THEN "test" ELSE "arrange"
    /\ UNCHANGED <<wMain, closed, srcFrames, grid, missed>>

\* visualize throws (an infrared MJPG frame that imdecode cannot read is given
\* to cvtColor all the same): nothing on the thread catches it, and the process
\* ends.
DrawThrows ==
    /\ worker = "draw" /\ FramesOf(copied) # {}
    /\ worker' = "dead" /\ wMain' = "dead"
    /\ UNCHANGED <<closed, srcFrames, copied, mats, grid, missed>>

\* arrangeFrames: a single mat, one of the other layouts (the keys change
\* arrangeMode_ without a lock), or an exception, which it catches.
ArrangeOther ==
    /\ worker = "arrange"
    /\ worker' = "test"
    /\ UNCHANGED <<wMain, closed, srcFrames, copied, mats, grid, missed>>

Count == Cardinality(mats)

\* static_cast<int>(std::sqrt(n))
IsSqrt(s, n) == s * s <= n /\ n < (s + 1) * (s + 1)

\* arrangeFrames, ARRANGE_GRID: the search for rows and columns starts.
ArrangeGrid ==
    /\ worker = "arrange" /\ Count # 1
    /\ \E s \in 0..Count : IsSqrt(s, Count) /\ grid' = [rows |-> s, cols |-> s]
    /\ worker' = "columns"
    /\ UNCHANGED <<wMain, closed, srcFrames, copied, mats, missed>>

\* The loop's test, and cols++ in it.
AddColumn ==
    /\ worker = "columns"
    /\ IF grid.rows * grid.cols < Count
       THEN worker' = "rows" /\ grid' = [grid EXCEPT !.cols = @ + 1]
       ELSE worker' = "render" /\ UNCHANGED grid
    /\ UNCHANGED <<wMain, closed, srcFrames, copied, mats, missed>>

\* Wrong variant of AddRow: both grow.
AddRowAlways ==
    /\ worker = "rows"
    /\ grid' = [grid EXCEPT !.rows = @ + 1]
    /\ worker' = "columns"
    /\ UNCHANGED <<wMain, closed, srcFrames, copied, mats, missed>>

\* The second test, and rows++ in the loop.
AddRow ==
    /\ worker = "rows"
    /\ grid' = IF grid.rows * grid.cols < Count
               THEN [grid EXCEPT !.rows = @ + 1] ELSE grid
    /\ worker' = "columns"
    /\ UNCHANGED <<wMain, closed, srcFrames, copied, mats, missed>>

\* The images of the grid, up to renderMat_.
RenderGrid ==
    /\ worker = "render"
    /\ worker' = "test"
    /\ UNCHANGED <<wMain, closed, srcFrames, copied, mats, grid, missed>>

ArrangeFrames == ArrangeOther \/ ArrangeGrid \/ AddColumn \/ AddRow \/ RenderGrid

ProcessFrames == TestClosed \/ FallAsleep \/ CopyFrames \/ Draw \/ ArrangeFrames

WindowNext == CreateWindow \/ WindowMain \/ ProcessFrames \/ DrawThrows
              \/ WakeSpuriously

\* Both threads are scheduled; a wait need not end by itself, nothing need throw.
WindowFairness == WF_windowVars(WindowMain) /\ WF_windowVars(ProcessFrames)

WindowSpec == WindowInit /\ [][WindowNext]_windowVars /\ WindowFairness

-----------------------------------------------------------------------------
(* Properties *)

\* The mats and the source frames are cleared without a lock: the processing
\* thread must be gone by then (lines 125 to 130), and nothing it drew may be
\* left afterwards.
ClearedAfterTheThread ==
    /\ wMain = "clearing" => worker = "joined"
    /\ wMain = "done" => mats = {} /\ srcFrames = NoGroups

\* The grid that the search ends with has a place for every mat, and with one
\* row or one column less it would not: the loop tests between its two steps
\* (line 298), and never adds a row or a column too many.
GridFits ==
    worker = "render" =>
        /\ grid.rows * grid.cols >= Count
        /\ (grid.rows - 1) * grid.cols < Count
        /\ grid.rows * (grid.cols - 1) < Count

\* While frames are pushed again and again, the thread draws again and again: a
\* push that finds it busy is made up for by a later one.
DrawsAgainAndAgain ==
    []<><<PushFrames>>_windowVars =>
        []<><<CopyFrames /\ worker' = "draw">>_windowVars

\* Closing the window comes to an end, unless its notification fell between
\* the thread's test of closed_ and its wait: then nobody wakes it (line 233
\* waits without a predicate).  A frame that cannot be drawn ends the process.
CloseEnds == wMain = "joining" ~> (wMain \in {"done", "dead"} \/ missed)
=============================================================================
