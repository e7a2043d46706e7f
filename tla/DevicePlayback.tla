--------------------------- MODULE DevicePlayback ---------------------------
(***************************************************************************)
(* 2.device.playback: a recording is shown again and again.  A replay      *)
(* thread starts the pipeline anew 1 s after the SDK has reported its end; *)
(* main shows frames until ESC, stops the pipeline and joins the thread.   *)
(* The status callback and main both notify without the thread's mutex.    *)
(***************************************************************************)
EXTENDS Integers

VARIABLES
    pMain,      \* where main is
    replay,     \* where the replay thread is
    playStatus, \* playStatus, as far as the program tells it apart
    exited,     \* exited
    playing,    \* the pipeline runs
    missedBy    \* whose notifications, the SDK's "status" or main's "exit",
                \* found the thread between its test of the predicate and its
                \* sleep (a history variable)

playbackVars == <<pMain, replay, playStatus, exited, playing, missedBy>>

PlaybackTypeOK ==
    /\ pMain \in {"idle", "show", "stop", "exit", "notify", "join", "end", "dead"}
    /\ replay \in {"none", "test", "tested", "asleep", "stop", "pause", "paused",
                   "start", "stop last", "ended", "dead"}
    /\ playStatus \in {"stopped", "unknown", "playing"}
    /\ exited \in BOOLEAN /\ playing \in BOOLEAN
    /\ missedBy \in SUBSET {"status", "exit"}

PlaybackInit ==
    /\ pMain = "idle" /\ replay = "none"
    /\ playStatus = "stopped"
    /\ exited = FALSE /\ playing = FALSE /\ missedBy = {}

\* replayCv.notify_all() by one of the two.
Woken == IF replay = "asleep" THEN "test" ELSE replay
Missed(by) == IF replay = "tested" THEN missedBy \cup {by} ELSE missedBy

\* The SDK's callback: the new status and replayCv.notify_all().
StatusChanges ==
    /\ pMain \notin {"idle", "dead"}
    /\ playStatus' = IF playing THEN "playing" ELSE "stopped"
    /\ playStatus' # playStatus
    /\ replay' = Woken /\ missedBy' = Missed("status")
    /\ UNCHANGED <<pMain, exited, playing>>

\* The end of the recording.
RecordingEnds ==
    /\ playing
    /\ playing' = FALSE
    /\ UNCHANGED <<pMain, replay, playStatus, exited, missedBy>>

\* main: the pipeline starts, then the replay thread.
StartPlayback ==
    /\ pMain = "idle"
    /\ playing' = TRUE
    /\ pMain' = "show" /\ replay' = "test"
    /\ UNCHANGED <<playStatus, exited, missedBy>>

\* ESC in win.run(), then pipe->stop(), exited = true, notify_all() and join().
CloseView ==
    /\ pMain = "show"
    /\ pMain' = "stop"
    /\ UNCHANGED <<replay, playStatus, exited, playing, missedBy>>

StopPipe ==
    /\ pMain = "stop"
    /\ playing' = FALSE
    /\ pMain' = "exit"
    /\ UNCHANGED <<replay, playStatus, exited, missedBy>>

SetExited ==
    /\ pMain = "exit"
    /\ exited' = TRUE
    /\ pMain' = "notify"
    /\ UNCHANGED <<replay, playStatus, playing, missedBy>>

\* Wrong variant of NotifyExit: the thread is not told.
NotifyNobody ==
    /\ pMain = "notify"
    /\ replay' = replay /\ missedBy' = Missed("exit")
    /\ pMain' = "join"
    /\ UNCHANGED <<playStatus, exited, playing>>

NotifyExit ==
    /\ pMain = "notify"
    /\ replay' = Woken /\ missedBy' = Missed("exit")
    /\ pMain' = "join"
    /\ UNCHANGED <<playStatus, exited, playing>>

Join ==
    /\ pMain = "join" /\ replay = "ended"
    /\ pMain' = "end"
    /\ UNCHANGED <<replay, playStatus, exited, playing, missedBy>>

\* The process ends: pipe->start and pipe->stop throw where nothing catches them
\* (on the replay thread), or where main's handler cannot be reached without
\* destroying a thread that is still joinable (line 92).
Dies ==
    /\ pMain' = "dead" /\ replay' = "dead" /\ playing' = FALSE
    /\ UNCHANGED <<playStatus, exited, missedBy>>

StartFails == pMain = "idle" /\ Dies

StopThrows == pMain = "stop" /\ Dies

ReplayThrows ==
    /\ replay \in {"stop", "start", "stop last"}
    /\ replay = "stop" => playStatus = "stopped"
    /\ Dies

PlaybackMain == CloseView \/ StopPipe \/ SetExited \/ NotifyExit \/ Join

\* The replay thread.  Its wait tests the predicate, then sleeps.
TestReplay ==
    /\ replay = "test"
    /\ replay' = IF exited THEN "stop last"
                 ELSE IF playStatus = "stopped" THEN "stop" ELSE "tested"
    /\ UNCHANGED <<pMain, playStatus, exited, playing, missedBy>>

SleepReplay ==
    /\ replay = "tested"
    /\ replay' = "asleep"
    /\ UNCHANGED <<pMain, playStatus, exited, playing, missedBy>>

\* Wrong variant of StopForReplay: the thread waits for another end.
StopWithoutReplay ==
    /\ replay = "stop"
    /\ replay' = "tested"
    /\ UNCHANGED <<pMain, playStatus, exited, playing, missedBy>>

\* The status was still "stopped": pipe->stop(), then a wait of at most 1 s.
StopForReplay ==
    /\ replay = "stop"
    /\ IF playStatus = "stopped" THEN playing' = FALSE /\ replay' = "pause"
                                 ELSE UNCHANGED playing /\ replay' = "test"
    /\ UNCHANGED <<pMain, playStatus, exited, missedBy>>

EndPause ==
    /\ replay = "pause"
    /\ replay' = IF exited THEN "stop last" ELSE "paused"
    /\ UNCHANGED <<pMain, playStatus, exited, playing, missedBy>>

PlayAgain ==
    \/ /\ replay = "paused"
       /\ playStatus' = "unknown" /\ replay' = "start" /\ UNCHANGED playing
       /\ UNCHANGED <<pMain, exited, missedBy>>
    \/ /\ replay = "start"
       /\ playing' = TRUE
       /\ replay' = IF exited THEN "stop last" ELSE "test"
       /\ UNCHANGED <<pMain, playStatus, exited, missedBy>>

\* Wrong variant of StopLast: main has stopped the pipeline already.
EndWithoutStop ==
    /\ replay = "stop last"
    /\ replay' = "ended"
    /\ UNCHANGED <<pMain, playStatus, exited, playing, missedBy>>

\* The last pipe->stop() of the thread.
StopLast ==
    /\ replay = "stop last"
    /\ playing' = FALSE
    /\ replay' = "ended"
    /\ UNCHANGED <<pMain, playStatus, exited, missedBy>>

Replay ==
    TestReplay \/ SleepReplay \/ StopForReplay \/ EndPause \/ PlayAgain \/ StopLast

PlaybackNext ==
    \/ StartPlayback \/ PlaybackMain \/ Replay \/ StatusChanges \/ RecordingEnds
    \/ StartFails \/ StopThrows \/ ReplayThrows

\* Both threads are scheduled and the SDK reports what it did; ESC may never
\* come, and nothing need throw.
PlaybackFairness ==
    /\ WF_playbackVars(PlaybackMain /\ pMain # "show")
    /\ WF_playbackVars(Replay)
    /\ WF_playbackVars(StatusChanges)

PlaybackSpec == PlaybackInit /\ [][PlaybackNext]_playbackVars /\ PlaybackFairness

-----------------------------------------------------------------------------
(* Properties *)

\* When main returns nothing plays any more, although the replay thread may
\* start the pipeline again between main's stop and exited (lines 92 and 93).
NothingPlaysAtTheEnd == pMain = "end" => ~playing

\* The thread is joined, unless main's notification fell between the thread's
\* test of its predicate and its sleep: main changes exited without replayMutex.
\* An exception of the SDK ends the process instead.
PlaybackEnds == pMain = "stop" ~> (pMain \in {"end", "dead"} \/ "exit" \in missedBy)

\* Until the user ends it, the recording is played again whenever it has ended,
\* unless the SDK's notification was lost in the same way (lines 42 to 45).
PlaysAgainAndAgain ==
    (~playing /\ pMain = "show") ~> (playing \/ pMain # "show" \/ "status" \in missedBy)
=============================================================================
