------------------------------ MODULE MCPrograms ------------------------------
(***************************************************************************)
(* The programs around one camera, side by side: exactly one of them is    *)
(* started, so that one run looks at each of them alone.                   *)
(***************************************************************************)
EXTENDS CVWindow, DeviceFirmwareUpdate, MultiFirmwareUpdate, DevicePlayback,
        FemtoMegaNode, CommonUsages, LocalViewers

Init ==
    /\ WindowInit /\ UpdateInit /\ MultiInit /\ PlaybackInit /\ NodeInit /\ UsagesInit
    /\ ViewerInit

ProgramsTypeOK ==
    /\ WindowTypeOK /\ UpdateTypeOK /\ MultiTypeOK
    /\ PlaybackTypeOK /\ NodeTypeOK /\ UsagesTypeOK /\ ViewerTypeOK

\* The programs that have been started, by the place of their main thread.
Idle(pc) == pc = "idle"
OthersIdle(pcs) == \A n \in DOMAIN pcs : Idle(pcs[n])

Next ==
    \/ /\ OthersIdle(<<uPc, mPc, pMain, nPc, cPc, vPc>>) /\ WindowNext
       /\ UNCHANGED <<updateVars, multiVars, playbackVars, nodeVars, usagesVars, viewerVars>>
    \/ /\ OthersIdle(<<wMain, mPc, pMain, nPc, cPc, vPc>>) /\ UpdateNext
       /\ UNCHANGED <<windowVars, multiVars, playbackVars, nodeVars, usagesVars, viewerVars>>
    \/ /\ OthersIdle(<<wMain, uPc, pMain, nPc, cPc, vPc>>) /\ MultiNext
       /\ UNCHANGED <<windowVars, updateVars, playbackVars, nodeVars, usagesVars, viewerVars>>
    \/ /\ OthersIdle(<<wMain, uPc, mPc, nPc, cPc, vPc>>) /\ PlaybackNext
       /\ UNCHANGED <<windowVars, updateVars, multiVars, nodeVars, usagesVars, viewerVars>>
    \/ /\ OthersIdle(<<wMain, uPc, mPc, pMain, cPc, vPc>>) /\ NodeNext
       /\ UNCHANGED <<windowVars, updateVars, multiVars, playbackVars, usagesVars, viewerVars>>
    \/ /\ OthersIdle(<<wMain, uPc, mPc, pMain, nPc, vPc>>) /\ UsagesNext
       /\ UNCHANGED <<windowVars, updateVars, multiVars, playbackVars, nodeVars, viewerVars>>
    \/ /\ OthersIdle(<<wMain, uPc, mPc, pMain, nPc, cPc>>) /\ ViewerNext
       /\ UNCHANGED <<windowVars, updateVars, multiVars, playbackVars, nodeVars, usagesVars>>

vars == <<windowVars, updateVars, multiVars, playbackVars, nodeVars, usagesVars,
          viewerVars>>

Spec ==
    /\ Init /\ [][Next]_vars
    /\ WindowFairness /\ PlaybackFairness /\ ViewerFairness
=============================================================================
