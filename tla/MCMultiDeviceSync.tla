------------------------- MODULE MCMultiDeviceSync -------------------------
(***************************************************************************)
(* One or two cameras, two or four holders, queues of two frames.          *)
(***************************************************************************)
EXTENDS MultiDeviceSync

CONSTANTS d1, d2

MCDevices == {d1, d2}
MCHolders == MCDevices \X {"depth", "color"}
MCDevList == <<d1, d2>>
MCHalfTspGap == [h \in MCHolders |-> IF h[1] = d1 THEN 1 ELSE 0]
MCMaxStampWith == <<4, 1>>
=============================================================================
