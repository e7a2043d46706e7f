------------------------ MODULE DeviceFirmwareUpdate ------------------------
(***************************************************************************)
(* 2.device.firmware_update: one camera is updated and, when its firmware  *)
(* asks for it, rebooted and updated once more as soon as it is back.  Its *)
(* return is told by a callback on the SDK's thread, found by a query, or  *)
(* awaited in rounds of 5 s with a question to the user in between.  A     *)
(* handle is a serial number and the connection it was opened on; the SDK  *)
(* throws for a handle whose connection is over.                           *)
(***************************************************************************)
EXTENDS Integers, FiniteSets

CONSTANTS
    Serials,          \* the cameras
    MaxConnections    \* bound: connections of one camera

ASSUME SerialsAssumption == "none" \notin Serials
ASSUME MaxConnectionsAssumption == MaxConnections \in Nat \ {0}

NoHandle == [sn |-> "none", conn |-> 0]
Handle == [sn : Serials, conn : 1..MaxConnections]

VARIABLES
    uPc,       \* where main is
    uExit,     \* how it ended: "" while it runs
    online,    \* the connection of each camera, 0 when it is not connected
    lastConn,  \* the number of connections it has had
    added,     \* device changed callbacks to come: the handles added
    target,    \* targetDevice
    first,     \* targetDevice of the first update (a history variable)
    needReupdate,
    deviceAfterReboot

updateVars == <<uPc, uExit, online, lastConn, added, target, first,
                needReupdate, deviceAfterReboot>>
sdkVars == <<online, lastConn, added>>

UpdateTypeOK ==
    /\ uPc \in {"idle", "update", "asked", "wait", "look", "found", "key", "again", "finish", "end"}
    /\ uExit \in {"", "failed", "quit", "listed", "success"}
    /\ online \in [Serials -> 0..MaxConnections]
    /\ lastConn \in [Serials -> 0..MaxConnections]
    /\ added \in SUBSET Handle
    /\ target \in Handle \cup {NoHandle}
    /\ first \in Handle \cup {NoHandle}
    /\ deviceAfterReboot \in Handle \cup {NoHandle}
    /\ needReupdate \in BOOLEAN

UpdateInit ==
    /\ uPc = "idle" /\ uExit = ""
    /\ online = [s \in Serials |-> 0] /\ lastConn = [s \in Serials |-> 0]
    /\ added = {}
    /\ target = NoHandle /\ first = NoHandle /\ deviceAfterReboot = NoHandle
    /\ needReupdate = FALSE

Current(s) == [sn |-> s, conn |-> online[s]]
Alive(h) == h # NoHandle /\ online[h.sn] = h.conn

\* main up to the first update: arguments, the list of devices S, and the
\* target, which is the only device or the one the argument names.
SelectDevice(S, arg) ==
    /\ uPc = "idle"
    /\ online' = [s \in Serials |-> IF s \in S THEN 1 ELSE 0]
    /\ lastConn' = online'
    /\ \/ \* wrong arguments, no device, several without -s, or not found
          /\ uExit' = "failed" /\ uPc' = "end"
          /\ UNCHANGED <<target, first>>
       \/ /\ S # {} /\ uExit' = "listed" /\ uPc' = "end"
          /\ UNCHANGED <<target, first>>
       \/ /\ (arg \in S \/ (arg = "none" /\ Cardinality(S) = 1))
          /\ target' = [sn |-> IF arg = "none" THEN CHOOSE s \in S : TRUE ELSE arg, conn |-> 1]
          /\ first' = target'
          /\ uPc' = "update" /\ UNCHANGED uExit
    /\ UNCHANGED <<added, needReupdate, deviceAfterReboot>>

End(how) == uExit' = how /\ uPc' = "end"

\* updateFirmware: an ob::Error ends the program; the callback's status
\* STAT_DONE_REBOOT_AND_REUPDATE, in the course of the update, sets the flag.
UpdateFirmware ==
    /\ uPc \in {"update", "again"}
    /\ \/ End("failed") /\ UNCHANGED needReupdate
       \/ /\ Alive(target)
          /\ needReupdate' \in BOOLEAN
          /\ uPc' = IF uPc = "update" /\ needReupdate' THEN "asked" ELSE "finish"
          /\ UNCHANGED uExit
    /\ UNCHANGED <<sdkVars, target, first, deviceAfterReboot>>

\* reboot(): the device's connection ends, or the handle is no longer good.
Reboot(h) ==
    /\ Alive(h)
    /\ online' = [online EXCEPT ![h.sn] = 0]

RebootForSecond ==
    /\ uPc = "asked"
    /\ \/ Reboot(target) /\ target' = NoHandle /\ uPc' = "wait" /\ UNCHANGED uExit
       \/ End("failed") /\ UNCHANGED <<online, target>>
    /\ UNCHANGED <<lastConn, added, first, needReupdate, deviceAfterReboot>>

\* cv.wait_for: the device is there, or 5 s have passed.
WaitEnds ==
    /\ uPc = "wait"
    /\ uPc' = "look"
    /\ UNCHANGED <<uExit, sdkVars, target, first, needReupdate, deviceAfterReboot>>

\* if(deviceAfterReboot == nullptr), read without the lock.
LookForDevice ==
    /\ uPc = "look"
    /\ uPc' = IF deviceAfterReboot = NoHandle THEN "key" ELSE "found"
    /\ UNCHANGED <<uExit, sdkVars, target, first, needReupdate, deviceAfterReboot>>

TakeDevice ==
    /\ uPc = "found"
    /\ target' = deviceAfterReboot
    /\ uPc' = "again"
    /\ UNCHANGED <<uExit, sdkVars, first, needReupdate, deviceAfterReboot>>

\* No key within 30 s, ESC or q: the program ends with 0.
KeyQuit ==
    /\ uPc = "key"
    /\ End("quit")
    /\ UNCHANGED <<sdkVars, target, first, needReupdate, deviceAfterReboot>>

KeyOther ==
    /\ uPc = "key"
    /\ uPc' = "wait"
    /\ UNCHANGED <<uExit, sdkVars, target, first, needReupdate, deviceAfterReboot>>

\* y, under the lock: the callback's device, or the one a query finds.
KeyYes ==
    LET s == first.sn
        found == IF deviceAfterReboot # NoHandle THEN deviceAfterReboot
                 ELSE IF online[s] # 0 THEN Current(s) ELSE NoHandle
    IN
    /\ uPc = "key"
    /\ deviceAfterReboot' = found
    /\ IF found = NoHandle
         THEN End("failed") /\ UNCHANGED target
         ELSE target' = found /\ uPc' = "again" /\ UNCHANGED uExit
    /\ UNCHANGED <<sdkVars, first, needReupdate>>

\* "Firmware update completed successfully", and a last reboot.
Finish ==
    /\ uPc = "finish"
    /\ \/ Reboot(target) /\ End("success")
       \/ End("failed") /\ UNCHANGED online
    /\ UNCHANGED <<lastConn, added, target, first, needReupdate, deviceAfterReboot>>

UpdateMain ==
    \/ UpdateFirmware \/ RebootForSecond \/ WaitEnds \/ LookForDevice
    \/ TakeDevice \/ KeyQuit \/ KeyOther \/ KeyYes \/ Finish

\* The cameras, at any time: one is unplugged, or connected again.
Unplug(s) ==
    /\ uPc \notin {"idle", "end"} /\ online[s] # 0
    /\ online' = [online EXCEPT ![s] = 0]
    /\ UNCHANGED <<uPc, uExit, lastConn, added, target, first, needReupdate, deviceAfterReboot>>

Connect(s) ==
    /\ uPc \notin {"idle", "end"} /\ online[s] = 0 /\ lastConn[s] < MaxConnections
    /\ lastConn' = [lastConn EXCEPT ![s] = @ + 1]
    /\ online' = [online EXCEPT ![s] = lastConn[s] + 1]
    /\ added' = added \cup {Current(s)'}
    /\ UNCHANGED <<uPc, uExit, target, first, needReupdate, deviceAfterReboot>>

\* Wrong variant of DeviceAdded: whatever device comes is the one awaited.
AnyDeviceAdded(h) ==
    /\ uPc # "end" /\ h \in added
    /\ added' = added \ {h}
    /\ deviceAfterReboot' = h
    /\ UNCHANGED <<uPc, uExit, online, lastConn, target, first, needReupdate>>

\* The callback: getDeviceBySN throws for a list without the serial number, or
\* when the device is gone again; else the device is noted under the lock.
DeviceAdded(h) ==
    /\ uPc # "end" /\ h \in added
    /\ added' = added \ {h}
    /\ \/ h.sn = first.sn /\ deviceAfterReboot' = h
       \/ (h.sn # first.sn \/ ~Alive(h)) /\ UNCHANGED deviceAfterReboot
    /\ UNCHANGED <<uPc, uExit, online, lastConn, target, first, needReupdate>>

UpdateSdk ==
    \/ \E s \in Serials : Unplug(s) \/ Connect(s)
    \/ \E h \in added : DeviceAdded(h)

StartUpdate == \E S \in SUBSET Serials, arg \in Serials \cup {"none"} : SelectDevice(S, arg)

UpdateNext == StartUpdate \/ UpdateMain \/ UpdateSdk

UpdateSpec == UpdateInit /\ [][UpdateNext]_updateVars

-----------------------------------------------------------------------------
(* Properties *)

\* The second update is made on the same camera, through a handle of a
\* connection after its reboot: although the callback notes every arrival from
\* before the first update on (line 112), cameras come and go, and nothing
\* resets deviceAfterReboot.
SecondUpdateIsAfterTheReboot ==
    uPc = "again" => target.sn = first.sn /\ target.conn > first.conn
=============================================================================
