------------------------ MODULE MultiFirmwareUpdate ------------------------
(***************************************************************************)
(* 2.device.multi_devices_firmware_update: every connected camera is       *)
(* updated in turn.  The result of an update reaches the main thread by a  *)
(* callback's statuses and by an exception, through three global flags; at *)
(* the end the cameras of the success list are rebooted.                   *)
(***************************************************************************)
EXTENDS Integers, FiniteSets

CONSTANT NumDevices   \* bound: the devices connected

ASSUME NumDevicesAssumption == NumDevices \in Nat

\* The statuses the callback tells apart; "error" stands for the other
\* negative ones, "progress" for the rest (with STAT_DONE_REBOOT_AND_REUPDATE).
Statuses == {"done", "mismatch", "error", "progress"}

VARIABLES
    mPc,       \* where main is
    mDevice,   \* the device of the loop
    final,     \* which of finalSuccess, finalMismatch, finalFailure are set
    listed,    \* the list each device was put in
    rebooted,  \* the devices rebooted
    seen       \* what became of each device: the statuses it has reported, in
               \* whatever order, and "thrown" (a history variable)

multiVars == <<mPc, mDevice, final, listed, rebooted, seen>>

MultiTypeOK ==
    /\ mPc \in {"idle", "begin", "updating", "sort", "reboot", "end", "failed"}
    /\ mDevice \in 1 .. NumDevices + 1
    /\ final \in SUBSET {"success", "mismatch", "failure"}
    /\ listed \in [1..NumDevices -> {"none", "success", "mismatch", "failure"}]
    /\ rebooted \in SUBSET (1..NumDevices)
    /\ seen \in [1..NumDevices -> SUBSET (Statuses \cup {"thrown"})]

MultiInit ==
    /\ mPc = "idle" /\ mDevice = 1
    /\ final = {}
    /\ listed = [d \in 1..NumDevices |-> "none"]
    /\ rebooted = {}
    /\ seen = [d \in 1..NumDevices |-> {}]

\* The path is checked and the devices are listed, or the program ends.
ListDevices ==
    /\ mPc = "idle"
    /\ mPc' \in {"begin", "failed"}
    /\ UNCHANGED <<mDevice, final, listed, rebooted, seen>>

\* Wrong variant of BeginDevice: the flags are those of the device before.
BeginWithoutReset ==
    /\ mPc = "begin" /\ mDevice <= NumDevices
    /\ final' = final
    /\ mPc' = "updating"
    /\ UNCHANGED <<mDevice, listed, rebooted, seen>>

\* The loop's head: the flags are reset and the update begins.
BeginDevice ==
    /\ mPc = "begin" /\ mDevice <= NumDevices
    /\ final' = {}
    /\ mPc' = "updating"
    /\ UNCHANGED <<mDevice, listed, rebooted, seen>>

\* firmwareUpdateCallback, as often as the SDK likes.
UpdateStatus(state) ==
    /\ mPc = "updating"
    /\ seen' = [seen EXCEPT ![mDevice] = @ \cup {state}]
    /\ final' = CASE state = "done"     -> (final \cup {"success"}) \ {"failure"}
                  [] state = "mismatch" -> final \cup {"mismatch"}
                  [] state = "error"    -> final \cup {"failure"}
                  [] OTHER              -> final
    /\ UNCHANGED <<mPc, mDevice, listed, rebooted>>

\* updateFirmware returns, or throws an ob::Error.
UpdateReturns ==
    /\ mPc = "updating"
    /\ mPc' = "sort"
    /\ UNCHANGED <<mDevice, final, listed, rebooted, seen>>

UpdateThrows ==
    /\ mPc = "updating"
    /\ final' = final \cup {"failure"}
    /\ seen' = [seen EXCEPT ![mDevice] = @ \cup {"thrown"}]
    /\ mPc' = "sort"
    /\ UNCHANGED <<mDevice, listed, rebooted>>

\* The list for the device: success, then mismatch, then failure.
SortDevice ==
    /\ mPc = "sort"
    /\ listed' = [listed EXCEPT ![mDevice] =
         IF "success" \in final THEN "success"
         ELSE IF "mismatch" \in final THEN "mismatch"
         ELSE IF "failure" \in final THEN "failure" ELSE "none"]
    /\ mDevice' = mDevice + 1
    /\ mPc' = "begin"
    /\ UNCHANGED <<final, rebooted, seen>>

\* The names of the listed devices are printed; getDeviceInfo may throw.
Summarize ==
    /\ mPc = "begin" /\ mDevice > NumDevices
    /\ \/ mPc' = "reboot"
       \/ (\E d \in 1..NumDevices : listed[d] # "none") /\ mPc' = "failed"
    /\ UNCHANGED <<mDevice, final, listed, rebooted, seen>>

\* The next device of the list is rebooted; an ob::Error ends the program.
ToReboot == {d \in 1..NumDevices : listed[d] = "success"} \ rebooted

RebootNext ==
    /\ mPc = "reboot" /\ ToReboot # {}
    /\ \/ /\ \E d \in ToReboot : (\A e \in ToReboot : d <= e) /\ rebooted' = rebooted \cup {d}
          /\ UNCHANGED mPc
       \/ mPc' = "failed" /\ UNCHANGED rebooted
    /\ UNCHANGED <<mDevice, final, listed, seen>>

MultiEnds ==
    /\ mPc = "reboot" /\ ToReboot = {}
    /\ mPc' = "end"
    /\ UNCHANGED <<mDevice, final, listed, rebooted, seen>>

MultiNext ==
    \/ ListDevices \/ BeginDevice
    \/ \E state \in Statuses : UpdateStatus(state)
    \/ UpdateReturns \/ UpdateThrows \/ SortDevice \/ Summarize
    \/ RebootNext \/ MultiEnds

MultiSpec == MultiInit /\ [][MultiNext]_multiVars

-----------------------------------------------------------------------------
(* Properties *)

\* Every device behind the loop is in the list that its own statuses call for:
\* a success, once reported, is not undone by a later error or exception, a
\* mismatch beats a failure, and a device without a final status (one that
\* asks for a second update) is in none.  Only successes are rebooted.
ListedAsReported ==
    \A d \in 1..NumDevices :
        /\ d < mDevice => listed[d] = IF "done" \in seen[d] THEN "success"
                                ELSE IF "mismatch" \in seen[d] THEN "mismatch"
                                ELSE IF seen[d] \subseteq {"progress"} THEN "none"
                                ELSE "failure"
        /\ d \in rebooted => "done" \in seen[d]
=============================================================================
