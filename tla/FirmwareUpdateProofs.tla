------------------------ MODULE FirmwareUpdateProofs ------------------------
(***************************************************************************)
(* Proofs about the two firmware update programs.                          *)
(***************************************************************************)
EXTENDS DeviceFirmwareUpdate, MultiFirmwareUpdate, FiniteSetTheorems, TLAPS

\* What SecondUpdateIsAfterTheReboot rests on: connections are counted upwards,
\* what the callback is told and notes of the camera came after the first
\* handle, and so is, since the reboot, the camera itself.
Counted ==
    /\ \A s \in Serials : online[s] <= lastConn[s]
    /\ first # NoHandle => first.conn <= lastConn[first.sn]

NotedLater ==
    /\ \A h \in added : h.sn = first.sn => h.conn > first.conn
    /\ deviceAfterReboot # NoHandle =>
         deviceAfterReboot.sn = first.sn /\ deviceAfterReboot.conn > first.conn
    /\ uPc = "found" => deviceAfterReboot # NoHandle

GoneOrLater ==
    /\ uPc \in {"update", "asked"} => target = first
    /\ uPc \in {"wait", "look", "found", "key", "again"} =>
         online[first.sn] = 0 \/ online[first.sn] > first.conn

Chosen ==
    /\ uPc \notin {"idle", "end"} => first # NoHandle
    /\ uPc = "idle" => first = NoHandle /\ deviceAfterReboot = NoHandle /\ added = {}

UpdateInv ==
    /\ UpdateTypeOK /\ Chosen /\ Counted /\ NotedLater /\ GoneOrLater
    /\ SecondUpdateIsAfterTheReboot

-----------------------------------------------------------------------------
LEMMA ConnectionsCount ==
    /\ MaxConnections \in Nat
    /\ 1 \in 1..MaxConnections
    /\ 0 \in 0..MaxConnections /\ 1 \in 0..MaxConnections
    /\ \A n \in 0..MaxConnections : n \in Nat /\ n >= 0
  BY MaxConnectionsAssumption

LEMMA HandleFields ==
  ASSUME NEW h \in Handle
  PROVE  h.sn \in Serials /\ h.conn \in 1..MaxConnections /\ h # NoHandle
  <1>1. h.sn \in Serials /\ h.conn \in 1..MaxConnections
    BY DEF Handle
  <1>2. NoHandle.sn = "none"
    BY DEF NoHandle
  <1> QED BY <1>1, <1>2, SerialsAssumption

LEMMA InitUpdateInv == UpdateInit => UpdateInv
  <1> SUFFICES ASSUME UpdateInit PROVE UpdateInv
    OBVIOUS
  <1>1. UpdateTypeOK
    BY ConnectionsCount DEF UpdateInit, UpdateTypeOK
  <1>2. Chosen /\ GoneOrLater /\ SecondUpdateIsAfterTheReboot
    BY DEF UpdateInit, Chosen, GoneOrLater, SecondUpdateIsAfterTheReboot
  <1>3. NotedLater
    BY DEF UpdateInit, NotedLater
  <1>4. Counted
    <2>1. \A s \in Serials : online[s] = 0 /\ lastConn[s] = 0
      BY DEF UpdateInit
    <2>2. \A s \in Serials : online[s] <= lastConn[s]
      BY <2>1
    <2> QED BY <2>2 DEF UpdateInit, Counted
  <1> QED BY <1>1, <1>2, <1>3, <1>4 DEF UpdateInv

LEMMA SelectKeepsInv ==
  ASSUME NEW S \in SUBSET Serials, NEW arg \in Serials \cup {"none"},
         UpdateInv, SelectDevice(S, arg)
  PROVE  UpdateInv'
  <1>1. target' \in Handle \cup {NoHandle} /\ first' \in Handle \cup {NoHandle}
    <2>1. CASE UNCHANGED <<target, first>>
      BY <2>1 DEF UpdateInv, UpdateTypeOK
    <2>2. CASE target' = [sn |-> IF arg = "none" THEN CHOOSE s \in S : TRUE ELSE arg, conn |-> 1]
               /\ first' = target' /\ (arg \in S \/ (arg = "none" /\ Cardinality(S) = 1))
      <3>1. CASE arg \in S
        BY <2>2, <3>1, SerialsAssumption, ConnectionsCount DEF Handle
      <3>2. CASE arg = "none" /\ Cardinality(S) = 1
        <4>1. S # {}
          BY <3>2, FS_EmptySet
        <4>2. (CHOOSE s \in S : TRUE) \in Serials
          BY <4>1
        <4> QED BY <2>2, <3>2, <4>2, ConnectionsCount DEF Handle
      <3> QED BY <2>2, <3>1, <3>2
    <2> QED BY <2>1, <2>2 DEF SelectDevice
  <1>2. UpdateTypeOK'
    BY <1>1, ConnectionsCount DEF SelectDevice, UpdateInv, UpdateTypeOK
  <1>3. first' # NoHandle => first'.conn = 1 /\ first'.sn \in Serials /\ first'.sn \in S
    <2>1. CASE UNCHANGED first
      BY <2>1 DEF UpdateInv, Chosen, SelectDevice
    <2>2. CASE first' # first
      <3>1. /\ first' = [sn |-> IF arg = "none" THEN CHOOSE s \in S : TRUE ELSE arg, conn |-> 1]
            /\ arg \in S \/ (arg = "none" /\ Cardinality(S) = 1)
        BY <2>2 DEF SelectDevice
      <3>2. CASE arg \in S
        BY <3>1, <3>2, SerialsAssumption
      <3>3. CASE arg = "none" /\ Cardinality(S) = 1
        <4>1. S # {}
          BY <3>3, FS_EmptySet
        <4>2. (CHOOSE s \in S : TRUE) \in S
          BY <4>1
        <4> QED BY <3>1, <3>3, <4>2
      <3> QED BY <3>1, <3>2, <3>3
    <2> QED BY <2>1, <2>2
  <1>4. Chosen' /\ NotedLater'
    BY <1>3 DEF SelectDevice, UpdateInv, Chosen, NotedLater, NoHandle
  <1>5. Counted'
    <2>1. lastConn' = online' /\ \A s \in S : lastConn'[s] = 1
      BY DEF SelectDevice
    <2>2. \A s \in Serials : online'[s] <= lastConn'[s]
      <3> TAKE s \in Serials
      <3>1. lastConn'[s] \in 0..MaxConnections
        BY <1>2 DEF UpdateTypeOK
      <3> QED BY <2>1, <3>1, ConnectionsCount
    <2> QED BY <1>3, <2>1, <2>2 DEF Counted
  <1>6. GoneOrLater' /\ SecondUpdateIsAfterTheReboot'
    BY DEF SelectDevice, GoneOrLater, SecondUpdateIsAfterTheReboot
  <1> QED BY <1>2, <1>4, <1>5, <1>6 DEF UpdateInv

LEMMA RebootKeepsInv ==
  ASSUME UpdateInv, RebootForSecond \/ Finish
  PROVE  UpdateInv'
  <1> USE DEF RebootForSecond, Finish, Reboot, Alive, End
  <1>1. target # NoHandle => target.sn \in Serials /\ target.conn \in 1..MaxConnections
    BY HandleFields DEF UpdateInv, UpdateTypeOK
  <1>2. UpdateTypeOK'
    BY <1>1, ConnectionsCount DEF UpdateInv, UpdateTypeOK
  <1>3. Chosen'
    BY DEF UpdateInv, Chosen
  <1>4. Counted'
    <2>1. /\ lastConn' = lastConn /\ first' = first
          /\ \A s \in Serials : online'[s] = online[s] \/ online'[s] = 0
      BY <1>1 DEF UpdateInv, UpdateTypeOK
    <2>2. \A x \in Serials : online'[x] <= lastConn'[x]
      <3> TAKE x \in Serials
      <3>1. online[x] <= lastConn[x] /\ lastConn[x] \in 0..MaxConnections
        BY DEF UpdateInv, UpdateTypeOK, Counted
      <3> QED BY <2>1, <3>1, ConnectionsCount
    <2> QED BY <2>1, <2>2 DEF UpdateInv, Counted
  <1>5. NotedLater'
    BY DEF UpdateInv, NotedLater
  <1>6. GoneOrLater' /\ SecondUpdateIsAfterTheReboot'
    BY <1>1 DEF UpdateInv, UpdateTypeOK, GoneOrLater, SecondUpdateIsAfterTheReboot
  <1> QED BY <1>2, <1>3, <1>4, <1>5, <1>6 DEF UpdateInv

LEMMA KeyYesKeepsInv ==
  ASSUME UpdateInv, KeyYes
  PROVE  UpdateInv'
  <1> DEFINE found == IF deviceAfterReboot # NoHandle THEN deviceAfterReboot
                      ELSE IF online[first.sn] # 0 THEN Current(first.sn) ELSE NoHandle
  <1>1. first.sn \in Serials /\ first.conn \in 1..MaxConnections
    BY HandleFields DEF UpdateInv, UpdateTypeOK, Chosen, KeyYes
  <1>2. online[first.sn] # 0 => Current(first.sn) \in Handle
    <2>1. online[first.sn] \in 0..MaxConnections
      BY <1>1 DEF UpdateInv, UpdateTypeOK
    <2>2. online[first.sn] # 0 => online[first.sn] \in 1..MaxConnections
      BY <2>1, ConnectionsCount
    <2> QED BY <1>1, <2>2 DEF Current, Handle
  <1>3. found \in Handle \cup {NoHandle}
    BY <1>2 DEF UpdateInv, UpdateTypeOK
  <1>4. found # NoHandle => found.sn = first.sn /\ found.conn > first.conn
    BY <1>1 DEF UpdateInv, NotedLater, GoneOrLater, KeyYes, Current
  <1> HIDE DEF found
  <1>5. /\ uPc = "key" /\ deviceAfterReboot' = found
        /\ \/ found = NoHandle /\ uExit' = "failed" /\ uPc' = "end" /\ UNCHANGED target
           \/ found # NoHandle /\ target' = found /\ uPc' = "again" /\ UNCHANGED uExit
        /\ UNCHANGED <<online, lastConn, added, first, needReupdate>>
    BY DEF KeyYes, End, sdkVars, found
  <1>6. UpdateTypeOK'
    BY <1>3, <1>5 DEF UpdateInv, UpdateTypeOK
  <1>7. Chosen' /\ Counted' /\ GoneOrLater'
    BY <1>5 DEF UpdateInv, Chosen, Counted, GoneOrLater
  <1>8. NotedLater' /\ SecondUpdateIsAfterTheReboot'
    BY <1>4, <1>5 DEF UpdateInv, NotedLater, SecondUpdateIsAfterTheReboot
  <1> QED BY <1>6, <1>7, <1>8 DEF UpdateInv

LEMMA MainKeepsInv ==
  ASSUME UpdateInv, UpdateMain
  PROVE  UpdateInv'
  <1> USE DEF UpdateInv, UpdateTypeOK, Chosen, Counted, NotedLater, GoneOrLater,
              SecondUpdateIsAfterTheReboot, sdkVars, End
  <1>1. CASE UpdateFirmware
    BY <1>1 DEF UpdateFirmware
  <1>2. CASE WaitEnds
    BY <1>2 DEF WaitEnds
  <1>3. CASE LookForDevice
    BY <1>3 DEF LookForDevice
  <1>4. CASE TakeDevice
    BY <1>4 DEF TakeDevice
  <1>5. CASE KeyQuit \/ KeyOther
    BY <1>5 DEF KeyQuit, KeyOther
  <1> QED BY <1>1, <1>2, <1>3, <1>4, <1>5, RebootKeepsInv, KeyYesKeepsInv DEF UpdateMain

LEMMA UnplugKeepsInv ==
  ASSUME UpdateInv, NEW s \in Serials, Unplug(s)
  PROVE  UpdateInv'
  <1>1. first # NoHandle => first.sn \in Serials
    BY HandleFields DEF UpdateInv, UpdateTypeOK
  <1>2. UpdateTypeOK'
    BY ConnectionsCount DEF Unplug, UpdateInv, UpdateTypeOK
  <1>3. Chosen' /\ NotedLater' /\ SecondUpdateIsAfterTheReboot'
    BY DEF Unplug, UpdateInv, Chosen, NotedLater, SecondUpdateIsAfterTheReboot
  <1>4. Counted'
    <2>1. /\ lastConn' = lastConn /\ first' = first
          /\ \A x \in Serials : online'[x] = online[x] \/ online'[x] = 0
      BY DEF Unplug, UpdateInv, UpdateTypeOK
    <2>2. \A x \in Serials : online'[x] <= lastConn'[x]
      <3> TAKE x \in Serials
      <3>1. online[x] <= lastConn[x] /\ lastConn[x] \in 0..MaxConnections
        BY DEF UpdateInv, UpdateTypeOK, Counted
      <3> QED BY <2>1, <3>1, ConnectionsCount
    <2> QED BY <2>1, <2>2 DEF UpdateInv, Counted
  <1>5. GoneOrLater'
    BY <1>1 DEF Unplug, UpdateInv, UpdateTypeOK, Chosen, GoneOrLater
  <1> QED BY <1>2, <1>3, <1>4, <1>5 DEF UpdateInv

LEMMA ConnectKeepsInv ==
  ASSUME UpdateInv, NEW s \in Serials, Connect(s)
  PROVE  UpdateInv'
  <1> DEFINE n == lastConn[s] + 1
             h == [sn |-> s, conn |-> n]
  <1>1. first # NoHandle => first.sn \in Serials /\ first.conn \in 1..MaxConnections
    BY HandleFields DEF UpdateInv, UpdateTypeOK
  <1>2. n \in 1..MaxConnections /\ n > lastConn[s]
    <2>1. lastConn[s] \in 0..MaxConnections /\ lastConn[s] < MaxConnections
      BY DEF Connect, UpdateInv, UpdateTypeOK
    <2> QED BY <2>1, ConnectionsCount
  <1>3. h \in Handle /\ h.sn = s /\ h.conn = n
    BY <1>2 DEF Handle
  <1>4. online' = [online EXCEPT ![s] = n] /\ lastConn' = [lastConn EXCEPT ![s] = n]
    BY DEF Connect
  <1>5. added' = added \cup {h}
    BY <1>4 DEF Connect, UpdateInv, UpdateTypeOK, Current
  <1>6. /\ online[s] = 0 /\ uPc \notin {"idle", "end"}
        /\ UNCHANGED <<uPc, uExit, target, first, needReupdate, deviceAfterReboot>>
    BY DEF Connect
  <1> HIDE DEF h, n
  <1>7. UpdateTypeOK'
    <2>1. n \in 0..MaxConnections
      BY <1>2, ConnectionsCount
    <2> QED BY <1>3, <1>4, <1>5, <1>6, <2>1 DEF UpdateInv, UpdateTypeOK
  <1>8. Chosen' /\ SecondUpdateIsAfterTheReboot'
    BY <1>6 DEF UpdateInv, Chosen, SecondUpdateIsAfterTheReboot
  <1>9. \A x \in Serials :
          /\ x = s => online'[x] = n /\ lastConn'[x] = n
          /\ x # s => online'[x] = online[x] /\ lastConn'[x] = lastConn[x]
    BY <1>4 DEF UpdateInv, UpdateTypeOK
  <1>10. first # NoHandle =>
           first.conn <= lastConn'[first.sn] /\ (first.sn = s => first.conn < n)
    <2> SUFFICES ASSUME first # NoHandle
                 PROVE  first.conn <= lastConn'[first.sn] /\ (first.sn = s => first.conn < n)
      OBVIOUS
    <2>1. first.conn \in Nat /\ lastConn[first.sn] \in Nat /\ n \in Nat /\ lastConn[s] \in Nat
      <3>1. lastConn[first.sn] \in 0..MaxConnections /\ lastConn[s] \in 0..MaxConnections
        BY <1>1 DEF UpdateInv, UpdateTypeOK
      <3>2. first.conn \in Nat /\ n \in Nat
        BY <1>1, <1>2, ConnectionsCount
      <3> QED BY <3>1, <3>2, ConnectionsCount
    <2>2. first.conn <= lastConn[first.sn]
      BY DEF UpdateInv, Counted
    <2> QED BY <1>1, <1>2, <1>9, <2>1, <2>2
  <1>11. Counted'
    <2>1. \A x \in Serials : online'[x] <= lastConn'[x]
      <3> TAKE x \in Serials
      <3>1. n <= n
        BY <1>2
      <3>2. online[x] <= lastConn[x]
        BY DEF UpdateInv, Counted
      <3> QED BY <1>9, <3>1, <3>2, Zenon
    <2> QED BY <1>6, <1>10, <2>1 DEF Counted
  <1>12. NotedLater'
    BY <1>3, <1>5, <1>6, <1>10 DEF UpdateInv, Chosen, NotedLater
  <1>13. GoneOrLater'
    BY <1>1, <1>6, <1>9, <1>10 DEF UpdateInv, Chosen, GoneOrLater
  <1> QED BY <1>7, <1>8, <1>11, <1>12, <1>13 DEF UpdateInv

LEMMA AddedKeepsInv ==
  ASSUME UpdateInv, NEW h \in added, DeviceAdded(h)
  PROVE  UpdateInv'
  <1>1. h \in Handle /\ h # NoHandle /\ uPc # "idle"
    BY HandleFields DEF DeviceAdded, UpdateInv, UpdateTypeOK, Chosen
  <1>2. UpdateTypeOK'
    BY <1>1 DEF DeviceAdded, UpdateInv, UpdateTypeOK
  <1>3. Chosen' /\ Counted' /\ GoneOrLater' /\ SecondUpdateIsAfterTheReboot'
    BY <1>1 DEF DeviceAdded, UpdateInv, Chosen, Counted, GoneOrLater,
                SecondUpdateIsAfterTheReboot
  <1>4. NotedLater'
    BY <1>1 DEF DeviceAdded, UpdateInv, NotedLater
  <1> QED BY <1>2, <1>3, <1>4 DEF UpdateInv

LEMMA NextUpdateInv == UpdateInv /\ [UpdateNext]_updateVars => UpdateInv'
  <1> SUFFICES ASSUME UpdateInv, [UpdateNext]_updateVars PROVE UpdateInv'
    OBVIOUS
  <1>1. CASE StartUpdate
    BY <1>1, SelectKeepsInv DEF StartUpdate
  <1>2. CASE UNCHANGED updateVars
    BY <1>2 DEF updateVars, UpdateInv, UpdateTypeOK, Chosen, Counted, NotedLater,
                GoneOrLater, SecondUpdateIsAfterTheReboot
  <1> QED BY <1>1, <1>2, MainKeepsInv, UnplugKeepsInv, ConnectKeepsInv, AddedKeepsInv
     DEF UpdateNext, UpdateSdk

\* The inductive invariant of the single update: what main knows of its camera
\* before, during and after the reboot.
THEOREM UpdateInvariance == UpdateSpec => []UpdateInv
  BY InitUpdateInv, NextUpdateInv, PTL DEF UpdateSpec

\* The types of the program's state, for any cameras and connections.
THEOREM UpdateTypes == UpdateSpec => []UpdateTypeOK
  <1>1. UpdateInv => UpdateTypeOK
    BY DEF UpdateInv
  <1> QED BY <1>1, UpdateInvariance, PTL

\* The second update is made on the camera of the first, on a connection after
\* its reboot, however often this one and others come and go.
THEOREM SecondUpdateTheorem == UpdateSpec => []SecondUpdateIsAfterTheReboot
  <1>1. UpdateInv => SecondUpdateIsAfterTheReboot
    BY DEF UpdateInv
  <1> QED BY <1>1, UpdateInvariance, PTL

-----------------------------------------------------------------------------
\* What ListedAsReported rests on: the flags are those of the loop's device,
\* nothing is known of the devices after it, and the loop is over at the reboots.
FlagsOfDevice ==
    mPc \in {"updating", "sort"} =>
        /\ mDevice <= NumDevices
        /\ "success" \in final <=> "done" \in seen[mDevice]
        /\ "mismatch" \in final <=> "mismatch" \in seen[mDevice]
        /\ "failure" \in final => ~(seen[mDevice] \subseteq {"progress"})
        /\ "success" \in final \/ "mismatch" \in final \/ "failure" \in final
              \/ seen[mDevice] \subseteq {"progress"}

LoopInv ==
    /\ \A d \in 1..NumDevices :
         d > mDevice \/ (d = mDevice /\ mPc \in {"idle", "begin"}) => seen[d] = {}
    /\ mPc = "reboot" => mDevice > NumDevices

MultiInv == MultiTypeOK /\ FlagsOfDevice /\ LoopInv /\ ListedAsReported

LEMMA InitMultiInv == MultiInit => MultiInv
  <1> SUFFICES ASSUME MultiInit PROVE MultiInv
    OBVIOUS
  <1>1. MultiTypeOK
    <2>1. mDevice \in 1 .. NumDevices + 1
      BY NumDevicesAssumption DEF MultiInit
    <2> QED BY <2>1 DEF MultiInit, MultiTypeOK
  <1>2. FlagsOfDevice /\ LoopInv
    BY DEF MultiInit, FlagsOfDevice, LoopInv
  <1>3. ListedAsReported
    BY DEF MultiInit, ListedAsReported
  <1> QED BY <1>1, <1>2, <1>3 DEF MultiInv

\* A status of the device of the loop, or its exception.
LEMMA ReportKeepsInv ==
  ASSUME MultiInv, mPc = "updating", mPc' \in {"updating", "sort"},
         NEW report \in Statuses \cup {"thrown"},
         seen' = [seen EXCEPT ![mDevice] = @ \cup {report}],
         final' = CASE report = "done"     -> (final \cup {"success"}) \ {"failure"}
                    [] report = "mismatch" -> final \cup {"mismatch"}
                    [] report = "error"    -> final \cup {"failure"}
                    [] report = "thrown"   -> final \cup {"failure"}
                    [] OTHER               -> final,
         UNCHANGED <<mDevice, listed, rebooted>>
  PROVE  MultiInv'
  <1>1. mDevice \in 1..NumDevices
    BY NumDevicesAssumption DEF MultiInv, MultiTypeOK, FlagsOfDevice
  <1>2. /\ seen'[mDevice] = seen[mDevice] \cup {report}
        /\ \A d \in 1..NumDevices : d # mDevice => seen'[d] = seen[d]
    BY <1>1 DEF MultiInv, MultiTypeOK
  <1>3. MultiTypeOK'
    <2>1. final' \in SUBSET {"success", "mismatch", "failure"}
      BY DEF MultiInv, MultiTypeOK
    <2>2. seen' \in [1..NumDevices -> SUBSET (Statuses \cup {"thrown"})]
      BY <1>1 DEF MultiInv, MultiTypeOK
    <2> QED BY <2>1, <2>2 DEF MultiInv, MultiTypeOK
  <1>4. FlagsOfDevice'
    <2>1. report \in {"done", "mismatch", "error", "progress", "thrown"}
      BY DEF Statuses
    <2> QED BY <1>1, <1>2, <2>1 DEF MultiInv, FlagsOfDevice
  <1>5. LoopInv'
    BY <1>1, <1>2 DEF MultiInv, MultiTypeOK, LoopInv
  <1>6. ListedAsReported'
    BY <1>1, <1>2 DEF MultiInv, MultiTypeOK, ListedAsReported
  <1> QED BY <1>3, <1>4, <1>5, <1>6 DEF MultiInv

LEMMA SortKeepsInv ==
  ASSUME MultiInv, SortDevice
  PROVE  MultiInv'
  <1> DEFINE list == IF "success" \in final THEN "success"
                     ELSE IF "mismatch" \in final THEN "mismatch"
                     ELSE IF "failure" \in final THEN "failure" ELSE "none"
  <1>1. mDevice \in 1..NumDevices /\ mDevice + 1 \in 1 .. NumDevices + 1
    BY NumDevicesAssumption DEF MultiInv, MultiTypeOK, FlagsOfDevice, SortDevice
  <1>2. list = IF "done" \in seen[mDevice] THEN "success"
               ELSE IF "mismatch" \in seen[mDevice] THEN "mismatch"
               ELSE IF seen[mDevice] \subseteq {"progress"} THEN "none" ELSE "failure"
    BY DEF MultiInv, FlagsOfDevice, SortDevice
  <1>3. /\ listed' = [listed EXCEPT ![mDevice] = list]
        /\ mDevice' = mDevice + 1 /\ mPc' = "begin"
        /\ UNCHANGED <<final, rebooted, seen>>
    BY DEF SortDevice
  <1>4. list \in {"none", "success", "mismatch", "failure"}
    OBVIOUS
  <1> HIDE DEF list
  <1>5. MultiTypeOK'
    BY <1>1, <1>3, <1>4 DEF MultiInv, MultiTypeOK
  <1>6. FlagsOfDevice' /\ LoopInv'
    BY <1>1, <1>3, NumDevicesAssumption DEF MultiInv, MultiTypeOK, FlagsOfDevice, LoopInv
  <1>7. ListedAsReported'
    <2> SUFFICES ASSUME NEW d \in 1..NumDevices
                 PROVE  /\ d < mDevice' => listed'[d] = IF "done" \in seen[d] THEN "success"
                                ELSE IF "mismatch" \in seen[d] THEN "mismatch"
                                ELSE IF seen[d] \subseteq {"progress"} THEN "none"
                                ELSE "failure"
                        /\ d \in rebooted => "done" \in seen[d]
      BY <1>3 DEF ListedAsReported
    <2>1. CASE d = mDevice
      BY <1>1, <1>2, <1>3, <2>1 DEF MultiInv, MultiTypeOK, ListedAsReported
    <2>2. CASE d # mDevice
      <3>1. listed'[d] = listed[d]
        BY <1>3, <2>2 DEF MultiInv, MultiTypeOK
      <3>2. d < mDevice' => d < mDevice
        BY <1>1, <1>3, <2>2
      <3> QED BY <3>1, <3>2, Zenon DEF MultiInv, ListedAsReported
    <2> QED BY <2>1, <2>2
  <1> QED BY <1>5, <1>6, <1>7 DEF MultiInv

LEMMA RebootNextKeepsInv ==
  ASSUME MultiInv, RebootNext
  PROVE  MultiInv'
  <1>1. \A d \in ToReboot : d \in 1..NumDevices /\ "done" \in seen[d]
    <2> TAKE d \in ToReboot
    <2>1. d \in 1..NumDevices /\ listed[d] = "success" /\ d < mDevice
      BY NumDevicesAssumption DEF ToReboot, RebootNext, MultiInv, MultiTypeOK, LoopInv
    <2> QED BY <2>1, Zenon DEF MultiInv, ListedAsReported
  <1>2. MultiTypeOK' /\ FlagsOfDevice' /\ LoopInv'
    BY <1>1 DEF RebootNext, MultiInv, MultiTypeOK, FlagsOfDevice, LoopInv
  <1>3. ListedAsReported'
    <2>1. \A d \in rebooted' : d \in rebooted \/ d \in ToReboot
      BY DEF RebootNext
    <2> QED BY <1>1, <2>1 DEF RebootNext, MultiInv, ListedAsReported
  <1> QED BY <1>2, <1>3 DEF MultiInv

LEMMA NextMultiInv == MultiInv /\ [MultiNext]_multiVars => MultiInv'
  <1> SUFFICES ASSUME MultiInv, [MultiNext]_multiVars PROVE MultiInv'
    OBVIOUS
  <1> USE DEF MultiInv, MultiTypeOK, FlagsOfDevice, LoopInv, ListedAsReported
  <1>1. CASE ListDevices
    BY <1>1 DEF ListDevices
  <1>2. CASE BeginDevice
    <2>1. mDevice \in 1..NumDevices
      BY <1>2, NumDevicesAssumption DEF BeginDevice
    <2> QED BY <1>2, <2>1 DEF BeginDevice
  <1>3. ASSUME NEW state \in Statuses, UpdateStatus(state) PROVE MultiInv'
    <2>1. state # "thrown"
      BY DEF Statuses
    <2> QED BY <1>3, <2>1, ReportKeepsInv DEF UpdateStatus
  <1>4. CASE UpdateReturns
    BY <1>4 DEF UpdateReturns
  <1>5. CASE UpdateThrows
    BY <1>5, ReportKeepsInv DEF UpdateThrows
  <1>6. CASE Summarize \/ MultiEnds
    BY <1>6 DEF Summarize, MultiEnds
  <1>7. CASE UNCHANGED multiVars
    BY <1>7 DEF multiVars
  <1> QED BY <1>1, <1>2, <1>3, <1>4, <1>5, <1>6, <1>7, SortKeepsInv, RebootNextKeepsInv
     DEF MultiNext

\* The inductive invariant of the update of all cameras: where main is in the
\* list of devices, and what it has recorded of those before.
THEOREM MultiInvariance == MultiSpec => []MultiInv
  BY InitMultiInv, NextMultiInv, PTL DEF MultiSpec

\* Every device behind the loop is in the list its own statuses call for, and
\* only devices that reported a success are rebooted.
THEOREM ListedTheorem == MultiSpec => []ListedAsReported
  <1>1. MultiInv => ListedAsReported
    BY DEF MultiInv
  <1> QED BY <1>1, MultiInvariance, PTL
=============================================================================
