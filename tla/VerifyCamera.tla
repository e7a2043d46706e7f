---------------------------- MODULE VerifyCamera ----------------------------
(***************************************************************************)
(* verification_tool/verify_camera.cpp: a command-line check of the        *)
(* connected cameras that reports through its exit code.  One thread; the  *)
(* cameras, the SDK and the command line are the environment.  Time is     *)
(* counted in frame periods.                                               *)
(***************************************************************************)
EXTENDS Integers, Sequences

CONSTANTS
    CommandLines,     \* the command lines: sequences of Token
    MaxDevices,       \* bound: connected devices
    DefaultTimeout,   \* timeoutSeconds when not given (5 s)
    DefaultFrames,    \* minFrames when not given (5)
    Wait              \* the 2000 ms of waitForFrameset

\* A word of the command line; "value" is what std::stoi makes of a number.
Token == [word : {"-h", "-d", "-t", "-n", "-v", "text"}, value : {0}]
         \cup [word : {"number"}, value : Int]

ASSUME ParametersAssumption ==
    /\ CommandLines \subseteq Seq(Token)
    /\ MaxDevices \in Nat
    /\ DefaultTimeout \in Int /\ DefaultFrames \in Int
    /\ Wait \in Nat \ {0}

VARIABLES
    argv,           \* the words not yet read
    phase,          \* where main() stands
    deviceIndex, timeout, minFrames,
    devices,        \* devList->deviceCount()
    dev,            \* the loop variable of main()
    depthFrames, colorFrames, elapsed,   \* the locals of verifyDevice
    allOk,
    exit,           \* the exit code, "abort" for std::terminate, or "none"
    verdict,        \* history: what verifyDevice said of each device
    badValue        \* history: an option had a value that is not a number

options == <<deviceIndex, timeout, minFrames>>
counters == <<depthFrames, colorFrames, elapsed>>
history == <<verdict, badValue>>
vars == <<argv, phase, options, devices, dev, counters, allOk, exit, history>>

Device == 0..(MaxDevices - 1)

TypeOK ==
    /\ argv \in Seq(Token)
    /\ phase \in {"parse", "query", "next", "stream", "judge", "done"}
    /\ deviceIndex \in Int /\ timeout \in Int /\ minFrames \in Int
    /\ devices \in 0..MaxDevices
    /\ dev \in 0..MaxDevices
    /\ depthFrames \in Nat /\ colorFrames \in Nat /\ elapsed \in Nat
    /\ allOk \in BOOLEAN
    /\ exit \in {"none", "0", "1", "2", "-1", "abort"}
    /\ verdict \in [Device -> {"none", "pass", "fail"}]
    /\ badValue \in BOOLEAN

Init ==
    /\ argv \in CommandLines
    /\ phase = "parse"
    /\ deviceIndex = -1
    /\ timeout = DefaultTimeout
    /\ minFrames = DefaultFrames
    /\ devices \in 0..MaxDevices
    /\ dev = 0
    /\ depthFrames = 0 /\ colorFrames = 0 /\ elapsed = 0
    /\ allOk = TRUE
    /\ exit = "none"
    /\ verdict = [d \in Device |-> "none"]
    /\ badValue = FALSE

Exit(code) ==
    /\ phase' = "done"
    /\ exit' = code

-----------------------------------------------------------------------------
(* The command line, lines 84 to 106.                                      *)

Reading(words) ==
    /\ phase = "parse"
    /\ argv # <<>>
    /\ Head(argv).word \in words

Help ==
    /\ Reading({"-h"})
    /\ Exit("0")
    /\ UNCHANGED <<argv, options, devices, dev, counters, allOk, history>>

Verbose ==
    /\ Reading({"-v"})
    /\ argv' = Tail(argv)
    /\ UNCHANGED <<phase, options, devices, dev, counters, allOk, exit, history>>

\* An option whose value is a number.
Option ==
    /\ Reading({"-d", "-t", "-n"})
    /\ Len(argv) > 1 /\ argv[2].word = "number"
    /\ argv' = Tail(Tail(argv))
    /\ LET Set(word, old) == IF Head(argv).word = word THEN argv[2].value ELSE old
       IN  /\ deviceIndex' = Set("-d", deviceIndex)
           /\ timeout' = Set("-t", timeout)
           /\ minFrames' = Set("-n", minFrames)
    /\ UNCHANGED <<phase, devices, dev, counters, allOk, exit, history>>

\* Wrong variant of MissingValue: the exit code of sysexits.h.
MissingValueUsage ==
    /\ Reading({"-d", "-t", "-n"})
    /\ Len(argv) = 1
    /\ Exit("64")
    /\ UNCHANGED <<argv, options, devices, dev, counters, allOk, history>>

MissingValue ==
    /\ Reading({"-d", "-t", "-n"})
    /\ Len(argv) = 1
    /\ Exit("1")
    /\ UNCHANGED <<argv, options, devices, dev, counters, allOk, history>>

\* std::stoi throws std::invalid_argument, and main() catches only ob::Error.
MalformedValue ==
    /\ Reading({"-d", "-t", "-n"})
    /\ Len(argv) > 1 /\ argv[2].word # "number"
    /\ badValue' = TRUE
    /\ Exit("abort")
    /\ UNCHANGED <<argv, options, devices, dev, counters, allOk, verdict>>

UnknownArgument ==
    /\ Reading({"text", "number"})
    /\ Exit("1")
    /\ UNCHANGED <<argv, options, devices, dev, counters, allOk, history>>

EndOfArguments ==
    /\ phase = "parse" /\ argv = <<>>
    /\ phase' = "query"
    /\ UNCHANGED <<argv, options, devices, dev, counters, allOk, exit, history>>

Parse ==
    \/ Help \/ Verbose \/ Option \/ MissingValue \/ MalformedValue
    \/ UnknownArgument \/ EndOfArguments

-----------------------------------------------------------------------------
(* main() after the command line, lines 108 to 133.                        *)

\* An ob::Error of the SDK outside verifyDevice.
SdkError ==
    /\ phase \in {"query", "next"}
    /\ Exit("-1")
    /\ UNCHANGED <<argv, options, devices, dev, counters, allOk, history>>

Query ==
    /\ phase = "query"
    /\ IF devices = 0 THEN Exit("-1") ELSE phase' = "next" /\ UNCHANGED exit
    /\ UNCHANGED <<argv, options, devices, dev, counters, allOk, history>>

Selected(d) == deviceIndex < 0 \/ d = deviceIndex

\* Wrong variant of SkipDevice: the index stays.
SkipDeviceForever ==
    /\ phase = "next" /\ dev < devices
    /\ ~Selected(dev)
    /\ UNCHANGED vars

\* The loop passes over a device that is not selected.  (The SDK's getDevice
\* throws rather than return a null device.)
SkipDevice ==
    /\ phase = "next" /\ dev < devices
    /\ ~Selected(dev)
    /\ dev' = dev + 1
    /\ UNCHANGED <<argv, phase, options, devices, counters, allOk, exit, history>>

StartDevice ==
    /\ phase = "next" /\ dev < devices
    /\ Selected(dev)
    /\ phase' = "stream"
    /\ depthFrames' = 0 /\ colorFrames' = 0 /\ elapsed' = 0
    /\ UNCHANGED <<argv, options, devices, dev, allOk, exit, history>>

Finish ==
    /\ phase = "next" /\ dev = devices
    /\ Exit(IF allOk THEN "0" ELSE "2")
    /\ UNCHANGED <<argv, options, devices, dev, counters, allOk, history>>

-----------------------------------------------------------------------------
(* verifyDevice, lines 16 to 76.                                           *)

Enough == depthFrames >= minFrames /\ colorFrames >= minFrames

\* Wrong variant of Judge: the last verdict counts.
JudgeLast(ok) ==
    /\ phase' = "next"
    /\ dev' = dev + 1
    /\ allOk' = ok
    /\ verdict' = [verdict EXCEPT ![dev] = IF ok THEN "pass" ELSE "fail"]

Judge(ok) ==
    /\ phase' = "next"
    /\ dev' = dev + 1
    /\ allOk' = (allOk /\ ok)
    /\ verdict' = [verdict EXCEPT ![dev] = IF ok THEN "pass" ELSE "fail"]

\* A frameset arrives; either stream may be missing in it.  Only after one
\* does the loop test whether there are enough.
TakeFrameset ==
    /\ phase = "stream" /\ elapsed < timeout
    /\ \E depth, color \in 0..1 :
         /\ depthFrames' = depthFrames + depth
         /\ colorFrames' = colorFrames + color
    /\ elapsed' = elapsed + 1
    /\ UNCHANGED <<argv, options, devices, dev, allOk, exit, history>>
    /\ phase' = IF Enough' THEN "judge" ELSE "stream"

\* Wrong variant of WaitInVain: the time is not looked at.
WaitInVainForever ==
    /\ phase = "stream"
    /\ elapsed' = elapsed + Wait
    /\ UNCHANGED <<argv, phase, options, devices, dev, depthFrames, colorFrames,
                   allOk, exit, history>>

\* waitForFrameset gives up.
WaitInVain ==
    /\ phase = "stream" /\ elapsed < timeout
    /\ elapsed' = elapsed + Wait
    /\ UNCHANGED <<argv, phase, options, devices, dev, depthFrames, colorFrames,
                   allOk, exit, history>>

\* The loop has ended: pipe.stop() and the verdict.
EndStream ==
    /\ phase = "judge" \/ (phase = "stream" /\ elapsed >= timeout)
    /\ Judge(Enough)
    /\ UNCHANGED <<argv, options, devices, counters, exit, badValue>>

\* An ob::Error anywhere in the try block: the device fails.
StreamError ==
    /\ phase \in {"stream", "judge"}
    /\ Judge(FALSE)
    /\ UNCHANGED <<argv, options, devices, counters, exit, badValue>>

\* The tool goes on.
Proceed ==
    \/ Parse
    \/ Query \/ SkipDevice \/ StartDevice \/ Finish
    \/ TakeFrameset \/ WaitInVain \/ EndStream

Next ==
    \/ Proceed
    \/ SdkError \/ StreamError

Spec == Init /\ [][Next]_vars

\* The process has one thread, which the system runs; waitForFrameset returns.
\* Nothing makes the SDK throw.
FairSpec == Spec /\ WF_vars(Proceed)

-----------------------------------------------------------------------------
\* The exit code sums up the verdicts: 0 when every selected device has passed,
\* 2 when one has failed, and a device that was not selected has no verdict.
ExitSumsUp ==
    phase = "done" /\ dev = devices =>
        /\ exit = "0" => \A d \in Device : d < devices /\ Selected(d)
                                             => verdict[d] = "pass"
        /\ exit = "2" => \E d \in Device : Selected(d) /\ verdict[d] = "fail"
        /\ \A d \in Device : ~Selected(d) => verdict[d] = "none"

\* A device takes no longer than the timeout and one wait more: the time is
\* looked at between two waits only.
TimeIsBounded == elapsed > 0 => elapsed < timeout + Wait

\* The tool ends, whatever the cameras do.
Terminates == <>(exit # "none")

\* "`1` - invalid command-line arguments" (verification_tool/README.md,
\* line 40).
InvalidArgumentsExitOne == badValue => exit = "1"
=============================================================================
