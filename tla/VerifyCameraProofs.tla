------------------------- MODULE VerifyCameraProofs -------------------------
(***************************************************************************)
(* Proofs about VerifyCamera, for every command line, number of cameras,   *)
(* timeout and number of frames wanted.                                    *)
(***************************************************************************)
EXTENDS VerifyCamera, TLAPS

\* Where the device loop stands: nothing is measured while the command line is
\* read, and a device that is streamed is one of the list and was selected.
LoopInv ==
    /\ phase \in {"parse", "query"} => dev = 0
    /\ phase = "parse" => elapsed = 0
    /\ phase \in {"stream", "judge"} => dev < devices /\ Selected(dev)
    /\ phase # "done" => exit = "none"

\* What is known of the devices before dev and of those after.
VerdictInv ==
    /\ \A d \in Device : d < dev /\ Selected(d) => verdict[d] # "none"
    /\ \A d \in Device : d >= dev \/ ~Selected(d) => verdict[d] = "none"
    /\ allOk => \A d \in Device : verdict[d] # "fail"
    /\ ~allOk => \E d \in Device : verdict[d] = "fail"

\* What the exit code says of allOk.
ExitInv ==
    /\ exit = "0" /\ dev = devices => allOk \/ devices = 0
    /\ exit = "2" => ~allOk

IInv == TypeOK /\ LoopInv /\ TimeIsBounded /\ VerdictInv /\ ExitInv

-----------------------------------------------------------------------------
LEMMA InitIInv == Init => IInv
  <1> SUFFICES ASSUME Init PROVE IInv
    OBVIOUS
  <1> USE ParametersAssumption
  <1>1. TypeOK
    <2>1. argv \in Seq(Token)
      BY DEF Init
    <2>2. deviceIndex \in Int /\ timeout \in Int /\ minFrames \in Int
      BY DEF Init
    <2>3. dev \in 0..MaxDevices /\ devices \in 0..MaxDevices
      BY DEF Init
    <2>4. verdict \in [Device -> {"none", "pass", "fail"}]
      BY DEF Init
    <2> QED
      BY <2>1, <2>2, <2>3, <2>4 DEF Init, TypeOK
  <1>2. LoopInv /\ TimeIsBounded /\ ExitInv
    BY DEF Init, LoopInv, TimeIsBounded, ExitInv
  <1>3. VerdictInv
    BY DEF Init, VerdictInv
  <1> QED
    BY <1>1, <1>2, <1>3 DEF IInv

\* Reading a word, or two, leaves a sequence of words.
LEMMA WordsLeft ==
    ASSUME argv \in Seq(Token), argv # <<>>
    PROVE  /\ Head(argv) \in Token
           /\ Tail(argv) \in Seq(Token)
           /\ Len(argv) > 1 => /\ argv[2] \in Token
                               /\ Tail(Tail(argv)) \in Seq(Token)
  <1>1. Head(argv) \in Token /\ Tail(argv) \in Seq(Token)
    OBVIOUS
  <1>2. ASSUME Len(argv) > 1
        PROVE  argv[2] \in Token /\ Tail(Tail(argv)) \in Seq(Token)
    <2>1. argv[2] \in Token
      BY <1>2
    <2>2. Tail(argv) # <<>>
      <3>1. Len(Tail(argv)) = Len(argv) - 1 /\ Len(argv) \in Nat
        OBVIOUS
      <3>2. Len(Tail(argv)) # 0
        BY <1>2, <3>1
      <3>3. Len(<<>>) = 0
        OBVIOUS
      <3> QED
        BY <3>2, <3>3, Zenon
    <2> QED
      BY <1>1, <2>1, <2>2
  <1> QED
    BY <1>1, <1>2

\* The command line: only the options and the exit code may change.
LEMMA ParseKeepsInv ==
    ASSUME IInv, Parse
    PROVE  IInv'
  <1> USE ParametersAssumption DEF IInv
  <1>1. /\ phase = "parse" /\ dev = 0 /\ elapsed = 0
        /\ UNCHANGED <<devices, dev, counters, allOk, verdict>>
    BY DEF Parse, Help, Verbose, Option, MissingValue, MalformedValue,
           UnknownArgument, EndOfArguments, Reading, history, LoopInv
  <1>2. argv' \in Seq(Token)
    <2>1. argv' = argv \/ (argv # <<>> /\ argv' = Tail(argv))
          \/ (argv # <<>> /\ Len(argv) > 1 /\ argv' = Tail(Tail(argv)))
      BY DEF Parse, Help, Verbose, Option, MissingValue, MalformedValue,
             UnknownArgument, EndOfArguments, Reading
    <2> QED
      BY <2>1, WordsLeft DEF TypeOK
  <1>3. deviceIndex' \in Int /\ timeout' \in Int /\ minFrames' \in Int
    <2>1. CASE Option
      <3>1. argv[2] \in Token /\ argv[2].word = "number"
        BY <2>1, WordsLeft DEF Option, Reading, TypeOK
      <3>2. argv[2].value \in Int
        BY <3>1 DEF Token
      <3> QED
        BY <2>1, <3>2 DEF Option, TypeOK
    <2>2. CASE ~Option
      BY <2>2 DEF Parse, Help, Verbose, MissingValue, MalformedValue,
             UnknownArgument, EndOfArguments, options, TypeOK
    <2> QED
      BY <2>1, <2>2
  <1>4. /\ phase' \in {"parse", "query", "done"}
        /\ exit' \in {"none", "0", "1", "abort"}
        /\ phase' # "done" => exit' = "none"
    BY <1>1 DEF Parse, Help, Verbose, Option, MissingValue, MalformedValue,
           UnknownArgument, EndOfArguments, Exit, LoopInv
  <1>5. badValue' \in BOOLEAN
    BY DEF Parse, Help, Verbose, Option, MissingValue, MalformedValue,
           UnknownArgument, EndOfArguments, history, TypeOK
  <1>6. TypeOK'
    BY <1>1, <1>2, <1>3, <1>4, <1>5 DEF TypeOK, counters
  <1>7. LoopInv' /\ TimeIsBounded'
    BY <1>1, <1>4 DEF LoopInv, TimeIsBounded, counters
  <1>8. VerdictInv'
    \* No device has a verdict yet, whatever deviceIndex becomes.
    <2>1. \A d \in Device : d >= dev
      BY <1>1 DEF Device, TypeOK
    <2>2. \A d \in Device : verdict'[d] = "none" /\ ~(d < dev')
      BY <1>1, <2>1 DEF VerdictInv, Device
    <2>3. allOk'
      BY <1>1, <2>2 DEF VerdictInv
    <2> QED
      BY <2>2, <2>3 DEF VerdictInv
  <1>9. ExitInv'
    BY <1>1, <1>4 DEF ExitInv
  <1> QED
    BY <1>6, <1>7, <1>8, <1>9

\* main() between the devices.
LEMMA MainKeepsInv ==
    ASSUME IInv, SdkError \/ Query \/ SkipDevice \/ StartDevice \/ Finish
    PROVE  IInv'
  <1> USE ParametersAssumption DEF IInv
  <1>1. UNCHANGED <<argv, options, devices, allOk, history>>
    BY DEF SdkError, Query, SkipDevice, StartDevice, Finish
  <1>2. \A d : Selected(d)' <=> Selected(d)
    BY <1>1 DEF Selected, options
  <1>3. CASE SdkError
    BY <1>1, <1>2, <1>3 DEF SdkError, Exit, TypeOK, LoopInv, TimeIsBounded, VerdictInv, ExitInv, options, counters, history
  <1>4. CASE Query
    BY <1>1, <1>2, <1>4 DEF Query, Exit, TypeOK, LoopInv, TimeIsBounded, VerdictInv, ExitInv, options, counters, history
  <1>5. CASE SkipDevice
    <2>1. TypeOK' /\ LoopInv' /\ TimeIsBounded' /\ ExitInv'
      BY <1>1, <1>2, <1>5 DEF SkipDevice, TypeOK, LoopInv, TimeIsBounded, ExitInv, options, counters, history
    <2>2. VerdictInv'
      <3>1. \A d \in Device : d < dev + 1 => d < dev \/ d = dev
        BY DEF Device, TypeOK
      <3>2. \A d \in Device : d >= dev + 1 => d >= dev
        BY DEF Device, TypeOK
      <3>3. ~Selected(dev) /\ dev' = dev + 1
        BY <1>5 DEF SkipDevice
      <3> QED
        BY <1>1, <1>2, <3>1, <3>2, <3>3 DEF VerdictInv, history
    <2> QED
      BY <2>1, <2>2
  <1>6. CASE StartDevice
    BY <1>1, <1>2, <1>6 DEF StartDevice, TypeOK, LoopInv, TimeIsBounded, VerdictInv, ExitInv, options, counters, history
  <1>7. CASE Finish
    BY <1>1, <1>2, <1>7 DEF Finish, Exit, TypeOK, LoopInv, TimeIsBounded, VerdictInv, ExitInv, options, counters, history
  <1> QED
    BY <1>3, <1>4, <1>5, <1>6, <1>7

\* Frames that arrive, or do not.
LEMMA FramesKeepInv ==
    ASSUME IInv, TakeFrameset \/ WaitInVain
    PROVE  IInv'
  <1> USE ParametersAssumption DEF IInv
  <1>1. UNCHANGED <<argv, options, devices, dev, allOk, exit, history>>
    BY DEF TakeFrameset, WaitInVain
  <1>2. phase = "stream" /\ phase' \in {"stream", "judge"} /\ elapsed < timeout
    BY DEF TakeFrameset, WaitInVain
  <1>3. /\ elapsed' \in Nat
        /\ elapsed' < timeout + Wait
        /\ depthFrames' \in Nat /\ colorFrames' \in Nat
    <2>2. /\ elapsed \in Nat /\ depthFrames \in Nat /\ colorFrames \in Nat
          /\ timeout \in Int
      BY DEF TypeOK
    <2>3. CASE TakeFrameset
      <3>1. PICK depth \in 0..1, color \in 0..1 :
               /\ depthFrames' = depthFrames + depth
               /\ colorFrames' = colorFrames + color
        BY <2>3 DEF TakeFrameset
      <3>2. elapsed' = elapsed + 1
        BY <2>3 DEF TakeFrameset
      <3> QED
        BY <1>2, <2>2, <3>1, <3>2
    <2>4. CASE WaitInVain
      BY <1>2, <2>2, <2>4 DEF WaitInVain
    <2> QED
      BY <2>3, <2>4
  <1>4. TypeOK'
    BY <1>1, <1>2, <1>3 DEF TypeOK, options, history
  <1>5. LoopInv' /\ TimeIsBounded'
    BY <1>1, <1>2, <1>3
       DEF LoopInv, TimeIsBounded, Selected, options
  <1>6. VerdictInv' /\ ExitInv'
    BY <1>1 DEF VerdictInv, ExitInv, Selected, options, history
  <1> QED
    BY <1>4, <1>5, <1>6

\* A device gets its verdict.
LEMMA JudgeKeepsInv ==
    ASSUME IInv, EndStream \/ StreamError
    PROVE  IInv'
  <1> USE ParametersAssumption DEF IInv
  <1>1. UNCHANGED <<argv, options, devices, counters, exit, badValue>>
    BY DEF EndStream, StreamError
  <1>2. phase \in {"stream", "judge"}
    BY DEF EndStream, StreamError
  <1>3. PICK ok \in BOOLEAN : Judge(ok)
    <2>1. Enough \in BOOLEAN
      BY DEF Enough
    <2> QED
      BY <2>1 DEF EndStream, StreamError
  <1>4. /\ dev \in Nat /\ dev < devices /\ devices \in 0..MaxDevices
        /\ dev \in Device /\ Selected(dev)
    BY <1>2 DEF LoopInv, TypeOK, Device
  <1>5. /\ phase' = "next" /\ dev' = dev + 1
        /\ verdict' \in [Device -> {"none", "pass", "fail"}]
        /\ verdict'[dev] = IF ok THEN "pass" ELSE "fail"
        /\ \A d \in Device : d # dev => verdict'[d] = verdict[d]
    BY <1>3, <1>4 DEF Judge, TypeOK
  <1>6. /\ ok => (allOk' <=> allOk)
        /\ ~ok => ~allOk'
        /\ allOk' \in BOOLEAN
    BY <1>3 DEF Judge, TypeOK
  <1>7. exit = "none"
    BY <1>2 DEF LoopInv
  <1>8. TypeOK'
    BY <1>1, <1>4, <1>5, <1>6 DEF TypeOK, options, counters
  <1>9. LoopInv' /\ TimeIsBounded' /\ ExitInv'
    BY <1>1, <1>5, <1>7
       DEF LoopInv, TimeIsBounded, ExitInv, options, counters
  <1>10. VerdictInv'
    <2>1. \A d \in Device : d < dev + 1 => d < dev \/ d = dev
      BY <1>4 DEF Device
    <2>2. \A d \in Device : d >= dev + 1 => d >= dev /\ d # dev
      BY <1>4 DEF Device
    <2>3. \A d : Selected(d)' <=> Selected(d)
      BY <1>1 DEF Selected, options
    <2>4. \A d \in Device : d < dev' /\ Selected(d)' => verdict'[d] # "none"
      BY <1>5, <2>1, <2>3 DEF VerdictInv
    <2>5. \A d \in Device : d >= dev' \/ ~Selected(d)' => verdict'[d] = "none"
      BY <1>4, <1>5, <2>2, <2>3 DEF VerdictInv
    <2>6. allOk' => \A d \in Device : verdict'[d] # "fail"
      BY <1>5, <1>6 DEF VerdictInv
    <2>7. ~allOk' => \E d \in Device : verdict'[d] = "fail"
      <3>1. CASE ok
        <4>1. verdict[dev] = "none"
          BY <1>4 DEF VerdictInv
        <4> QED
          BY <1>5, <1>6, <3>1, <4>1 DEF VerdictInv
      <3>2. CASE ~ok
        BY <1>4, <1>5, <3>2
      <3> QED
        BY <3>1, <3>2
    <2> QED
      BY <2>4, <2>5, <2>6, <2>7 DEF VerdictInv
  <1> QED
    BY <1>8, <1>9, <1>10

LEMMA NextIInv == IInv /\ [Next]_vars => IInv'
  <1> SUFFICES ASSUME IInv, [Next]_vars
               PROVE  IInv'
    OBVIOUS
  <1>1. CASE UNCHANGED vars
    BY <1>1 DEF IInv, vars, options, counters, history, TypeOK, LoopInv,
       TimeIsBounded, VerdictInv, ExitInv, Selected
  <1> QED
    BY <1>1, ParseKeepsInv, MainKeepsInv, FramesKeepInv, JudgeKeepsInv
       DEF Next, Proceed

\* The invariant holds in every state the tool reaches.
THEOREM Invariance == Spec => []IInv
  BY InitIInv, NextIInv, PTL DEF Spec

\* Every variable of main() and verifyDevice has its type.
THEOREM TypeCorrect == Spec => []TypeOK
  <1>1. IInv => TypeOK
    BY DEF IInv
  <1> QED
    BY <1>1, Invariance, PTL

\* verifyDevice takes no longer than the timeout and one wait of the SDK.
THEOREM TimeIsAlwaysBounded == Spec => []TimeIsBounded
  <1>1. IInv => TimeIsBounded
    BY DEF IInv
  <1> QED
    BY <1>1, Invariance, PTL

\* The exit code of main() sums up the verdicts of all the selected devices.
THEOREM ExitAlwaysSumsUp == Spec => []ExitSumsUp
  <1>1. IInv => ExitSumsUp
    <2> SUFFICES ASSUME IInv, phase = "done", dev = devices
                 PROVE  /\ exit = "0" => \A d \in Device : d < devices /\ Selected(d)
                                             => verdict[d] = "pass"
                        /\ exit = "2" => \E d \in Device : Selected(d)
                                                           /\ verdict[d] = "fail"
                        /\ \A d \in Device : ~Selected(d) => verdict[d] = "none"
      BY DEF ExitSumsUp
    <2> USE DEF IInv
    <2>1. \A d \in Device : d < dev /\ Selected(d) => verdict[d] \in {"pass", "fail"}
      BY DEF VerdictInv, TypeOK
    <2>2. \A d \in Device : ~Selected(d) => verdict[d] = "none"
      BY DEF VerdictInv
    <2>3. devices = 0 => \A d \in Device : ~(d < devices)
      BY DEF Device
    <2>4. exit = "0" => \A d \in Device : d < devices /\ Selected(d)
                            => verdict[d] = "pass"
      BY <2>1, <2>3 DEF VerdictInv, ExitInv
    <2>5. exit = "2" => \E d \in Device : Selected(d) /\ verdict[d] = "fail"
      BY <2>2 DEF VerdictInv, ExitInv
    <2> QED
      BY <2>2, <2>4, <2>5
  <1> QED
    BY <1>1, Invariance, PTL
=============================================================================
