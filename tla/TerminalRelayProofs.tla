------------------------- MODULE TerminalRelayProofs -------------------------
(***************************************************************************)
(* Proofs about TerminalRelay, for any number of frames, chunks and sizes  *)
(* and any capacity of the pipes.                                          *)
(***************************************************************************)
EXTENDS TerminalRelay, SequenceTheorems, TLAPS

\* Frames that are taken from one pipe and put into the next are frames.
LEMMA MovingFrames ==
    ASSUME NEW s \in Seq(1..MaxOutput), NEW t \in Seq(1..MaxOutput), s # <<>>
    PROVE  /\ Head(s) \in 1..MaxOutput /\ Tail(s) \in Seq(1..MaxOutput)
           /\ Append(t, Head(s)) \in Seq(1..MaxOutput)
<1> DEFINE Frames == 1..MaxOutput
<1>1. s \in Seq(Frames) /\ t \in Seq(Frames)
  OBVIOUS
<1> HIDE DEF Frames
<1>2. Head(s) \in Frames /\ Tail(s) \in Seq(Frames)
  BY <1>1, HeadTailProperties
<1>3. Append(t, Head(s)) \in Seq(Frames)
  BY <1>1, <1>2, AppendProperties
<1> QED
  BY <1>2, <1>3 DEF Frames

\* What is written to the resize pipe or read from it is a size.
LEMMA MovingSizes ==
    ASSUME RelayTypeOK
    PROVE  /\ Append(sizePipe, window) \in Seq(1..(MaxResizes + 1))
           /\ <<>> \in Seq(1..(MaxResizes + 1)) /\ Len(<<>>) <= SizeCapacity
           /\ sizePipe # <<>> => sizePipe[Len(sizePipe)] \in 1..(MaxResizes + 1)
           /\ Len(sizePipe) < SizeCapacity => Len(Append(sizePipe, window)) <= SizeCapacity
<1> DEFINE Sizes == 1..(MaxResizes + 1)
<1>1. sizePipe \in Seq(Sizes) /\ window \in Sizes
  BY DEF RelayTypeOK, PipeTypeOK
<1> HIDE DEF Sizes
<1>2. Append(sizePipe, window) \in Seq(Sizes)
  BY <1>1, AppendProperties
<1>3. ASSUME sizePipe # <<>> PROVE sizePipe[Len(sizePipe)] \in Sizes
  <2>1. Len(sizePipe) \in Nat \ {0}
    BY <1>1, <1>3, EmptySeq
  <2>2. Len(sizePipe) \in 1..Len(sizePipe)
    BY <2>1
  <2> QED
    BY <1>1, <2>2, ElementOfSeq
<1>4. Len(sizePipe) < SizeCapacity => Len(Append(sizePipe, window)) <= SizeCapacity
  <2>1. Len(Append(sizePipe, window)) = Len(sizePipe) + 1 /\ Len(sizePipe) \in Nat
    BY <1>1, AppendProperties, LenProperties
  <2> QED
    BY <2>1, BoundsAreNatural
<1>5. Len(<<>>) <= SizeCapacity
  BY EmptySeq, BoundsAreNatural
<1> QED
  BY <1>2, <1>3, <1>4, <1>5 DEF Sizes

\* Taking the first of a run of frames leaves a run.
LEMMA TakingCarriesOn ==
    ASSUME NEW S, NEW s \in Seq(S), NEW n \in Nat, s # <<>>, CarriesOn(s, n)
    PROVE  /\ Len(s) \in Nat \ {0}
           /\ Head(s) = n + 1
           /\ CarriesOn(Tail(s), n + 1) /\ Len(Tail(s)) = Len(s) - 1
<1>1. Len(s) \in Nat \ {0}
  BY EmptySeq
<1>2. Head(s) = n + 1
  BY <1>1 DEF CarriesOn
<1>3. Len(Tail(s)) = Len(s) - 1 /\ \A i \in 1..Len(Tail(s)) : Tail(s)[i] = s[i + 1]
  BY HeadTailProperties
<1>4. CarriesOn(Tail(s), n + 1)
  BY <1>1, <1>3 DEF CarriesOn
<1> QED
  BY <1>1, <1>2, <1>3, <1>4

\* Putting the next one behind it makes a longer one.
LEMMA PuttingCarriesOn ==
    ASSUME NEW S, NEW s \in Seq(S), NEW n \in Nat, CarriesOn(s, n), NEW e \in S, e = n + Len(s) + 1
    PROVE  CarriesOn(Append(s, e), n) /\ Len(Append(s, e)) = Len(s) + 1
<1>1. Len(s) \in Nat
  BY LenProperties
<1>2. /\ Len(Append(s, e)) = Len(s) + 1
      /\ \A i \in 1..Len(s) : Append(s, e)[i] = s[i]
      /\ Append(s, e)[Len(s) + 1] = e
  BY AppendProperties
<1>3. ASSUME NEW i \in 1..Len(Append(s, e))
      PROVE  Append(s, e)[i] = n + i
  <2>1. CASE i \in 1..Len(s)
    BY <1>2, <2>1 DEF CarriesOn
  <2>2. CASE i = Len(s) + 1
    BY <1>1, <1>2, <2>2
  <2> QED
    BY <1>1, <1>2, <2>1, <2>2
<1> QED
  BY <1>2, <1>3 DEF CarriesOn

\* Variables keep their shape.
LEMMA ControlTypeStep ==
    ASSUME RelayTypeOK, [RelayNext]_relayVars
    PROVE  ControlTypeOK'
<1> USE BoundsAreNatural
    DEF Pipes, BridgeRelays, HostRelays, RelayStates, bridgeVars, hostVars, targetVars,
        outputVars, inputVars, sizeVars, relayVars, Ended
<1>1. CASE Launch
  BY <1>1 DEF Launch, Return, RelayTypeOK, ControlTypeOK
<1>2. CASE Connect
  BY <1>2 DEF Connect, Return, RelayTypeOK, ControlTypeOK
<1>3. CASE Start
  <2>1. startFailed' \in BOOLEAN /\ rawMode' \in BOOLEAN
    BY <1>3, Zenon DEF Start, Return, RelayTypeOK, ControlTypeOK
  <2> QED
    BY <1>3, <2>1 DEF Start, Return, RelayTypeOK, ControlTypeOK
<1>4. CASE WaitForOutput
  BY <1>4 DEF WaitForOutput, RelayTypeOK, ControlTypeOK
<1>5. CASE StopResize
  BY <1>5 DEF StopResize, RelayTypeOK, ControlTypeOK
<1>6. CASE CancelInput
  BY <1>6 DEF CancelInput, Cancelled, Turn, RelayTypeOK, ControlTypeOK
<1>7. CASE JoinInput
  BY <1>7 DEF JoinInput, RelayTypeOK, ControlTypeOK
<1>8. CASE GiveUpOutput
  BY <1>8 DEF GiveUpOutput, Turn, RelayTypeOK, ControlTypeOK
<1>9. CASE JoinOutput
  <2>1. rawMode' \in BOOLEAN
    BY <1>9, Zenon DEF JoinOutput, Return, RelayTypeOK, ControlTypeOK
  <2> QED
    BY <1>9, <2>1 DEF JoinOutput, Return, RelayTypeOK, ControlTypeOK
<1>10. CASE AwaitExit
  BY <1>10 DEF AwaitExit, Return, RelayTypeOK, ControlTypeOK
<1>11. CASE OpenPipe
  BY <1>11 DEF OpenPipe, HostReturns, RelayTypeOK, ControlTypeOK
<1>12. CASE ReadInitialSize
  BY <1>12 DEF ReadInitialSize, ReadSize, NoMoreSizes, HostReturns, RelayTypeOK, ControlTypeOK
<1>13. CASE CreateConsole
  BY <1>13 DEF CreateConsole, HostReturns, RelayTypeOK, ControlTypeOK
<1>14. CASE Spawn
  BY <1>14 DEF Spawn, RelayTypeOK, ControlTypeOK
<1>15. CASE WaitForTarget
  BY <1>15 DEF WaitForTarget, RelayTypeOK, ControlTypeOK
<1>16. CASE Terminate
  BY <1>16 DEF Terminate, RelayTypeOK, ControlTypeOK
<1>17. CASE CancelHostResize
  BY <1>17 DEF CancelHostResize, Cancelled, Turn, RelayTypeOK, ControlTypeOK
<1>18. CASE JoinHostResize
  BY <1>18 DEF JoinHostResize, RelayTypeOK, ControlTypeOK
<1>19. CASE CancelHostInput
  BY <1>19 DEF CancelHostInput, Cancelled, Turn, RelayTypeOK, ControlTypeOK
<1>20. CASE CloseConsole
  BY <1>20 DEF CloseConsole, RelayTypeOK, ControlTypeOK
<1>21. CASE JoinHostOutput
  BY <1>21 DEF JoinHostOutput, HostReturns, RelayTypeOK, ControlTypeOK
<1>22. CASE BridgeInputRelay
  BY <1>22 DEF BridgeInputRelay, Turn, StopRequested, RelayTypeOK, ControlTypeOK
<1>23. CASE BridgeOutputRelay
  BY <1>23 DEF BridgeOutputRelay, Turn, RelayTypeOK, ControlTypeOK
<1>24. CASE BridgeResizeRelay
  BY <1>24 DEF BridgeResizeRelay, Turn, RelayTypeOK, ControlTypeOK
<1>25. CASE HostInputRelay
  <2>1. inputFailed' \in BOOLEAN
    BY <1>25, Zenon DEF HostInputRelay, Turn, RelayTypeOK, ControlTypeOK
  <2> QED
    BY <1>25, <2>1 DEF HostInputRelay, Turn, RelayTypeOK, ControlTypeOK
<1>26. CASE HostOutputRelay
  BY <1>26 DEF HostOutputRelay, Turn, RelayTypeOK, ControlTypeOK
<1>27. CASE HostResizeRelay
  BY <1>27 DEF HostResizeRelay, Turn, ReadSize, NoMoreSizes, RelayTypeOK, ControlTypeOK
<1>28. CASE BrokerAnswers
  BY <1>28 DEF BrokerAnswers, RelayTypeOK, ControlTypeOK
<1>29. CASE BrokerTearsDown
  <2>1. CASE child \in {"running", "leaving"}
    BY <1>29, <2>1 DEF BrokerTearsDown, HostDies, RelayTypeOK, ControlTypeOK
  <2>2. CASE child \notin {"running", "leaving"}
    BY <1>29, <2>2 DEF BrokerTearsDown, HostDies, RelayTypeOK, ControlTypeOK
  <2> QED
    BY <2>1, <2>2
<1>30. CASE TargetExits
  BY <1>30 DEF TargetExits, RelayTypeOK, ControlTypeOK
<1>31. CASE ConsoleEnds
  BY <1>31 DEF ConsoleEnds, RelayTypeOK, ControlTypeOK
<1>32. CASE StdinEnds
  BY <1>32 DEF StdinEnds, Turn, RelayTypeOK, ControlTypeOK
<1>33. CASE SessionIsKilled
  <2>1. descendants' \in BOOLEAN
    BY <1>33, Zenon DEF SessionIsKilled, HostDies, RelayTypeOK, ControlTypeOK
  <2> QED
    BY <1>33, <2>1 DEF SessionIsKilled, HostDies, RelayTypeOK, ControlTypeOK
<1>34. CASE LauncherDies
  BY <1>34 DEF LauncherDies, Return, RelayTypeOK, ControlTypeOK
<1>35. CASE TargetLeaves
  BY <1>35 DEF TargetLeaves, RelayTypeOK, ControlTypeOK
<1>36. CASE DescendantsLeave
  <2>1. descendants' \in BOOLEAN
    BY <1>36, Zenon DEF DescendantsLeave, RelayTypeOK, ControlTypeOK
  <2> QED
    BY <1>36, <2>1 DEF DescendantsLeave, RelayTypeOK, ControlTypeOK
<1>37. CASE Emit
  BY <1>37 DEF Emit, RelayTypeOK, ControlTypeOK
<1>38. CASE Type
  BY <1>38 DEF Type, RelayTypeOK, ControlTypeOK
<1>39. CASE ResizeWindow
  BY <1>39 DEF ResizeWindow, RelayTypeOK, ControlTypeOK
<1>40. CASE UNCHANGED relayVars
  BY <1>40 DEF RelayTypeOK, ControlTypeOK
<1> QED
  BY <1>1, <1>2, <1>3, <1>4, <1>5, <1>6, <1>7, <1>8, <1>9, <1>10, <1>11, <1>12, <1>13, <1>14,
     <1>15, <1>16, <1>17, <1>18, <1>19, <1>20, <1>21, <1>22, <1>23, <1>24, <1>25, <1>26, <1>27,
     <1>28, <1>29, <1>30, <1>31, <1>32, <1>33, <1>34, <1>35, <1>36, <1>37, <1>38, <1>39, <1>40
     DEF RelayNext, SystemStep, Environment, BridgeStep, HostStep, RelayStep

\* Variables keep their shape.
LEMMA PipeTypeStep ==
    ASSUME RelayTypeOK, stdin <= typed, [RelayNext]_relayVars
    PROVE  PipeTypeOK'
<1> USE BoundsAreNatural
    DEF Pipes, BridgeRelays, HostRelays, RelayStates, bridgeVars, hostVars, targetVars,
        outputVars, inputVars, sizeVars, relayVars, Ended
<1>1. CASE Launch
  BY <1>1 DEF Launch, Return, RelayTypeOK, ControlTypeOK, PipeTypeOK
<1>2. CASE Connect
  BY <1>2 DEF Connect, Return, RelayTypeOK, ControlTypeOK, PipeTypeOK
<1>3. CASE Start
  <2>1. relay' \in [BridgeRelays \cup HostRelays -> RelayStates]
    BY <1>3 DEF Start, Return, RelayTypeOK, ControlTypeOK, PipeTypeOK
  <2>2. /\ Append(sizePipe, window) \in Seq(1..(MaxResizes + 1))
        /\ Len(sizePipe) < SizeCapacity => Len(Append(sizePipe, window)) <= SizeCapacity
    BY MovingSizes
  <2>3. sizePipe' \in Seq(1..(MaxResizes + 1)) /\ Len(sizePipe') <= SizeCapacity
    <3>1. \/ UNCHANGED sizePipe
          \/ Len(sizePipe) < SizeCapacity /\ sizePipe' = Append(sizePipe, window)
      BY <1>3 DEF Start, Return
    <3> QED
      BY <2>2, <3>1 DEF RelayTypeOK, PipeTypeOK
  <2>4. sent' \in 0..(MaxResizes + 1)
    BY <1>3 DEF Start, Return, RelayTypeOK, ControlTypeOK, PipeTypeOK
  <2> QED
    BY <1>3, <2>1, <2>3, <2>4 DEF Start, Return, RelayTypeOK, ControlTypeOK, PipeTypeOK
<1>4. CASE WaitForOutput
  BY <1>4 DEF WaitForOutput, RelayTypeOK, ControlTypeOK, PipeTypeOK
<1>5. CASE StopResize
  BY <1>5 DEF StopResize, RelayTypeOK, ControlTypeOK, PipeTypeOK
<1>6. CASE CancelInput
  BY <1>6 DEF CancelInput, Cancelled, Turn, RelayTypeOK, ControlTypeOK, PipeTypeOK
<1>7. CASE JoinInput
  BY <1>7 DEF JoinInput, RelayTypeOK, ControlTypeOK, PipeTypeOK
<1>8. CASE GiveUpOutput
  BY <1>8 DEF GiveUpOutput, Turn, RelayTypeOK, ControlTypeOK, PipeTypeOK
<1>9. CASE JoinOutput
  BY <1>9 DEF JoinOutput, Return, RelayTypeOK, ControlTypeOK, PipeTypeOK
<1>10. CASE AwaitExit
  BY <1>10 DEF AwaitExit, Return, RelayTypeOK, ControlTypeOK, PipeTypeOK
<1>11. CASE OpenPipe
  BY <1>11 DEF OpenPipe, HostReturns, RelayTypeOK, ControlTypeOK, PipeTypeOK
<1>12. CASE ReadInitialSize
  <2>1. /\ sizePipe' \in Seq(1..(MaxResizes + 1)) /\ Len(sizePipe') <= SizeCapacity
        /\ conSize' \in 0..(MaxResizes + 1)
    <3>1. /\ <<>> \in Seq(1..(MaxResizes + 1)) /\ Len(<<>>) <= SizeCapacity
          /\ sizePipe # <<>> => sizePipe[Len(sizePipe)] \in 1..(MaxResizes + 1)
      BY MovingSizes
    <3>2. sizePipe' = <<>> \/ UNCHANGED sizePipe
      BY <1>12 DEF ReadSize, ReadInitialSize, NoMoreSizes, HostReturns
    <3>3. \/ UNCHANGED conSize
          \/ sizePipe # <<>> /\ conSize' = sizePipe[Len(sizePipe)]
      BY <1>12 DEF ReadSize, ReadInitialSize, NoMoreSizes, HostReturns
    <3>4. sizePipe' \in Seq(1..(MaxResizes + 1)) /\ Len(sizePipe') <= SizeCapacity
      BY <3>1, <3>2 DEF RelayTypeOK, PipeTypeOK
    <3>5. conSize' \in 0..(MaxResizes + 1)
      BY <3>1, <3>3 DEF RelayTypeOK, PipeTypeOK
    <3> QED
      BY <3>4, <3>5
  <2> QED
    BY <1>12, <2>1 DEF ReadInitialSize, NoMoreSizes, HostReturns, RelayTypeOK, ControlTypeOK,
       PipeTypeOK
<1>13. CASE CreateConsole
  BY <1>13 DEF CreateConsole, HostReturns, RelayTypeOK, ControlTypeOK, PipeTypeOK
<1>14. CASE Spawn
  BY <1>14 DEF Spawn, RelayTypeOK, ControlTypeOK, PipeTypeOK
<1>15. CASE WaitForTarget
  BY <1>15 DEF WaitForTarget, RelayTypeOK, ControlTypeOK, PipeTypeOK
<1>16. CASE Terminate
  BY <1>16 DEF Terminate, RelayTypeOK, ControlTypeOK, PipeTypeOK
<1>17. CASE CancelHostResize
  BY <1>17 DEF CancelHostResize, Cancelled, Turn, RelayTypeOK, ControlTypeOK, PipeTypeOK
<1>18. CASE JoinHostResize
  BY <1>18 DEF JoinHostResize, RelayTypeOK, ControlTypeOK, PipeTypeOK
<1>19. CASE CancelHostInput
  BY <1>19 DEF CancelHostInput, Cancelled, Turn, RelayTypeOK, ControlTypeOK, PipeTypeOK
<1>20. CASE CloseConsole
  BY <1>20 DEF CloseConsole, RelayTypeOK, ControlTypeOK, PipeTypeOK
<1>21. CASE JoinHostOutput
  BY <1>21 DEF JoinHostOutput, HostReturns, RelayTypeOK, ControlTypeOK, PipeTypeOK
<1>22. CASE BridgeInputRelay
  <2>1. inputPipe' \in 0..Capacity /\ stdin' \in 0..MaxKeys
    <3>1. /\ inputPipe' = inputPipe \/ (inputPipe < Capacity /\ inputPipe' = inputPipe + 1)
          /\ stdin' = stdin \/ (stdin > 0 /\ stdin' = stdin - 1)
      BY <1>22 DEF BridgeInputRelay
    <3>2. inputPipe \in 0..Capacity /\ stdin \in 0..MaxKeys
      BY DEF RelayTypeOK, PipeTypeOK
    <3> QED
      BY <3>1, <3>2
  <2>2. relay' \in [BridgeRelays \cup HostRelays -> RelayStates]
    <3>1. relay \in [BridgeRelays \cup HostRelays -> RelayStates]
      BY DEF RelayTypeOK, PipeTypeOK
    <3>2. \/ Turn("bridgeInput", "read")
          \/ Turn("bridgeInput", "done")
          \/ Turn("bridgeInput", "code")
      BY <1>22 DEF BridgeInputRelay
    <3> QED
      BY <3>1, <3>2 DEF Turn
  <2>3. UNCHANGED <<bridgeEnds, hostEnds, screenTakes, conOut, outPipe, screen, emitted, typed,
                    window, sent, sizePipe, conSize>>
    BY <1>22 DEF BridgeInputRelay
  <2> QED
    BY <2>1, <2>2, <2>3 DEF RelayTypeOK, PipeTypeOK
<1>23. CASE BridgeOutputRelay
  <2>1. outPipe' \in Seq(1..MaxOutput) /\ screen' \in Seq(1..MaxOutput)
    <3>1. /\ outPipe \in Seq(1..MaxOutput) /\ screen \in Seq(1..MaxOutput)
          /\ outPipe # <<>> => /\ Tail(outPipe) \in Seq(1..MaxOutput)
                               /\ Append(screen, Head(outPipe)) \in Seq(1..MaxOutput)
      BY MovingFrames DEF RelayTypeOK, PipeTypeOK
    <3>2. /\ \/ UNCHANGED outPipe
             \/ outPipe # <<>> /\ outPipe' = Tail(outPipe)
          /\ \/ UNCHANGED screen
             \/ outPipe # <<>> /\ screen' = Append(screen, Head(outPipe))
      BY <1>23 DEF BridgeOutputRelay
    <3> QED
      BY <3>1, <3>2
  <2>2. screenTakes' \in BOOLEAN
    BY <1>23, Zenon DEF BridgeOutputRelay, Turn, RelayTypeOK, ControlTypeOK, PipeTypeOK
  <2> QED
    BY <1>23, <2>1, <2>2 DEF BridgeOutputRelay, Turn, RelayTypeOK, ControlTypeOK, PipeTypeOK
<1>24. CASE BridgeResizeRelay
  <2>1. sizePipe' \in Seq(1..(MaxResizes + 1)) /\ Len(sizePipe') <= SizeCapacity
    <3>1. /\ Append(sizePipe, window) \in Seq(1..(MaxResizes + 1))
          /\ Len(sizePipe) < SizeCapacity => Len(Append(sizePipe, window)) <= SizeCapacity
      BY MovingSizes
    <3>2. \/ UNCHANGED sizePipe
          \/ Len(sizePipe) < SizeCapacity /\ sizePipe' = Append(sizePipe, window)
      BY <1>24 DEF BridgeResizeRelay
    <3> QED
      BY <3>1, <3>2 DEF RelayTypeOK, PipeTypeOK
  <2>2. sent' \in 0..(MaxResizes + 1)
    <3>1. window \in 0..(MaxResizes + 1) /\ sent \in 0..(MaxResizes + 1)
      BY DEF RelayTypeOK, PipeTypeOK
    <3>2. sent' \in {sent, window}
      BY <1>24, Zenon DEF BridgeResizeRelay, sizeVars
    <3> QED
      BY <3>1, <3>2
  <2>3. relay' \in [BridgeRelays \cup HostRelays -> RelayStates]
    BY <1>24 DEF BridgeResizeRelay, Turn, RelayTypeOK, ControlTypeOK, PipeTypeOK
  <2> QED
    BY <1>24, <2>1, <2>2, <2>3 DEF BridgeResizeRelay, Turn, RelayTypeOK, ControlTypeOK, PipeTypeOK
<1>25. CASE HostInputRelay
  <2>1. inputPipe' \in 0..Capacity
    <3>1. inputPipe' = inputPipe \/ (inputPipe > 0 /\ inputPipe' = inputPipe - 1)
      BY <1>25 DEF HostInputRelay
    <3>2. inputPipe \in 0..Capacity
      BY DEF RelayTypeOK, PipeTypeOK
    <3> QED
      BY <3>1, <3>2
  <2>2. relay' \in [BridgeRelays \cup HostRelays -> RelayStates]
    <3>1. relay \in [BridgeRelays \cup HostRelays -> RelayStates]
      BY DEF RelayTypeOK, PipeTypeOK
    <3>2. \/ Turn("hostInput", "read")
          \/ Turn("hostInput", "done")
          \/ Turn("hostInput", "code")
      BY <1>25 DEF HostInputRelay
    <3> QED
      BY <3>1, <3>2 DEF Turn
  <2>3. UNCHANGED <<bridgeEnds, hostEnds, screenTakes, conOut, outPipe, screen, emitted, typed,
                    stdin, window, sent, sizePipe, conSize>>
    BY <1>25 DEF HostInputRelay
  <2> QED
    BY <2>1, <2>2, <2>3 DEF RelayTypeOK, PipeTypeOK
<1>26. CASE HostOutputRelay
  <2>1. conOut' \in Seq(1..MaxOutput) /\ outPipe' \in Seq(1..MaxOutput)
    <3>1. /\ conOut \in Seq(1..MaxOutput) /\ outPipe \in Seq(1..MaxOutput)
          /\ conOut # <<>> => /\ Tail(conOut) \in Seq(1..MaxOutput)
                              /\ Append(outPipe, Head(conOut)) \in Seq(1..MaxOutput)
      BY MovingFrames DEF RelayTypeOK, PipeTypeOK
    <3>2. /\ \/ UNCHANGED conOut
             \/ conOut # <<>> /\ conOut' = Tail(conOut)
          /\ \/ UNCHANGED outPipe
             \/ conOut # <<>> /\ outPipe' = Append(outPipe, Head(conOut))
      BY <1>26 DEF HostOutputRelay
    <3> QED
      BY <3>1, <3>2
  <2>2. relay' \in [BridgeRelays \cup HostRelays -> RelayStates]
    BY <1>26 DEF HostOutputRelay, Turn, RelayTypeOK, ControlTypeOK, PipeTypeOK
  <2> QED
    BY <1>26, <2>1, <2>2 DEF HostOutputRelay, Turn, RelayTypeOK, ControlTypeOK, PipeTypeOK
<1>27. CASE HostResizeRelay
  <2>1. /\ sizePipe' \in Seq(1..(MaxResizes + 1)) /\ Len(sizePipe') <= SizeCapacity
        /\ conSize' \in 0..(MaxResizes + 1)
    <3>1. /\ <<>> \in Seq(1..(MaxResizes + 1)) /\ Len(<<>>) <= SizeCapacity
          /\ sizePipe # <<>> => sizePipe[Len(sizePipe)] \in 1..(MaxResizes + 1)
      BY MovingSizes
    <3>2. sizePipe' = <<>> \/ UNCHANGED sizePipe
      BY <1>27 DEF ReadSize, HostResizeRelay, NoMoreSizes
    <3>3. \/ UNCHANGED conSize
          \/ sizePipe # <<>> /\ conSize' = sizePipe[Len(sizePipe)]
      BY <1>27 DEF ReadSize, HostResizeRelay, NoMoreSizes
    <3>4. sizePipe' \in Seq(1..(MaxResizes + 1)) /\ Len(sizePipe') <= SizeCapacity
      BY <3>1, <3>2 DEF RelayTypeOK, PipeTypeOK
    <3>5. conSize' \in 0..(MaxResizes + 1)
      BY <3>1, <3>3 DEF RelayTypeOK, PipeTypeOK
    <3> QED
      BY <3>4, <3>5
  <2>2. relay' \in [BridgeRelays \cup HostRelays -> RelayStates]
    BY <1>27 DEF HostResizeRelay, Turn, RelayTypeOK, ControlTypeOK, PipeTypeOK
  <2> QED
    BY <1>27, <2>1, <2>2 DEF HostResizeRelay, Turn, RelayTypeOK, ControlTypeOK, PipeTypeOK
<1>28. CASE BrokerAnswers
  BY <1>28 DEF BrokerAnswers, RelayTypeOK, ControlTypeOK, PipeTypeOK
<1>29. CASE BrokerTearsDown
  BY <1>29 DEF BrokerTearsDown, HostDies, RelayTypeOK, ControlTypeOK, PipeTypeOK
<1>30. CASE TargetExits
  BY <1>30 DEF TargetExits, RelayTypeOK, ControlTypeOK, PipeTypeOK
<1>31. CASE ConsoleEnds
  BY <1>31 DEF ConsoleEnds, RelayTypeOK, ControlTypeOK, PipeTypeOK
<1>32. CASE StdinEnds
  BY <1>32 DEF StdinEnds, Turn, RelayTypeOK, ControlTypeOK, PipeTypeOK
<1>33. CASE SessionIsKilled
  BY <1>33 DEF SessionIsKilled, HostDies, RelayTypeOK, ControlTypeOK, PipeTypeOK
<1>34. CASE LauncherDies
  BY <1>34 DEF LauncherDies, Return, RelayTypeOK, ControlTypeOK, PipeTypeOK
<1>35. CASE TargetLeaves
  BY <1>35 DEF TargetLeaves, RelayTypeOK, ControlTypeOK, PipeTypeOK
<1>36. CASE DescendantsLeave
  BY <1>36 DEF DescendantsLeave, RelayTypeOK, ControlTypeOK, PipeTypeOK
<1>37. CASE Emit
  BY <1>37 DEF Emit, RelayTypeOK, ControlTypeOK, PipeTypeOK
<1>38. CASE Type
  BY <1>38 DEF Type, RelayTypeOK, ControlTypeOK, PipeTypeOK
<1>39. CASE ResizeWindow
  BY <1>39 DEF ResizeWindow, RelayTypeOK, ControlTypeOK, PipeTypeOK
<1>40. CASE UNCHANGED relayVars
  BY <1>40 DEF RelayTypeOK, ControlTypeOK, PipeTypeOK
<1> QED
  BY <1>1, <1>2, <1>3, <1>4, <1>5, <1>6, <1>7, <1>8, <1>9, <1>10, <1>11, <1>12, <1>13, <1>14,
     <1>15, <1>16, <1>17, <1>18, <1>19, <1>20, <1>21, <1>22, <1>23, <1>24, <1>25, <1>26, <1>27,
     <1>28, <1>29, <1>30, <1>31, <1>32, <1>33, <1>34, <1>35, <1>36, <1>37, <1>38, <1>39, <1>40
     DEF RelayNext, SystemStep, Environment, BridgeStep, HostStep, RelayStep

\* What Start leaves: nothing, or raw mode and the threads that could be started.
LEMMA Starting ==
    ASSUME RelayInvariant, Start
    PROVE  /\ bridge = "start" /\ ~startFailed /\ ~rawMode /\ bridgeEnds = Pipes
           /\ result = "none" /\ \A r \in BridgeRelays : relay[r] = "none"
           /\ \/ Return("failure") /\ UNCHANGED <<startFailed, rawMode, relay>>
              \/ /\ bridge' \in {"relay", "stopResize"} /\ rawMode'
                 /\ UNCHANGED <<result, bridgeEnds>>
                 /\ \A r \in HostRelays : relay'[r] = relay[r]
                 /\ \A r \in BridgeRelays : relay'[r] \in {"none", "code", "read"}
                 /\ bridge' = "relay" => ~startFailed' /\ relay'["bridgeOutput"] = "read"
                 /\ bridge' = "stopResize" => startFailed'
<1> USE DEF Pipes, BridgeRelays, HostRelays
<1>1. /\ bridge = "start" /\ ~startFailed /\ ~rawMode /\ bridgeEnds = Pipes
      /\ result = "none" /\ \A r \in BridgeRelays : relay[r] = "none"
  BY DEF Start, RelayInvariant, BridgeFollowsStep
<1>2. CASE Return("failure") /\ UNCHANGED <<startFailed, rawMode, relay>>
  BY <1>1, <1>2
<1>3. ASSUME NEW started \in SUBSET BridgeRelays,
             "bridgeOutput" \in started => "bridgeInput" \in started,
             "bridgeResize" \in started => "bridgeOutput" \in started,
             relay' = [r \in DOMAIN relay |->
                         IF r \notin started THEN relay[r]
                         ELSE IF r = "bridgeOutput" THEN "read" ELSE "code"],
             startFailed' = (started # BridgeRelays),
             bridge' = IF started = BridgeRelays THEN "relay" ELSE "stopResize"
      PROVE  /\ bridge' \in {"relay", "stopResize"}
             /\ \A r \in HostRelays : relay'[r] = relay[r]
             /\ \A r \in BridgeRelays : relay'[r] \in {"none", "code", "read"}
             /\ bridge' = "relay" => ~startFailed' /\ relay'["bridgeOutput"] = "read"
             /\ bridge' = "stopResize" => startFailed'
  <2>1. DOMAIN relay = BridgeRelays \cup HostRelays
    BY DEF RelayInvariant, RelayTypeOK, PipeTypeOK
  <2>2. /\ \A r \in HostRelays : relay'[r] = relay[r]
        /\ \A r \in BridgeRelays : relay'[r] \in {"none", "code", "read"}
        /\ started = BridgeRelays => relay'["bridgeOutput"] = "read"
    BY <1>1, <1>3, <2>1
  <2>3. CASE started = BridgeRelays
    BY <1>3, <2>2, <2>3
  <2>4. CASE started # BridgeRelays
    BY <1>3, <2>2, <2>4
  <2> QED
    BY <2>3, <2>4
<1> QED
  BY <1>1, <1>2, <1>3 DEF Start

\* Threads end before the pipes and the pseudoconsole that they use.
LEMMA HandlesStep ==
    ASSUME RelayInvariant, [RelayNext]_relayVars
    PROVE  HandlesOutliveRelays'
<1> USE BoundsAreNatural
    DEF Pipes, BridgeRelays, HostRelays, RelayStates, bridgeVars, hostVars, targetVars,
        outputVars, inputVars, sizeVars, relayVars, Ended, HostLives
<1>1. CASE Launch
  BY <1>1 DEF Launch, Return, RelayInvariant, RelayTypeOK, PipeTypeOK, HandlesOutliveRelays,
     BridgeFollowsStep, HostFollowsStep
<1>2. CASE Connect
  BY <1>2 DEF Connect, Return, RelayInvariant, RelayTypeOK, PipeTypeOK, HandlesOutliveRelays,
     BridgeFollowsStep, HostFollowsStep
<1>3. CASE Start
  <2>1. UNCHANGED <<host, console>>
    BY <1>3 DEF Start
  <2>2. \A r \in HostRelays : relay'[r] = relay[r]
    BY <1>3, Starting
  <2>3. (\A r \in BridgeRelays : Ended(r)') \/ bridgeEnds' = Pipes
    BY <1>3, Starting
  <2> QED
    BY <2>1, <2>2, <2>3 DEF RelayInvariant, HandlesOutliveRelays
<1>4. CASE WaitForOutput
  BY <1>4 DEF WaitForOutput, RelayInvariant, RelayTypeOK, PipeTypeOK, HandlesOutliveRelays,
     BridgeFollowsStep, HostFollowsStep
<1>5. CASE StopResize
  BY <1>5 DEF StopResize, RelayInvariant, RelayTypeOK, PipeTypeOK, HandlesOutliveRelays,
     BridgeFollowsStep, HostFollowsStep
<1>6. CASE CancelInput
  BY <1>6 DEF CancelInput, Cancelled, Turn, RelayInvariant, RelayTypeOK, PipeTypeOK,
     HandlesOutliveRelays, BridgeFollowsStep, HostFollowsStep
<1>7. CASE JoinInput
  BY <1>7 DEF JoinInput, RelayInvariant, RelayTypeOK, PipeTypeOK, HandlesOutliveRelays,
     BridgeFollowsStep, HostFollowsStep
<1>8. CASE GiveUpOutput
  BY <1>8 DEF GiveUpOutput, Turn, RelayInvariant, RelayTypeOK, PipeTypeOK, HandlesOutliveRelays,
     BridgeFollowsStep, HostFollowsStep
<1>9. CASE JoinOutput
  BY <1>9 DEF JoinOutput, Return, RelayInvariant, RelayTypeOK, PipeTypeOK, HandlesOutliveRelays,
     BridgeFollowsStep, HostFollowsStep
<1>10. CASE AwaitExit
  BY <1>10 DEF AwaitExit, Return, RelayInvariant, RelayTypeOK, PipeTypeOK, HandlesOutliveRelays,
     BridgeFollowsStep, HostFollowsStep
<1>11. CASE OpenPipe
  BY <1>11 DEF OpenPipe, HostReturns, RelayInvariant, RelayTypeOK, PipeTypeOK,
     HandlesOutliveRelays, BridgeFollowsStep, HostFollowsStep
<1>12. CASE ReadInitialSize
  BY <1>12 DEF ReadInitialSize, ReadSize, NoMoreSizes, HostReturns, RelayInvariant, RelayTypeOK,
     PipeTypeOK, HandlesOutliveRelays, BridgeFollowsStep, HostFollowsStep
<1>13. CASE CreateConsole
  <2>1. \A r \in BridgeRelays : relay'[r] = relay[r]
    BY <1>13 DEF CreateConsole, HostReturns, RelayInvariant, RelayTypeOK, PipeTypeOK
  <2>2. console' \in {"none", "open"} /\ host' \in {"exited", "spawn", "stopResize"}
    BY <1>13 DEF CreateConsole, HostReturns, RelayInvariant, HostFollowsStep
  <2>3. host' = "exited" => UNCHANGED relay
    BY <1>13 DEF CreateConsole, HostReturns
  <2> QED
    BY <1>13, <2>1, <2>2, <2>3 DEF CreateConsole, HostReturns, RelayInvariant, RelayTypeOK,
       PipeTypeOK, HandlesOutliveRelays, BridgeFollowsStep, HostFollowsStep
<1>14. CASE Spawn
  BY <1>14 DEF Spawn, RelayInvariant, RelayTypeOK, PipeTypeOK, HandlesOutliveRelays,
     BridgeFollowsStep, HostFollowsStep
<1>15. CASE WaitForTarget
  BY <1>15 DEF WaitForTarget, RelayInvariant, RelayTypeOK, PipeTypeOK, HandlesOutliveRelays,
     BridgeFollowsStep, HostFollowsStep
<1>16. CASE Terminate
  BY <1>16 DEF Terminate, RelayInvariant, RelayTypeOK, PipeTypeOK, HandlesOutliveRelays,
     BridgeFollowsStep, HostFollowsStep
<1>17. CASE CancelHostResize
  BY <1>17 DEF CancelHostResize, Cancelled, Turn, RelayInvariant, RelayTypeOK, PipeTypeOK,
     HandlesOutliveRelays, BridgeFollowsStep, HostFollowsStep
<1>18. CASE JoinHostResize
  BY <1>18 DEF JoinHostResize, RelayInvariant, RelayTypeOK, PipeTypeOK, HandlesOutliveRelays,
     BridgeFollowsStep, HostFollowsStep
<1>19. CASE CancelHostInput
  BY <1>19 DEF CancelHostInput, Cancelled, Turn, RelayInvariant, RelayTypeOK, PipeTypeOK,
     HandlesOutliveRelays, BridgeFollowsStep, HostFollowsStep
<1>20. CASE CloseConsole
  BY <1>20 DEF CloseConsole, RelayInvariant, RelayTypeOK, PipeTypeOK, HandlesOutliveRelays,
     BridgeFollowsStep, HostFollowsStep
<1>21. CASE JoinHostOutput
  BY <1>21 DEF JoinHostOutput, HostReturns, RelayInvariant, RelayTypeOK, PipeTypeOK,
     HandlesOutliveRelays, BridgeFollowsStep, HostFollowsStep
<1>22. CASE BridgeInputRelay
  <2>1. relay["bridgeInput"] \in {"code", "read"}
    BY <1>22 DEF BridgeInputRelay
  <2>2. \A r \in DOMAIN relay \ {"bridgeInput"} : relay'[r] = relay[r]
    BY <1>22 DEF BridgeInputRelay, Turn, RelayInvariant, RelayTypeOK, PipeTypeOK
  <2>3. UNCHANGED <<host, console, bridgeEnds>> /\ DOMAIN relay = BridgeRelays \cup HostRelays
    BY <1>22 DEF BridgeInputRelay, RelayInvariant, RelayTypeOK, PipeTypeOK
  <2> QED
    BY <2>1, <2>2, <2>3 DEF RelayInvariant, HandlesOutliveRelays
<1>23. CASE BridgeOutputRelay
  BY <1>23 DEF BridgeOutputRelay, Turn, RelayInvariant, RelayTypeOK, PipeTypeOK,
     HandlesOutliveRelays, BridgeFollowsStep, HostFollowsStep
<1>24. CASE BridgeResizeRelay
  BY <1>24 DEF BridgeResizeRelay, Turn, RelayInvariant, RelayTypeOK, PipeTypeOK,
     HandlesOutliveRelays, BridgeFollowsStep, HostFollowsStep
<1>25. CASE HostInputRelay
  BY <1>25 DEF HostInputRelay, Turn, RelayInvariant, RelayTypeOK, PipeTypeOK,
     HandlesOutliveRelays, BridgeFollowsStep, HostFollowsStep
<1>26. CASE HostOutputRelay
  BY <1>26 DEF HostOutputRelay, Turn, RelayInvariant, RelayTypeOK, PipeTypeOK,
     HandlesOutliveRelays, BridgeFollowsStep, HostFollowsStep
<1>27. CASE HostResizeRelay
  BY <1>27 DEF HostResizeRelay, Turn, ReadSize, NoMoreSizes, RelayInvariant, RelayTypeOK,
     PipeTypeOK, HandlesOutliveRelays, BridgeFollowsStep, HostFollowsStep
<1>28. CASE BrokerAnswers
  BY <1>28 DEF BrokerAnswers, RelayInvariant, RelayTypeOK, PipeTypeOK, HandlesOutliveRelays,
     BridgeFollowsStep, HostFollowsStep
<1>29. CASE BrokerTearsDown
  BY <1>29 DEF BrokerTearsDown, HostDies, RelayInvariant, RelayTypeOK, PipeTypeOK,
     HandlesOutliveRelays, BridgeFollowsStep, HostFollowsStep
<1>30. CASE TargetExits
  BY <1>30 DEF TargetExits, RelayInvariant, RelayTypeOK, PipeTypeOK, HandlesOutliveRelays,
     BridgeFollowsStep, HostFollowsStep
<1>31. CASE ConsoleEnds
  BY <1>31 DEF ConsoleEnds, RelayInvariant, RelayTypeOK, PipeTypeOK, HandlesOutliveRelays,
     BridgeFollowsStep, HostFollowsStep
<1>32. CASE StdinEnds
  BY <1>32 DEF StdinEnds, Turn, RelayInvariant, RelayTypeOK, PipeTypeOK, HandlesOutliveRelays,
     BridgeFollowsStep, HostFollowsStep
<1>33. CASE SessionIsKilled
  BY <1>33 DEF SessionIsKilled, HostDies, RelayInvariant, RelayTypeOK, PipeTypeOK,
     HandlesOutliveRelays, BridgeFollowsStep, HostFollowsStep
<1>34. CASE LauncherDies
  BY <1>34 DEF LauncherDies, Return, RelayInvariant, RelayTypeOK, PipeTypeOK,
     HandlesOutliveRelays, BridgeFollowsStep, HostFollowsStep
<1>35. CASE TargetLeaves
  BY <1>35 DEF TargetLeaves, RelayInvariant, RelayTypeOK, PipeTypeOK, HandlesOutliveRelays,
     BridgeFollowsStep, HostFollowsStep
<1>36. CASE DescendantsLeave
  BY <1>36 DEF DescendantsLeave, RelayInvariant, RelayTypeOK, PipeTypeOK, HandlesOutliveRelays,
     BridgeFollowsStep, HostFollowsStep
<1>37. CASE Emit
  BY <1>37 DEF Emit, RelayInvariant, RelayTypeOK, PipeTypeOK, HandlesOutliveRelays,
     BridgeFollowsStep, HostFollowsStep
<1>38. CASE Type
  BY <1>38 DEF Type, RelayInvariant, RelayTypeOK, PipeTypeOK, HandlesOutliveRelays,
     BridgeFollowsStep, HostFollowsStep
<1>39. CASE ResizeWindow
  BY <1>39 DEF ResizeWindow, RelayInvariant, RelayTypeOK, PipeTypeOK, HandlesOutliveRelays,
     BridgeFollowsStep, HostFollowsStep
<1>40. CASE UNCHANGED relayVars
  BY <1>40 DEF RelayInvariant, RelayTypeOK, PipeTypeOK, HandlesOutliveRelays, BridgeFollowsStep,
     HostFollowsStep
<1> QED
  BY <1>1, <1>2, <1>3, <1>4, <1>5, <1>6, <1>7, <1>8, <1>9, <1>10, <1>11, <1>12, <1>13, <1>14,
     <1>15, <1>16, <1>17, <1>18, <1>19, <1>20, <1>21, <1>22, <1>23, <1>24, <1>25, <1>26, <1>27,
     <1>28, <1>29, <1>30, <1>31, <1>32, <1>33, <1>34, <1>35, <1>36, <1>37, <1>38, <1>39, <1>40
     DEF RelayNext, SystemStep, Environment, BridgeStep, HostStep, RelayStep

\* The terminal gets its mode back.
LEMMA ModeStep ==
    ASSUME RelayInvariant, [RelayNext]_relayVars
    PROVE  ModeIsRestored'
<1> USE BoundsAreNatural
    DEF Pipes, BridgeRelays, HostRelays, RelayStates, bridgeVars, hostVars, targetVars,
        outputVars, inputVars, sizeVars, relayVars, Ended, HostLives
<1>1. CASE Launch
  BY <1>1 DEF Launch, Return, RelayInvariant, ModeIsRestored, BridgeFollowsStep
<1>2. CASE Connect
  BY <1>2 DEF Connect, Return, RelayInvariant, ModeIsRestored, BridgeFollowsStep
<1>3. CASE Start
  BY <1>3 DEF Start, Return, RelayInvariant, ModeIsRestored, BridgeFollowsStep
<1>4. CASE WaitForOutput
  BY <1>4 DEF WaitForOutput, RelayInvariant, ModeIsRestored, BridgeFollowsStep
<1>5. CASE StopResize
  BY <1>5 DEF StopResize, RelayInvariant, ModeIsRestored, BridgeFollowsStep
<1>6. CASE CancelInput
  BY <1>6 DEF CancelInput, Cancelled, Turn, RelayInvariant, ModeIsRestored, BridgeFollowsStep
<1>7. CASE JoinInput
  BY <1>7 DEF JoinInput, RelayInvariant, ModeIsRestored, BridgeFollowsStep
<1>8. CASE GiveUpOutput
  BY <1>8 DEF GiveUpOutput, Turn, RelayInvariant, ModeIsRestored, BridgeFollowsStep
<1>9. CASE JoinOutput
  BY <1>9 DEF JoinOutput, Return, RelayInvariant, ModeIsRestored, BridgeFollowsStep
<1>10. CASE AwaitExit
  BY <1>10 DEF AwaitExit, Return, RelayInvariant, ModeIsRestored, BridgeFollowsStep
<1>11. CASE OpenPipe
  BY <1>11 DEF OpenPipe, HostReturns, RelayInvariant, ModeIsRestored, BridgeFollowsStep
<1>12. CASE ReadInitialSize
  BY <1>12 DEF ReadInitialSize, ReadSize, NoMoreSizes, HostReturns, RelayInvariant,
     ModeIsRestored, BridgeFollowsStep
<1>13. CASE CreateConsole
  BY <1>13 DEF CreateConsole, HostReturns, RelayInvariant, ModeIsRestored, BridgeFollowsStep
<1>14. CASE Spawn
  BY <1>14 DEF Spawn, RelayInvariant, ModeIsRestored, BridgeFollowsStep
<1>15. CASE WaitForTarget
  BY <1>15 DEF WaitForTarget, RelayInvariant, ModeIsRestored, BridgeFollowsStep
<1>16. CASE Terminate
  BY <1>16 DEF Terminate, RelayInvariant, ModeIsRestored, BridgeFollowsStep
<1>17. CASE CancelHostResize
  BY <1>17 DEF CancelHostResize, Cancelled, Turn, RelayInvariant, ModeIsRestored,
     BridgeFollowsStep
<1>18. CASE JoinHostResize
  BY <1>18 DEF JoinHostResize, RelayInvariant, ModeIsRestored, BridgeFollowsStep
<1>19. CASE CancelHostInput
  BY <1>19 DEF CancelHostInput, Cancelled, Turn, RelayInvariant, ModeIsRestored,
     BridgeFollowsStep
<1>20. CASE CloseConsole
  BY <1>20 DEF CloseConsole, RelayInvariant, ModeIsRestored, BridgeFollowsStep
<1>21. CASE JoinHostOutput
  BY <1>21 DEF JoinHostOutput, HostReturns, RelayInvariant, ModeIsRestored, BridgeFollowsStep
<1>22. CASE BridgeInputRelay
  BY <1>22 DEF BridgeInputRelay, Turn, StopRequested, RelayInvariant, ModeIsRestored,
     BridgeFollowsStep
<1>23. CASE BridgeOutputRelay
  BY <1>23 DEF BridgeOutputRelay, Turn, RelayInvariant, ModeIsRestored, BridgeFollowsStep
<1>24. CASE BridgeResizeRelay
  BY <1>24 DEF BridgeResizeRelay, Turn, RelayInvariant, ModeIsRestored, BridgeFollowsStep
<1>25. CASE HostInputRelay
  BY <1>25 DEF HostInputRelay, Turn, RelayInvariant, ModeIsRestored, BridgeFollowsStep
<1>26. CASE HostOutputRelay
  BY <1>26 DEF HostOutputRelay, Turn, RelayInvariant, ModeIsRestored, BridgeFollowsStep
<1>27. CASE HostResizeRelay
  BY <1>27 DEF HostResizeRelay, Turn, ReadSize, NoMoreSizes, RelayInvariant, ModeIsRestored,
     BridgeFollowsStep
<1>28. CASE BrokerAnswers
  BY <1>28 DEF BrokerAnswers, RelayInvariant, ModeIsRestored, BridgeFollowsStep
<1>29. CASE BrokerTearsDown
  BY <1>29 DEF BrokerTearsDown, HostDies, RelayInvariant, ModeIsRestored, BridgeFollowsStep
<1>30. CASE TargetExits
  BY <1>30 DEF TargetExits, RelayInvariant, ModeIsRestored, BridgeFollowsStep
<1>31. CASE ConsoleEnds
  BY <1>31 DEF ConsoleEnds, RelayInvariant, ModeIsRestored, BridgeFollowsStep
<1>32. CASE StdinEnds
  BY <1>32 DEF StdinEnds, Turn, RelayInvariant, ModeIsRestored, BridgeFollowsStep
<1>33. CASE SessionIsKilled
  BY <1>33 DEF SessionIsKilled, HostDies, RelayInvariant, ModeIsRestored, BridgeFollowsStep
<1>34. CASE LauncherDies
  BY <1>34 DEF LauncherDies, Return, RelayInvariant, ModeIsRestored, BridgeFollowsStep
<1>35. CASE TargetLeaves
  BY <1>35 DEF TargetLeaves, RelayInvariant, ModeIsRestored, BridgeFollowsStep
<1>36. CASE DescendantsLeave
  BY <1>36 DEF DescendantsLeave, RelayInvariant, ModeIsRestored, BridgeFollowsStep
<1>37. CASE Emit
  BY <1>37 DEF Emit, RelayInvariant, ModeIsRestored, BridgeFollowsStep
<1>38. CASE Type
  BY <1>38 DEF Type, RelayInvariant, ModeIsRestored, BridgeFollowsStep
<1>39. CASE ResizeWindow
  BY <1>39 DEF ResizeWindow, RelayInvariant, ModeIsRestored, BridgeFollowsStep
<1>40. CASE UNCHANGED relayVars
  BY <1>40 DEF RelayInvariant, ModeIsRestored, BridgeFollowsStep
<1> QED
  BY <1>1, <1>2, <1>3, <1>4, <1>5, <1>6, <1>7, <1>8, <1>9, <1>10, <1>11, <1>12, <1>13, <1>14,
     <1>15, <1>16, <1>17, <1>18, <1>19, <1>20, <1>21, <1>22, <1>23, <1>24, <1>25, <1>26, <1>27,
     <1>28, <1>29, <1>30, <1>31, <1>32, <1>33, <1>34, <1>35, <1>36, <1>37, <1>38, <1>39, <1>40
     DEF RelayNext, SystemStep, Environment, BridgeStep, HostStep, RelayStep

\* The launcher has what its next step needs.
LEMMA BridgeStepHolds ==
    ASSUME RelayInvariant, [RelayNext]_relayVars
    PROVE  BridgeFollowsStep'
<1> USE BoundsAreNatural
    DEF Pipes, BridgeRelays, HostRelays, RelayStates, bridgeVars, hostVars, targetVars,
        outputVars, inputVars, sizeVars, relayVars, Ended, HostLives
<1>1. CASE Launch
  BY <1>1 DEF Launch, Return, RelayInvariant, RelayTypeOK, PipeTypeOK, HandlesOutliveRelays,
     BridgeFollowsStep, HostFollowsStep
<1>2. CASE Connect
  BY <1>2 DEF Connect, Return, RelayInvariant, RelayTypeOK, PipeTypeOK, HandlesOutliveRelays,
     BridgeFollowsStep, HostFollowsStep
<1>3. CASE Start
  BY <1>3, Starting DEF Start, Return, RelayInvariant, RelayTypeOK, PipeTypeOK,
     HandlesOutliveRelays, BridgeFollowsStep, HostFollowsStep
<1>4. CASE WaitForOutput
  BY <1>4 DEF WaitForOutput, RelayInvariant, RelayTypeOK, PipeTypeOK, HandlesOutliveRelays,
     BridgeFollowsStep, HostFollowsStep
<1>5. CASE StopResize
  BY <1>5 DEF StopResize, RelayInvariant, RelayTypeOK, PipeTypeOK, HandlesOutliveRelays,
     BridgeFollowsStep, HostFollowsStep
<1>6. CASE CancelInput
  BY <1>6 DEF CancelInput, Cancelled, Turn, RelayInvariant, RelayTypeOK, PipeTypeOK,
     HandlesOutliveRelays, BridgeFollowsStep, HostFollowsStep
<1>7. CASE JoinInput
  BY <1>7 DEF JoinInput, RelayInvariant, RelayTypeOK, PipeTypeOK, HandlesOutliveRelays,
     BridgeFollowsStep, HostFollowsStep
<1>8. CASE GiveUpOutput
  BY <1>8 DEF GiveUpOutput, Turn, RelayInvariant, RelayTypeOK, PipeTypeOK, HandlesOutliveRelays,
     BridgeFollowsStep, HostFollowsStep
<1>9. CASE JoinOutput
  BY <1>9 DEF JoinOutput, Return, RelayInvariant, RelayTypeOK, PipeTypeOK, HandlesOutliveRelays,
     BridgeFollowsStep, HostFollowsStep
<1>10. CASE AwaitExit
  BY <1>10 DEF AwaitExit, Return, RelayInvariant, RelayTypeOK, PipeTypeOK, HandlesOutliveRelays,
     BridgeFollowsStep, HostFollowsStep
<1>11. CASE OpenPipe
  BY <1>11 DEF OpenPipe, HostReturns, RelayInvariant, RelayTypeOK, PipeTypeOK,
     HandlesOutliveRelays, BridgeFollowsStep, HostFollowsStep
<1>12. CASE ReadInitialSize
  BY <1>12 DEF ReadInitialSize, ReadSize, NoMoreSizes, HostReturns, RelayInvariant, RelayTypeOK,
     PipeTypeOK, HandlesOutliveRelays, BridgeFollowsStep, HostFollowsStep
<1>13. CASE CreateConsole
  BY <1>13 DEF CreateConsole, HostReturns, RelayInvariant, RelayTypeOK, PipeTypeOK,
     HandlesOutliveRelays, BridgeFollowsStep, HostFollowsStep
<1>14. CASE Spawn
  BY <1>14 DEF Spawn, RelayInvariant, RelayTypeOK, PipeTypeOK, HandlesOutliveRelays,
     BridgeFollowsStep, HostFollowsStep
<1>15. CASE WaitForTarget
  BY <1>15 DEF WaitForTarget, RelayInvariant, RelayTypeOK, PipeTypeOK, HandlesOutliveRelays,
     BridgeFollowsStep, HostFollowsStep
<1>16. CASE Terminate
  BY <1>16 DEF Terminate, RelayInvariant, RelayTypeOK, PipeTypeOK, HandlesOutliveRelays,
     BridgeFollowsStep, HostFollowsStep
<1>17. CASE CancelHostResize
  BY <1>17 DEF CancelHostResize, Cancelled, Turn, RelayInvariant, RelayTypeOK, PipeTypeOK,
     HandlesOutliveRelays, BridgeFollowsStep, HostFollowsStep
<1>18. CASE JoinHostResize
  BY <1>18 DEF JoinHostResize, RelayInvariant, RelayTypeOK, PipeTypeOK, HandlesOutliveRelays,
     BridgeFollowsStep, HostFollowsStep
<1>19. CASE CancelHostInput
  BY <1>19 DEF CancelHostInput, Cancelled, Turn, RelayInvariant, RelayTypeOK, PipeTypeOK,
     HandlesOutliveRelays, BridgeFollowsStep, HostFollowsStep
<1>20. CASE CloseConsole
  BY <1>20 DEF CloseConsole, RelayInvariant, RelayTypeOK, PipeTypeOK, HandlesOutliveRelays,
     BridgeFollowsStep, HostFollowsStep
<1>21. CASE JoinHostOutput
  BY <1>21 DEF JoinHostOutput, HostReturns, RelayInvariant, RelayTypeOK, PipeTypeOK,
     HandlesOutliveRelays, BridgeFollowsStep, HostFollowsStep
<1>22. CASE BridgeInputRelay
  <2>1. relay["bridgeInput"] \in {"code", "read"} /\ stdin' <= stdin
    BY <1>22 DEF BridgeInputRelay, RelayInvariant, RelayTypeOK, PipeTypeOK
  <2>2. \A r \in DOMAIN relay \ {"bridgeInput"} : relay'[r] = relay[r]
    BY <1>22 DEF BridgeInputRelay, Turn, RelayInvariant, RelayTypeOK, PipeTypeOK
  <2>3. /\ UNCHANGED <<bridgeVars, host, bridgeEnds, hostEnds, outPipe, typed>>
        /\ DOMAIN relay = BridgeRelays \cup HostRelays
    BY <1>22 DEF BridgeInputRelay, RelayInvariant, RelayTypeOK, PipeTypeOK
  <2>4. stdin' <= typed' /\ "bridgeInput" \in BridgeRelays
    BY <2>1, <2>3, <1>22 DEF BridgeInputRelay, RelayInvariant, RelayTypeOK, PipeTypeOK,
       BridgeFollowsStep
  <2> QED
    BY <2>1, <2>2, <2>3, <2>4 DEF RelayInvariant, BridgeFollowsStep
<1>23. CASE BridgeOutputRelay
  BY <1>23 DEF BridgeOutputRelay, Turn, RelayInvariant, RelayTypeOK, PipeTypeOK,
     HandlesOutliveRelays, BridgeFollowsStep, HostFollowsStep
<1>24. CASE BridgeResizeRelay
  BY <1>24 DEF BridgeResizeRelay, Turn, RelayInvariant, RelayTypeOK, PipeTypeOK,
     HandlesOutliveRelays, BridgeFollowsStep, HostFollowsStep
<1>25. CASE HostInputRelay
  BY <1>25 DEF HostInputRelay, Turn, RelayInvariant, RelayTypeOK, PipeTypeOK,
     HandlesOutliveRelays, BridgeFollowsStep, HostFollowsStep
<1>26. CASE HostOutputRelay
  BY <1>26 DEF HostOutputRelay, Turn, RelayInvariant, RelayTypeOK, PipeTypeOK,
     HandlesOutliveRelays, BridgeFollowsStep, HostFollowsStep
<1>27. CASE HostResizeRelay
  BY <1>27 DEF HostResizeRelay, Turn, ReadSize, NoMoreSizes, RelayInvariant, RelayTypeOK,
     PipeTypeOK, HandlesOutliveRelays, BridgeFollowsStep, HostFollowsStep
<1>28. CASE BrokerAnswers
  BY <1>28 DEF BrokerAnswers, RelayInvariant, RelayTypeOK, PipeTypeOK, HandlesOutliveRelays,
     BridgeFollowsStep, HostFollowsStep
<1>29. CASE BrokerTearsDown
  BY <1>29 DEF BrokerTearsDown, HostDies, RelayInvariant, RelayTypeOK, PipeTypeOK,
     HandlesOutliveRelays, BridgeFollowsStep, HostFollowsStep
<1>30. CASE TargetExits
  BY <1>30 DEF TargetExits, RelayInvariant, RelayTypeOK, PipeTypeOK, HandlesOutliveRelays,
     BridgeFollowsStep, HostFollowsStep
<1>31. CASE ConsoleEnds
  BY <1>31 DEF ConsoleEnds, RelayInvariant, RelayTypeOK, PipeTypeOK, HandlesOutliveRelays,
     BridgeFollowsStep, HostFollowsStep
<1>32. CASE StdinEnds
  BY <1>32 DEF StdinEnds, Turn, RelayInvariant, RelayTypeOK, PipeTypeOK, HandlesOutliveRelays,
     BridgeFollowsStep, HostFollowsStep
<1>33. CASE SessionIsKilled
  BY <1>33 DEF SessionIsKilled, HostDies, RelayInvariant, RelayTypeOK, PipeTypeOK,
     HandlesOutliveRelays, BridgeFollowsStep, HostFollowsStep
<1>34. CASE LauncherDies
  BY <1>34 DEF LauncherDies, Return, RelayInvariant, RelayTypeOK, PipeTypeOK,
     HandlesOutliveRelays, BridgeFollowsStep, HostFollowsStep
<1>35. CASE TargetLeaves
  BY <1>35 DEF TargetLeaves, RelayInvariant, RelayTypeOK, PipeTypeOK, HandlesOutliveRelays,
     BridgeFollowsStep, HostFollowsStep
<1>36. CASE DescendantsLeave
  BY <1>36 DEF DescendantsLeave, RelayInvariant, RelayTypeOK, PipeTypeOK, HandlesOutliveRelays,
     BridgeFollowsStep, HostFollowsStep
<1>37. CASE Emit
  BY <1>37 DEF Emit, RelayInvariant, RelayTypeOK, PipeTypeOK, HandlesOutliveRelays,
     BridgeFollowsStep, HostFollowsStep
<1>38. CASE Type
  BY <1>38 DEF Type, RelayInvariant, RelayTypeOK, PipeTypeOK, HandlesOutliveRelays,
     BridgeFollowsStep, HostFollowsStep
<1>39. CASE ResizeWindow
  BY <1>39 DEF ResizeWindow, RelayInvariant, RelayTypeOK, PipeTypeOK, HandlesOutliveRelays,
     BridgeFollowsStep, HostFollowsStep
<1>40. CASE UNCHANGED relayVars
  BY <1>40 DEF RelayInvariant, RelayTypeOK, PipeTypeOK, HandlesOutliveRelays, BridgeFollowsStep,
     HostFollowsStep
<1> QED
  BY <1>1, <1>2, <1>3, <1>4, <1>5, <1>6, <1>7, <1>8, <1>9, <1>10, <1>11, <1>12, <1>13, <1>14,
     <1>15, <1>16, <1>17, <1>18, <1>19, <1>20, <1>21, <1>22, <1>23, <1>24, <1>25, <1>26, <1>27,
     <1>28, <1>29, <1>30, <1>31, <1>32, <1>33, <1>34, <1>35, <1>36, <1>37, <1>38, <1>39, <1>40
     DEF RelayNext, SystemStep, Environment, BridgeStep, HostStep, RelayStep

\* The host has what its next step needs.
LEMMA HostStepHolds ==
    ASSUME RelayInvariant, [RelayNext]_relayVars
    PROVE  HostFollowsStep'
<1> USE BoundsAreNatural
    DEF Pipes, BridgeRelays, HostRelays, RelayStates, bridgeVars, hostVars, targetVars,
        outputVars, inputVars, sizeVars, relayVars, Ended, HostLives
<1>1. CASE Launch
  BY <1>1 DEF Launch, Return, RelayInvariant, RelayTypeOK, PipeTypeOK, HandlesOutliveRelays,
     BridgeFollowsStep, HostFollowsStep
<1>2. CASE Connect
  BY <1>2 DEF Connect, Return, RelayInvariant, RelayTypeOK, PipeTypeOK, HandlesOutliveRelays,
     BridgeFollowsStep, HostFollowsStep
<1>3. CASE Start
  <2>1. /\ UNCHANGED <<host, outcome, child, inputFailed, hostEnds, console, conOut, answer>>
        /\ ~startFailed
    BY <1>3, Starting DEF Start
  <2>2. /\ \A r \in HostRelays : relay'[r] = relay[r]
        /\ result' = "code" => result = "code"
    BY <1>3, Starting DEF Return
  <2> QED
    BY <2>1, <2>2 DEF RelayInvariant, HostFollowsStep
<1>4. CASE WaitForOutput
  BY <1>4 DEF WaitForOutput, RelayInvariant, RelayTypeOK, PipeTypeOK, HandlesOutliveRelays,
     BridgeFollowsStep, HostFollowsStep
<1>5. CASE StopResize
  BY <1>5 DEF StopResize, RelayInvariant, RelayTypeOK, PipeTypeOK, HandlesOutliveRelays,
     BridgeFollowsStep, HostFollowsStep
<1>6. CASE CancelInput
  BY <1>6 DEF CancelInput, Cancelled, Turn, RelayInvariant, RelayTypeOK, PipeTypeOK,
     HandlesOutliveRelays, BridgeFollowsStep, HostFollowsStep
<1>7. CASE JoinInput
  BY <1>7 DEF JoinInput, RelayInvariant, RelayTypeOK, PipeTypeOK, HandlesOutliveRelays,
     BridgeFollowsStep, HostFollowsStep
<1>8. CASE GiveUpOutput
  BY <1>8 DEF GiveUpOutput, Turn, RelayInvariant, RelayTypeOK, PipeTypeOK, HandlesOutliveRelays,
     BridgeFollowsStep, HostFollowsStep
<1>9. CASE JoinOutput
  BY <1>9 DEF JoinOutput, Return, RelayInvariant, RelayTypeOK, PipeTypeOK, HandlesOutliveRelays,
     BridgeFollowsStep, HostFollowsStep
<1>10. CASE AwaitExit
  BY <1>10 DEF AwaitExit, Return, RelayInvariant, RelayTypeOK, PipeTypeOK, HandlesOutliveRelays,
     BridgeFollowsStep, HostFollowsStep
<1>11. CASE OpenPipe
  BY <1>11 DEF OpenPipe, HostReturns, RelayInvariant, RelayTypeOK, PipeTypeOK,
     HandlesOutliveRelays, BridgeFollowsStep, HostFollowsStep
<1>12. CASE ReadInitialSize
  BY <1>12 DEF ReadInitialSize, ReadSize, NoMoreSizes, HostReturns, RelayInvariant, RelayTypeOK,
     PipeTypeOK, HandlesOutliveRelays, BridgeFollowsStep, HostFollowsStep
<1>13. CASE CreateConsole
  BY <1>13 DEF CreateConsole, HostReturns, RelayInvariant, RelayTypeOK, PipeTypeOK,
     HandlesOutliveRelays, BridgeFollowsStep, HostFollowsStep
<1>14. CASE Spawn
  BY <1>14 DEF Spawn, RelayInvariant, RelayTypeOK, PipeTypeOK, HandlesOutliveRelays,
     BridgeFollowsStep, HostFollowsStep
<1>15. CASE WaitForTarget
  BY <1>15 DEF WaitForTarget, RelayInvariant, RelayTypeOK, PipeTypeOK, HandlesOutliveRelays,
     BridgeFollowsStep, HostFollowsStep
<1>16. CASE Terminate
  BY <1>16 DEF Terminate, RelayInvariant, RelayTypeOK, PipeTypeOK, HandlesOutliveRelays,
     BridgeFollowsStep, HostFollowsStep
<1>17. CASE CancelHostResize
  BY <1>17 DEF CancelHostResize, Cancelled, Turn, RelayInvariant, RelayTypeOK, PipeTypeOK,
     HandlesOutliveRelays, BridgeFollowsStep, HostFollowsStep
<1>18. CASE JoinHostResize
  BY <1>18 DEF JoinHostResize, RelayInvariant, RelayTypeOK, PipeTypeOK, HandlesOutliveRelays,
     BridgeFollowsStep, HostFollowsStep
<1>19. CASE CancelHostInput
  BY <1>19 DEF CancelHostInput, Cancelled, Turn, RelayInvariant, RelayTypeOK, PipeTypeOK,
     HandlesOutliveRelays, BridgeFollowsStep, HostFollowsStep
<1>20. CASE CloseConsole
  BY <1>20 DEF CloseConsole, RelayInvariant, RelayTypeOK, PipeTypeOK, HandlesOutliveRelays,
     BridgeFollowsStep, HostFollowsStep
<1>21. CASE JoinHostOutput
  BY <1>21 DEF JoinHostOutput, HostReturns, RelayInvariant, RelayTypeOK, PipeTypeOK,
     HandlesOutliveRelays, BridgeFollowsStep, HostFollowsStep
<1>22. CASE BridgeInputRelay
  <2>1. \A r \in HostRelays : relay'[r] = relay[r]
    BY <1>22 DEF BridgeInputRelay, Turn, RelayInvariant, RelayTypeOK, PipeTypeOK
  <2>2. /\ UNCHANGED <<bridgeVars, hostVars, targetVars, hostEnds, console, answer>>
        /\ UNCHANGED conOut
    BY <1>22 DEF BridgeInputRelay
  <2> QED
    BY <2>1, <2>2 DEF RelayInvariant, HostFollowsStep
<1>23. CASE BridgeOutputRelay
  <2>1. \A r \in HostRelays : relay'[r] = relay[r]
    BY <1>23 DEF BridgeOutputRelay, Turn, RelayInvariant, RelayTypeOK, PipeTypeOK
  <2>2. /\ UNCHANGED <<bridgeVars, hostVars, targetVars, hostEnds, console, answer>>
        /\ UNCHANGED conOut
    BY <1>23 DEF BridgeOutputRelay
  <2> QED
    BY <2>1, <2>2 DEF RelayInvariant, HostFollowsStep
<1>24. CASE BridgeResizeRelay
  BY <1>24 DEF BridgeResizeRelay, Turn, RelayInvariant, RelayTypeOK, PipeTypeOK,
     HandlesOutliveRelays, BridgeFollowsStep, HostFollowsStep
<1>25. CASE HostInputRelay
  BY <1>25 DEF HostInputRelay, Turn, RelayInvariant, RelayTypeOK, PipeTypeOK,
     HandlesOutliveRelays, BridgeFollowsStep, HostFollowsStep
<1>26. CASE HostOutputRelay
  BY <1>26 DEF HostOutputRelay, Turn, RelayInvariant, RelayTypeOK, PipeTypeOK,
     HandlesOutliveRelays, BridgeFollowsStep, HostFollowsStep
<1>27. CASE HostResizeRelay
  BY <1>27 DEF HostResizeRelay, Turn, ReadSize, NoMoreSizes, RelayInvariant, RelayTypeOK,
     PipeTypeOK, HandlesOutliveRelays, BridgeFollowsStep, HostFollowsStep
<1>28. CASE BrokerAnswers
  BY <1>28 DEF BrokerAnswers, RelayInvariant, RelayTypeOK, PipeTypeOK, HandlesOutliveRelays,
     BridgeFollowsStep, HostFollowsStep
<1>29. CASE BrokerTearsDown
  BY <1>29 DEF BrokerTearsDown, HostDies, RelayInvariant, RelayTypeOK, PipeTypeOK,
     HandlesOutliveRelays, BridgeFollowsStep, HostFollowsStep
<1>30. CASE TargetExits
  BY <1>30 DEF TargetExits, RelayInvariant, RelayTypeOK, PipeTypeOK, HandlesOutliveRelays,
     BridgeFollowsStep, HostFollowsStep
<1>31. CASE ConsoleEnds
  BY <1>31 DEF ConsoleEnds, RelayInvariant, RelayTypeOK, PipeTypeOK, HandlesOutliveRelays,
     BridgeFollowsStep, HostFollowsStep
<1>32. CASE StdinEnds
  BY <1>32 DEF StdinEnds, Turn, RelayInvariant, RelayTypeOK, PipeTypeOK, HandlesOutliveRelays,
     BridgeFollowsStep, HostFollowsStep
<1>33. CASE SessionIsKilled
  BY <1>33 DEF SessionIsKilled, HostDies, RelayInvariant, RelayTypeOK, PipeTypeOK,
     HandlesOutliveRelays, BridgeFollowsStep, HostFollowsStep
<1>34. CASE LauncherDies
  BY <1>34 DEF LauncherDies, Return, RelayInvariant, RelayTypeOK, PipeTypeOK,
     HandlesOutliveRelays, BridgeFollowsStep, HostFollowsStep
<1>35. CASE TargetLeaves
  BY <1>35 DEF TargetLeaves, RelayInvariant, RelayTypeOK, PipeTypeOK, HandlesOutliveRelays,
     BridgeFollowsStep, HostFollowsStep
<1>36. CASE DescendantsLeave
  BY <1>36 DEF DescendantsLeave, RelayInvariant, RelayTypeOK, PipeTypeOK, HandlesOutliveRelays,
     BridgeFollowsStep, HostFollowsStep
<1>37. CASE Emit
  BY <1>37 DEF Emit, RelayInvariant, RelayTypeOK, PipeTypeOK, HandlesOutliveRelays,
     BridgeFollowsStep, HostFollowsStep
<1>38. CASE Type
  BY <1>38 DEF Type, RelayInvariant, RelayTypeOK, PipeTypeOK, HandlesOutliveRelays,
     BridgeFollowsStep, HostFollowsStep
<1>39. CASE ResizeWindow
  BY <1>39 DEF ResizeWindow, RelayInvariant, RelayTypeOK, PipeTypeOK, HandlesOutliveRelays,
     BridgeFollowsStep, HostFollowsStep
<1>40. CASE UNCHANGED relayVars
  BY <1>40 DEF RelayInvariant, RelayTypeOK, PipeTypeOK, HandlesOutliveRelays, BridgeFollowsStep,
     HostFollowsStep
<1> QED
  BY <1>1, <1>2, <1>3, <1>4, <1>5, <1>6, <1>7, <1>8, <1>9, <1>10, <1>11, <1>12, <1>13, <1>14,
     <1>15, <1>16, <1>17, <1>18, <1>19, <1>20, <1>21, <1>22, <1>23, <1>24, <1>25, <1>26, <1>27,
     <1>28, <1>29, <1>30, <1>31, <1>32, <1>33, <1>34, <1>35, <1>36, <1>37, <1>38, <1>39, <1>40
     DEF RelayNext, SystemStep, Environment, BridgeStep, HostStep, RelayStep

\* Only a target that has left is terminated.
LEMMA SparedStep ==
    ASSUME RelayInvariant, [RelayNext]_relayVars
    PROVE  TargetIsSpared'
<1> USE BoundsAreNatural
    DEF Pipes, BridgeRelays, HostRelays, RelayStates, bridgeVars, hostVars, targetVars,
        outputVars, inputVars, sizeVars, relayVars, Ended, HostLives
<1>1. CASE Launch
  BY <1>1 DEF Launch, Return, RelayInvariant, HostFollowsStep, TargetIsSpared
<1>2. CASE Connect
  BY <1>2 DEF Connect, Return, RelayInvariant, HostFollowsStep, TargetIsSpared
<1>3. CASE Start
  BY <1>3 DEF Start, Return, RelayInvariant, HostFollowsStep, TargetIsSpared
<1>4. CASE WaitForOutput
  BY <1>4 DEF WaitForOutput, RelayInvariant, HostFollowsStep, TargetIsSpared
<1>5. CASE StopResize
  BY <1>5 DEF StopResize, RelayInvariant, HostFollowsStep, TargetIsSpared
<1>6. CASE CancelInput
  BY <1>6 DEF CancelInput, Cancelled, Turn, RelayInvariant, HostFollowsStep, TargetIsSpared
<1>7. CASE JoinInput
  BY <1>7 DEF JoinInput, RelayInvariant, HostFollowsStep, TargetIsSpared
<1>8. CASE GiveUpOutput
  BY <1>8 DEF GiveUpOutput, Turn, RelayInvariant, HostFollowsStep, TargetIsSpared
<1>9. CASE JoinOutput
  BY <1>9 DEF JoinOutput, Return, RelayInvariant, HostFollowsStep, TargetIsSpared
<1>10. CASE AwaitExit
  BY <1>10 DEF AwaitExit, Return, RelayInvariant, HostFollowsStep, TargetIsSpared
<1>11. CASE OpenPipe
  BY <1>11 DEF OpenPipe, HostReturns, RelayInvariant, HostFollowsStep, TargetIsSpared
<1>12. CASE ReadInitialSize
  BY <1>12 DEF ReadInitialSize, ReadSize, NoMoreSizes, HostReturns, RelayInvariant,
     HostFollowsStep, TargetIsSpared
<1>13. CASE CreateConsole
  BY <1>13 DEF CreateConsole, HostReturns, RelayInvariant, HostFollowsStep, TargetIsSpared
<1>14. CASE Spawn
  BY <1>14 DEF Spawn, RelayInvariant, HostFollowsStep, TargetIsSpared
<1>15. CASE WaitForTarget
  BY <1>15 DEF WaitForTarget, RelayInvariant, HostFollowsStep, TargetIsSpared
<1>16. CASE Terminate
  BY <1>16 DEF Terminate, RelayInvariant, HostFollowsStep, TargetIsSpared
<1>17. CASE CancelHostResize
  BY <1>17 DEF CancelHostResize, Cancelled, Turn, RelayInvariant, HostFollowsStep, TargetIsSpared
<1>18. CASE JoinHostResize
  BY <1>18 DEF JoinHostResize, RelayInvariant, HostFollowsStep, TargetIsSpared
<1>19. CASE CancelHostInput
  BY <1>19 DEF CancelHostInput, Cancelled, Turn, RelayInvariant, HostFollowsStep, TargetIsSpared
<1>20. CASE CloseConsole
  BY <1>20 DEF CloseConsole, RelayInvariant, HostFollowsStep, TargetIsSpared
<1>21. CASE JoinHostOutput
  BY <1>21 DEF JoinHostOutput, HostReturns, RelayInvariant, HostFollowsStep, TargetIsSpared
<1>22. CASE BridgeInputRelay
  BY <1>22 DEF BridgeInputRelay, Turn, StopRequested, RelayInvariant, HostFollowsStep,
     TargetIsSpared
<1>23. CASE BridgeOutputRelay
  BY <1>23 DEF BridgeOutputRelay, Turn, RelayInvariant, HostFollowsStep, TargetIsSpared
<1>24. CASE BridgeResizeRelay
  BY <1>24 DEF BridgeResizeRelay, Turn, RelayInvariant, HostFollowsStep, TargetIsSpared
<1>25. CASE HostInputRelay
  BY <1>25 DEF HostInputRelay, Turn, RelayInvariant, HostFollowsStep, TargetIsSpared
<1>26. CASE HostOutputRelay
  BY <1>26 DEF HostOutputRelay, Turn, RelayInvariant, HostFollowsStep, TargetIsSpared
<1>27. CASE HostResizeRelay
  BY <1>27 DEF HostResizeRelay, Turn, ReadSize, NoMoreSizes, RelayInvariant, HostFollowsStep,
     TargetIsSpared
<1>28. CASE BrokerAnswers
  BY <1>28 DEF BrokerAnswers, RelayInvariant, HostFollowsStep, TargetIsSpared
<1>29. CASE BrokerTearsDown
  BY <1>29 DEF BrokerTearsDown, HostDies, RelayInvariant, HostFollowsStep, TargetIsSpared
<1>30. CASE TargetExits
  BY <1>30 DEF TargetExits, RelayInvariant, HostFollowsStep, TargetIsSpared
<1>31. CASE ConsoleEnds
  BY <1>31 DEF ConsoleEnds, RelayInvariant, HostFollowsStep, TargetIsSpared
<1>32. CASE StdinEnds
  BY <1>32 DEF StdinEnds, Turn, RelayInvariant, HostFollowsStep, TargetIsSpared
<1>33. CASE SessionIsKilled
  BY <1>33 DEF SessionIsKilled, HostDies, RelayInvariant, HostFollowsStep, TargetIsSpared
<1>34. CASE LauncherDies
  BY <1>34 DEF LauncherDies, Return, RelayInvariant, HostFollowsStep, TargetIsSpared
<1>35. CASE TargetLeaves
  BY <1>35 DEF TargetLeaves, RelayInvariant, HostFollowsStep, TargetIsSpared
<1>36. CASE DescendantsLeave
  BY <1>36 DEF DescendantsLeave, RelayInvariant, HostFollowsStep, TargetIsSpared
<1>37. CASE Emit
  BY <1>37 DEF Emit, RelayInvariant, HostFollowsStep, TargetIsSpared
<1>38. CASE Type
  BY <1>38 DEF Type, RelayInvariant, HostFollowsStep, TargetIsSpared
<1>39. CASE ResizeWindow
  BY <1>39 DEF ResizeWindow, RelayInvariant, HostFollowsStep, TargetIsSpared
<1>40. CASE UNCHANGED relayVars
  BY <1>40 DEF RelayInvariant, HostFollowsStep, TargetIsSpared
<1> QED
  BY <1>1, <1>2, <1>3, <1>4, <1>5, <1>6, <1>7, <1>8, <1>9, <1>10, <1>11, <1>12, <1>13, <1>14,
     <1>15, <1>16, <1>17, <1>18, <1>19, <1>20, <1>21, <1>22, <1>23, <1>24, <1>25, <1>26, <1>27,
     <1>28, <1>29, <1>30, <1>31, <1>32, <1>33, <1>34, <1>35, <1>36, <1>37, <1>38, <1>39, <1>40
     DEF RelayNext, SystemStep, Environment, BridgeStep, HostStep, RelayStep

\* No frame is lost, doubled or overtaken while anybody shows frames.
LEMMA FramesStep ==
    ASSUME RelayInvariant, [RelayNext]_relayVars
    PROVE  FramesAreWhole'
<1> USE BoundsAreNatural
    DEF Pipes, BridgeRelays, HostRelays, RelayStates, bridgeVars, hostVars, targetVars,
        outputVars, inputVars, sizeVars, relayVars, Ended, HostLives
<1>1. CASE Launch
  BY <1>1 DEF Launch, Return, RelayInvariant, RelayTypeOK, PipeTypeOK, HandlesOutliveRelays,
     BridgeFollowsStep, HostFollowsStep, FramesAreWhole, CarriesOn
<1>2. CASE Connect
  BY <1>2 DEF Connect, Return, RelayInvariant, RelayTypeOK, PipeTypeOK, HandlesOutliveRelays,
     BridgeFollowsStep, HostFollowsStep, FramesAreWhole, CarriesOn
<1>3. CASE Start
  BY <1>3 DEF Start, Return, RelayInvariant, RelayTypeOK, PipeTypeOK, HandlesOutliveRelays,
     BridgeFollowsStep, HostFollowsStep, FramesAreWhole, CarriesOn
<1>4. CASE WaitForOutput
  BY <1>4 DEF WaitForOutput, RelayInvariant, RelayTypeOK, PipeTypeOK, HandlesOutliveRelays,
     BridgeFollowsStep, HostFollowsStep, FramesAreWhole, CarriesOn
<1>5. CASE StopResize
  BY <1>5 DEF StopResize, RelayInvariant, RelayTypeOK, PipeTypeOK, HandlesOutliveRelays,
     BridgeFollowsStep, HostFollowsStep, FramesAreWhole, CarriesOn
<1>6. CASE CancelInput
  BY <1>6 DEF CancelInput, Cancelled, Turn, RelayInvariant, RelayTypeOK, PipeTypeOK,
     HandlesOutliveRelays, BridgeFollowsStep, HostFollowsStep, FramesAreWhole, CarriesOn
<1>7. CASE JoinInput
  BY <1>7 DEF JoinInput, RelayInvariant, RelayTypeOK, PipeTypeOK, HandlesOutliveRelays,
     BridgeFollowsStep, HostFollowsStep, FramesAreWhole, CarriesOn
<1>8. CASE GiveUpOutput
  BY <1>8 DEF GiveUpOutput, Turn, RelayInvariant, RelayTypeOK, PipeTypeOK, HandlesOutliveRelays,
     BridgeFollowsStep, HostFollowsStep, FramesAreWhole, CarriesOn
<1>9. CASE JoinOutput
  BY <1>9 DEF JoinOutput, Return, RelayInvariant, RelayTypeOK, PipeTypeOK, HandlesOutliveRelays,
     BridgeFollowsStep, HostFollowsStep, FramesAreWhole, CarriesOn
<1>10. CASE AwaitExit
  BY <1>10 DEF AwaitExit, Return, RelayInvariant, RelayTypeOK, PipeTypeOK, HandlesOutliveRelays,
     BridgeFollowsStep, HostFollowsStep, FramesAreWhole, CarriesOn
<1>11. CASE OpenPipe
  BY <1>11 DEF OpenPipe, HostReturns, RelayInvariant, RelayTypeOK, PipeTypeOK,
     HandlesOutliveRelays, BridgeFollowsStep, HostFollowsStep, FramesAreWhole, CarriesOn
<1>12. CASE ReadInitialSize
  BY <1>12 DEF ReadInitialSize, ReadSize, NoMoreSizes, HostReturns, RelayInvariant, RelayTypeOK,
     PipeTypeOK, HandlesOutliveRelays, BridgeFollowsStep, HostFollowsStep, FramesAreWhole,
     CarriesOn
<1>13. CASE CreateConsole
  BY <1>13 DEF CreateConsole, HostReturns, RelayInvariant, RelayTypeOK, PipeTypeOK,
     HandlesOutliveRelays, BridgeFollowsStep, HostFollowsStep, FramesAreWhole, CarriesOn
<1>14. CASE Spawn
  BY <1>14 DEF Spawn, RelayInvariant, RelayTypeOK, PipeTypeOK, HandlesOutliveRelays,
     BridgeFollowsStep, HostFollowsStep, FramesAreWhole, CarriesOn
<1>15. CASE WaitForTarget
  BY <1>15 DEF WaitForTarget, RelayInvariant, RelayTypeOK, PipeTypeOK, HandlesOutliveRelays,
     BridgeFollowsStep, HostFollowsStep, FramesAreWhole, CarriesOn
<1>16. CASE Terminate
  BY <1>16 DEF Terminate, RelayInvariant, RelayTypeOK, PipeTypeOK, HandlesOutliveRelays,
     BridgeFollowsStep, HostFollowsStep, FramesAreWhole, CarriesOn
<1>17. CASE CancelHostResize
  BY <1>17 DEF CancelHostResize, Cancelled, Turn, RelayInvariant, RelayTypeOK, PipeTypeOK,
     HandlesOutliveRelays, BridgeFollowsStep, HostFollowsStep, FramesAreWhole, CarriesOn
<1>18. CASE JoinHostResize
  BY <1>18 DEF JoinHostResize, RelayInvariant, RelayTypeOK, PipeTypeOK, HandlesOutliveRelays,
     BridgeFollowsStep, HostFollowsStep, FramesAreWhole, CarriesOn
<1>19. CASE CancelHostInput
  BY <1>19 DEF CancelHostInput, Cancelled, Turn, RelayInvariant, RelayTypeOK, PipeTypeOK,
     HandlesOutliveRelays, BridgeFollowsStep, HostFollowsStep, FramesAreWhole, CarriesOn
<1>20. CASE CloseConsole
  BY <1>20 DEF CloseConsole, RelayInvariant, RelayTypeOK, PipeTypeOK, HandlesOutliveRelays,
     BridgeFollowsStep, HostFollowsStep, FramesAreWhole, CarriesOn
<1>21. CASE JoinHostOutput
  BY <1>21 DEF JoinHostOutput, HostReturns, RelayInvariant, RelayTypeOK, PipeTypeOK,
     HandlesOutliveRelays, BridgeFollowsStep, HostFollowsStep, FramesAreWhole, CarriesOn
<1>22. CASE BridgeInputRelay
  BY <1>22 DEF BridgeInputRelay, Turn, StopRequested, RelayInvariant, RelayTypeOK, PipeTypeOK,
     HandlesOutliveRelays, BridgeFollowsStep, HostFollowsStep, FramesAreWhole, CarriesOn
<1>23. CASE BridgeOutputRelay
  <2>1. result # "code"
    BY <1>23 DEF BridgeOutputRelay, RelayInvariant, HandlesOutliveRelays, BridgeFollowsStep
  <2>2. ASSUME outPipe # <<>>, outPipe' = Tail(outPipe), screenTakes,
               screen' = Append(screen, Head(outPipe)), UNCHANGED screenTakes
        PROVE  FramesAreWhole'
    <3>1. /\ Len(outPipe) \in Nat \ {0} /\ Len(outPipe') = Len(outPipe) - 1
          /\ Head(outPipe) = Len(screen) + 1 /\ CarriesOn(outPipe', Len(screen) + 1)
      BY <2>2, TakingCarriesOn, LenProperties
         DEF RelayInvariant, FramesAreWhole, RelayTypeOK, PipeTypeOK
    <3>2. CarriesOn(screen', 0) /\ Len(screen') = Len(screen) + 1
      <4>1. Head(outPipe) \in 1..MaxOutput
        BY <2>2, MovingFrames DEF RelayInvariant, RelayTypeOK, PipeTypeOK
      <4>2. Len(screen) \in Nat /\ Head(outPipe) = 0 + Len(screen) + 1
        BY <3>1, LenProperties DEF RelayInvariant, RelayTypeOK, PipeTypeOK
      <4> QED
        BY <2>2, <4>1, <4>2, PuttingCarriesOn
           DEF RelayInvariant, FramesAreWhole, RelayTypeOK, PipeTypeOK
    <3>3. Len(screen') + Len(outPipe') = Len(screen) + Len(outPipe)
      BY <3>1, <3>2, LenProperties DEF RelayInvariant, RelayTypeOK, PipeTypeOK
    <3> QED
      BY <1>23, <2>1, <2>2, <3>1, <3>2, <3>3
         DEF BridgeOutputRelay, RelayInvariant, FramesAreWhole
  <2>3. CASE screenTakes' = FALSE /\ UNCHANGED screen
    BY <1>23, <2>1, <2>3 DEF BridgeOutputRelay, RelayInvariant, FramesAreWhole
  <2>4. CASE UNCHANGED <<screenTakes, outPipe, screen>>
    BY <1>23, <2>1, <2>4 DEF BridgeOutputRelay, RelayInvariant, FramesAreWhole
  <2> QED
    BY <1>23, <2>2, <2>3, <2>4 DEF BridgeOutputRelay
<1>24. CASE BridgeResizeRelay
  BY <1>24 DEF BridgeResizeRelay, Turn, RelayInvariant, RelayTypeOK, PipeTypeOK,
     HandlesOutliveRelays, BridgeFollowsStep, HostFollowsStep, FramesAreWhole, CarriesOn
<1>25. CASE HostInputRelay
  BY <1>25 DEF HostInputRelay, Turn, RelayInvariant, RelayTypeOK, PipeTypeOK,
     HandlesOutliveRelays, BridgeFollowsStep, HostFollowsStep, FramesAreWhole, CarriesOn
<1>26. CASE HostOutputRelay
  <2>1. ASSUME conOut # <<>>, conOut' = Tail(conOut), "output" \in bridgeEnds \cap hostEnds,
               outPipe' = Append(outPipe, Head(conOut)), screenTakes
        PROVE  FramesAreWhole'
    <3> DEFINE n == Len(screen) + Len(outPipe)
    <3>1. Len(screen) \in Nat /\ Len(outPipe) \in Nat
      BY LenProperties DEF RelayInvariant, RelayTypeOK, PipeTypeOK
    <3>2. /\ Len(conOut) \in Nat \ {0} /\ Len(conOut') = Len(conOut) - 1
          /\ Head(conOut) = n + 1 /\ CarriesOn(conOut', n + 1)
      BY <2>1, <3>1, TakingCarriesOn DEF RelayInvariant, FramesAreWhole, RelayTypeOK, PipeTypeOK
    <3>3. CarriesOn(outPipe', Len(screen)) /\ Len(outPipe') = Len(outPipe) + 1
      <4>1. Head(conOut) \in 1..MaxOutput
        BY <2>1, MovingFrames DEF RelayInvariant, RelayTypeOK, PipeTypeOK
      <4>2. Head(conOut) = Len(screen) + Len(outPipe) + 1
        BY <3>2
      <4>3. CarriesOn(outPipe, Len(screen)) /\ outPipe \in Seq(1..MaxOutput)
        BY <2>1 DEF RelayInvariant, FramesAreWhole, RelayTypeOK, PipeTypeOK
      <4>4. CarriesOn(Append(outPipe, Head(conOut)), Len(screen))
        BY <3>1, <4>1, <4>2, <4>3, PuttingCarriesOn
      <4>5. Len(Append(outPipe, Head(conOut))) = Len(outPipe) + 1
        BY <4>1, <4>3, AppendProperties
      <4> QED
        BY <2>1, <4>4, <4>5
    <3>4. UNCHANGED <<screen, screenTakes, emitted, result>>
      BY <1>26 DEF HostOutputRelay
    <3>5. /\ CarriesOn(conOut', Len(screen') + Len(outPipe'))
          /\ emitted' = Len(screen') + Len(outPipe') + Len(conOut')
      <4>1. Len(screen') + Len(outPipe') = n + 1
        BY <3>1, <3>3, <3>4
      <4>2. emitted = n + Len(conOut)
        BY <2>1, <3>1, <3>2 DEF RelayInvariant, FramesAreWhole
      <4> QED
        BY <3>1, <3>2, <3>4, <4>1, <4>2
    <3> QED
      BY <3>3, <3>4, <3>5 DEF RelayInvariant, FramesAreWhole
  <2>2. ASSUME "output" \notin bridgeEnds \cap hostEnds, UNCHANGED outPipe
        PROVE  FramesAreWhole'
    <3>1. host \notin {"absent", "open"} /\ HostLives
      BY <1>26 DEF HostOutputRelay, RelayInvariant, HandlesOutliveRelays, HostFollowsStep
    <3>2. startFailed \/ bridge = "ended"
      BY <2>2, <3>1 DEF RelayInvariant, RelayTypeOK, ControlTypeOK, BridgeFollowsStep,
         HostFollowsStep
    <3> QED
      BY <1>26, <2>2, <3>2 DEF HostOutputRelay, RelayInvariant, FramesAreWhole
  <2>3. CASE ~screenTakes
    BY <1>26, <2>3 DEF HostOutputRelay, RelayInvariant, FramesAreWhole
  <2>4. CASE UNCHANGED <<conOut, outPipe>>
    BY <1>26, <2>4 DEF HostOutputRelay, RelayInvariant, FramesAreWhole
  <2> QED
    BY <1>26, <2>1, <2>2, <2>3, <2>4 DEF HostOutputRelay
<1>27. CASE HostResizeRelay
  BY <1>27 DEF HostResizeRelay, Turn, ReadSize, NoMoreSizes, RelayInvariant, RelayTypeOK,
     PipeTypeOK, HandlesOutliveRelays, BridgeFollowsStep, HostFollowsStep, FramesAreWhole,
     CarriesOn
<1>28. CASE BrokerAnswers
  BY <1>28 DEF BrokerAnswers, RelayInvariant, RelayTypeOK, PipeTypeOK, HandlesOutliveRelays,
     BridgeFollowsStep, HostFollowsStep, FramesAreWhole, CarriesOn
<1>29. CASE BrokerTearsDown
  BY <1>29 DEF BrokerTearsDown, HostDies, RelayInvariant, RelayTypeOK, PipeTypeOK,
     HandlesOutliveRelays, BridgeFollowsStep, HostFollowsStep, FramesAreWhole, CarriesOn
<1>30. CASE TargetExits
  BY <1>30 DEF TargetExits, RelayInvariant, RelayTypeOK, PipeTypeOK, HandlesOutliveRelays,
     BridgeFollowsStep, HostFollowsStep, FramesAreWhole, CarriesOn
<1>31. CASE ConsoleEnds
  BY <1>31 DEF ConsoleEnds, RelayInvariant, RelayTypeOK, PipeTypeOK, HandlesOutliveRelays,
     BridgeFollowsStep, HostFollowsStep, FramesAreWhole, CarriesOn
<1>32. CASE StdinEnds
  BY <1>32 DEF StdinEnds, Turn, RelayInvariant, RelayTypeOK, PipeTypeOK, HandlesOutliveRelays,
     BridgeFollowsStep, HostFollowsStep, FramesAreWhole, CarriesOn
<1>33. CASE SessionIsKilled
  BY <1>33 DEF SessionIsKilled, HostDies, RelayInvariant, RelayTypeOK, PipeTypeOK,
     HandlesOutliveRelays, BridgeFollowsStep, HostFollowsStep, FramesAreWhole, CarriesOn
<1>34. CASE LauncherDies
  BY <1>34 DEF LauncherDies, Return, RelayInvariant, RelayTypeOK, PipeTypeOK,
     HandlesOutliveRelays, BridgeFollowsStep, HostFollowsStep, FramesAreWhole, CarriesOn
<1>35. CASE TargetLeaves
  BY <1>35 DEF TargetLeaves, RelayInvariant, RelayTypeOK, PipeTypeOK, HandlesOutliveRelays,
     BridgeFollowsStep, HostFollowsStep, FramesAreWhole, CarriesOn
<1>36. CASE DescendantsLeave
  BY <1>36 DEF DescendantsLeave, RelayInvariant, RelayTypeOK, PipeTypeOK, HandlesOutliveRelays,
     BridgeFollowsStep, HostFollowsStep, FramesAreWhole, CarriesOn
<1>37. CASE Emit
  <2>1. result # "code"
    BY <1>37 DEF Emit, RelayInvariant, HandlesOutliveRelays, HostFollowsStep
  <2>2. ASSUME CarriesOn(conOut, Len(screen) + Len(outPipe)),
               emitted = Len(screen) + Len(outPipe) + Len(conOut)
        PROVE  /\ CarriesOn(conOut', Len(screen) + Len(outPipe))
               /\ emitted' = Len(screen) + Len(outPipe) + Len(conOut')
    <3>1. Len(screen) + Len(outPipe) \in Nat /\ Len(conOut) \in Nat
      BY LenProperties DEF RelayInvariant, RelayTypeOK, PipeTypeOK
    <3>2. emitted' \in 1..MaxOutput /\ emitted' = Len(screen) + Len(outPipe) + Len(conOut) + 1
      BY <1>37, <2>2 DEF Emit, RelayInvariant, RelayTypeOK, PipeTypeOK
    <3>3. /\ CarriesOn(Append(conOut, emitted'), Len(screen) + Len(outPipe))
          /\ Len(Append(conOut, emitted')) = Len(conOut) + 1
      BY <2>2, <3>1, <3>2, PuttingCarriesOn DEF RelayInvariant, RelayTypeOK, PipeTypeOK
    <3> QED
      BY <1>37, <3>1, <3>2, <3>3 DEF Emit
  <2> QED
    BY <1>37, <2>1, <2>2 DEF Emit, RelayInvariant, FramesAreWhole
<1>38. CASE Type
  BY <1>38 DEF Type, RelayInvariant, RelayTypeOK, PipeTypeOK, HandlesOutliveRelays,
     BridgeFollowsStep, HostFollowsStep, FramesAreWhole, CarriesOn
<1>39. CASE ResizeWindow
  BY <1>39 DEF ResizeWindow, RelayInvariant, RelayTypeOK, PipeTypeOK, HandlesOutliveRelays,
     BridgeFollowsStep, HostFollowsStep, FramesAreWhole, CarriesOn
<1>40. CASE UNCHANGED relayVars
  BY <1>40 DEF RelayInvariant, RelayTypeOK, PipeTypeOK, HandlesOutliveRelays, BridgeFollowsStep,
     HostFollowsStep, FramesAreWhole, CarriesOn
<1> QED
  BY <1>1, <1>2, <1>3, <1>4, <1>5, <1>6, <1>7, <1>8, <1>9, <1>10, <1>11, <1>12, <1>13, <1>14,
     <1>15, <1>16, <1>17, <1>18, <1>19, <1>20, <1>21, <1>22, <1>23, <1>24, <1>25, <1>26, <1>27,
     <1>28, <1>29, <1>30, <1>31, <1>32, <1>33, <1>34, <1>35, <1>36, <1>37, <1>38, <1>39, <1>40
     DEF RelayNext, SystemStep, Environment, BridgeStep, HostStep, RelayStep

\* It starts that way.
LEMMA InitInvariant == RelayInit => RelayInvariant
<1> SUFFICES ASSUME RelayInit PROVE RelayInvariant
  OBVIOUS
<1> USE BoundsAreNatural DEF RelayInit, Ended, HostLives
<1>1. RelayTypeOK
  <2>1. <<>> \in Seq(1..MaxOutput) /\ <<>> \in Seq(1..(MaxResizes + 1))
    BY EmptySeq
  <2>2. ControlTypeOK
    BY DEF ControlTypeOK
  <2> QED
    BY <2>1, <2>2 DEF RelayTypeOK, PipeTypeOK, Pipes, BridgeRelays, HostRelays, RelayStates
<1>2. HandlesOutliveRelays /\ ModeIsRestored /\ TargetIsSpared
  BY DEF HandlesOutliveRelays, ModeIsRestored, TargetIsSpared, BridgeRelays, HostRelays
<1>3. BridgeFollowsStep /\ HostFollowsStep
  BY DEF BridgeFollowsStep, HostFollowsStep, BridgeRelays, HostRelays
<1>4. FramesAreWhole
  BY DEF FramesAreWhole, CarriesOn
<1> QED
  BY <1>1, <1>2, <1>3, <1>4 DEF RelayInvariant

\* The conjunction is inductive, for all bounds: handles outlive their threads, the terminal
\* gets its mode back and no frame is lost, whichever end stops first (Stop, StopRelays).
THEOREM InvariantHolds == RelaySpec => []RelayInvariant
<1>1. RelayInvariant /\ [RelayNext]_relayVars => RelayInvariant'
  <2> SUFFICES ASSUME RelayInvariant, [RelayNext]_relayVars PROVE RelayInvariant'
    OBVIOUS
  <2>1. RelayTypeOK'
    BY ControlTypeStep, PipeTypeStep DEF RelayInvariant, BridgeFollowsStep, RelayTypeOK
  <2>2. HandlesOutliveRelays' /\ ModeIsRestored' /\ TargetIsSpared'
    BY HandlesStep, ModeStep, SparedStep
  <2>3. BridgeFollowsStep' /\ HostFollowsStep' /\ FramesAreWhole'
    BY BridgeStepHolds, HostStepHolds, FramesStep
  <2> QED
    BY <2>1, <2>2, <2>3 DEF RelayInvariant
<1> QED
  BY InitInvariant, <1>1, PTL DEF RelaySpec

\* An exit code is returned only after everything the pseudoconsole emitted has been shown, in
\* order, unless the screen took no more (RelayOutput, StopRelays).
THEOREM CodeIsComplete == RelaySpec => []CodeMeansComplete
<1>1. RelayInvariant => CodeMeansComplete
  <2> SUFFICES ASSUME RelayInvariant PROVE CodeMeansComplete
    OBVIOUS
  <2>1. Len(screen) \in Nat /\ screen \in [1..Len(screen) -> 1..MaxOutput]
    BY LenProperties DEF RelayInvariant, RelayTypeOK, PipeTypeOK
  <2>2. \A i \in 1..Len(screen) : screen[i] = i
    BY <2>1 DEF RelayInvariant, FramesAreWhole, CarriesOn
  <2>3. screen = [i \in 1..Len(screen) |-> i]
    BY <2>1, <2>2
  <2>4. result = "code" => child = "exited" /\ (Len(screen) = emitted \/ ~screenTakes)
    BY DEF RelayInvariant, HostFollowsStep, FramesAreWhole
  <2> QED
    BY <2>3, <2>4 DEF CodeMeansComplete
<1> QED
  BY InvariantHolds, <1>1, PTL

\* The host terminates no target that has not left its console already (RelayInput).
THEOREM Spared == RelaySpec => []TargetIsSpared
<1>1. RelayInvariant => TargetIsSpared
  BY DEF RelayInvariant
<1> QED
  BY InvariantHolds, <1>1, PTL

\* What the launcher sends is the newest size, and the pipe keeps the order.
LEMMA SendingSizes ==
    ASSUME RelayTypeOK, SizesFollowWindow,
           sent' = window, sizePipe' = Append(sizePipe, window), UNCHANGED <<window, conSize>>
    PROVE  SizesFollowWindow'
<1> USE BoundsAreNatural
<1>1. sizePipe' # <<>> /\ sizePipe'[Len(sizePipe')] = window
  <2>1. sizePipe \in Seq(1..(MaxResizes + 1)) /\ window \in 1..(MaxResizes + 1)
    BY DEF RelayTypeOK, PipeTypeOK
  <2>2. /\ Len(Append(sizePipe, window)) = Len(sizePipe) + 1
        /\ Append(sizePipe, window)[Len(sizePipe) + 1] = window
    BY <2>1, AppendProperties
  <2>3. Append(sizePipe, window) # <<>>
    BY <2>1, <2>2, LenProperties, EmptySeq
  <2> QED
    BY <2>2, <2>3
<1>2. conSize \in Nat /\ sent \in Nat /\ window \in Nat
  BY DEF RelayTypeOK, PipeTypeOK
<1> QED
  BY <1>1, <1>2 DEF SizesFollowWindow

\* Reading takes the newest size out of the pipe.
LEMMA ReadingSizes ==
    ASSUME RelayTypeOK, SizesFollowWindow, NEW apply \in BOOLEAN, ReadSize(apply),
           UNCHANGED <<window, sent>>, ~apply => console' = "ended"
    PROVE  SizesFollowWindow' /\ conSize <= conSize' /\ conSize' <= window
<1>1. /\ sizePipe' = <<>> /\ sent <= window /\ conSize <= sent
      /\ conSize' = IF apply THEN sent ELSE conSize
  BY DEF ReadSize, SizesFollowWindow
<1>2. conSize \in Nat /\ sent \in Nat /\ window \in Nat
  BY BoundsAreNatural DEF RelayTypeOK, PipeTypeOK
<1>3. conSize <= conSize' /\ conSize' <= sent
  BY <1>1, <1>2
<1>4. apply \/ console' = "ended"
  OBVIOUS
<1>5. conSize' <= sent' /\ sent' <= window'
  BY <1>1, <1>3
<1>6. sizePipe' = <<>> /\ console' # "ended" => conSize' = sent'
  BY <1>1, <1>4
<1>7. conSize' <= window
  BY <1>1, <1>2, <1>3
<1> QED
  BY <1>1, <1>3, <1>5, <1>6, <1>7 DEF SizesFollowWindow

\* Sizes stay in order on their way to the pseudoconsole.
LEMMA SizesStep ==
    ASSUME RelayInvariant, SizesFollowWindow, [RelayNext]_relayVars
    PROVE  SizesFollowWindow' /\ conSize <= conSize' /\ conSize' <= window
<1> USE DEF bridgeVars, hostVars, targetVars, outputVars, inputVars, sizeVars, relayVars
<1>a. /\ conSize \in Nat /\ sent \in Nat /\ window \in Nat
      /\ conSize <= sent /\ sent <= window
  BY BoundsAreNatural DEF RelayInvariant, RelayTypeOK, PipeTypeOK, SizesFollowWindow
<1>b. ASSUME UNCHANGED sizeVars, console = "ended" => console' = "ended"
      PROVE  SizesFollowWindow' /\ conSize <= conSize' /\ conSize' <= window
  BY <1>a, <1>b DEF SizesFollowWindow
<1>c. ASSUME sent' = window, sizePipe' = Append(sizePipe, window),
             UNCHANGED <<window, conSize>>
      PROVE  SizesFollowWindow' /\ conSize <= conSize' /\ conSize' <= window
  BY <1>a, <1>c, SendingSizes DEF RelayInvariant
<1>1. CASE Launch
  BY <1>1, <1>b DEF Launch
<1>2. CASE Connect
  BY <1>2, <1>b DEF Connect
<1>3. CASE Start
  <2>1. CASE UNCHANGED <<sent, sizePipe>>
    BY <1>3, <1>b, <2>1 DEF Start
  <2>2. CASE sent' = window /\ sizePipe' = Append(sizePipe, window)
    BY <1>3, <1>c, <2>2 DEF Start
  <2> QED
    BY <1>3, <2>1, <2>2 DEF Start
<1>4. CASE WaitForOutput
  BY <1>4, <1>b DEF WaitForOutput
<1>5. CASE StopResize
  BY <1>5, <1>b DEF StopResize
<1>6. CASE CancelInput
  BY <1>6, <1>b DEF CancelInput
<1>7. CASE JoinInput
  BY <1>7, <1>b DEF JoinInput
<1>8. CASE GiveUpOutput
  BY <1>8, <1>b DEF GiveUpOutput
<1>9. CASE JoinOutput
  BY <1>9, <1>b DEF JoinOutput
<1>10. CASE AwaitExit
  BY <1>10, <1>b DEF AwaitExit
<1>11. CASE OpenPipe
  BY <1>11, <1>b DEF OpenPipe, HostReturns
<1>12. CASE ReadInitialSize
  <2>1. CASE ReadSize(TRUE)
    BY <1>12, <2>1, ReadingSizes DEF ReadInitialSize, RelayInvariant
  <2>2. CASE UNCHANGED <<sizePipe, conSize>>
    BY <1>12, <1>b, <2>2 DEF ReadInitialSize
  <2> QED
    BY <1>12, <2>1, <2>2 DEF ReadInitialSize
<1>13. CASE CreateConsole
  <2>1. console = "none"
    BY <1>13 DEF CreateConsole, RelayInvariant, HostFollowsStep
  <2> QED
    BY <1>13, <1>b, <2>1 DEF CreateConsole
<1>14. CASE Spawn
  BY <1>14, <1>b DEF Spawn
<1>15. CASE WaitForTarget
  BY <1>15, <1>b DEF WaitForTarget
<1>16. CASE Terminate
  BY <1>16, <1>b DEF Terminate
<1>17. CASE CancelHostResize
  BY <1>17, <1>b DEF CancelHostResize
<1>18. CASE JoinHostResize
  BY <1>18, <1>b DEF JoinHostResize
<1>19. CASE CancelHostInput
  BY <1>19, <1>b DEF CancelHostInput
<1>20. CASE CloseConsole
  BY <1>20, <1>b DEF CloseConsole
<1>21. CASE JoinHostOutput
  BY <1>21, <1>b DEF JoinHostOutput, HostReturns
<1>22. CASE BridgeInputRelay
  BY <1>22, <1>b DEF BridgeInputRelay
<1>23. CASE BridgeOutputRelay
  BY <1>23, <1>b DEF BridgeOutputRelay
<1>24. CASE BridgeResizeRelay
  <2>1. CASE UNCHANGED <<sent, sizePipe>>
    BY <1>24, <1>b, <2>1 DEF BridgeResizeRelay
  <2>2. CASE sent' = window /\ sizePipe' = Append(sizePipe, window)
    BY <1>24, <1>c, <2>2 DEF BridgeResizeRelay
  <2> QED
    BY <1>24, <2>1, <2>2 DEF BridgeResizeRelay
<1>25. CASE HostInputRelay
  BY <1>25, <1>b DEF HostInputRelay
<1>26. CASE HostOutputRelay
  BY <1>26, <1>b DEF HostOutputRelay
<1>27. CASE HostResizeRelay
  <2>1. CASE ReadSize(console # "ended")
    <3>1. UNCHANGED <<window, sent, console>> /\ (console # "ended") \in BOOLEAN
      BY <1>27 DEF HostResizeRelay
    <3> QED
      BY <2>1, <3>1, ReadingSizes DEF RelayInvariant
  <2>2. CASE UNCHANGED <<sizePipe, conSize>>
    BY <1>27, <1>b, <2>2 DEF HostResizeRelay
  <2> QED
    BY <1>27, <2>1, <2>2 DEF HostResizeRelay
<1>28. CASE BrokerAnswers
  BY <1>28, <1>b DEF BrokerAnswers
<1>29. CASE BrokerTearsDown
  BY <1>29, <1>b DEF BrokerTearsDown, HostDies
<1>30. CASE TargetExits
  BY <1>30, <1>b DEF TargetExits
<1>31. CASE ConsoleEnds
  BY <1>31, <1>b DEF ConsoleEnds
<1>32. CASE StdinEnds
  BY <1>32, <1>b DEF StdinEnds
<1>33. CASE SessionIsKilled
  BY <1>33, <1>b DEF SessionIsKilled, HostDies
<1>34. CASE LauncherDies
  BY <1>34, <1>b DEF LauncherDies
<1>35. CASE TargetLeaves
  BY <1>35, <1>b DEF TargetLeaves
<1>36. CASE DescendantsLeave
  BY <1>36, <1>b DEF DescendantsLeave
<1>37. CASE Emit
  BY <1>37, <1>b DEF Emit
<1>38. CASE Type
  BY <1>38, <1>b DEF Type
<1>39. CASE ResizeWindow
  <2>1. window' = window + 1 /\ UNCHANGED <<sent, sizePipe, conSize, console>>
    BY <1>39 DEF ResizeWindow
  <2>2. sent <= window'
    BY <1>a, <2>1
  <2> QED
    BY <1>a, <2>1, <2>2 DEF SizesFollowWindow
<1>40. CASE UNCHANGED relayVars
  BY <1>40, <1>b
<1> QED
  BY <1>1, <1>2, <1>3, <1>4, <1>5, <1>6, <1>7, <1>8, <1>9, <1>10, <1>11, <1>12, <1>13, <1>14,
     <1>15, <1>16, <1>17, <1>18, <1>19, <1>20, <1>21, <1>22, <1>23, <1>24, <1>25, <1>26, <1>27,
     <1>28, <1>29, <1>30, <1>31, <1>32, <1>33, <1>34, <1>35, <1>36, <1>37, <1>38, <1>39, <1>40
     DEF RelayNext, SystemStep, Environment, BridgeStep, HostStep, RelayStep

\* The threads that carry sizes go on until an end of their pipe is closed.
LEMMA SizeRelaysStep ==
    ASSUME RelayInvariant, SizeRelaysRun, [RelayNext]_relayVars
    PROVE  SizeRelaysRun'
<1> USE DEF Pipes, BridgeRelays, HostRelays, bridgeVars, hostVars, targetVars, outputVars,
            inputVars, sizeVars, relayVars
<1>1. CASE Launch
  BY <1>1 DEF Launch, Return, RelayInvariant, RelayTypeOK, PipeTypeOK, HandlesOutliveRelays,
     BridgeFollowsStep, HostFollowsStep, SizeRelaysRun
<1>2. CASE Connect
  BY <1>2 DEF Connect, Return, RelayInvariant, RelayTypeOK, PipeTypeOK, HandlesOutliveRelays,
     BridgeFollowsStep, HostFollowsStep, SizeRelaysRun
<1>3. CASE Start
  BY <1>3 DEF Start, Return, RelayInvariant, RelayTypeOK, PipeTypeOK, HandlesOutliveRelays,
     BridgeFollowsStep, HostFollowsStep, SizeRelaysRun
<1>4. CASE WaitForOutput
  BY <1>4 DEF WaitForOutput, RelayInvariant, RelayTypeOK, PipeTypeOK, HandlesOutliveRelays,
     BridgeFollowsStep, HostFollowsStep, SizeRelaysRun
<1>5. CASE StopResize
  BY <1>5 DEF StopResize, RelayInvariant, RelayTypeOK, PipeTypeOK, HandlesOutliveRelays,
     BridgeFollowsStep, HostFollowsStep, SizeRelaysRun
<1>6. CASE CancelInput
  BY <1>6 DEF CancelInput, Cancelled, Turn, RelayInvariant, RelayTypeOK, PipeTypeOK,
     HandlesOutliveRelays, BridgeFollowsStep, HostFollowsStep, SizeRelaysRun
<1>7. CASE JoinInput
  BY <1>7 DEF JoinInput, RelayInvariant, RelayTypeOK, PipeTypeOK, HandlesOutliveRelays,
     BridgeFollowsStep, HostFollowsStep, SizeRelaysRun
<1>8. CASE GiveUpOutput
  BY <1>8 DEF GiveUpOutput, Turn, RelayInvariant, RelayTypeOK, PipeTypeOK, HandlesOutliveRelays,
     BridgeFollowsStep, HostFollowsStep, SizeRelaysRun
<1>9. CASE JoinOutput
  BY <1>9 DEF JoinOutput, Return, RelayInvariant, RelayTypeOK, PipeTypeOK, HandlesOutliveRelays,
     BridgeFollowsStep, HostFollowsStep, SizeRelaysRun
<1>10. CASE AwaitExit
  BY <1>10 DEF AwaitExit, Return, RelayInvariant, RelayTypeOK, PipeTypeOK, HandlesOutliveRelays,
     BridgeFollowsStep, HostFollowsStep, SizeRelaysRun
<1>11. CASE OpenPipe
  BY <1>11 DEF OpenPipe, HostReturns, RelayInvariant, RelayTypeOK, PipeTypeOK,
     HandlesOutliveRelays, BridgeFollowsStep, HostFollowsStep, SizeRelaysRun
<1>12. CASE ReadInitialSize
  BY <1>12 DEF ReadInitialSize, ReadSize, NoMoreSizes, HostReturns, RelayInvariant, RelayTypeOK,
     PipeTypeOK, HandlesOutliveRelays, BridgeFollowsStep, HostFollowsStep, SizeRelaysRun
<1>13. CASE CreateConsole
  BY <1>13 DEF CreateConsole, HostReturns, RelayInvariant, RelayTypeOK, PipeTypeOK,
     HandlesOutliveRelays, BridgeFollowsStep, HostFollowsStep, SizeRelaysRun
<1>14. CASE Spawn
  BY <1>14 DEF Spawn, RelayInvariant, RelayTypeOK, PipeTypeOK, HandlesOutliveRelays,
     BridgeFollowsStep, HostFollowsStep, SizeRelaysRun
<1>15. CASE WaitForTarget
  BY <1>15 DEF WaitForTarget, RelayInvariant, RelayTypeOK, PipeTypeOK, HandlesOutliveRelays,
     BridgeFollowsStep, HostFollowsStep, SizeRelaysRun
<1>16. CASE Terminate
  BY <1>16 DEF Terminate, RelayInvariant, RelayTypeOK, PipeTypeOK, HandlesOutliveRelays,
     BridgeFollowsStep, HostFollowsStep, SizeRelaysRun
<1>17. CASE CancelHostResize
  BY <1>17 DEF CancelHostResize, Cancelled, Turn, RelayInvariant, RelayTypeOK, PipeTypeOK,
     HandlesOutliveRelays, BridgeFollowsStep, HostFollowsStep, SizeRelaysRun
<1>18. CASE JoinHostResize
  BY <1>18 DEF JoinHostResize, RelayInvariant, RelayTypeOK, PipeTypeOK, HandlesOutliveRelays,
     BridgeFollowsStep, HostFollowsStep, SizeRelaysRun
<1>19. CASE CancelHostInput
  BY <1>19 DEF CancelHostInput, Cancelled, Turn, RelayInvariant, RelayTypeOK, PipeTypeOK,
     HandlesOutliveRelays, BridgeFollowsStep, HostFollowsStep, SizeRelaysRun
<1>20. CASE CloseConsole
  BY <1>20 DEF CloseConsole, RelayInvariant, RelayTypeOK, PipeTypeOK, HandlesOutliveRelays,
     BridgeFollowsStep, HostFollowsStep, SizeRelaysRun
<1>21. CASE JoinHostOutput
  BY <1>21 DEF JoinHostOutput, HostReturns, RelayInvariant, RelayTypeOK, PipeTypeOK,
     HandlesOutliveRelays, BridgeFollowsStep, HostFollowsStep, SizeRelaysRun
<1>22. CASE BridgeInputRelay
  BY <1>22 DEF BridgeInputRelay, Turn, StopRequested, RelayInvariant, RelayTypeOK, PipeTypeOK,
     HandlesOutliveRelays, BridgeFollowsStep, HostFollowsStep, SizeRelaysRun
<1>23. CASE BridgeOutputRelay
  BY <1>23 DEF BridgeOutputRelay, Turn, RelayInvariant, RelayTypeOK, PipeTypeOK,
     HandlesOutliveRelays, BridgeFollowsStep, HostFollowsStep, SizeRelaysRun
<1>24. CASE BridgeResizeRelay
  BY <1>24 DEF BridgeResizeRelay, Turn, RelayInvariant, RelayTypeOK, PipeTypeOK,
     HandlesOutliveRelays, BridgeFollowsStep, HostFollowsStep, SizeRelaysRun
<1>25. CASE HostInputRelay
  BY <1>25 DEF HostInputRelay, Turn, RelayInvariant, RelayTypeOK, PipeTypeOK,
     HandlesOutliveRelays, BridgeFollowsStep, HostFollowsStep, SizeRelaysRun
<1>26. CASE HostOutputRelay
  BY <1>26 DEF HostOutputRelay, Turn, RelayInvariant, RelayTypeOK, PipeTypeOK,
     HandlesOutliveRelays, BridgeFollowsStep, HostFollowsStep, SizeRelaysRun
<1>27. CASE HostResizeRelay
  BY <1>27 DEF HostResizeRelay, Turn, ReadSize, NoMoreSizes, RelayInvariant, RelayTypeOK,
     PipeTypeOK, HandlesOutliveRelays, BridgeFollowsStep, HostFollowsStep, SizeRelaysRun
<1>28. CASE BrokerAnswers
  BY <1>28 DEF BrokerAnswers, RelayInvariant, RelayTypeOK, PipeTypeOK, HandlesOutliveRelays,
     BridgeFollowsStep, HostFollowsStep, SizeRelaysRun
<1>29. CASE BrokerTearsDown
  BY <1>29 DEF BrokerTearsDown, HostDies, RelayInvariant, RelayTypeOK, PipeTypeOK,
     HandlesOutliveRelays, BridgeFollowsStep, HostFollowsStep, SizeRelaysRun
<1>30. CASE TargetExits
  BY <1>30 DEF TargetExits, RelayInvariant, RelayTypeOK, PipeTypeOK, HandlesOutliveRelays,
     BridgeFollowsStep, HostFollowsStep, SizeRelaysRun
<1>31. CASE ConsoleEnds
  BY <1>31 DEF ConsoleEnds, RelayInvariant, RelayTypeOK, PipeTypeOK, HandlesOutliveRelays,
     BridgeFollowsStep, HostFollowsStep, SizeRelaysRun
<1>32. CASE StdinEnds
  BY <1>32 DEF StdinEnds, Turn, RelayInvariant, RelayTypeOK, PipeTypeOK, HandlesOutliveRelays,
     BridgeFollowsStep, HostFollowsStep, SizeRelaysRun
<1>33. CASE SessionIsKilled
  BY <1>33 DEF SessionIsKilled, HostDies, RelayInvariant, RelayTypeOK, PipeTypeOK,
     HandlesOutliveRelays, BridgeFollowsStep, HostFollowsStep, SizeRelaysRun
<1>34. CASE LauncherDies
  BY <1>34 DEF LauncherDies, Return, RelayInvariant, RelayTypeOK, PipeTypeOK,
     HandlesOutliveRelays, BridgeFollowsStep, HostFollowsStep, SizeRelaysRun
<1>35. CASE TargetLeaves
  BY <1>35 DEF TargetLeaves, RelayInvariant, RelayTypeOK, PipeTypeOK, HandlesOutliveRelays,
     BridgeFollowsStep, HostFollowsStep, SizeRelaysRun
<1>36. CASE DescendantsLeave
  BY <1>36 DEF DescendantsLeave, RelayInvariant, RelayTypeOK, PipeTypeOK, HandlesOutliveRelays,
     BridgeFollowsStep, HostFollowsStep, SizeRelaysRun
<1>37. CASE Emit
  BY <1>37 DEF Emit, RelayInvariant, RelayTypeOK, PipeTypeOK, HandlesOutliveRelays,
     BridgeFollowsStep, HostFollowsStep, SizeRelaysRun
<1>38. CASE Type
  BY <1>38 DEF Type, RelayInvariant, RelayTypeOK, PipeTypeOK, HandlesOutliveRelays,
     BridgeFollowsStep, HostFollowsStep, SizeRelaysRun
<1>39. CASE ResizeWindow
  BY <1>39 DEF ResizeWindow, RelayInvariant, RelayTypeOK, PipeTypeOK, HandlesOutliveRelays,
     BridgeFollowsStep, HostFollowsStep, SizeRelaysRun
<1>40. CASE UNCHANGED relayVars
  BY <1>40 DEF RelayInvariant, RelayTypeOK, PipeTypeOK, HandlesOutliveRelays, BridgeFollowsStep,
     HostFollowsStep, SizeRelaysRun
<1> QED
  BY <1>1, <1>2, <1>3, <1>4, <1>5, <1>6, <1>7, <1>8, <1>9, <1>10, <1>11, <1>12, <1>13, <1>14,
     <1>15, <1>16, <1>17, <1>18, <1>19, <1>20, <1>21, <1>22, <1>23, <1>24, <1>25, <1>26, <1>27,
     <1>28, <1>29, <1>30, <1>31, <1>32, <1>33, <1>34, <1>35, <1>36, <1>37, <1>38, <1>39, <1>40
     DEF RelayNext, SystemStep, Environment, BridgeStep, HostStep, RelayStep

\* Both hold at the start and in every step.
LEMMA SizesAreCarried == RelaySpec => [](RelayInvariant /\ SizesFollowWindow /\ SizeRelaysRun)
<1>1. RelayInit => SizesFollowWindow /\ SizeRelaysRun
  BY DEF RelayInit, SizesFollowWindow, SizeRelaysRun
<1>2. /\ RelayInvariant /\ SizesFollowWindow /\ SizeRelaysRun /\ [RelayNext]_relayVars
      => SizesFollowWindow' /\ SizeRelaysRun'
  BY SizesStep, SizeRelaysStep
<1> QED
  BY InvariantHolds, <1>1, <1>2, PTL DEF RelaySpec

\* No order of changes, writes and reads leaves a running target with a size that is not the
\* window's and that nobody is about to bring up to date (RelaySizes, ReadTerminalSize).
THEOREM SizesStayUnderWay == RelaySpec => []SizesAreUnderWay
<1>1. RelayInvariant /\ SizesFollowWindow /\ SizeRelaysRun => SizesAreUnderWay
  <2> SUFFICES ASSUME RelayInvariant, SizesFollowWindow, SizeRelaysRun,
                      bridge = "relay", host = "wait", child = "running", conSize # window
               PROVE  \/ /\ window # sent /\ relay["bridgeResize"] = "code"
                         /\ "resize" \in hostEnds
                      \/ /\ sizePipe # <<>> /\ sizePipe[Len(sizePipe)] = window
                         /\ relay["hostResize"] \in {"code", "read"}
    BY DEF SizesAreUnderWay
  <2>1. console # "ended" /\ bridgeEnds = Pipes /\ "resize" \in hostEnds
    BY DEF RelayInvariant, HostFollowsStep, BridgeFollowsStep, SizeRelaysRun
  <2>2. relay["bridgeResize"] = "code" /\ relay["hostResize"] \in {"code", "read"}
    BY <2>1 DEF SizeRelaysRun, Pipes
  <2>3. CASE sent = window
    BY <2>1, <2>2, <2>3 DEF SizesFollowWindow
  <2> QED
    BY <2>1, <2>2, <2>3
<1> QED
  BY SizesAreCarried, <1>1, PTL

\* The sizes the pseudoconsole gets are sizes the window had, in the order it had them
\* (ReadTerminalSize keeps the last of those it finds).
THEOREM SizesKeepTheirOrder == RelaySpec => SizesGoForward
<1>1. /\ RelayInvariant /\ SizesFollowWindow /\ SizeRelaysRun /\ [RelayNext]_relayVars
      => conSize <= conSize' /\ conSize' <= window
  BY SizesStep
<1> QED
  BY SizesAreCarried, <1>1, PTL DEF RelaySpec, SizesGoForward
=============================================================================
