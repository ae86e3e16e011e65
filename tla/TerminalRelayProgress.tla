------------------------ MODULE TerminalRelayProgress ------------------------
(***************************************************************************)
(* Why a console session left alone comes to an end: every step of the     *)
(* system uses up some of a finite amount of work, and until the session   *)
(* is over one of its threads can go on.  Both hold for every size of the  *)
(* pipes and any amount of input, output and changes of the window.        *)
(***************************************************************************)
EXTENDS TerminalRelayProofs

\* The ranks of the steps, as numbers.
LEMMA Ranks ==
    /\ BridgeLeft["init"] = 12 /\ BridgeLeft["connect"] = 11 /\ BridgeLeft["start"] = 10
    /\ BridgeLeft["relay"] = 7 /\ BridgeLeft["stopResize"] = 6 /\ BridgeLeft["stopInput"] = 5
    /\ BridgeLeft["joinInput"] = 4 /\ BridgeLeft["stopOutput"] = 3
    /\ BridgeLeft["joinOutput"] = 2 /\ BridgeLeft["await"] = 1 /\ BridgeLeft["ended"] = 0
    /\ HostLeft["absent"] = 14 /\ HostLeft["open"] = 11 /\ HostLeft["size"] = 10
    /\ HostLeft["create"] = 9 /\ HostLeft["spawn"] = 8 /\ HostLeft["wait"] = 7
    /\ HostLeft["terminate"] = 6 /\ HostLeft["stopResize"] = 5 /\ HostLeft["joinResize"] = 4
    /\ HostLeft["stopInput"] = 3 /\ HostLeft["joinInput"] = 2 /\ HostLeft["joinOutput"] = 1
    /\ HostLeft["reported"] = 0 /\ HostLeft["exited"] = 0 /\ HostLeft["killed"] = 0
    /\ ConsoleLeft["none"] = 3 /\ ConsoleLeft["open"] = 2 /\ ConsoleLeft["closing"] = 1
    /\ ConsoleLeft["ended"] = 0
    /\ TurnsLeft["none"] = 3 /\ TurnsLeft["code"] = 2 /\ TurnsLeft["read"] = 1
    /\ TurnsLeft["done"] = 0
<1>1. /\ BridgeLeft["init"] = 12 /\ BridgeLeft["connect"] = 11 /\ BridgeLeft["start"] = 10
      /\ BridgeLeft["relay"] = 7 /\ BridgeLeft["stopResize"] = 6 /\ BridgeLeft["stopInput"] = 5
      /\ BridgeLeft["joinInput"] = 4 /\ BridgeLeft["stopOutput"] = 3
      /\ BridgeLeft["joinOutput"] = 2 /\ BridgeLeft["await"] = 1 /\ BridgeLeft["ended"] = 0
  BY DEF BridgeLeft
<1>2. /\ HostLeft["absent"] = 14 /\ HostLeft["open"] = 11 /\ HostLeft["size"] = 10
      /\ HostLeft["create"] = 9 /\ HostLeft["spawn"] = 8 /\ HostLeft["wait"] = 7
      /\ HostLeft["terminate"] = 6 /\ HostLeft["stopResize"] = 5 /\ HostLeft["joinResize"] = 4
      /\ HostLeft["stopInput"] = 3 /\ HostLeft["joinInput"] = 2 /\ HostLeft["joinOutput"] = 1
      /\ HostLeft["reported"] = 0 /\ HostLeft["exited"] = 0 /\ HostLeft["killed"] = 0
  BY DEF HostLeft
<1>3. /\ ConsoleLeft["none"] = 3 /\ ConsoleLeft["open"] = 2 /\ ConsoleLeft["closing"] = 1
      /\ ConsoleLeft["ended"] = 0
  BY DEF ConsoleLeft
<1>4. /\ TurnsLeft["none"] = 3 /\ TurnsLeft["code"] = 2 /\ TurnsLeft["read"] = 1
      /\ TurnsLeft["done"] = 0
  BY DEF TurnsLeft
<1> QED
  BY <1>1, <1>2, <1>3, <1>4

\* The terms of the measure are numbers.
LEMMA TermsAreNatural ==
    ASSUME RelayTypeOK
    PROVE  /\ BridgeLeft[bridge] \in Nat /\ HostLeft[host] \in Nat
           /\ ConsoleLeft[console] \in Nat
           /\ relay \in [BridgeRelays \cup HostRelays -> RelayStates]
           /\ TurnsLeft[relay["bridgeInput"]] \in Nat /\ TurnsLeft[relay["bridgeOutput"]] \in Nat
           /\ TurnsLeft[relay["bridgeResize"]] \in Nat /\ TurnsLeft[relay["hostInput"]] \in Nat
           /\ TurnsLeft[relay["hostOutput"]] \in Nat /\ TurnsLeft[relay["hostResize"]] \in Nat
           /\ Len(conOut) \in Nat /\ Len(outPipe) \in Nat /\ Len(sizePipe) \in Nat
           /\ stdin \in Nat /\ inputPipe \in Nat
<1>1. BridgeLeft[bridge] \in Nat /\ HostLeft[host] \in Nat /\ ConsoleLeft[console] \in Nat
  BY Ranks DEF RelayTypeOK, ControlTypeOK
<1>2. ASSUME NEW r \in BridgeRelays \cup HostRelays PROVE TurnsLeft[relay[r]] \in Nat
  <2>1. relay[r] \in RelayStates
    BY DEF RelayTypeOK, PipeTypeOK
  <2> QED
    BY <2>1, Ranks DEF RelayStates
<1>3. Len(conOut) \in Nat /\ Len(outPipe) \in Nat /\ Len(sizePipe) \in Nat
  BY LenProperties DEF RelayTypeOK, PipeTypeOK
<1>4. stdin \in Nat /\ inputPipe \in Nat
  BY BoundsAreNatural DEF RelayTypeOK, PipeTypeOK
<1>5. relay \in [BridgeRelays \cup HostRelays -> RelayStates]
  BY DEF RelayTypeOK, PipeTypeOK
<1>6. /\ TurnsLeft[relay["bridgeInput"]] \in Nat /\ TurnsLeft[relay["bridgeOutput"]] \in Nat
      /\ TurnsLeft[relay["bridgeResize"]] \in Nat /\ TurnsLeft[relay["hostInput"]] \in Nat
      /\ TurnsLeft[relay["hostOutput"]] \in Nat /\ TurnsLeft[relay["hostResize"]] \in Nat
  BY <1>2 DEF BridgeRelays, HostRelays
<1> QED
  BY <1>1, <1>3, <1>4, <1>5, <1>6

LEMMA WorkIsNatural ==
    RelayTypeOK => MainWork \in Nat /\ RelayWork \in Nat /\ PipeWork \in Nat
<1> SUFFICES ASSUME RelayTypeOK
             PROVE  MainWork \in Nat /\ RelayWork \in Nat /\ PipeWork \in Nat
  OBVIOUS
<1>a. /\ BridgeLeft[bridge] \in Nat /\ HostLeft[host] \in Nat
      /\ ConsoleLeft[console] \in Nat
  BY TermsAreNatural
<1>b. /\ TurnsLeft[relay["bridgeInput"]] \in Nat /\ TurnsLeft[relay["bridgeOutput"]] \in Nat
      /\ TurnsLeft[relay["bridgeResize"]] \in Nat /\ TurnsLeft[relay["hostInput"]] \in Nat
      /\ TurnsLeft[relay["hostOutput"]] \in Nat /\ TurnsLeft[relay["hostResize"]] \in Nat
  BY TermsAreNatural
<1>1. RelayWork \in Nat
  BY <1>b DEF RelayWork
<1>2. PipeWork \in Nat
  <2>1. /\ Len(conOut) \in Nat /\ Len(outPipe) \in Nat /\ Len(sizePipe) \in Nat
        /\ stdin \in Nat /\ inputPipe \in Nat
    BY TermsAreNatural
  <2> QED
    BY <2>1 DEF PipeWork, One
<1>3. MainWork \in Nat
  BY <1>a DEF MainWork, One
<1> QED
  BY <1>1, <1>2, <1>3

LEMMA WorkStaysNatural ==
    RelayTypeOK' => (MainWork \in Nat /\ RelayWork \in Nat /\ PipeWork \in Nat)'
  BY WorkIsNatural, PTL

\* Sums of three numbers.
LEMMA SumShrinks ==
    ASSUME NEW a \in Nat, NEW b \in Nat, NEW c \in Nat,
           NEW x \in Nat, NEW y \in Nat, NEW z \in Nat,
           \/ x < a /\ y <= b /\ z <= c
           \/ x = a /\ y + z < b + c
           \/ x = a /\ y = b /\ z < c
           \/ x + 2 < a /\ y <= b /\ z <= c + 2
    PROVE  x + y + z < a + b + c
OBVIOUS

\* A thread that turns to another state has so much less, or more, to do.
LEMMA TurnsCount ==
    ASSUME RelayTypeOK, NEW r \in BridgeRelays \cup HostRelays, NEW state \in RelayStates,
           Turn(r, state)
    PROVE  RelayWork' + TurnsLeft[relay[r]] = RelayWork + TurnsLeft[state]
<1>1. TurnsLeft[state] \in Nat
  BY Ranks DEF RelayStates
<1>2. \A q \in BridgeRelays \cup HostRelays :
          relay'[q] = IF q = r THEN state ELSE relay[q]
  BY TermsAreNatural DEF Turn
<1>3. /\ TurnsLeft[relay["bridgeInput"]] \in Nat /\ TurnsLeft[relay["bridgeOutput"]] \in Nat
      /\ TurnsLeft[relay["bridgeResize"]] \in Nat /\ TurnsLeft[relay["hostInput"]] \in Nat
      /\ TurnsLeft[relay["hostOutput"]] \in Nat /\ TurnsLeft[relay["hostResize"]] \in Nat
  BY TermsAreNatural
<1>4. /\ relay'["bridgeInput"] = IF r = "bridgeInput" THEN state ELSE relay["bridgeInput"]
      /\ relay'["bridgeOutput"] = IF r = "bridgeOutput" THEN state ELSE relay["bridgeOutput"]
      /\ relay'["bridgeResize"] = IF r = "bridgeResize" THEN state ELSE relay["bridgeResize"]
      /\ relay'["hostInput"] = IF r = "hostInput" THEN state ELSE relay["hostInput"]
      /\ relay'["hostOutput"] = IF r = "hostOutput" THEN state ELSE relay["hostOutput"]
      /\ relay'["hostResize"] = IF r = "hostResize" THEN state ELSE relay["hostResize"]
  BY <1>2 DEF BridgeRelays, HostRelays
<1>5. r \in {"bridgeInput", "bridgeOutput", "bridgeResize", "hostInput", "hostOutput", "hostResize"}
  BY DEF BridgeRelays, HostRelays
<1>6. CASE r = "bridgeInput"
  BY <1>1, <1>3, <1>4, <1>6 DEF RelayWork
<1>7. CASE r = "bridgeOutput"
  BY <1>1, <1>3, <1>4, <1>7 DEF RelayWork
<1>8. CASE r = "bridgeResize"
  BY <1>1, <1>3, <1>4, <1>8 DEF RelayWork
<1>9. CASE r = "hostInput"
  BY <1>1, <1>3, <1>4, <1>9 DEF RelayWork
<1>10. CASE r = "hostOutput"
  BY <1>1, <1>3, <1>4, <1>10 DEF RelayWork
<1>11. CASE r = "hostResize"
  BY <1>1, <1>3, <1>4, <1>11 DEF RelayWork
<1> QED
  BY <1>5, <1>6, <1>7, <1>8, <1>9, <1>10, <1>11

LEMMA WorkAddsUp ==
    ASSUME RelayTypeOK, RelayTypeOK',
           \/ MainWork' < MainWork /\ RelayWork' <= RelayWork /\ PipeWork' <= PipeWork
           \/ MainWork' = MainWork /\ RelayWork' + PipeWork' < RelayWork + PipeWork
           \/ MainWork' = MainWork /\ RelayWork' = RelayWork /\ PipeWork' < PipeWork
           \/ MainWork' + 2 < MainWork /\ RelayWork' <= RelayWork /\ PipeWork' <= PipeWork + 2
    PROVE  Work' < Work
<1>1. /\ MainWork \in Nat /\ RelayWork \in Nat /\ PipeWork \in Nat
      /\ MainWork' \in Nat /\ RelayWork' \in Nat /\ PipeWork' \in Nat
  BY WorkIsNatural, WorkStaysNatural
<1> QED
  BY <1>1, SumShrinks DEF Work

\* What a step leaves alone.
LEMMA UnchangedWork ==
    /\ UNCHANGED relay => RelayWork' = RelayWork
    /\ UNCHANGED <<outputVars, inputVars, sizeVars>> => PipeWork' = PipeWork
    /\ UNCHANGED <<bridge, host, console, hostEnds, child, answer>> => MainWork' = MainWork
<1>1. UNCHANGED relay => RelayWork' = RelayWork
  BY DEF RelayWork
<1>2. UNCHANGED <<outputVars, inputVars, sizeVars>> => PipeWork' = PipeWork
  BY DEF PipeWork, One, outputVars, inputVars, sizeVars
<1>3. UNCHANGED <<bridge, host, console, hostEnds, child, answer>> => MainWork' = MainWork
  BY DEF MainWork, One
<1> QED
  BY <1>1, <1>2, <1>3

LEMMA MainThreadsUseWork ==
    ASSUME RelayTypeOK, RelayTypeOK', MainWork' < MainWork, UNCHANGED relay,
           UNCHANGED <<outputVars, inputVars, sizeVars>>
    PROVE  Work' < Work
<1>1. /\ MainWork \in Nat /\ RelayWork \in Nat /\ PipeWork \in Nat
      /\ MainWork' \in Nat /\ RelayWork' \in Nat /\ PipeWork' \in Nat
  BY WorkIsNatural, WorkStaysNatural
<1>2. RelayWork' = RelayWork /\ PipeWork' = PipeWork
  BY UnchangedWork
<1> QED
  BY <1>1, <1>2, WorkAddsUp

\* Threads that start or end have no more to do than before.
LEMMA RelaysAdvance ==
    ASSUME RelayTypeOK, RelayTypeOK',
           \A r \in BridgeRelays \cup HostRelays :
               relay'[r] = relay[r] \/ relay[r] = "none" \/ relay'[r] = "done"
    PROVE  RelayWork' <= RelayWork
<1>1. \A r \in BridgeRelays \cup HostRelays :
          relay[r] \in RelayStates /\ relay'[r] \in RelayStates
  BY DEF RelayTypeOK, PipeTypeOK
<1>2. \A r \in BridgeRelays \cup HostRelays :
          /\ TurnsLeft[relay[r]] \in Nat
          /\ TurnsLeft[relay'[r]] \in 0..TurnsLeft[relay[r]]
  BY <1>1, Ranks DEF RelayStates
<1>3. /\ TurnsLeft[relay["bridgeInput"]] \in Nat /\ TurnsLeft[relay["bridgeOutput"]] \in Nat
      /\ TurnsLeft[relay["bridgeResize"]] \in Nat /\ TurnsLeft[relay["hostInput"]] \in Nat
      /\ TurnsLeft[relay["hostOutput"]] \in Nat /\ TurnsLeft[relay["hostResize"]] \in Nat
  BY TermsAreNatural
<1>4. /\ TurnsLeft[relay'["bridgeInput"]] \in 0..TurnsLeft[relay["bridgeInput"]]
      /\ TurnsLeft[relay'["bridgeOutput"]] \in 0..TurnsLeft[relay["bridgeOutput"]]
      /\ TurnsLeft[relay'["bridgeResize"]] \in 0..TurnsLeft[relay["bridgeResize"]]
      /\ TurnsLeft[relay'["hostInput"]] \in 0..TurnsLeft[relay["hostInput"]]
      /\ TurnsLeft[relay'["hostOutput"]] \in 0..TurnsLeft[relay["hostOutput"]]
      /\ TurnsLeft[relay'["hostResize"]] \in 0..TurnsLeft[relay["hostResize"]]
  BY <1>2 DEF BridgeRelays, HostRelays
<1> QED
  BY <1>3, <1>4 DEF RelayWork

LEMMA CancelAdvances ==
    ASSUME RelayTypeOK, RelayTypeOK', NEW r \in BridgeRelays \cup HostRelays,
           Turn(r, Cancelled(r))
    PROVE  RelayWork' <= RelayWork
<1>1. \A q \in BridgeRelays \cup HostRelays : relay'[q] = relay[q] \/ relay'[q] = "done"
  BY TermsAreNatural DEF Turn, Cancelled
<1> QED
  BY <1>1, RelaysAdvance

\* The launcher's main thread.
LEMMA BridgeStepsUseWork ==
    ASSUME RelayInvariant, RelayTypeOK', BridgeStep
    PROVE  Work' < Work
<1>a. RelayTypeOK /\ BridgeFollowsStep
  BY DEF RelayInvariant
<1>b. BridgeLeft[bridge] \in Nat /\ HostLeft[host] \in Nat /\ ConsoleLeft[console] \in Nat
  BY <1>a, TermsAreNatural
<1>e. /\ Len(conOut) \in Nat /\ Len(outPipe) \in Nat /\ Len(sizePipe) \in Nat
      /\ stdin \in Nat /\ inputPipe \in Nat
  BY <1>a, TermsAreNatural
<1>c. /\ MainWork \in Nat /\ RelayWork \in Nat /\ PipeWork \in Nat
      /\ MainWork' \in Nat /\ RelayWork' \in Nat /\ PipeWork' \in Nat
  BY <1>a, WorkIsNatural, WorkStaysNatural
<1>d. relay \in [BridgeRelays \cup HostRelays -> RelayStates]
  BY <1>a, TermsAreNatural
<1>1. CASE Launch
  <2>1. bridge = "init" /\ host = "absent"
    BY <1>1, <1>a DEF Launch, BridgeFollowsStep
  <2>2. /\ \/ bridge' = "connect" /\ host' = "open"
           \/ bridge' = "ended" /\ host' = host
        /\ UNCHANGED <<console, hostEnds, child, answer>>
    BY <1>1 DEF Launch, Return, targetVars
  <2>3. MainWork' < MainWork
    <3>1. CASE bridge' = "connect" /\ host' = "open"
      BY <2>1, <2>2, <3>1, <1>b, Ranks DEF MainWork, One
    <3>2. CASE bridge' = "ended" /\ host' = host
      BY <2>1, <2>2, <3>2, <1>b, Ranks DEF MainWork, One
    <3> QED
      BY <2>2, <3>1, <3>2
  <2> QED
    BY <1>1, <1>a, <2>3, MainThreadsUseWork DEF Launch
<1>2. CASE Connect
  <2>1. MainWork' < MainWork
    BY <1>2, <1>b, Ranks DEF Connect, MainWork, One, Return, hostVars, targetVars
  <2> QED
    BY <1>2, <1>a, <2>1, MainThreadsUseWork DEF Connect
<1>3. CASE Start
  <2>1. /\ bridge = "start" /\ bridge' \in {"relay", "stopResize", "ended"}
        /\ UNCHANGED <<host, console, hostEnds, child, answer>>
    BY <1>3 DEF Start, Return, hostVars, targetVars
  <2>2. MainWork' + 2 < MainWork
    <3>1. BridgeLeft[bridge'] \in Nat /\ BridgeLeft[bridge'] + 2 < BridgeLeft[bridge]
      BY <2>1, Ranks
    <3> QED
      BY <2>1, <3>1, <1>b DEF MainWork, One
  <2>3. RelayWork' <= RelayWork
    <3>1. \A r \in BridgeRelays \cup HostRelays : relay'[r] = relay[r] \/ relay[r] = "none"
      BY <1>3, <1>a, <1>d DEF Start, BridgeFollowsStep
    <3> QED
      BY <1>a, <3>1, RelaysAdvance
  <2>4. PipeWork' <= PipeWork + 2
    <3>1. UNCHANGED <<stdin, inputPipe, conOut, outPipe, window>>
      BY <1>3 DEF Start, outputVars, inputVars
    <3>2. CASE UNCHANGED <<sent, sizePipe>>
      BY <3>1, <3>2, <1>e DEF PipeWork, One
    <3>3. CASE sent' = window /\ sizePipe' = Append(sizePipe, window)
      <4>1. Len(sizePipe') = Len(sizePipe) + 1
        BY <3>3, <1>a, AppendProperties DEF RelayTypeOK, PipeTypeOK
      <4> QED
        BY <3>1, <3>3, <4>1, <1>e DEF PipeWork, One
    <3> QED
      BY <1>3, <3>2, <3>3 DEF Start
  <2> QED
    BY <1>a, <2>2, <2>3, <2>4, WorkAddsUp
<1>4. CASE WaitForOutput
  <2>1. MainWork' < MainWork
    BY <1>4, <1>b, Ranks DEF WaitForOutput, MainWork, One, hostVars, targetVars
  <2> QED
    BY <1>4, <1>a, <2>1, MainThreadsUseWork DEF WaitForOutput
<1>5. CASE StopResize
  <2>1. MainWork' < MainWork
    BY <1>5, <1>b, Ranks DEF StopResize, MainWork, One, hostVars, targetVars
  <2> QED
    BY <1>5, <1>a, <2>1, MainThreadsUseWork DEF StopResize
<1>6. CASE CancelInput
  <2>1. MainWork' < MainWork
    BY <1>6, <1>b, Ranks DEF CancelInput, MainWork, One, hostVars, targetVars
  <2>2. RelayWork' <= RelayWork
    BY <1>6, <1>a, CancelAdvances DEF CancelInput, BridgeRelays
  <2>3. PipeWork' <= PipeWork
    BY <1>6, <1>c, UnchangedWork DEF CancelInput
  <2> QED
    BY <1>a, <2>1, <2>2, <2>3, WorkAddsUp
<1>7. CASE JoinInput
  <2>1. MainWork' < MainWork
    BY <1>7, <1>b, Ranks DEF JoinInput, MainWork, One, hostVars, targetVars
  <2> QED
    BY <1>7, <1>a, <2>1, MainThreadsUseWork DEF JoinInput
<1>8. CASE GiveUpOutput
  <2>1. /\ bridge = "stopOutput" /\ bridge' = "joinOutput" /\ host # "open"
        /\ UNCHANGED <<host, console, child, answer>>
    BY <1>8, <1>a DEF GiveUpOutput, BridgeFollowsStep, hostVars, targetVars
  <2>2. MainWork' < MainWork
    BY <2>1, <1>b, Ranks DEF MainWork, One
  <2>3. RelayWork' <= RelayWork
    <3>1. PICK state \in {"read", "done"} : Turn("bridgeOutput", state)
      BY <1>8 DEF GiveUpOutput
    <3>2. relay["bridgeOutput"] \in {"code", "read"}
      BY <1>8, <1>d DEF GiveUpOutput, Ended, RelayStates, BridgeRelays
    <3>3. RelayWork' + TurnsLeft[relay["bridgeOutput"]] = RelayWork + TurnsLeft[state]
      BY <3>1, <1>a, TurnsCount DEF RelayStates, BridgeRelays
    <3> QED
      BY <1>c, <3>1, <3>2, <3>3, Ranks
  <2>4. PipeWork' <= PipeWork
    <3>1. UNCHANGED <<stdin, inputPipe, conOut, window, sent, sizePipe>> /\ outPipe' = <<>>
      BY <1>8 DEF GiveUpOutput, inputVars, sizeVars
    <3>2. Len(outPipe') = 0
      BY <3>1
    <3> QED
      BY <3>1, <3>2, <1>e DEF PipeWork, One
  <2> QED
    BY <1>a, <2>2, <2>3, <2>4, WorkAddsUp
<1>9. CASE JoinOutput
  <2>1. MainWork' < MainWork
    BY <1>9, <1>b, Ranks DEF JoinOutput, MainWork, One, Return, hostVars, targetVars
  <2> QED
    BY <1>9, <1>a, <2>1, MainThreadsUseWork DEF JoinOutput
<1>10. CASE AwaitExit
  <2>1. MainWork' < MainWork
    BY <1>10, <1>b, Ranks DEF AwaitExit, MainWork, One, Return, hostVars, targetVars
  <2> QED
    BY <1>10, <1>a, <2>1, MainThreadsUseWork DEF AwaitExit
<1> QED
  BY <1>1, <1>2, <1>3, <1>4, <1>5, <1>6, <1>7, <1>8, <1>9, <1>10 DEF BridgeStep

\* The host's main thread.
LEMMA HostStepsUseWork ==
    ASSUME RelayInvariant, RelayTypeOK', HostStep
    PROVE  Work' < Work
<1>a. RelayTypeOK /\ HostFollowsStep
  BY DEF RelayInvariant
<1>b. BridgeLeft[bridge] \in Nat /\ HostLeft[host] \in Nat /\ ConsoleLeft[console] \in Nat
  BY <1>a, TermsAreNatural
<1>e. /\ Len(conOut) \in Nat /\ Len(outPipe) \in Nat /\ Len(sizePipe) \in Nat
      /\ stdin \in Nat /\ inputPipe \in Nat
  BY <1>a, TermsAreNatural
<1>c. /\ MainWork \in Nat /\ RelayWork \in Nat /\ PipeWork \in Nat
      /\ MainWork' \in Nat /\ RelayWork' \in Nat /\ PipeWork' \in Nat
  BY <1>a, WorkIsNatural, WorkStaysNatural
<1>d. relay \in [BridgeRelays \cup HostRelays -> RelayStates]
  BY <1>a, TermsAreNatural
<1>1. CASE OpenPipe
  <2>1. MainWork' < MainWork
    BY <1>1, <1>b, Ranks DEF OpenPipe, MainWork, One, HostReturns, Pipes, bridgeVars, targetVars
  <2> QED
    BY <1>1, <1>a, <2>1, MainThreadsUseWork DEF OpenPipe
<1>2. CASE ReadInitialSize
  <2>1. /\ host = "size" /\ host' \in {"create", "exited"}
        /\ UNCHANGED <<bridge, console, child, answer>>
    BY <1>2 DEF ReadInitialSize, HostReturns, bridgeVars, targetVars
  <2>2. MainWork' < MainWork
    <3>1. HostLeft[host'] \in Nat /\ HostLeft[host'] < HostLeft[host]
      BY <2>1, Ranks
    <3> QED
      BY <2>1, <3>1, <1>b DEF MainWork, One
  <2>3. RelayWork' <= RelayWork
    BY <1>2, <1>c, UnchangedWork DEF ReadInitialSize
  <2>4. PipeWork' <= PipeWork
    <3>1. /\ UNCHANGED <<stdin, inputPipe, conOut, outPipe, window, sent>>
          /\ sizePipe' = sizePipe \/ sizePipe' = <<>>
      BY <1>2 DEF ReadInitialSize, ReadSize, outputVars, inputVars
    <3>2. Len(sizePipe') \in 0..Len(sizePipe)
      BY <3>1, <1>e
    <3> QED
      BY <3>1, <3>2, <1>e DEF PipeWork, One
  <2> QED
    BY <1>a, <2>2, <2>3, <2>4, WorkAddsUp
<1>3. CASE CreateConsole
  <2>1. /\ host = "create" /\ console = "none"
        /\ \/ host' \in {"spawn", "stopResize"} /\ console' = "open"
           \/ host' = "exited" /\ console' = console
        /\ UNCHANGED <<bridge, child, answer>>
    BY <1>3, <1>a DEF CreateConsole, HostReturns, HostFollowsStep, bridgeVars, targetVars
  <2>2. MainWork' < MainWork
    <3>1. /\ HostLeft[host'] \in Nat /\ HostLeft[host'] < HostLeft[host]
          /\ ConsoleLeft[console'] \in 0..ConsoleLeft[console]
      BY <2>1, Ranks
    <3> QED
      BY <2>1, <3>1, <1>b DEF MainWork, One
  <2>3. RelayWork' <= RelayWork
    <3>1. \A r \in BridgeRelays \cup HostRelays : relay'[r] = relay[r] \/ relay[r] = "none"
      BY <1>3, <1>a, <1>d DEF CreateConsole, HostFollowsStep
    <3> QED
      BY <1>a, <3>1, RelaysAdvance
  <2>4. PipeWork' <= PipeWork
    BY <1>3, <1>c, UnchangedWork DEF CreateConsole
  <2> QED
    BY <1>a, <2>2, <2>3, <2>4, WorkAddsUp
<1>4. CASE Spawn
  <2>1. MainWork' < MainWork
    BY <1>4, <1>b, Ranks DEF Spawn, MainWork, One, bridgeVars, targetVars
  <2> QED
    BY <1>4, <1>a, <2>1, MainThreadsUseWork DEF Spawn
<1>5. CASE WaitForTarget
  <2>1. MainWork' < MainWork
    BY <1>5, <1>b, Ranks DEF WaitForTarget, MainWork, One, bridgeVars, targetVars
  <2> QED
    BY <1>5, <1>a, <2>1, MainThreadsUseWork DEF WaitForTarget
<1>6. CASE Terminate
  <2>1. MainWork' < MainWork
    BY <1>6, <1>b, Ranks DEF Terminate, MainWork, One, bridgeVars
  <2> QED
    BY <1>6, <1>a, <2>1, MainThreadsUseWork DEF Terminate
<1>7. CASE CancelHostResize
  <2>1. MainWork' < MainWork
    BY <1>7, <1>b, Ranks DEF CancelHostResize, MainWork, One, bridgeVars, targetVars
  <2>2. RelayWork' <= RelayWork
    BY <1>7, <1>a, CancelAdvances DEF CancelHostResize, HostRelays
  <2>3. PipeWork' <= PipeWork
    BY <1>7, <1>c, UnchangedWork DEF CancelHostResize
  <2> QED
    BY <1>a, <2>1, <2>2, <2>3, WorkAddsUp
<1>8. CASE JoinHostResize
  <2>1. MainWork' < MainWork
    BY <1>8, <1>b, Ranks DEF JoinHostResize, MainWork, One, bridgeVars, targetVars
  <2> QED
    BY <1>8, <1>a, <2>1, MainThreadsUseWork DEF JoinHostResize
<1>9. CASE CancelHostInput
  <2>1. MainWork' < MainWork
    BY <1>9, <1>b, Ranks DEF CancelHostInput, MainWork, One, bridgeVars, targetVars
  <2>2. RelayWork' <= RelayWork
    BY <1>9, <1>a, CancelAdvances DEF CancelHostInput, HostRelays
  <2>3. PipeWork' <= PipeWork
    BY <1>9, <1>c, UnchangedWork DEF CancelHostInput
  <2> QED
    BY <1>a, <2>1, <2>2, <2>3, WorkAddsUp
<1>10. CASE CloseConsole
  <2>1. MainWork' < MainWork
    BY <1>10, <1>b, Ranks DEF CloseConsole, MainWork, One, bridgeVars, targetVars
  <2> QED
    BY <1>10, <1>a, <2>1, MainThreadsUseWork DEF CloseConsole
<1>11. CASE JoinHostOutput
  <2>1. MainWork' < MainWork
    BY <1>11, <1>b, Ranks DEF JoinHostOutput, MainWork, One, HostReturns, bridgeVars, targetVars
  <2> QED
    BY <1>11, <1>a, <2>1, MainThreadsUseWork DEF JoinHostOutput
<1> QED
  BY <1>1, <1>2, <1>3, <1>4, <1>5, <1>6, <1>7, <1>8, <1>9, <1>10, <1>11 DEF HostStep

\* The broker, the target and the pseudoconsole.
LEMMA OtherStepsUseWork ==
    ASSUME RelayInvariant, RelayTypeOK',
           BrokerAnswers \/ BrokerTearsDown \/ TargetExits \/ ConsoleEnds
    PROVE  Work' < Work
<1>a. RelayTypeOK
  BY DEF RelayInvariant
<1>b. BridgeLeft[bridge] \in Nat /\ HostLeft[host] \in Nat /\ ConsoleLeft[console] \in Nat
  BY <1>a, TermsAreNatural
<1>c. /\ MainWork \in Nat /\ RelayWork \in Nat /\ PipeWork \in Nat
      /\ MainWork' \in Nat /\ RelayWork' \in Nat /\ PipeWork' \in Nat
  BY <1>a, WorkIsNatural, WorkStaysNatural
<1>1. CASE BrokerAnswers
  <2>1. MainWork' < MainWork
    BY <1>1, <1>b, Ranks DEF BrokerAnswers, MainWork, One, bridgeVars, hostVars, targetVars
  <2> QED
    BY <1>1, <1>a, <2>1, MainThreadsUseWork DEF BrokerAnswers
<1>2. CASE BrokerTearsDown
  <2>1. MainWork' < MainWork
    <3>1. /\ UNCHANGED <<bridge, answer>> /\ host' = "killed" /\ console' = "ended"
          /\ child' = "leaving" => child = "leaving"
      BY <1>2 DEF BrokerTearsDown, HostDies, bridgeVars
    <3>2. /\ HostLeft[host'] \in Nat /\ HostLeft[host'] < HostLeft[host]
          /\ ConsoleLeft[console'] \in 0..ConsoleLeft[console]
      BY <1>2, <1>a, <1>b, <3>1, Ranks DEF BrokerTearsDown, HostLives, RelayTypeOK, ControlTypeOK
    <3> QED
      BY <3>1, <3>2, <1>b DEF MainWork, One
  <2>2. RelayWork' <= RelayWork
    <3>1. \A r \in BridgeRelays \cup HostRelays : relay'[r] = relay[r] \/ relay'[r] = "done"
      BY <1>2, <1>a, TermsAreNatural DEF BrokerTearsDown, HostDies
    <3> QED
      BY <1>a, <3>1, RelaysAdvance
  <2>3. PipeWork' <= PipeWork
    BY <1>2, <1>c, UnchangedWork DEF BrokerTearsDown, HostDies
  <2> QED
    BY <1>a, <2>1, <2>2, <2>3, WorkAddsUp
<1>3. CASE TargetExits
  <2>1. MainWork' < MainWork
    BY <1>3, <1>b, Ranks DEF TargetExits, MainWork, One, bridgeVars, hostVars
  <2> QED
    BY <1>3, <1>a, <2>1, MainThreadsUseWork DEF TargetExits
<1>4. CASE ConsoleEnds
  <2>1. MainWork' < MainWork
    BY <1>4, <1>b, Ranks DEF ConsoleEnds, MainWork, One, bridgeVars, hostVars, targetVars
  <2> QED
    BY <1>4, <1>a, <2>1, MainThreadsUseWork DEF ConsoleEnds
<1> QED
  BY <1>1, <1>2, <1>3, <1>4

\* Two sums, of which the first loses a turn, or gains one that the second pays for.
LEMMA TurnIsPaid ==
    ASSUME NEW b \in Nat, NEW c \in Nat, NEW y \in Nat, NEW z \in Nat,
           NEW t \in Nat, NEW s \in Nat, y + t = b + s,
           \/ z = c /\ s < t
           \/ z + 2 <= c /\ s <= t + 1
    PROVE  y + z < b + c
OBVIOUS

\* A relay's turn uses up work when the pipes lose nothing and it comes closer to its end, or
\* when it starts over for what it has taken from a pipe.
LEMMA TurnsUseWork ==
    ASSUME RelayTypeOK, RelayTypeOK', MainWork' = MainWork,
           NEW r \in BridgeRelays \cup HostRelays, NEW state \in RelayStates, Turn(r, state),
           \/ PipeWork' = PipeWork /\ TurnsLeft[state] < TurnsLeft[relay[r]]
           \/ PipeWork' + 2 <= PipeWork /\ TurnsLeft[state] <= TurnsLeft[relay[r]] + 1
    PROVE  Work' < Work
<1>1. /\ RelayWork \in Nat /\ PipeWork \in Nat
      /\ RelayWork' \in Nat /\ PipeWork' \in Nat
  BY WorkIsNatural, WorkStaysNatural
<1>2. TurnsLeft[state] \in Nat /\ TurnsLeft[relay[r]] \in Nat
  <2>1. relay[r] \in RelayStates
    BY TermsAreNatural
  <2> QED
    BY <2>1, Ranks DEF RelayStates
<1>3. RelayWork' + TurnsLeft[relay[r]] = RelayWork + TurnsLeft[state]
  BY TurnsCount
<1>4. RelayWork' + PipeWork' < RelayWork + PipeWork
  BY <1>1, <1>2, <1>3, TurnIsPaid
<1> QED
  BY <1>4, WorkAddsUp

\* A relay that hands on what it has read, and reads on, uses up work in the pipes.
LEMMA PipesUseWork ==
    ASSUME RelayTypeOK, RelayTypeOK', MainWork' = MainWork, UNCHANGED relay,
           PipeWork' < PipeWork
    PROVE  Work' < Work
<1>1. RelayWork' = RelayWork
  BY UnchangedWork
<1> QED
  BY <1>1, WorkAddsUp

\* The relay threads: what one takes from a pipe is worth more than its own next turn and what
\* it hands on.
LEMMA RelayStepsUseWork ==
    ASSUME RelayInvariant, RelayTypeOK', RelayStep
    PROVE  Work' < Work
<1>a. RelayTypeOK
  BY DEF RelayInvariant
<1>b. Len(conOut) \in Nat /\ Len(outPipe) \in Nat /\ Len(sizePipe) \in Nat
  BY <1>a, TermsAreNatural
<1>c. stdin \in Nat /\ inputPipe \in Nat
  BY <1>a, TermsAreNatural
<1>d. TurnsLeft["code"] = 2 /\ TurnsLeft["read"] = 1 /\ TurnsLeft["done"] = 0
  BY Ranks
<1>e. /\ conOut \in Seq(1..MaxOutput) /\ outPipe \in Seq(1..MaxOutput)
      /\ sizePipe \in Seq(1..(MaxResizes + 1)) /\ window \in 1..(MaxResizes + 1)
  BY <1>a DEF RelayTypeOK, PipeTypeOK
<1>1. CASE BridgeInputRelay
  <2>1. MainWork' = MainWork
    BY <1>1, UnchangedWork DEF BridgeInputRelay, bridgeVars, hostVars, targetVars
  <2>2. UNCHANGED <<conOut, outPipe, window, sent, sizePipe>>
    BY <1>1 DEF BridgeInputRelay, outputVars, sizeVars
  <2>3. ASSUME NEW state \in {"read", "done"}, relay["bridgeInput"] = "code",
               Turn("bridgeInput", state), UNCHANGED <<stdin, inputPipe>>
        PROVE  Work' < Work
    <3>1. PipeWork' = PipeWork
      BY <2>2, <2>3 DEF PipeWork, One
    <3> QED
      BY <1>a, <1>d, <2>1, <2>3, <3>1, TurnsUseWork DEF RelayStates, BridgeRelays
  <2>4. ASSUME NEW state \in {"code", "done"}, relay["bridgeInput"] \in {"code", "read"},
               Turn("bridgeInput", state), stdin' = stdin - 1,
               inputPipe' = inputPipe \/ inputPipe' = inputPipe + 1
        PROVE  Work' < Work
    <3>1. PipeWork' + 2 <= PipeWork
      <4>1. CASE inputPipe' = inputPipe
        BY <2>2, <2>4, <4>1, <1>b, <1>c DEF PipeWork, One
      <4>2. CASE inputPipe' = inputPipe + 1
        BY <2>2, <2>4, <4>2, <1>b, <1>c DEF PipeWork, One
      <4> QED
        BY <2>4, <4>1, <4>2
    <3>2. TurnsLeft[state] <= TurnsLeft[relay["bridgeInput"]] + 1
      BY <1>d, <2>4
    <3> QED
      BY <1>a, <2>1, <2>4, <3>1, <3>2, TurnsUseWork DEF RelayStates, BridgeRelays
  <2> QED
    BY <1>1, <2>3, <2>4 DEF BridgeInputRelay
<1>2. CASE BridgeOutputRelay
  <2>1. MainWork' = MainWork
    BY <1>2, UnchangedWork DEF BridgeOutputRelay, bridgeVars, hostVars, targetVars
  <2>2. UNCHANGED <<stdin, inputPipe, conOut, window, sent, sizePipe>>
    BY <1>2 DEF BridgeOutputRelay, inputVars, sizeVars
  <2>3. CASE outPipe # <<>> /\ outPipe' = Tail(outPipe) /\ UNCHANGED relay
    <3>1. Len(outPipe') = Len(outPipe) - 1
      BY <2>3, <1>e, HeadTailProperties
    <3>2. PipeWork' < PipeWork
      BY <2>2, <3>1, <1>b, <1>c DEF PipeWork, One
    <3> QED
      BY <1>a, <2>1, <2>3, <3>2, PipesUseWork
  <2>4. CASE /\ relay["bridgeOutput"] = "read" /\ UNCHANGED outPipe
             /\ Turn("bridgeOutput", "done")
    <3>1. PipeWork' = PipeWork
      BY <2>2, <2>4 DEF PipeWork, One
    <3> QED
      BY <1>a, <1>d, <2>1, <2>4, <3>1, TurnsUseWork DEF RelayStates, BridgeRelays
  <2> QED
    BY <1>2, <2>3, <2>4 DEF BridgeOutputRelay
<1>3. CASE BridgeResizeRelay
  <2>1. MainWork' = MainWork
    BY <1>3, UnchangedWork DEF BridgeResizeRelay, bridgeVars, hostVars, targetVars
  <2>2. UNCHANGED <<stdin, inputPipe, conOut, outPipe, window>>
    BY <1>3 DEF BridgeResizeRelay, outputVars, inputVars
  <2>3. CASE /\ relay["bridgeResize"] = "code" /\ UNCHANGED <<sent, sizePipe>>
             /\ Turn("bridgeResize", "done")
    <3>1. PipeWork' = PipeWork
      BY <2>2, <2>3 DEF PipeWork, One
    <3> QED
      BY <1>a, <1>d, <2>1, <2>3, <3>1, TurnsUseWork DEF RelayStates, BridgeRelays
  <2>4. CASE /\ window # sent /\ sent' = window /\ sizePipe' = Append(sizePipe, window)
             /\ UNCHANGED relay
    <3>1. Len(sizePipe') = Len(sizePipe) + 1
      BY <2>4, <1>e, AppendProperties
    <3>2. PipeWork' < PipeWork
      BY <2>2, <2>4, <3>1, <1>b, <1>c DEF PipeWork, One
    <3> QED
      BY <1>a, <2>1, <2>4, <3>2, PipesUseWork
  <2> QED
    BY <1>3, <2>3, <2>4 DEF BridgeResizeRelay
<1>4. CASE HostInputRelay
  <2>1. MainWork' = MainWork
    BY <1>4, UnchangedWork DEF HostInputRelay, bridgeVars, targetVars
  <2>2. UNCHANGED <<stdin, conOut, outPipe, window, sent, sizePipe>>
    BY <1>4 DEF HostInputRelay, outputVars, sizeVars
  <2>3. CASE /\ relay["hostInput"] = "code" /\ UNCHANGED inputPipe /\ Turn("hostInput", "read")
    <3>1. PipeWork' = PipeWork
      BY <2>2, <2>3 DEF PipeWork, One
    <3> QED
      BY <1>a, <1>d, <2>1, <2>3, <3>1, TurnsUseWork DEF RelayStates, HostRelays
  <2>4. ASSUME NEW state \in {"code", "done"}, relay["hostInput"] = "read",
               Turn("hostInput", state), inputPipe' = inputPipe - 1
        PROVE  Work' < Work
    <3>1. PipeWork' + 2 <= PipeWork
      BY <2>2, <2>4, <1>b, <1>c DEF PipeWork, One
    <3>2. TurnsLeft[state] <= TurnsLeft[relay["hostInput"]] + 1
      BY <1>d, <2>4
    <3> QED
      BY <1>a, <2>1, <2>4, <3>1, <3>2, TurnsUseWork DEF RelayStates, HostRelays
  <2>5. CASE /\ relay["hostInput"] = "read" /\ UNCHANGED inputPipe /\ Turn("hostInput", "done")
    <3>1. PipeWork' = PipeWork
      BY <2>2, <2>5 DEF PipeWork, One
    <3> QED
      BY <1>a, <1>d, <2>1, <2>5, <3>1, TurnsUseWork DEF RelayStates, HostRelays
  <2> QED
    BY <1>4, <2>3, <2>4, <2>5 DEF HostInputRelay
<1>5. CASE HostOutputRelay
  <2>1. MainWork' = MainWork
    BY <1>5, UnchangedWork DEF HostOutputRelay, bridgeVars, hostVars, targetVars
  <2>2. UNCHANGED <<stdin, inputPipe, window, sent, sizePipe>>
    BY <1>5 DEF HostOutputRelay, inputVars, sizeVars
  <2>3. CASE /\ conOut # <<>> /\ conOut' = Tail(conOut) /\ UNCHANGED relay
             /\ outPipe' = Append(outPipe, Head(conOut)) \/ UNCHANGED outPipe
    <3>1. Len(conOut') = Len(conOut) - 1 /\ Head(conOut) \in 1..MaxOutput
      BY <2>3, <1>e, HeadTailProperties
    <3>2. Len(outPipe') = Len(outPipe) + 1 \/ Len(outPipe') = Len(outPipe)
      BY <2>3, <3>1, <1>e, AppendProperties
    <3>3. PipeWork' < PipeWork
      BY <2>2, <3>1, <3>2, <1>b, <1>c DEF PipeWork, One
    <3> QED
      BY <1>a, <2>1, <2>3, <3>3, PipesUseWork
  <2>4. CASE /\ relay["hostOutput"] = "read" /\ UNCHANGED <<conOut, outPipe>>
             /\ Turn("hostOutput", "done")
    <3>1. PipeWork' = PipeWork
      BY <2>2, <2>4 DEF PipeWork, One
    <3> QED
      BY <1>a, <1>d, <2>1, <2>4, <3>1, TurnsUseWork DEF RelayStates, HostRelays
  <2> QED
    BY <1>5, <2>3, <2>4 DEF HostOutputRelay
<1>6. CASE HostResizeRelay
  <2>1. MainWork' = MainWork
    BY <1>6, UnchangedWork DEF HostResizeRelay, bridgeVars, hostVars, targetVars
  <2>2. UNCHANGED <<stdin, inputPipe, conOut, outPipe, window, sent>>
    BY <1>6 DEF HostResizeRelay, outputVars, inputVars
  <2>3. ASSUME NEW state \in {"read", "done"}, UNCHANGED sizePipe, Turn("hostResize", state),
               \/ relay["hostResize"] = "code"
               \/ relay["hostResize"] = "read" /\ state = "done"
        PROVE  Work' < Work
    <3>1. PipeWork' = PipeWork
      BY <2>2, <2>3 DEF PipeWork, One
    <3>2. TurnsLeft[state] < TurnsLeft[relay["hostResize"]]
      BY <1>d, <2>3
    <3> QED
      BY <1>a, <2>1, <2>3, <3>1, <3>2, TurnsUseWork DEF RelayStates, HostRelays
  <2>4. ASSUME NEW state \in {"code", "done"}, relay["hostResize"] = "read",
               Turn("hostResize", state), sizePipe # <<>>, sizePipe' = <<>>
        PROVE  Work' < Work
    <3>1. Len(sizePipe') = 0
      BY <2>4
    <3>2. Len(sizePipe) >= 1
      BY <2>4, <1>b, <1>e, EmptySeq
    <3>3. PipeWork' + 2 <= PipeWork
      BY <2>2, <3>1, <3>2, <1>b, <1>c DEF PipeWork, One
    <3>4. TurnsLeft[state] <= TurnsLeft[relay["hostResize"]] + 1
      BY <1>d, <2>4
    <3> QED
      BY <1>a, <2>1, <2>4, <3>3, <3>4, TurnsUseWork DEF RelayStates, HostRelays
  <2> QED
    BY <1>6, <2>3, <2>4 DEF HostResizeRelay, ReadSize
<1> QED
  BY <1>1, <1>2, <1>3, <1>4, <1>5, <1>6 DEF RelayStep

\* Any step of the system.
LEMMA SystemStepsUseWork ==
    ASSUME RelayInvariant, RelayTypeOK', SystemStep
    PROVE  Work' < Work
BY BridgeStepsUseWork, HostStepsUseWork, RelayStepsUseWork, OtherStepsUseWork DEF SystemStep

\* Sums of three numbers, of which one grows by at most four.
LEMMA SumGrows ==
    ASSUME NEW a \in Nat, NEW b \in Nat, NEW c \in Nat,
           NEW x \in Nat, NEW y \in Nat, NEW z \in Nat,
           \/ x <= a /\ y <= b /\ z <= c + 4
           \/ x <= a + 1 /\ y = b /\ z = c
    PROVE  x + y + z <= a + b + c + 4
OBVIOUS

LEMMA WorkGrowsBy ==
    ASSUME RelayTypeOK, RelayTypeOK',
           \/ MainWork' <= MainWork /\ RelayWork' <= RelayWork /\ PipeWork' <= PipeWork + 4
           \/ MainWork' <= MainWork + 1 /\ RelayWork' = RelayWork /\ PipeWork' = PipeWork
    PROVE  Work' <= Work + 4
<1>1. /\ MainWork \in Nat /\ RelayWork \in Nat /\ PipeWork \in Nat
      /\ MainWork' \in Nat /\ RelayWork' \in Nat /\ PipeWork' \in Nat
  BY WorkIsNatural, WorkStaysNatural
<1> QED
  BY <1>1, SumGrows DEF Work

\* What the user, the target and a fault add.
LEMMA EnvironmentAddsLittle ==
    ASSUME RelayInvariant, RelayTypeOK', Environment
    PROVE  Work' <= Work + 4
<1>a. RelayTypeOK
  BY DEF RelayInvariant
<1>b. BridgeLeft[bridge] \in Nat /\ HostLeft[host] \in Nat /\ ConsoleLeft[console] \in Nat
  BY <1>a, TermsAreNatural
<1>c. Len(conOut) \in Nat /\ Len(outPipe) \in Nat /\ Len(sizePipe) \in Nat
  BY <1>a, TermsAreNatural
<1>d. stdin \in Nat /\ inputPipe \in Nat
  BY <1>a, TermsAreNatural
<1>e. /\ MainWork \in Nat /\ RelayWork \in Nat /\ PipeWork \in Nat
      /\ MainWork' \in Nat /\ RelayWork' \in Nat /\ PipeWork' \in Nat
  BY <1>a, WorkIsNatural, WorkStaysNatural
<1>f. /\ MainWork' = MainWork => MainWork' <= MainWork
      /\ RelayWork' = RelayWork => RelayWork' <= RelayWork
      /\ PipeWork' = PipeWork => PipeWork' <= PipeWork + 4
      /\ PipeWork' <= PipeWork => PipeWork' <= PipeWork + 4
  BY <1>e
<1>1. CASE StdinEnds
  <2>1. MainWork' = MainWork /\ PipeWork' = PipeWork
    BY <1>1, UnchangedWork DEF StdinEnds, bridgeVars, hostVars, targetVars
  <2>2. \A r \in BridgeRelays \cup HostRelays : relay'[r] = relay[r] \/ relay'[r] = "done"
    BY <1>1, <1>a, TermsAreNatural DEF StdinEnds, Turn
  <2>3. RelayWork' <= RelayWork
    BY <1>a, <2>2, RelaysAdvance
  <2> QED
    BY <1>a, <1>f, <2>1, <2>3, WorkGrowsBy
<1>2. CASE SessionIsKilled
  <2>1. /\ UNCHANGED <<bridge, answer>> /\ host' = "killed" /\ console' = "ended"
        /\ child' = "leaving" => child = "leaving"
    BY <1>2 DEF SessionIsKilled, HostDies, bridgeVars
  <2>2. /\ HostLeft[host'] = 0 /\ ConsoleLeft[console'] = 0
    BY <2>1, Ranks
  <2>3. MainWork' <= MainWork
    BY <2>1, <2>2, <1>b DEF MainWork, One
  <2>4. \A r \in BridgeRelays \cup HostRelays : relay'[r] = relay[r] \/ relay'[r] = "done"
    BY <1>2, <1>a, TermsAreNatural DEF SessionIsKilled, HostDies
  <2>5. RelayWork' <= RelayWork
    BY <1>a, <2>4, RelaysAdvance
  <2>6. PipeWork' = PipeWork
    BY <1>2, UnchangedWork DEF SessionIsKilled, HostDies
  <2> QED
    BY <1>a, <1>f, <2>3, <2>5, <2>6, WorkGrowsBy
<1>3. CASE LauncherDies
  <2>1. /\ bridge' = "ended" /\ UNCHANGED <<host, console, hostEnds, child, answer>>
    BY <1>3 DEF LauncherDies, Return, hostVars, targetVars
  <2>2. BridgeLeft[bridge'] = 0
    BY <2>1, Ranks
  <2>3. MainWork' <= MainWork
    BY <2>1, <2>2, <1>b DEF MainWork, One
  <2>4. \A r \in BridgeRelays \cup HostRelays : relay'[r] = relay[r] \/ relay'[r] = "done"
    BY <1>3, <1>a, TermsAreNatural DEF LauncherDies
  <2>5. RelayWork' <= RelayWork
    BY <1>a, <2>4, RelaysAdvance
  <2>6. PipeWork' = PipeWork
    BY <1>3, UnchangedWork DEF LauncherDies
  <2> QED
    BY <1>a, <1>f, <2>3, <2>5, <2>6, WorkGrowsBy
<1>4. CASE TargetLeaves
  <2>1. UNCHANGED <<bridge, host, console, hostEnds, answer>>
    BY <1>4 DEF TargetLeaves, bridgeVars, hostVars
  <2>2. MainWork' <= MainWork + 1
    BY <2>1, <1>b DEF MainWork, One
  <2>3. RelayWork' = RelayWork /\ PipeWork' = PipeWork
    BY <1>4, UnchangedWork DEF TargetLeaves
  <2> QED
    BY <1>a, <2>2, <2>3, WorkGrowsBy
<1>5. CASE DescendantsLeave
  <2>1. MainWork' = MainWork /\ RelayWork' = RelayWork /\ PipeWork' = PipeWork
    BY <1>5, UnchangedWork DEF DescendantsLeave, bridgeVars, hostVars
  <2> QED
    BY <1>a, <1>f, <2>1, WorkGrowsBy
<1>6. CASE Emit
  <2>1. MainWork' = MainWork /\ RelayWork' = RelayWork
    BY <1>6, UnchangedWork DEF Emit, bridgeVars, hostVars, targetVars
  <2>2. /\ UNCHANGED <<stdin, inputPipe, outPipe, window, sent, sizePipe>>
        /\ conOut' = Append(conOut, emitted') /\ emitted' \in 1..MaxOutput
    BY <1>6, <1>a, BoundsAreNatural DEF Emit, inputVars, sizeVars, RelayTypeOK, PipeTypeOK
  <2>3. Len(conOut') = Len(conOut) + 1
    BY <2>2, <1>a, AppendProperties DEF RelayTypeOK, PipeTypeOK
  <2>4. PipeWork' <= PipeWork + 4
    BY <2>2, <2>3, <1>c, <1>d DEF PipeWork, One
  <2> QED
    BY <1>a, <1>f, <2>1, <2>4, WorkGrowsBy
<1>7. CASE Type
  <2>1. MainWork' = MainWork /\ RelayWork' = RelayWork
    BY <1>7, UnchangedWork DEF Type, bridgeVars, hostVars, targetVars
  <2>2. /\ UNCHANGED <<inputPipe, conOut, outPipe, window, sent, sizePipe>>
        /\ stdin' = stdin + 1
    BY <1>7 DEF Type, outputVars, sizeVars
  <2>3. PipeWork' <= PipeWork + 4
    BY <2>2, <1>c, <1>d DEF PipeWork, One
  <2> QED
    BY <1>a, <1>f, <2>1, <2>3, WorkGrowsBy
<1>8. CASE ResizeWindow
  <2>1. MainWork' = MainWork /\ RelayWork' = RelayWork
    BY <1>8, UnchangedWork DEF ResizeWindow, bridgeVars, hostVars, targetVars
  <2>2. UNCHANGED <<stdin, inputPipe, conOut, outPipe, sizePipe>>
    BY <1>8 DEF ResizeWindow, outputVars, inputVars
  <2>3. PipeWork' <= PipeWork + 4
    BY <2>2, <1>c, <1>d DEF PipeWork, One
  <2> QED
    BY <1>a, <1>f, <2>1, <2>3, WorkGrowsBy
<1> QED
  BY <1>1, <1>2, <1>3, <1>4, <1>5, <1>6, <1>7, <1>8 DEF Environment

\* Every run of the relays, whatever the bounds, uses up its work: no thread of the launcher or
\* of the host polls or repeats itself for ever (TerminalBridge.cpp, PseudoConsoleSession.cpp).
THEOREM SystemUsesUpWork == RelaySpec => WorkRunsOut
<1>1. ASSUME RelayInvariant, RelayInvariant', [RelayNext]_relayVars
      PROVE  [/\ Work' < Work \/ ~SystemStep
              /\ Work' <= Work + 4]_relayVars
  <2>1. RelayTypeOK /\ RelayTypeOK'
    BY <1>1 DEF RelayInvariant
  <2>2. Work \in Nat /\ Work' \in Nat
    <3>1. \A a, b, c \in Nat : a + b + c \in Nat
      OBVIOUS
    <3>2. /\ MainWork \in Nat /\ RelayWork \in Nat /\ PipeWork \in Nat
          /\ MainWork' \in Nat /\ RelayWork' \in Nat /\ PipeWork' \in Nat
      BY <2>1, WorkIsNatural, WorkStaysNatural
    <3>3. /\ MainWork + RelayWork + PipeWork \in Nat
          /\ MainWork' + RelayWork' + PipeWork' \in Nat
      BY <3>1, <3>2
    <3> QED
      BY <3>3 DEF Work
  <2>3. CASE SystemStep
    <3>1. Work' < Work
      BY <1>1, <2>1, <2>3, SystemStepsUseWork
    <3> QED
      BY <2>2, <3>1
  <2>4. CASE Environment /\ ~SystemStep
    BY <1>1, <2>1, <2>4, EnvironmentAddsLittle
  <2> QED
    BY <1>1, <2>3, <2>4 DEF RelayNext
<1> QED
  BY <1>1, InvariantHolds, PTL DEF RelaySpec, WorkRunsOut

-----------------------------------------------------------------------------
(* Nobody is stuck.                                                        *)

LEMMA InitWaits == RelayInit => WaitsFollowStep
BY DEF RelayInit, WaitsFollowStep, HostLives, BridgeRelays, HostRelays

\* Each step keeps what the waits rest on.
LEMMA WaitsStep ==
    ASSUME RelayInvariant, WaitsFollowStep, [RelayNext]_relayVars
    PROVE  WaitsFollowStep'
<1>a. BridgeFollowsStep /\ HostFollowsStep /\ ControlTypeOK
  BY DEF RelayInvariant, RelayTypeOK
<1>b. relay \in [BridgeRelays \cup HostRelays -> RelayStates]
  BY TermsAreNatural DEF RelayInvariant
<1>c. UNCHANGED <<relay, bridge, host, hostEnds, sizePipe, console>> => WaitsFollowStep'
  BY DEF WaitsFollowStep, HostLives
<1>1. CASE Launch
  BY <1>1, <1>a, <1>b
     DEF Launch, WaitsFollowStep, BridgeFollowsStep, HostFollowsStep, ControlTypeOK, HostLives,
         Return, Pipes, sizeVars, BridgeRelays, HostRelays
<1>2. CASE Connect
  BY <1>2, <1>a, <1>b
     DEF Connect, WaitsFollowStep, BridgeFollowsStep, HostFollowsStep, ControlTypeOK, HostLives,
         Return, Pipes, hostVars, sizeVars, BridgeRelays, HostRelays
<1>3. CASE Start
  BY <1>3, <1>a, <1>b
     DEF Start, WaitsFollowStep, BridgeFollowsStep, HostFollowsStep, ControlTypeOK, HostLives,
         Return, hostVars, BridgeRelays, HostRelays
<1>4. CASE WaitForOutput
  BY <1>4, <1>a, <1>b
     DEF WaitForOutput, WaitsFollowStep, BridgeFollowsStep, HostFollowsStep, ControlTypeOK,
         HostLives, hostVars, sizeVars, BridgeRelays, HostRelays
<1>5. CASE StopResize
  BY <1>5, <1>a, <1>b
     DEF StopResize, WaitsFollowStep, BridgeFollowsStep, HostFollowsStep, ControlTypeOK,
         HostLives, Ended, hostVars, sizeVars, BridgeRelays, HostRelays
<1>6. CASE CancelInput
  BY <1>6, <1>a, <1>b
     DEF CancelInput, WaitsFollowStep, BridgeFollowsStep, HostFollowsStep, ControlTypeOK,
         HostLives, Turn, Cancelled, hostVars, sizeVars, BridgeRelays, HostRelays
<1>7. CASE JoinInput
  BY <1>7, <1>a, <1>b
     DEF JoinInput, WaitsFollowStep, BridgeFollowsStep, HostFollowsStep, ControlTypeOK, HostLives,
         Ended, hostVars, sizeVars, BridgeRelays, HostRelays
<1>8. CASE GiveUpOutput
  BY <1>8, <1>a, <1>b
     DEF GiveUpOutput, WaitsFollowStep, BridgeFollowsStep, HostFollowsStep, ControlTypeOK,
         HostLives, Turn, Ended, hostVars, sizeVars, BridgeRelays, HostRelays
<1>9. CASE JoinOutput
  BY <1>9, <1>a, <1>b
     DEF JoinOutput, WaitsFollowStep, BridgeFollowsStep, HostFollowsStep, ControlTypeOK,
         HostLives, Return, Ended, hostVars, sizeVars, BridgeRelays, HostRelays
<1>10. CASE AwaitExit
  BY <1>10, <1>a, <1>b
     DEF AwaitExit, WaitsFollowStep, BridgeFollowsStep, HostFollowsStep, ControlTypeOK, HostLives,
         Return, hostVars, sizeVars, BridgeRelays, HostRelays
<1>11. CASE OpenPipe
  BY <1>11, <1>a, <1>b
     DEF OpenPipe, WaitsFollowStep, BridgeFollowsStep, HostFollowsStep, ControlTypeOK, HostLives,
         HostReturns, Pipes, bridgeVars, sizeVars, BridgeRelays, HostRelays
<1>12. CASE ReadInitialSize
  BY <1>12, <1>a, <1>b
     DEF ReadInitialSize, WaitsFollowStep, BridgeFollowsStep, HostFollowsStep, ControlTypeOK,
         HostLives, HostReturns, ReadSize, NoMoreSizes, bridgeVars, BridgeRelays, HostRelays
<1>13. CASE CreateConsole
  BY <1>13, <1>a, <1>b
     DEF CreateConsole, WaitsFollowStep, BridgeFollowsStep, HostFollowsStep, ControlTypeOK,
         HostLives, HostReturns, bridgeVars, sizeVars, BridgeRelays, HostRelays
<1>14. CASE Spawn
  BY <1>14, <1>a, <1>b
     DEF Spawn, WaitsFollowStep, BridgeFollowsStep, HostFollowsStep, ControlTypeOK, HostLives,
         bridgeVars, sizeVars, BridgeRelays, HostRelays
<1>15. CASE WaitForTarget
  BY <1>15, <1>a, <1>b
     DEF WaitForTarget, WaitsFollowStep, BridgeFollowsStep, HostFollowsStep, ControlTypeOK,
         HostLives, bridgeVars, sizeVars, BridgeRelays, HostRelays
<1>16. CASE Terminate
  BY <1>16, <1>a, <1>b
     DEF Terminate, WaitsFollowStep, BridgeFollowsStep, HostFollowsStep, ControlTypeOK, HostLives,
         bridgeVars, sizeVars, BridgeRelays, HostRelays
<1>17. CASE CancelHostResize
  BY <1>17, <1>a, <1>b
     DEF CancelHostResize, WaitsFollowStep, BridgeFollowsStep, HostFollowsStep, ControlTypeOK,
         HostLives, Turn, Cancelled, bridgeVars, sizeVars, BridgeRelays, HostRelays
<1>18. CASE JoinHostResize
  BY <1>18, <1>a, <1>b
     DEF JoinHostResize, WaitsFollowStep, BridgeFollowsStep, HostFollowsStep, ControlTypeOK,
         HostLives, Ended, bridgeVars, sizeVars, BridgeRelays, HostRelays
<1>19. CASE CancelHostInput
  BY <1>19, <1>a, <1>b
     DEF CancelHostInput, WaitsFollowStep, BridgeFollowsStep, HostFollowsStep, ControlTypeOK,
         HostLives, Turn, Cancelled, bridgeVars, sizeVars, BridgeRelays, HostRelays
<1>20. CASE CloseConsole
  BY <1>20, <1>a, <1>b
     DEF CloseConsole, WaitsFollowStep, BridgeFollowsStep, HostFollowsStep, ControlTypeOK,
         HostLives, Ended, bridgeVars, sizeVars, BridgeRelays, HostRelays
<1>21. CASE JoinHostOutput
  BY <1>21, <1>a, <1>b
     DEF JoinHostOutput, WaitsFollowStep, BridgeFollowsStep, HostFollowsStep, ControlTypeOK,
         HostLives, HostReturns, Ended, bridgeVars, sizeVars, BridgeRelays, HostRelays
<1>22. CASE BridgeInputRelay
  BY <1>22, <1>a, <1>b
     DEF BridgeInputRelay, WaitsFollowStep, BridgeFollowsStep, HostFollowsStep, ControlTypeOK,
         HostLives, Turn, bridgeVars, hostVars, sizeVars, BridgeRelays, HostRelays
<1>23. CASE BridgeOutputRelay
  BY <1>23, <1>a, <1>b
     DEF BridgeOutputRelay, WaitsFollowStep, BridgeFollowsStep, HostFollowsStep, ControlTypeOK,
         HostLives, Turn, bridgeVars, hostVars, sizeVars, BridgeRelays, HostRelays
<1>24. CASE BridgeResizeRelay
  BY <1>24, <1>a, <1>b
     DEF BridgeResizeRelay, WaitsFollowStep, BridgeFollowsStep, HostFollowsStep, ControlTypeOK,
         HostLives, Turn, bridgeVars, hostVars, BridgeRelays, HostRelays
<1>25. CASE HostInputRelay
  BY <1>25, <1>a, <1>b
     DEF HostInputRelay, WaitsFollowStep, BridgeFollowsStep, HostFollowsStep, ControlTypeOK,
         HostLives, Turn, bridgeVars, sizeVars, BridgeRelays, HostRelays
<1>26. CASE HostOutputRelay
  BY <1>26, <1>a, <1>b
     DEF HostOutputRelay, WaitsFollowStep, BridgeFollowsStep, HostFollowsStep, ControlTypeOK,
         HostLives, Turn, bridgeVars, hostVars, sizeVars, BridgeRelays, HostRelays
<1>27. CASE HostResizeRelay
  BY <1>27, <1>a, <1>b
     DEF HostResizeRelay, WaitsFollowStep, BridgeFollowsStep, HostFollowsStep, ControlTypeOK,
         HostLives, Turn, ReadSize, NoMoreSizes, bridgeVars, hostVars, BridgeRelays, HostRelays
<1>28. CASE BrokerTearsDown
  BY <1>28, <1>a, <1>b
     DEF BrokerTearsDown, WaitsFollowStep, BridgeFollowsStep, HostFollowsStep, ControlTypeOK,
         HostLives, HostDies, bridgeVars, sizeVars, BridgeRelays, HostRelays
<1>29. CASE ConsoleEnds
  BY <1>29, <1>a, <1>b
     DEF ConsoleEnds, WaitsFollowStep, BridgeFollowsStep, HostFollowsStep, ControlTypeOK,
         HostLives, bridgeVars, hostVars, sizeVars, BridgeRelays, HostRelays
<1>30. CASE StdinEnds
  BY <1>30, <1>a, <1>b
     DEF StdinEnds, WaitsFollowStep, BridgeFollowsStep, HostFollowsStep, ControlTypeOK, HostLives,
         Turn, bridgeVars, hostVars, sizeVars, BridgeRelays, HostRelays
<1>31. CASE SessionIsKilled
  BY <1>31, <1>a, <1>b
     DEF SessionIsKilled, WaitsFollowStep, BridgeFollowsStep, HostFollowsStep, ControlTypeOK,
         HostLives, HostDies, bridgeVars, sizeVars, BridgeRelays, HostRelays
<1>32. CASE LauncherDies
  BY <1>32, <1>a, <1>b
     DEF LauncherDies, WaitsFollowStep, BridgeFollowsStep, HostFollowsStep, ControlTypeOK,
         HostLives, Return, hostVars, sizeVars, BridgeRelays, HostRelays
<1>33. CASE BrokerAnswers
  BY <1>33, <1>c DEF BrokerAnswers, bridgeVars, hostVars, sizeVars
<1>34. CASE TargetExits
  BY <1>34, <1>c DEF TargetExits, bridgeVars, hostVars, sizeVars
<1>35. CASE TargetLeaves
  BY <1>35, <1>c DEF TargetLeaves, bridgeVars, hostVars, sizeVars
<1>36. CASE DescendantsLeave
  BY <1>36, <1>c DEF DescendantsLeave, bridgeVars, hostVars, sizeVars
<1>37. CASE Emit
  BY <1>37, <1>c DEF Emit, bridgeVars, hostVars, sizeVars
<1>38. CASE Type
  BY <1>38, <1>c DEF Type, bridgeVars, hostVars, sizeVars
<1>39. CASE ResizeWindow
  BY <1>39, <1>c DEF ResizeWindow, bridgeVars, hostVars
<1>40. CASE UNCHANGED relayVars
  BY <1>40, <1>c DEF relayVars, bridgeVars, hostVars, sizeVars
<1> QED
  BY <1>1, <1>2, <1>3, <1>4, <1>5, <1>6, <1>7, <1>8, <1>9, <1>10, <1>11, <1>12, <1>13, <1>14,
     <1>15, <1>16, <1>17, <1>18, <1>19, <1>20, <1>21, <1>22, <1>23, <1>24, <1>25, <1>26, <1>27,
     <1>28, <1>29, <1>30, <1>31, <1>32, <1>33, <1>34, <1>35, <1>36, <1>37, <1>38, <1>39, <1>40
     DEF RelayNext, SystemStep, Environment, BridgeStep, HostStep, RelayStep

\* What the waits rest on holds throughout (the loops of TerminalBridge.cpp and
\* PseudoConsoleSession.cpp, and the order in which both ends stop their threads).
THEOREM WaitsHold == RelaySpec => []WaitsFollowStep
<1>1. RelayInvariant /\ WaitsFollowStep /\ [RelayNext]_relayVars => WaitsFollowStep'
  BY WaitsStep
<1> QED
  BY <1>1, InitWaits, InvariantHolds, PTL DEF RelaySpec

\* The launcher waits for the broker's answer only when the host's output has ended, and with it
\* the host; so the broker has an answer to give.
LEMMA AwaitIsAnswered ==
    ASSUME RelayInvariant, WaitsFollowStep, bridge = "await"
    PROVE  CanMove
<1>1. BridgeFollowsStep /\ HostFollowsStep /\ ControlTypeOK
  BY DEF RelayInvariant, RelayTypeOK
<1>2. ~startFailed /\ relay["bridgeOutput"] = "done"
  BY <1>1 DEF BridgeFollowsStep
<1>3. "output" \notin hostEnds /\ host \notin {"absent", "open"}
  BY <1>1, <1>2 DEF BridgeFollowsStep
<1>4. ~HostLives
  BY <1>1, <1>2, <1>3 DEF HostFollowsStep
<1>5. host \in {"reported", "exited", "killed"}
  BY <1>3, <1>4 DEF HostLives
<1>6. CASE answer = "none"
  BY <1>5, <1>6 DEF CanMove, OthersCanMove
<1>7. CASE answer # "none"
  BY <1>7 DEF CanMove, BridgeCanMove
<1> QED
  BY <1>6, <1>7

\* While the launcher waits for the end of the output, the host, its relays, the target or the
\* broker can move.
LEMMA OutputComesToAnEnd ==
    ASSUME RelayInvariant, WaitsFollowStep, bridge = "relay", relay["bridgeOutput"] = "read"
    PROVE  AtRest \/ CanMove
<1>1. BridgeFollowsStep /\ HostFollowsStep /\ ControlTypeOK
  BY DEF RelayInvariant, RelayTypeOK
<1>2. relay \in [BridgeRelays \cup HostRelays -> RelayStates] /\ Capacity > 0
  BY TermsAreNatural, BoundsAreNatural DEF RelayInvariant
<1>3. CASE outPipe # <<>> \/ "output" \notin hostEnds
  BY <1>3 DEF CanMove, RelayCanMove
<1>4. CASE outPipe = <<>> /\ "output" \in hostEnds
  <2>1. HostLives /\ host # "open"
    BY <1>1, <1>4 DEF WaitsFollowStep, BridgeFollowsStep
  <2>2. Len(outPipe) < Capacity
    BY <1>2, <1>4
  <2>3. CASE host = "size"
    BY <2>3 DEF WaitsFollowStep, CanMove, HostCanMove
  <2>4. CASE host = "wait"
    <3>1. child \in {"running", "leaving", "exited"}
      BY <1>1, <2>4 DEF HostFollowsStep
    <3> QED
      BY <2>4, <3>1 DEF AtRest, CanMove, HostCanMove, OthersCanMove
  <2>5. CASE host = "joinResize"
    <3>1. Ended("hostResize") \/ relay["hostResize"] \in {"code", "read"}
      BY <1>2 DEF Ended, RelayStates, HostRelays
    <3> QED
      BY <2>5, <3>1 DEF AtRest, CancelIsLost, CanMove, HostCanMove, RelayCanMove
  <2>6. CASE host = "joinInput"
    <3>1. Ended("hostInput") \/ relay["hostInput"] \in {"code", "read"}
      BY <1>2 DEF Ended, RelayStates, HostRelays
    <3> QED
      BY <2>6, <3>1 DEF AtRest, CancelIsLost, CanMove, HostCanMove, RelayCanMove
  <2>7. CASE host = "joinOutput"
    <3>1. Ended("hostOutput") \/ relay["hostOutput"] = "read"
      BY <1>2 DEF Ended, RelayStates, HostRelays, WaitsFollowStep
    <3>2. console \in {"closing", "ended"}
      BY <2>7 DEF WaitsFollowStep
    <3> QED
      BY <2>2, <2>7, <3>1, <3>2 DEF CanMove, HostCanMove, RelayCanMove, OthersCanMove
  <2>8. CASE host \in {"create", "spawn", "terminate", "stopResize", "stopInput"}
    BY <2>8 DEF CanMove, HostCanMove
  <2> QED
    BY <1>1, <2>1, <2>3, <2>4, <2>5, <2>6, <2>7, <2>8
       DEF HostLives, ControlTypeOK, BridgeFollowsStep
<1> QED
  BY <1>3, <1>4

\* The launcher, the host, their relays and the broker never all wait for one another, whatever
\* the pipes hold (WaitForOutput, Stop, StopRelays, WaitForBrokerConsoleExit).
THEOREM SomebodyCanMove == RelaySpec => []NobodyIsStuck
<1>1. ASSUME RelayInvariant, WaitsFollowStep
      PROVE  NobodyIsStuck
  <2>1. BridgeFollowsStep /\ ControlTypeOK
    BY <1>1 DEF RelayInvariant, RelayTypeOK
  <2>2. relay \in [BridgeRelays \cup HostRelays -> RelayStates]
    BY <1>1, TermsAreNatural DEF RelayInvariant
  <2>3. CASE bridge = "ended"
    BY <2>3 DEF NobodyIsStuck, AtRest, CanMove, OthersCanMove
  <2>4. CASE bridge = "await"
    BY <1>1, <2>4, AwaitIsAnswered DEF NobodyIsStuck
  <2>5. CASE bridge = "relay"
    <3>1. relay["bridgeOutput"] \in {"read", "done"}
      BY <1>1, <2>1, <2>2, <2>5 DEF BridgeFollowsStep, WaitsFollowStep, RelayStates, BridgeRelays
    <3>2. CASE relay["bridgeOutput"] = "read"
      BY <1>1, <2>5, <3>2, OutputComesToAnEnd DEF NobodyIsStuck
    <3>3. CASE relay["bridgeOutput"] = "done"
      BY <2>5, <3>3 DEF NobodyIsStuck, CanMove, BridgeCanMove
    <3> QED
      BY <3>1, <3>2, <3>3
  <2>6. CASE bridge = "stopResize"
    <3>1. Ended("bridgeResize") \/ relay["bridgeResize"] = "code"
      BY <1>1, <2>2 DEF WaitsFollowStep, Ended, RelayStates, BridgeRelays
    <3> QED
      BY <2>6, <3>1 DEF NobodyIsStuck, CanMove, BridgeCanMove, RelayCanMove
  <2>7. CASE bridge = "joinInput"
    <3>1. Ended("bridgeInput") \/ relay["bridgeInput"] \in {"code", "read"}
      BY <2>2 DEF Ended, RelayStates, BridgeRelays
    <3> QED
      BY <2>7, <3>1
         DEF NobodyIsStuck, AtRest, CancelIsLost, CanMove, BridgeCanMove, RelayCanMove,
             StopRequested
  <2>8. CASE bridge = "joinOutput"
    <3>1. Ended("bridgeOutput") \/ relay["bridgeOutput"] = "read"
      BY <1>1, <2>2 DEF WaitsFollowStep, Ended, RelayStates, BridgeRelays
    <3>2. "output" \notin hostEnds
      BY <1>1, <2>8 DEF WaitsFollowStep
    <3> QED
      BY <2>8, <3>1, <3>2 DEF NobodyIsStuck, CanMove, BridgeCanMove, RelayCanMove
  <2>9. CASE bridge \in {"init", "connect", "start", "stopInput", "stopOutput"}
    BY <2>9 DEF NobodyIsStuck, CanMove, BridgeCanMove
  <2> QED
    BY <2>1, <2>3, <2>4, <2>5, <2>6, <2>7, <2>8, <2>9 DEF ControlTypeOK
<1> QED
  BY <1>1, InvariantHolds, WaitsHold, PTL
=============================================================================
