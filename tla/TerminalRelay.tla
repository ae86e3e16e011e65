---------------------------- MODULE TerminalRelay ----------------------------
(***************************************************************************)
(* A console session from the launcher's terminal to the pseudoconsole:    *)
(* the launcher's bridge and the pseudoconsole host relay input, output    *)
(* and window sizes over three pipes, each direction on a thread of its    *)
(* own at either end.  Both ends stop their threads by cancelling a        *)
(* blocked call and joining the thread; a cancel that arrives while the    *)
(* thread is between two calls is lost.                                    *)
(***************************************************************************)
EXTENDS Naturals, Sequences, FiniteSets

CONSTANTS MaxOutput,    \* frames the pseudoconsole emits
          MaxKeys,      \* chunks typed
          MaxResizes,   \* changes of the window
          Capacity,     \* frames or chunks the input and the output pipe hold
          SizeCapacity  \* sizes the resize pipe holds

ASSUME BoundsAreNatural ==
    /\ MaxOutput \in Nat /\ MaxKeys \in Nat /\ MaxResizes \in Nat
    /\ Capacity \in Nat \ {0} /\ SizeCapacity \in Nat \ {0}

VARIABLES
    bridge,       \* the launcher's main thread
    startFailed,  \* a thread of the bridge could not be started
    redirected,   \* stdin is a pipe, not the console
    rawMode,      \* the terminal is in raw mode
    result,       \* what the launcher returns
    host,         \* the host's main thread
    outcome,      \* how its wait for the target ended
    inputFailed,  \* the host's input failure event
    child,        \* the target
    descendants,  \* processes it left attached to the pseudoconsole
    console,      \* the pseudoconsole
    answer,       \* the broker's exit response
    bridgeEnds,   \* pipe ends the launcher has open
    hostEnds,     \* pipe ends the host has open
    relay,        \* the six relay threads
    screenTakes,  \* every write to the screen has succeeded
    conOut, outPipe, screen,           \* frames on their way to the screen
    emitted,                           \* frames emitted so far
    typed, stdin, inputPipe,           \* chunks typed, and those on their way
    window, sent, sizePipe, conSize    \* sizes of window and pseudoconsole

bridgeVars == <<bridge, startFailed, redirected, rawMode, result>>
hostVars == <<host, outcome, inputFailed>>
targetVars == <<child, descendants>>
outputVars == <<screenTakes, conOut, outPipe, screen, emitted>>
inputVars == <<typed, stdin, inputPipe>>
sizeVars == <<window, sent, sizePipe, conSize>>
relayVars == <<bridgeVars, hostVars, targetVars, console, answer, bridgeEnds, hostEnds, relay,
               outputVars, inputVars, sizeVars>>

Pipes == {"input", "output", "resize"}
BridgeRelays == {"bridgeInput", "bridgeOutput", "bridgeResize"}
HostRelays == {"hostInput", "hostOutput", "hostResize"}

\* A thread runs code between two reads or is blocked reading; what it has read it writes at once.
RelayStates == {"none", "code", "read", "done"}
Ended(r) == relay[r] \in {"none", "done"}
Turn(r, state) == relay' = [relay EXCEPT ![r] = state]

RelayInit ==
    /\ bridge = "init" /\ startFailed = FALSE /\ redirected \in BOOLEAN
    /\ rawMode = FALSE /\ result = "none"
    /\ host = "absent" /\ outcome = "none" /\ inputFailed = FALSE
    /\ child = "none" /\ descendants = FALSE /\ console = "none" /\ answer = "none"
    /\ bridgeEnds = {} /\ hostEnds = {}
    /\ relay = [r \in BridgeRelays \cup HostRelays |-> "none"]
    /\ screenTakes = TRUE
    /\ conOut = <<>> /\ outPipe = <<>> /\ screen = <<>> /\ emitted = 0
    /\ typed = 0 /\ stdin = 0 /\ inputPipe = 0
    /\ window = 1 /\ sent = 0 /\ sizePipe = <<>> /\ conSize = 0

-----------------------------------------------------------------------------
(* The launcher's main thread.                                             *)

\* The launcher returns, and with it go its pipe ends and its connection to the broker.
Return(value) ==
    /\ bridge' = "ended" /\ result' = value
    /\ bridgeEnds' = {}

\* InitializeForBroker, then LaunchBrokerConsole: the broker starts the host.
Launch ==
    /\ bridge = "init"
    /\ \/ bridge' = "connect" /\ bridgeEnds' = Pipes /\ host' = "open" /\ UNCHANGED result
       \/ Return("failure") /\ UNCHANGED host
    /\ UNCHANGED <<startFailed, redirected, rawMode, outcome, inputFailed, targetVars, console,
                   answer, hostEnds, relay, outputVars, inputVars, sizeVars>>

\* ConnectBrokerChild waits five seconds for each pipe; a client that has gone again is no client.
Connect ==
    /\ bridge = "connect"
    /\ \/ hostEnds = Pipes /\ bridge' = "start" /\ UNCHANGED <<result, bridgeEnds>>
       \/ Return("failure")
    /\ UNCHANGED <<startFailed, redirected, rawMode, hostVars, targetVars, console, answer,
                   hostEnds, relay, outputVars, inputVars, sizeVars>>

\* Start: raw mode, the initial size, and three threads.  When a thread cannot be started the
\* ones before it are stopped.
Start ==
    /\ bridge = "start"
    /\ \/ Return("failure") /\ UNCHANGED <<startFailed, rawMode, relay, sent, sizePipe>>
       \/ /\ "resize" \in hostEnds /\ Len(sizePipe) < SizeCapacity
          /\ rawMode' = TRUE /\ sent' = window /\ sizePipe' = Append(sizePipe, window)
          /\ \E started \in SUBSET BridgeRelays :
                /\ "bridgeResize" \in started => "bridgeOutput" \in started
                /\ "bridgeOutput" \in started => "bridgeInput" \in started
                /\ relay' = [r \in DOMAIN relay |->
                                IF r \notin started THEN relay[r]
                                ELSE IF r = "bridgeOutput" THEN "read" ELSE "code"]
                /\ startFailed' = (started # BridgeRelays)
                /\ bridge' = IF started = BridgeRelays THEN "relay" ELSE "stopResize"
          /\ UNCHANGED <<result, bridgeEnds>>
    /\ UNCHANGED <<redirected, hostVars, targetVars, console, answer, hostEnds, outputVars,
                   inputVars, window, conSize>>

\* WaitForOutput has no time limit: only the output relay's end lets the launcher go on.
WaitForOutput ==
    /\ bridge = "relay"
    /\ relay["bridgeOutput"] = "done"
    /\ bridge' = "stopResize"
    /\ UNCHANGED <<startFailed, redirected, rawMode, result, hostVars, targetVars, console,
                   answer, bridgeEnds, hostEnds, relay, outputVars, inputVars, sizeVars>>

\* CancelSynchronousIo ends a call that is blocked; between two calls it does nothing.
Cancelled(r) ==
    IF relay[r] = "read" THEN "done" ELSE relay[r]

\* Stop, the first thread: it polls, so the request to stop is enough.
StopResize ==
    /\ bridge = "stopResize" /\ Ended("bridgeResize")
    /\ bridgeEnds' = bridgeEnds \ {"resize"}
    /\ bridge' = "stopInput"
    /\ UNCHANGED <<startFailed, redirected, rawMode, result, hostVars, targetVars, console,
                   answer, hostEnds, relay, outputVars, inputVars, sizeVars>>

\* Stop, the second: a read of the console is never blocked, one of a pipe is cancelled, once.
CancelInput ==
    /\ bridge = "stopInput"
    /\ Turn("bridgeInput", Cancelled("bridgeInput"))
    /\ bridge' = "joinInput"
    /\ UNCHANGED <<startFailed, redirected, rawMode, result, hostVars, targetVars, console,
                   answer, bridgeEnds, hostEnds, outputVars, inputVars, sizeVars>>

JoinInput ==
    /\ bridge = "joinInput" /\ Ended("bridgeInput")
    /\ bridgeEnds' = bridgeEnds \ {"input"}
    /\ bridge' = "stopOutput"
    /\ UNCHANGED <<startFailed, redirected, rawMode, result, hostVars, targetVars, console,
                   answer, hostEnds, relay, outputVars, inputVars, sizeVars>>

\* Stop, the third: after a grace period the pipe is disconnected, which no read survives.
GiveUpOutput ==
    /\ bridge = "stopOutput" /\ ~Ended("bridgeOutput")
    /\ \E state \in {"read", "done"} : Turn("bridgeOutput", state)
    /\ outPipe' = <<>>
    /\ hostEnds' = hostEnds \ {"output"}
    /\ bridge' = "joinOutput"
    /\ UNCHANGED <<startFailed, redirected, rawMode, result, hostVars, targetVars, console,
                   answer, bridgeEnds, screenTakes, conOut, screen, emitted, inputVars,
                   sizeVars>>

\* The terminal gets its mode back; a failed start ends the launcher here.
JoinOutput ==
    /\ bridge \in {"stopOutput", "joinOutput"} /\ Ended("bridgeOutput")
    /\ rawMode' = FALSE
    /\ IF startFailed THEN Return("failure")
       ELSE bridge' = "await" /\ bridgeEnds' = bridgeEnds \ {"output"} /\ UNCHANGED result
    /\ UNCHANGED <<startFailed, redirected, hostVars, targetVars, console, answer, hostEnds,
                   relay, outputVars, inputVars, sizeVars>>

\* Mutant: the bridge waits for an exit code, not for the host's end.
AwaitExitCode ==
    /\ bridge = "await" /\ answer = "code"
    /\ Return(answer)
    /\ UNCHANGED <<startFailed, redirected, rawMode, hostVars, targetVars, console, answer,
                   hostEnds, relay, outputVars, inputVars, sizeVars>>

\* WaitForBrokerConsoleExit.
AwaitExit ==
    /\ bridge = "await" /\ answer # "none"
    /\ Return(answer)
    /\ UNCHANGED <<startFailed, redirected, rawMode, hostVars, targetVars, console, answer,
                   hostEnds, relay, outputVars, inputVars, sizeVars>>

-----------------------------------------------------------------------------
(* The launcher's relay threads.                                           *)

StopRequested == bridge \in {"joinInput", "stopOutput", "joinOutput"}

\* RelayInput, from stdin.  A console is polled for input and for the request to stop; a pipe is
\* read straight away.  The end of stdin leaves the pipe to the host open.
BridgeInputRelay ==
    /\ \/ /\ relay["bridgeInput"] = "code" /\ redirected
          /\ Turn("bridgeInput", "read") /\ UNCHANGED <<stdin, inputPipe>>
       \/ /\ relay["bridgeInput"] = "code" /\ ~redirected /\ StopRequested
          /\ Turn("bridgeInput", "done") /\ UNCHANGED <<stdin, inputPipe>>
       \/ /\ relay["bridgeInput"] = IF redirected THEN "read" ELSE "code"
          /\ stdin > 0 /\ stdin' = stdin - 1
          /\ \/ "input" \notin hostEnds /\ Turn("bridgeInput", "done") /\ UNCHANGED inputPipe
             \/ /\ "input" \in hostEnds /\ inputPipe < Capacity
                /\ inputPipe' = inputPipe + 1 /\ Turn("bridgeInput", "code")
    /\ UNCHANGED <<bridgeVars, hostVars, targetVars, console, answer, bridgeEnds, hostEnds,
                   outputVars, typed, sizeVars>>

\* Stdin is a pipe, and its writer closes it.
StdinEnds ==
    /\ redirected /\ relay["bridgeInput"] = "read" /\ stdin = 0
    /\ Turn("bridgeInput", "done")
    /\ UNCHANGED <<bridgeVars, hostVars, targetVars, console, answer, bridgeEnds, hostEnds,
                   outputVars, inputVars, sizeVars>>

\* RelayOutput, to the screen: once a write has failed, what follows is read and dropped.
BridgeOutputRelay ==
    /\ relay["bridgeOutput"] = "read"
    /\ \/ /\ outPipe # <<>> /\ outPipe' = Tail(outPipe) /\ UNCHANGED relay
          /\ \/ screenTakes /\ screen' = Append(screen, Head(outPipe)) /\ UNCHANGED screenTakes
             \/ screenTakes' = FALSE /\ UNCHANGED screen
       \/ /\ outPipe = <<>> /\ "output" \notin hostEnds
          /\ Turn("bridgeOutput", "done") /\ UNCHANGED <<screenTakes, outPipe, screen>>
    /\ UNCHANGED <<bridgeVars, hostVars, targetVars, console, answer, bridgeEnds, hostEnds,
                   conOut, emitted, inputVars, sizeVars>>

\* Mutant: the size is sent whether or not it has changed.
BridgeResizeRelaySendsAlways ==
    /\ relay["bridgeResize"] = "code"
    /\ \/ bridge = "stopResize" /\ Turn("bridgeResize", "done") /\ UNCHANGED <<sent, sizePipe>>
       \/ IF "resize" \in hostEnds
          THEN /\ Len(sizePipe) < SizeCapacity
               /\ sent' = window /\ sizePipe' = Append(sizePipe, window)
               /\ UNCHANGED relay
          ELSE Turn("bridgeResize", "done") /\ UNCHANGED <<sent, sizePipe>>
    /\ UNCHANGED <<bridgeVars, hostVars, targetVars, console, answer, bridgeEnds, hostEnds,
                   outputVars, inputVars, window, conSize>>

\* The resize relay compares the window with what it sent, every 50 ms; a full pipe makes it
\* wait for room or for the end of the host.
BridgeResizeRelay ==
    /\ relay["bridgeResize"] = "code"
    /\ \/ bridge = "stopResize" /\ Turn("bridgeResize", "done") /\ UNCHANGED <<sent, sizePipe>>
       \/ /\ window # sent
          /\ IF "resize" \in hostEnds
             THEN /\ Len(sizePipe) < SizeCapacity
                  /\ sent' = window /\ sizePipe' = Append(sizePipe, window)
                  /\ UNCHANGED relay
             ELSE Turn("bridgeResize", "done") /\ UNCHANGED <<sent, sizePipe>>
    /\ UNCHANGED <<bridgeVars, hostVars, targetVars, console, answer, bridgeEnds, hostEnds,
                   outputVars, inputVars, window, conSize>>
-----------------------------------------------------------------------------
(* The host's main thread.                                                 *)

\* RunPseudoConsoleHost returns; its ends of the pipes are closed.
HostReturns(reported) ==
    /\ host' = IF reported THEN "reported" ELSE "exited"
    /\ hostEnds' = {}

\* OpenPipeClient, for input, output and resize in this order; no pipe, no session.
OpenPipe ==
    /\ host = "open"
    /\ \/ /\ bridgeEnds = Pipes
          /\ \E pipe \in Pipes \ hostEnds :
                /\ pipe # "input" => "input" \in hostEnds
                /\ pipe = "resize" => "output" \in hostEnds
                /\ hostEnds' = hostEnds \cup {pipe}
                /\ host' = IF pipe = "resize" THEN "size" ELSE "open"
       \/ HostReturns(FALSE)
    /\ UNCHANGED <<bridgeVars, outcome, inputFailed, targetVars, console, answer, bridgeEnds,
                   relay, outputVars, inputVars, sizeVars>>

\* Mutant: the oldest queued size is applied.
ReadFirstSize(apply) ==
    /\ sizePipe # <<>>
    /\ sizePipe' = <<>>
    /\ conSize' = IF apply THEN sizePipe[1] ELSE conSize

\* ReadTerminalSize takes every size that is queued and keeps the last.
ReadSize(apply) ==
    /\ sizePipe # <<>>
    /\ sizePipe' = <<>>
    /\ conSize' = IF apply THEN sizePipe[Len(sizePipe)] ELSE conSize

NoMoreSizes == sizePipe = <<>> /\ "resize" \notin bridgeEnds

ReadInitialSize ==
    /\ host = "size"
    /\ \/ ReadSize(TRUE) /\ host' = "create" /\ UNCHANGED hostEnds
       \/ NoMoreSizes /\ HostReturns(FALSE) /\ UNCHANGED <<sizePipe, conSize>>
    /\ UNCHANGED <<bridgeVars, outcome, inputFailed, targetVars, console, answer, bridgeEnds,
                   relay, outputVars, inputVars, window, sent>>

\* Initialize and StartRelays.  A thread that cannot be started fails the session; an output
\* relay that was not started has closed the pseudoconsole's output.
CreateConsole ==
    /\ host = "create"
    /\ \/ HostReturns(FALSE) /\ UNCHANGED <<relay, console, outcome>>
       \/ /\ console' = "open"
          /\ \E started \in SUBSET HostRelays :
                /\ "hostResize" \in started => "hostOutput" \in started
                /\ "hostOutput" \in started => "hostInput" \in started
                /\ relay' = [r \in DOMAIN relay |->
                                IF r \notin started THEN relay[r]
                                ELSE IF r = "hostOutput" THEN "read" ELSE "code"]
                /\ host' = IF started = HostRelays THEN "spawn" ELSE "stopResize"
                /\ outcome' = IF started = HostRelays THEN "none" ELSE "failed"
          /\ UNCHANGED hostEnds
    /\ UNCHANGED <<bridgeVars, inputFailed, targetVars, answer, bridgeEnds, outputVars,
                   inputVars, sizeVars>>

\* The target is created suspended and resumed.
Spawn ==
    /\ host = "spawn"
    /\ \/ child' = "running" /\ host' = "wait" /\ UNCHANGED outcome
       \/ host' = "stopResize" /\ outcome' = "failed" /\ UNCHANGED child
    /\ UNCHANGED <<bridgeVars, inputFailed, descendants, console, answer, bridgeEnds, hostEnds,
                   relay, outputVars, inputVars, sizeVars>>

\* WaitForMultipleObjects: the target first, then the input failure.
WaitForTarget ==
    /\ host = "wait"
    /\ \/ child = "exited" /\ host' = "stopResize" /\ outcome' = "exited"
       \/ child # "exited" /\ inputFailed /\ host' = "terminate" /\ UNCHANGED outcome
    /\ UNCHANGED <<bridgeVars, inputFailed, targetVars, console, answer, bridgeEnds, hostEnds,
                   relay, outputVars, inputVars, sizeVars>>

\* The target is terminated when its input is lost, and waited for, five seconds.
Terminate ==
    /\ host = "terminate"
    /\ \/ outcome' = "cancelled" /\ child' = IF child = "exited" THEN child ELSE "killed"
       \/ outcome' = "failed" /\ UNCHANGED child
    /\ host' = "stopResize"
    /\ UNCHANGED <<bridgeVars, inputFailed, descendants, console, answer, bridgeEnds, hostEnds,
                   relay, outputVars, inputVars, sizeVars>>

\* StopRelays, the first thread: it is cancelled once and joined.
CancelHostResize ==
    /\ host = "stopResize"
    /\ Turn("hostResize", Cancelled("hostResize"))
    /\ host' = "joinResize"
    /\ UNCHANGED <<bridgeVars, outcome, inputFailed, targetVars, console, answer, bridgeEnds,
                   hostEnds, outputVars, inputVars, sizeVars>>

JoinHostResize ==
    /\ host = "joinResize" /\ Ended("hostResize")
    /\ host' = "stopInput"
    /\ UNCHANGED <<bridgeVars, outcome, inputFailed, targetVars, console, answer, bridgeEnds,
                   hostEnds, relay, outputVars, inputVars, sizeVars>>

\* StopRelays, the second: after the output has ended or had its grace period.  The cancelled
\* read counts as an input failure, for which nobody waits any more.
CancelHostInput ==
    /\ host = "stopInput"
    /\ Turn("hostInput", Cancelled("hostInput"))
    /\ inputFailed' = (inputFailed \/ (relay'["hostInput"] # relay["hostInput"]))
    /\ host' = "joinInput"
    /\ UNCHANGED <<bridgeVars, outcome, targetVars, console, answer, bridgeEnds, hostEnds,
                   outputVars, inputVars, sizeVars>>

\* Mutant: the pseudoconsole stays open while its output is awaited.
CloseConsoleLater ==
    /\ host = "joinInput" /\ Ended("hostInput")
    /\ host' = "joinOutput"
    /\ UNCHANGED <<bridgeVars, outcome, inputFailed, targetVars, console, answer, bridgeEnds,
                   hostEnds, relay, outputVars, inputVars, sizeVars>>

\* Then the pseudoconsole's input end and the pseudoconsole itself are closed, which ends the
\* output.
CloseConsole ==
    /\ host = "joinInput" /\ Ended("hostInput")
    /\ console' = IF console = "open" THEN "closing" ELSE console
    /\ host' = "joinOutput"
    /\ UNCHANGED <<bridgeVars, outcome, inputFailed, targetVars, answer, bridgeEnds, hostEnds,
                   relay, outputVars, inputVars, sizeVars>>

\* Mutant: the host reports without having joined its output relay.
JoinHostInputAgain ==
    /\ host = "joinOutput" /\ Ended("hostInput")
    /\ \E reported \in BOOLEAN : (reported => outcome = "exited") /\ HostReturns(reported)
    /\ UNCHANGED <<bridgeVars, outcome, inputFailed, targetVars, console, answer, bridgeEnds,
                   relay, outputVars, inputVars, sizeVars>>

\* The report of the exit code may fail too.
JoinHostOutput ==
    /\ host = "joinOutput" /\ Ended("hostOutput")
    /\ \E reported \in BOOLEAN : (reported => outcome = "exited") /\ HostReturns(reported)
    /\ UNCHANGED <<bridgeVars, outcome, inputFailed, targetVars, console, answer, bridgeEnds,
                   relay, outputVars, inputVars, sizeVars>>

-----------------------------------------------------------------------------
(* The host's relay threads.                                               *)

\* Mutant: the end of the input counts as a failure of its relay.
HostInputRelayFailsAtEnd ==
    /\ \/ /\ relay["hostInput"] = "code" /\ Turn("hostInput", "read")
          /\ UNCHANGED <<inputPipe, inputFailed>>
       \/ /\ relay["hostInput"] = "read" /\ inputPipe > 0
          /\ inputPipe' = inputPipe - 1
          /\ IF console = "ended" THEN Turn("hostInput", "done") /\ inputFailed' = TRUE
             ELSE Turn("hostInput", "code") /\ UNCHANGED inputFailed
       \/ /\ relay["hostInput"] = "read" /\ inputPipe = 0 /\ "input" \notin bridgeEnds
          /\ Turn("hostInput", "done") /\ inputFailed' = TRUE /\ UNCHANGED inputPipe
    /\ UNCHANGED <<bridgeVars, host, outcome, targetVars, console, answer, bridgeEnds, hostEnds,
                   outputVars, typed, stdin, sizeVars>>

\* RelayInput, to the pseudoconsole: the end of the pipe is no failure, and the pseudoconsole's
\* input stays open after it; a write that fails is a failure.
HostInputRelay ==
    /\ \/ /\ relay["hostInput"] = "code" /\ Turn("hostInput", "read")
          /\ UNCHANGED <<inputPipe, inputFailed>>
       \/ /\ relay["hostInput"] = "read" /\ inputPipe > 0
          /\ inputPipe' = inputPipe - 1
          /\ IF console = "ended" THEN Turn("hostInput", "done") /\ inputFailed' = TRUE
             ELSE Turn("hostInput", "code") /\ UNCHANGED inputFailed
       \/ /\ relay["hostInput"] = "read" /\ inputPipe = 0 /\ "input" \notin bridgeEnds
          /\ Turn("hostInput", "done") /\ UNCHANGED <<inputPipe, inputFailed>>
    /\ UNCHANGED <<bridgeVars, host, outcome, targetVars, console, answer, bridgeEnds, hostEnds,
                   outputVars, typed, stdin, sizeVars>>

\* RelayOutput, from the pseudoconsole, which must never find its output unread.
HostOutputRelay ==
    /\ relay["hostOutput"] = "read"
    /\ \/ /\ conOut # <<>> /\ conOut' = Tail(conOut) /\ UNCHANGED relay
          /\ IF "output" \in bridgeEnds \cap hostEnds
             THEN Len(outPipe) < Capacity /\ outPipe' = Append(outPipe, Head(conOut))
             ELSE UNCHANGED outPipe
       \/ /\ conOut = <<>> /\ console = "ended"
          /\ Turn("hostOutput", "done") /\ UNCHANGED <<conOut, outPipe>>
    /\ UNCHANGED <<bridgeVars, hostVars, targetVars, console, answer, bridgeEnds, hostEnds,
                   screenTakes, screen, emitted, inputVars, sizeVars>>

\* The resize thread ends with its pipe, or when the pseudoconsole takes no size.
HostResizeRelay ==
    /\ \/ /\ relay["hostResize"] = "code" /\ Turn("hostResize", "read")
          /\ UNCHANGED <<sizePipe, conSize>>
       \/ /\ relay["hostResize"] = "read" /\ ReadSize(console # "ended")
          /\ Turn("hostResize", IF console # "ended" THEN "code" ELSE "done")
       \/ /\ relay["hostResize"] = "read" /\ NoMoreSizes
          /\ Turn("hostResize", "done") /\ UNCHANGED <<sizePipe, conSize>>
    /\ UNCHANGED <<bridgeVars, hostVars, targetVars, console, answer, bridgeEnds, hostEnds,
                   outputVars, inputVars, window, sent>>
-----------------------------------------------------------------------------
(* The broker, the target, its pseudoconsole and the user.                 *)

HostLives == host \notin {"absent", "reported", "exited", "killed"}

\* The host and all it started die: its pipe ends close, and what it held is lost.
HostDies ==
    /\ host' = "killed" /\ hostEnds' = {} /\ console' = "ended"
    /\ child' = IF child \in {"running", "leaving"} THEN "killed" ELSE child
    /\ descendants' = FALSE
    /\ relay' = [r \in DOMAIN relay |-> IF r \in HostRelays THEN "done" ELSE relay[r]]
    /\ UNCHANGED <<bridgeVars, outcome, inputFailed, bridgeEnds, outputVars, inputVars,
                   sizeVars>>

\* The worker reads the report of a host that has exited (ReadPseudoConsoleHostResult).
BrokerAnswers ==
    /\ answer = "none" /\ bridge # "ended"
    /\ host \in {"reported", "exited", "killed"}
    /\ answer' = IF host = "reported" THEN "code" ELSE "failure"
    /\ UNCHANGED <<bridgeVars, hostVars, targetVars, console, bridgeEnds, hostEnds, relay,
                   outputVars, inputVars, sizeVars>>

\* A launcher that is gone is noticed at the control pipe, and the session is torn down.
BrokerTearsDown ==
    /\ bridge = "ended" /\ HostLives
    /\ HostDies
    /\ UNCHANGED answer

\* The service is stopped, or the host crashes.
SessionIsKilled ==
    /\ HostLives
    /\ HostDies
    /\ UNCHANGED answer

\* The terminal's window is closed: no mode is restored.
LauncherDies ==
    /\ bridge \notin {"init", "ended"}
    /\ Return("killed")
    /\ relay' = [r \in DOMAIN relay |-> IF r \in BridgeRelays THEN "done" ELSE relay[r]]
    /\ UNCHANGED <<startFailed, redirected, rawMode, hostVars, targetVars, console, answer,
                   hostEnds, outputVars, inputVars, sizeVars>>

\* A process that ends leaves its console first, and may leave processes attached to it.
TargetLeaves ==
    /\ child = "running"
    /\ child' = "leaving" /\ descendants' \in BOOLEAN
    /\ UNCHANGED <<bridgeVars, hostVars, console, answer, bridgeEnds, hostEnds, relay,
                   outputVars, inputVars, sizeVars>>

TargetExits ==
    /\ child = "leaving"
    /\ child' = "exited"
    /\ UNCHANGED <<bridgeVars, hostVars, descendants, console, answer, bridgeEnds, hostEnds,
                   relay, outputVars, inputVars, sizeVars>>

DescendantsLeave ==
    /\ descendants
    /\ descendants' = FALSE
    /\ UNCHANGED <<bridgeVars, hostVars, child, console, answer, bridgeEnds, hostEnds, relay,
                   outputVars, inputVars, sizeVars>>

\* The pseudoconsole writes frames for as long as it lives, the last ones while it is closing.
Emit ==
    /\ console \in {"open", "closing"} /\ child # "none"
    /\ emitted < MaxOutput /\ Len(conOut) < Capacity /\ ~Ended("hostOutput")
    /\ emitted' = emitted + 1 /\ conOut' = Append(conOut, emitted')
    /\ UNCHANGED <<bridgeVars, hostVars, targetVars, console, answer, bridgeEnds, hostEnds,
                   relay, screenTakes, outPipe, screen, inputVars, sizeVars>>

\* It ends when it is closed, or when nobody is attached to it any more.
ConsoleEnds ==
    /\ \/ console = "closing"
       \/ console = "open" /\ child \in {"leaving", "exited", "killed"} /\ ~descendants
    /\ console' = "ended"
    /\ UNCHANGED <<bridgeVars, hostVars, targetVars, answer, bridgeEnds, hostEnds, relay,
                   outputVars, inputVars, sizeVars>>

\* Nobody reads what is typed before the launcher has set up the terminal and after its end.
Type ==
    /\ typed < MaxKeys /\ rawMode /\ bridge # "ended"
    /\ typed' = typed + 1 /\ stdin' = stdin + 1
    /\ UNCHANGED <<bridgeVars, hostVars, targetVars, console, answer, bridgeEnds, hostEnds,
                   relay, outputVars, inputPipe, sizeVars>>

\* Nobody looks at the window before the relay of its size has started and after it has ended.
ResizeWindow ==
    /\ window <= MaxResizes /\ relay["bridgeResize"] = "code"
    /\ window' = window + 1
    /\ UNCHANGED <<bridgeVars, hostVars, targetVars, console, answer, bridgeEnds, hostEnds,
                   relay, outputVars, inputVars, sent, sizePipe, conSize>>

-----------------------------------------------------------------------------
BridgeStep ==
    \/ Launch \/ Connect \/ Start \/ WaitForOutput \/ StopResize \/ CancelInput \/ JoinInput
    \/ GiveUpOutput \/ JoinOutput \/ AwaitExit

HostStep ==
    \/ OpenPipe \/ ReadInitialSize \/ CreateConsole \/ Spawn \/ WaitForTarget \/ Terminate
    \/ CancelHostResize \/ JoinHostResize \/ CancelHostInput \/ CloseConsole \/ JoinHostOutput

RelayStep ==
    \/ BridgeInputRelay \/ BridgeOutputRelay \/ BridgeResizeRelay
    \/ HostInputRelay \/ HostOutputRelay \/ HostResizeRelay

\* What goes on by itself; everybody else may act or not.
SystemStep ==
    \/ BridgeStep \/ HostStep \/ RelayStep
    \/ BrokerAnswers \/ BrokerTearsDown \/ TargetExits \/ ConsoleEnds

Environment ==
    \/ StdinEnds \/ SessionIsKilled \/ LauncherDies \/ TargetLeaves \/ DescendantsLeave \/ Emit
    \/ Type \/ ResizeWindow

RelayNext == SystemStep \/ Environment

RelaySpec == RelayInit /\ [][RelayNext]_relayVars /\ WF_relayVars(SystemStep)
-----------------------------------------------------------------------------
(* Properties.                                                             *)

\* Variables keep their shape.
ControlTypeOK ==
    /\ bridge \in {"init", "connect", "start", "relay", "stopResize", "stopInput", "joinInput",
                   "stopOutput", "joinOutput", "await", "ended"}
    /\ startFailed \in BOOLEAN /\ redirected \in BOOLEAN /\ rawMode \in BOOLEAN
    /\ result \in {"none", "code", "failure", "killed"}
    /\ host \in {"absent", "open", "size", "create", "spawn", "wait", "terminate",
                 "stopResize", "joinResize", "stopInput", "joinInput", "joinOutput",
                 "reported", "exited", "killed"}
    /\ outcome \in {"none", "exited", "cancelled", "failed"} /\ inputFailed \in BOOLEAN
    /\ child \in {"none", "running", "leaving", "exited", "killed"} /\ descendants \in BOOLEAN
    /\ console \in {"none", "open", "closing", "ended"}
    /\ answer \in {"none", "code", "failure"}

PipeTypeOK ==
    /\ bridgeEnds \subseteq Pipes /\ hostEnds \subseteq Pipes
    /\ relay \in [BridgeRelays \cup HostRelays -> RelayStates]
    /\ screenTakes \in BOOLEAN
    /\ conOut \in Seq(1..MaxOutput) /\ outPipe \in Seq(1..MaxOutput)
    /\ screen \in Seq(1..MaxOutput) /\ emitted \in 0..MaxOutput
    /\ typed \in 0..MaxKeys /\ stdin \in 0..MaxKeys /\ inputPipe \in 0..Capacity
    /\ window \in 1..(MaxResizes + 1) /\ sent \in 0..(MaxResizes + 1)
    /\ sizePipe \in Seq(1..(MaxResizes + 1)) /\ Len(sizePipe) <= SizeCapacity
    /\ conSize \in 0..(MaxResizes + 1)

RelayTypeOK == ControlTypeOK /\ PipeTypeOK

\* No end of a pipe, and no pseudoconsole, is closed under a thread that still uses it, in
\* whatever order the threads end (Stop, StopRelays).
HandlesOutliveRelays ==
    /\ ~Ended("bridgeInput") => "input" \in bridgeEnds
    /\ ~Ended("bridgeOutput") => "output" \in bridgeEnds
    /\ ~Ended("bridgeResize") => "resize" \in bridgeEnds
    /\ (\E r \in HostRelays : ~Ended(r)) => HostLives
    /\ console = "closing" \/ host = "joinOutput" => Ended("hostInput") /\ Ended("hostResize")

\* A launcher that ends by itself gives the terminal its mode back (TerminalMode).
ModeIsRestored == rawMode => bridge # "ended" \/ result = "killed"

\* The screen shows the frames in order and without a gap, whatever is cancelled or cut off,
\* and an exit code is returned only for a target that ended by itself, and after everything
\* the pseudoconsole emitted was shown, unless the screen took no more (RelayOutput, StopRelays).
CodeMeansComplete ==
    /\ screen = [i \in 1..Len(screen) |-> i]
    /\ result = "code" =>
          /\ child = "exited"
          /\ Len(screen) = emitted \/ ~screenTakes

\* The host terminates only a target that has already left its console: the end of stdin or the
\* launcher's end is no failure of the input (RelayInput; TerminalDisconnectTests.cpp).
TargetIsSpared == host = "terminate" => child \in {"leaving", "exited"}

\* A thread missed its cancel and reads from a pipe that nobody writes to or closes.
CancelIsLost ==
    \/ bridge = "joinInput" /\ relay["bridgeInput"] = "read"
    \/ host = "joinResize" /\ relay["hostResize"] = "read"
    \/ host = "joinInput" /\ relay["hostInput"] = "read"

\* Once the target has exited, processes that stay attached, full pipes, a dead screen or a
\* failed start cannot keep the launcher from returning; only a lost cancel can.
OnlyLostCancelsBlock == child = "exited" ~> bridge = "ended" \/ CancelIsLost

\* The pseudoconsole gets the size of the window, however many changes are under way.
SizesArrive ==
    bridge = "relay" /\ host = "wait" ~> conSize = window \/ bridge # "relay" \/ host # "wait"

-----------------------------------------------------------------------------
(* What these rest on.                                                     *)

\* The launcher's main thread: which pipes and relays each of its steps still has.  Past its
\* wait for the output, unless its start failed, nothing is left to read.
BridgeFollowsStep ==
    /\ bridge \in {"init", "connect", "start"} =>
          ~startFailed /\ ~rawMode /\ \A r \in BridgeRelays : relay[r] = "none"
    /\ bridge = "init" => host = "absent"
    /\ bridge \in {"connect", "start", "relay", "stopResize"} => bridgeEnds = Pipes
    /\ bridge \in {"stopInput", "joinInput"} => {"input", "output"} \subseteq bridgeEnds
    /\ bridge \in {"stopOutput", "joinOutput"} => "output" \in bridgeEnds /\ Ended("bridgeInput")
    /\ bridge \in {"stopInput", "joinInput", "stopOutput", "joinOutput"} => Ended("bridgeResize")
    /\ bridge = "await" => ~startFailed /\ ~rawMode /\ \A r \in BridgeRelays : Ended(r)
    /\ bridge = "ended" <=> result # "none"
    /\ bridge = "ended" => bridgeEnds = {}
    /\ bridge = "relay" => ~startFailed /\ relay["bridgeOutput"] # "none"
    /\ bridge \notin {"init", "connect", "start", "relay", "ended"} /\ ~startFailed =>
          relay["bridgeOutput"] = "done"
    /\ bridge \notin {"init", "connect", "ended"} => host \notin {"absent", "open"}
    /\ relay["bridgeOutput"] = "done" /\ bridge # "ended" /\ ~startFailed =>
          outPipe = <<>> /\ "output" \notin hostEnds
    /\ stdin <= typed

\* The host's main thread: what has become of the target, the relays and the pseudoconsole.
HostFollowsStep ==
    /\ host \in {"absent", "open", "size", "create"} =>
          /\ console = "none" /\ outcome = "none"
          /\ \A r \in HostRelays : relay[r] = "none"
    /\ host \in {"absent", "open", "size", "create", "spawn"} => child = "none" /\ ~inputFailed
    /\ host \in {"absent", "open"} => "resize" \notin hostEnds
    /\ HostLives /\ host # "open" /\ ~startFailed => "output" \in hostEnds
    /\ host \in {"spawn", "wait", "terminate"} \/ outcome = "exited" => relay["hostOutput"] # "none"
    /\ host = "spawn" => console = "open"
    /\ host = "wait" =>
          /\ child \in {"running", "leaving", "exited"}
          /\ inputFailed \/ console = "ended" => child \in {"leaving", "exited"}
    /\ outcome = "exited" => child = "exited"
    /\ host \in {"stopInput", "joinInput"} => Ended("hostResize")
    /\ console = "closing" => host = "joinOutput" \/ ~HostLives
    /\ relay["hostOutput"] = "done" /\ host # "killed" => conOut = <<>> /\ console = "ended"
    /\ host = "reported" => outcome = "exited" /\ relay["hostOutput"] = "done"
    /\ answer = "code" => host = "reported"
    /\ result = "code" => host = "reported"

\* frames carries on, without a gap, what has reached n already.
CarriesOn(frames, n) == \A i \in 1..Len(frames) : frames[i] = n + i

\* While nobody has given up, every frame emitted is on its way or shown.
FramesAreWhole ==
    /\ CarriesOn(screen, 0)
    /\ screenTakes =>
          /\ CarriesOn(outPipe, Len(screen))
          /\ \/ "output" \in bridgeEnds \cap hostEnds
             \/ ~startFailed /\ host # "killed" /\ bridge # "ended"
             => /\ CarriesOn(conOut, Len(screen) + Len(outPipe))
                /\ emitted = Len(screen) + Len(outPipe) + Len(conOut)
    /\ result = "code" => Len(screen) = emitted \/ ~screenTakes

\* The inductive invariant of the relays.
RelayInvariant ==
    /\ RelayTypeOK /\ HandlesOutliveRelays /\ ModeIsRestored /\ TargetIsSpared
    /\ BridgeFollowsStep /\ HostFollowsStep /\ FramesAreWhole
-----------------------------------------------------------------------------
(* Sizes: why the last change of the window reaches the pseudoconsole.     *)

\* What was sent last is what the pseudoconsole has or what waits at the end of the pipe.
SizesFollowWindow ==
    /\ conSize <= sent /\ sent <= window
    /\ sizePipe # <<>> => sizePipe[Len(sizePipe)] = sent
    /\ sizePipe = <<>> /\ console # "ended" => conSize = sent

\* The two threads that carry sizes run while both ends of their pipe are there.
SizeRelaysRun ==
    /\ bridge = "relay" /\ "resize" \in hostEnds => relay["bridgeResize"] = "code"
    /\ host \in {"size", "create", "spawn", "wait"} => "resize" \in hostEnds
    /\ host \in {"spawn", "wait"} /\ "resize" \in bridgeEnds /\ console # "ended" =>
          relay["hostResize"] \in {"code", "read"}

\* While a target runs on a console whose size is not that of the window, the window's size is
\* about to be sent, or is the last one in the pipe with a thread to read it: what SizesArrive
\* promises in the end, no step before it has made impossible.
SizesAreUnderWay ==
    bridge = "relay" /\ host = "wait" /\ child = "running" /\ conSize # window =>
        \/ window # sent /\ relay["bridgeResize"] = "code" /\ "resize" \in hostEnds
        \/ /\ sizePipe # <<>> /\ sizePipe[Len(sizePipe)] = window
           /\ relay["hostResize"] \in {"code", "read"}

\* The pseudoconsole never goes back to a size the window had before, and never gets one the
\* window has not had yet, whatever is read at once or left in the pipe.
SizesGoForward == [][conSize <= conSize' /\ conSize' <= window]_relayVars
-----------------------------------------------------------------------------
(* Progress: why a session left alone comes to an end.                     *)

One(P) == IF P THEN 1 ELSE 0

TurnsLeft == [none |-> 3, code |-> 2, read |-> 1, done |-> 0]
BridgeLeft ==
    [init |-> 12, connect |-> 11, start |-> 10, relay |-> 7, stopResize |-> 6, stopInput |-> 5,
     joinInput |-> 4, stopOutput |-> 3, joinOutput |-> 2, await |-> 1, ended |-> 0]
HostLeft ==
    [absent |-> 14, open |-> 11, size |-> 10, create |-> 9, spawn |-> 8, wait |-> 7,
     terminate |-> 6, stopResize |-> 5, joinResize |-> 4, stopInput |-> 3, joinInput |-> 2,
     joinOutput |-> 1, reported |-> 0, exited |-> 0, killed |-> 0]
ConsoleLeft == [none |-> 3, open |-> 2, closing |-> 1, ended |-> 0]

\* The steps the two main threads have left, those of the relays, and those of the others.
MainWork ==
    BridgeLeft[bridge] + HostLeft[host] + ConsoleLeft[console]
      + One(host = "open" /\ "input" \notin hostEnds)
      + One(host = "open" /\ "output" \notin hostEnds)
      + One(child = "leaving") + One(answer = "none")
RelayWork ==
    TurnsLeft[relay["bridgeInput"]] + TurnsLeft[relay["bridgeOutput"]]
      + TurnsLeft[relay["bridgeResize"]] + TurnsLeft[relay["hostInput"]]
      + TurnsLeft[relay["hostOutput"]] + TurnsLeft[relay["hostResize"]]

\* What is under way in the pipes costs its reader a turn besides.
PipeWork ==
    4 * stdin + 2 * inputPipe + 2 * Len(conOut) + Len(outPipe)
      + 3 * One(window # sent) + 2 * Len(sizePipe)

Work == MainWork + RelayWork + PipeWork

\* No thread polls or repeats itself for ever: each step of the system uses up work, and what
\* the user, the target or a fault does adds at most a constant amount.
WorkRunsOut ==
    [][/\ Work' < Work \/ ~SystemStep
       /\ Work' <= Work + 4]_relayVars

BridgeCanMove ==
    \/ bridge \in {"init", "connect", "start", "stopInput", "stopOutput"}
    \/ bridge = "relay" /\ relay["bridgeOutput"] = "done"
    \/ bridge = "stopResize" /\ Ended("bridgeResize")
    \/ bridge = "joinInput" /\ Ended("bridgeInput")
    \/ bridge = "joinOutput" /\ Ended("bridgeOutput")
    \/ bridge = "await" /\ answer # "none"

HostCanMove ==
    \/ host \in {"open", "create", "spawn", "terminate", "stopResize", "stopInput"}
    \/ host = "size" /\ (sizePipe # <<>> \/ "resize" \notin bridgeEnds)
    \/ host = "wait" /\ (child = "exited" \/ inputFailed)
    \/ host = "joinResize" /\ Ended("hostResize")
    \/ host = "joinInput" /\ Ended("hostInput")
    \/ host = "joinOutput" /\ Ended("hostOutput")

RelayCanMove ==
    \/ relay["bridgeInput"] = "code" /\ (redirected \/ StopRequested)
    \/ relay["bridgeOutput"] = "read" /\ (outPipe # <<>> \/ "output" \notin hostEnds)
    \/ relay["bridgeResize"] = "code" /\ bridge = "stopResize"
    \/ relay["hostInput"] = "code"
    \/ /\ relay["hostOutput"] = "read" /\ conOut # <<>>
       /\ "output" \in bridgeEnds \cap hostEnds => Len(outPipe) < Capacity
    \/ relay["hostOutput"] = "read" /\ conOut = <<>> /\ console = "ended"
    \/ relay["hostResize"] = "code"

OthersCanMove ==
    \/ bridge # "ended" /\ answer = "none" /\ host \in {"reported", "exited", "killed"}
    \/ bridge = "ended" /\ HostLives
    \/ child = "leaving"
    \/ console = "closing"

CanMove == BridgeCanMove \/ HostCanMove \/ RelayCanMove \/ OthersCanMove

\* The session is over, its target runs, or a thread missed its only cancel.
AtRest ==
    \/ bridge = "ended" /\ ~HostLives
    \/ host = "wait" /\ child = "running"
    \/ CancelIsLost

\* The launcher, the host, their six relays and the broker never all wait for one another:
\* with full pipes, a dead screen, a failed start or an end that is gone, one of them can go on.
NobodyIsStuck == AtRest \/ CanMove

\* What this rests on: no relay is in a state its loop does not have, a host that has not read
\* its first size finds one, the ends of a host that is gone are closed, and a host that joins
\* its output has closed the pseudoconsole.
WaitsFollowStep ==
    /\ relay["bridgeOutput"] # "code" /\ relay["hostOutput"] # "code"
    /\ relay["bridgeResize"] # "read"
    /\ bridge = "joinOutput" => "output" \notin hostEnds
    /\ ~HostLives => hostEnds = {}
    /\ host \in {"open", "size"} /\ bridge \notin {"init", "connect", "start", "ended"} =>
          sizePipe # <<>>
    /\ host \in {"spawn", "wait", "terminate", "stopResize", "joinResize", "stopInput",
                 "joinInput"} => console # "none"
    /\ host = "joinOutput" => console \in {"closing", "ended"}
=============================================================================
