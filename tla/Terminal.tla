------------------------------ MODULE Terminal ------------------------------
(***************************************************************************)
(* A terminal in the browser (components/terminal.tsx), the backend's      *)
(* bridge (routes/terminal.ts) and the exec session of the Kubernetes API  *)
(* behind it: one mounted component with the socket it opens, up to its    *)
(* end.  The page gives a terminal of another pod or mode another key, so  *)
(* it is another component.  Both sockets deliver in order; each may be    *)
(* lost on its own, and the component may go away at any moment.           *)
(***************************************************************************)
EXTENDS Naturals, Sequences

CONSTANTS
    AsText,     \* the framework hands a message over as the text that was sent
    MaxLines,   \* bound: lines the pod prints
    MaxInputs   \* bound: inputs and changes of the size

VARIABLES
    console,   \* mode "console"; otherwise a shell
    mounted,   \* the component is on the page
    tab,       \* the browser's socket: "connecting", "open", "closing", "closed"
    connected, \* the badge
    ready,     \* the terminal has printed "ready"
    shown,     \* the live lines it has printed
    up, down,  \* messages on their way to and from the backend
    end,       \* the backend's socket: "none", "open", "closed"
    handler,   \* its open handler: "none", "checking", "done", "failed"
    pod,       \* the exec socket: "none", "connecting", "open", "closed"
    history,   \* the log that console mode shows first: "none", "reading", "done"
    printed,   \* the lines the pod has printed in this session
    typed,     \* the inputs of a terminal that was ready
    received,  \* those of them the pod got
    inputs,    \* number of inputs and changes of the size
    early      \* history: the client left while a socket was still connecting

vars == <<console, mounted, tab, connected, ready, shown, up, down, end, handler, pod,
          history, printed, typed, received, inputs, early>>
screen == <<mounted, tab, connected, ready, shown, typed, inputs>>
bridge == <<end, handler, pod, history, printed, received>>

Resize == [type |-> "resize"]
Input(n, r) == [type |-> "input", n |-> n, ready |-> r]
Line(n) == [type |-> "line", n |-> n]   \* live output
Log == [type |-> "log"]                 \* the lines read from the log
Ready == [type |-> "ready"]
Error == [type |-> "error"]
Close == [type |-> "close"]
Fin == [type |-> "fin"]                 \* the end of the WebSocket itself

Init ==
    /\ console \in BOOLEAN
    /\ mounted = TRUE /\ tab = "connecting" /\ connected = FALSE /\ ready = FALSE
    /\ shown = <<>> /\ up = <<>> /\ down = <<>>
    /\ end = "none" /\ handler = "none" /\ pod = "none" /\ history = "none"
    /\ printed = <<>> /\ typed = <<>> /\ received = <<>>
    /\ inputs = 0 /\ early = FALSE

\* ws.send of the backend: nothing happens once its end is closed.
Sends(messages) == down' = IF end = "open" THEN down \o messages ELSE down
Hangs == end' = IF end = "open" THEN "closed" ELSE end

-----------------------------------------------------------------------------
(* The browser.                                                             *)

\* onopen, and the open handler of the backend begins.
Handshake ==
    /\ tab = "connecting"
    /\ tab' = "open" /\ connected' = mounted
    /\ up' = <<Resize>>
    /\ end' = "open" /\ handler' = "checking"
    /\ UNCHANGED <<console, mounted, ready, shown, down, pod, history, printed, typed,
                   received, inputs, early>>

\* onerror and onclose: no connection, or the connection is lost.  The backend
\* notices later.
LoseConnection ==
    /\ tab \in {"connecting", "open"}
    /\ tab' = "closed" /\ connected' = FALSE
    /\ down' = <<>>
    /\ up' = IF tab = "open" THEN <<Fin>> ELSE <<>>
    /\ UNCHANGED <<console, mounted, ready, shown, bridge, typed, inputs, early>>

\* The cleanup of the effect closes the socket only when it is open.
Unmount ==
    /\ mounted
    /\ mounted' = FALSE /\ connected' = FALSE
    /\ tab' = IF tab = "open" THEN "closing" ELSE tab
    /\ up' = IF tab = "open" THEN Append(up, Fin) ELSE up
    /\ early' = (early \/ tab = "connecting")
    /\ UNCHANGED <<console, ready, shown, down, bridge, typed, inputs>>

\* term.onData
Type ==
    /\ mounted /\ tab = "open" /\ inputs < MaxInputs
    /\ inputs' = inputs + 1
    /\ up' = Append(up, Input(inputs, ready))
    /\ typed' = IF ready THEN Append(typed, inputs) ELSE typed
    /\ UNCHANGED <<console, mounted, tab, connected, ready, shown, down, bridge, early>>

\* term.onResize
Fit ==
    /\ mounted /\ tab = "open" /\ inputs < MaxInputs
    /\ inputs' = inputs + 1
    /\ up' = Append(up, Resize)
    /\ UNCHANGED <<console, mounted, tab, connected, ready, shown, down, bridge, typed, early>>

\* onmessage and onclose; a socket that is closing drops messages.
ClientGets ==
    /\ down # <<>> /\ tab \in {"open", "closing"}
    /\ down' = Tail(down)
    /\ LET m == Head(down)
           taken == tab = "open" /\ m # Fin IN
        /\ tab' = IF m = Fin THEN "closed" ELSE tab
        /\ connected' = (connected /\ m \notin {Close, Fin})
        /\ ready' = (ready \/ (taken /\ m = Ready))
        /\ shown' = IF taken /\ m.type = "line" THEN Append(shown, m) ELSE shown
    /\ UNCHANGED <<console, mounted, up, bridge, typed, inputs, early>>

-----------------------------------------------------------------------------
(* The bridge.                                                              *)

\* Not an administrator, no pod, no cluster, or an error after the check.
Refuse ==
    /\ handler = "checking"
    /\ handler' = "done"
    /\ Sends(<<Error, Fin>>) /\ Hangs
    /\ UNCHANGED <<console, screen, up, pod, history, printed, received, early>>

\* The session cannot be looked up: the handler rejects before its try block.
CheckFails ==
    /\ handler = "checking"
    /\ handler' = "failed"
    /\ UNCHANGED <<console, screen, up, down, end, pod, history, printed, received, early>>

\* Mutant: the client is told "ready" before the exec session is open.
Accept_Ready ==
    /\ handler = "checking"
    /\ handler' = "done" /\ pod' = "connecting"
    /\ Sends(<<Ready>>)
    /\ UNCHANGED <<console, screen, up, end, history, printed, received, early>>

\* The client may have left during the check.
Accept ==
    /\ handler = "checking"
    /\ handler' = "done" /\ pod' = "connecting"
    /\ UNCHANGED <<console, screen, up, down, end, history, printed, received, early>>

PodOpens ==
    /\ pod = "connecting"
    /\ pod' = "open"
    /\ IF console THEN history' = "reading" /\ UNCHANGED down
                  ELSE Sends(<<Ready>>) /\ UNCHANGED history
    /\ UNCHANGED <<console, screen, up, end, handler, printed, received, early>>

\* Mutant: a log that cannot be read is not followed by "ready".
LogRead_Silent ==
    /\ history = "reading"
    /\ history' = "done"
    /\ \E messages \in {<<>>, <<Log, Ready>>} : Sends(messages)
    /\ UNCHANGED <<console, screen, up, end, handler, pod, printed, received, early>>

\* The log, and "ready"; or "ready" alone when it is empty or cannot be read.
LogRead ==
    /\ history = "reading"
    /\ history' = "done"
    /\ \E lines \in {<<>>, <<Log>>} : Sends(Append(lines, Ready))
    /\ UNCHANGED <<console, screen, up, end, handler, pod, printed, received, early>>

\* Mutant: live output is dropped while the log is read.
PodPrints_AfterLog ==
    /\ pod = "open" /\ Len(printed) < MaxLines
    /\ printed' = Append(printed, Line(Len(printed)))
    /\ IF history = "reading" THEN UNCHANGED down ELSE Sends(<<Line(Len(printed))>>)
    /\ UNCHANGED <<console, screen, up, end, handler, pod, history, received, early>>

\* Output goes out as it comes, also while the log is read.
PodPrints ==
    /\ pod = "open" /\ Len(printed) < MaxLines
    /\ printed' = Append(printed, Line(Len(printed)))
    /\ Sends(<<Line(Len(printed))>>)
    /\ UNCHANGED <<console, screen, up, end, handler, pod, history, received, early>>

\* Mutant: the client's end is left open.
PodEnds_NoClose ==
    /\ pod \in {"connecting", "open"}
    /\ pod' = "closed"
    /\ Sends(<<Error>>)
    /\ UNCHANGED <<console, screen, up, end, handler, history, printed, received, early>>

\* The error event if there was one, then close: the process in the pod ended,
\* or its connection failed.
PodEnds ==
    /\ pod \in {"connecting", "open"}
    /\ pod' = "closed"
    /\ \E errors \in {<<>>, <<Error>>} : Sends(errors \o <<Close, Fin>>)
    /\ Hangs
    /\ UNCHANGED <<console, screen, up, handler, history, printed, received, early>>

\* Mutant: the exec session outlives its client.
ClientLeft_PodStays ==
    /\ pod' = pod
    /\ early' = (early \/ handler = "checking" \/ pod = "connecting")
    /\ Sends(<<Fin>>) /\ Hangs
    /\ UNCHANGED received

\* The close handler: an exec session that is not open yet is left alone.
ClientLeft ==
    /\ pod' = IF pod = "open" THEN "closed" ELSE pod
    /\ early' = (early \/ handler = "checking" \/ pod = "connecting")
    /\ Sends(<<Fin>>) /\ Hangs
    /\ UNCHANGED received

\* The message handler: what is not text (parseTerminalMessage), or comes before the
\* exec session is open, is dropped.
Forward(m) ==
    /\ received' = IF AsText /\ pod = "open" /\ m.type = "input" /\ m.ready
                   THEN Append(received, m.n) ELSE received
    /\ UNCHANGED <<down, end, pod, early>>

ServerGets ==
    /\ up # <<>>
    /\ up' = Tail(up)
    /\ IF Head(up) = Fin THEN ClientLeft ELSE Forward(Head(up))
    /\ UNCHANGED <<console, screen, handler, history, printed>>

Next ==
    \/ Handshake \/ LoseConnection \/ Unmount \/ Type \/ Fit \/ ClientGets
    \/ Refuse \/ CheckFails \/ Accept \/ PodOpens \/ LogRead \/ PodPrints \/ PodEnds
    \/ ServerGets

Spec == Init /\ [][Next]_vars

\* A connection is made or fails, messages arrive, and calls are answered.  The
\* pod, the user and the network owe nothing else.
Fairness ==
    /\ WF_vars(Handshake \/ (tab = "connecting" /\ LoseConnection))
    /\ WF_vars(Refuse \/ CheckFails \/ Accept)
    /\ WF_vars(PodOpens \/ (pod = "connecting" /\ PodEnds))
    /\ WF_vars(LogRead)
    /\ WF_vars(ServerGets) /\ WF_vars(ClientGets)
FairSpec == Spec /\ Fairness
-----------------------------------------------------------------------------
(* Properties.                                                              *)

Message == {Resize, Log, Ready, Error, Close, Fin}
             \cup {Input(n, r) : n \in 0 .. MaxInputs, r \in BOOLEAN}
             \cup {Line(n) : n \in 0 .. MaxLines}

\* The type of the state.
TypeOK ==
    /\ console \in BOOLEAN /\ mounted \in BOOLEAN /\ connected \in BOOLEAN
    /\ ready \in BOOLEAN /\ early \in BOOLEAN
    /\ tab \in {"connecting", "open", "closing", "closed"}
    /\ shown \in Seq(Message) /\ up \in Seq(Message) /\ down \in Seq(Message)
    /\ end \in {"none", "open", "closed"}
    /\ handler \in {"none", "checking", "done", "failed"}
    /\ pod \in {"none", "connecting", "open", "closed"}
    /\ history \in {"none", "reading", "done"}
    /\ printed \in Seq(Message)
    /\ typed \in Seq(0 .. MaxInputs) /\ received \in Seq(0 .. MaxInputs)
    /\ inputs \in 0 .. MaxInputs

Output == INSTANCE Channel WITH sent <- printed, got <- shown,
                                Message <- {Line(n) : n \in 0 .. MaxLines}
Keyboard == INSTANCE Channel WITH sent <- typed, got <- received, Message <- 0 .. MaxInputs

\* What the terminal shows of the pod's live output is what the pod printed,
\* line by line from the first one, however the log, the end of the session and
\* the loss of a connection fall.
ShowsWhatIsPrinted == Output!Spec

\* What is typed into a terminal that said "ready" reaches the pod in order and
\* without a gap, up to the end of the session.
ReadyMeansListening == Keyboard!Spec

\* When the session in the pod ends, the badge goes.
EndIsSeen == pod = "closed" ~> ~connected

\* A terminal with the badge becomes ready or loses the badge, unless the
\* backend could not look up the session.
OpensOrSaysSo == connected ~> ready \/ ~connected \/ handler = "failed"

\* A terminal that is closed leaves no exec session behind, unless it left while
\* one of the two sockets was connecting.
LeavesNoSession == ~mounted ~> pod \in {"none", "closed"} \/ early

\* Both directions (terminal.ts, 140 to 330).
Carries == ShowsWhatIsPrinted /\ ReadyMeansListening

\* How every session ends (terminal.ts, 100 to 367).
SessionsEnd == EndIsSeen /\ OpensOrSaysSo /\ LeavesNoSession
=============================================================================
