--------------------------- MODULE TerminalSession ---------------------------
(***************************************************************************)
(* Sessions of the dashboard's terminal: the panel in the browser, the     *)
(* Gateway's WebSocket proxy, the terminal daemon and the process on its   *)
(* PTY.  A panel has one socket at a time and opens a new one on           *)
(* Reconnect; sessions are numbered in that order.  What is typed and      *)
(* shown, and the size of the PTY, are left out.                           *)
(***************************************************************************)
EXTENDS Naturals

CONSTANTS
  Sessions,  \* bound: number of sessions
  None

ASSUME SessionAssumption == Sessions \in Nat /\ None \notin 1 .. Sessions

VARIABLES
  panel,   \* TerminalPanel: its current socket and the status it shows
  sock,    \* the browser's socket of each session
  hop,     \* the proxy's connection to the daemon
  daemon,  \* where the daemon's handler of a session is
  proc,    \* the process on the PTY
  exit     \* the exit frame

Session == 1 .. Sessions
sessionVars == <<panel, sock, hop, daemon, proc, exit>>

SessionTypeOK ==
  /\ panel \in [ws: Session \cup {None},
                status: {"connecting", "connected", "ended", "disconnected", "gone"}]
  /\ sock \in [Session -> {"unused", "connecting", "open", "closing", "closed"}]
  /\ hop \in [Session -> {"none", "up", "down"}]
  /\ daemon \in [Session -> {"none", "pumping", "exiting", "ending", "done"}]
  /\ proc \in [Session -> {"none", "running", "exited", "killed"}]
  /\ exit \in [Session -> {"none", "sent", "shown"}]

SessionInit ==
  /\ panel = [ws |-> None, status |-> "connecting"]
  /\ sock = [s \in Session |-> "unused"]
  /\ hop = [s \in Session |-> "none"]
  /\ daemon = [s \in Session |-> "none"]
  /\ proc = [s \in Session |-> "none"]
  /\ exit = [s \in Session |-> "none"]

\* Mutant of Closing: Reconnect leaves the previous socket alone.
ClosingNone == sock

\* close() on the panel's socket; its onclose comes later.
Closing == IF panel.ws = None THEN sock ELSE [sock EXCEPT ![panel.ws] = "closing"]

\* connect, at first and from the Reconnect button.
Connect(s) ==
  /\ panel.status \in {"disconnected", "ended"} \/ (panel.status = "connecting" /\ s = 1)
  /\ sock[s] = "unused" /\ \A u \in Session : u < s => sock[u] # "unused"
  /\ sock' = [Closing EXCEPT ![s] = "connecting"]
  /\ panel' = [ws |-> s, status |-> "connecting"]
  /\ UNCHANGED <<hop, daemon, proc, exit>>

\* The page is left.
Unmount ==
  /\ panel.status # "gone"
  /\ sock' = Closing
  /\ panel' = [ws |-> None, status |-> "gone"]
  /\ UNCHANGED <<hop, daemon, proc, exit>>

\* Nothing is shown once the page is gone.
Show(status) == IF panel.status = "gone" THEN "gone" ELSE status

\* onopen: the proxy accepts before it has reached the daemon.
Accept(s) ==
  /\ sock[s] = "connecting"
  /\ sock' = [sock EXCEPT ![s] = "open"]
  /\ panel' = [panel EXCEPT !.status = Show("connected")]
  /\ UNCHANGED <<hop, daemon, proc, exit>>

\* The proxy connects although the browser may have closed meanwhile; the
\* daemon spawns the process.
DaemonAccepts(s) ==
  /\ hop[s] = "none" /\ sock[s] \notin {"unused", "connecting"}
  /\ hop' = [hop EXCEPT ![s] = "up"]
  /\ daemon' = [daemon EXCEPT ![s] = "pumping"]
  /\ proc' = [proc EXCEPT ![s] = "running"]
  /\ UNCHANGED <<panel, sock, exit>>

DropBrowser(s) == sock' = [sock EXCEPT ![s] = IF @ = "closed" THEN @ ELSE "closing"]

\* The Gateway refuses the socket, or does not reach the daemon.
Refuse(s) ==
  /\ hop[s] = "none" /\ sock[s] # "unused"
  /\ hop' = [hop EXCEPT ![s] = "down"] /\ DropBrowser(s)
  /\ UNCHANGED <<panel, daemon, proc, exit>>


\* One pump of the proxy is done: the browser has gone, or the daemon has
\* closed and everything it sent is relayed.
EitherEnds(s) ==
  \/ sock[s] \in {"closing", "closed"}
  \/ daemon[s] \in {"ending", "done"} /\ exit[s] # "sent"

ProxyEnds(s) ==
  /\ hop[s] = "up" /\ EitherEnds(s)
  /\ hop' = [hop EXCEPT ![s] = "down"] /\ DropBrowser(s)
  /\ UNCHANGED <<panel, daemon, proc, exit>>

\* A connection on the way breaks.
HopBreaks(s) ==
  /\ hop[s] = "up" /\ hop' = [hop EXCEPT ![s] = "down"] /\ DropBrowser(s)
  /\ UNCHANGED <<panel, daemon, proc, exit>>

ProcessExits(s) ==
  /\ proc[s] = "running" /\ proc' = [proc EXCEPT ![s] = "exited"]
  /\ UNCHANGED <<panel, sock, hop, daemon, exit>>

\* The output pump is done and the input pump is not.
OnlyOutput(s) == proc[s] = "exited" /\ hop[s] = "up"

\* asyncio.wait FIRST_COMPLETED over the two pumps of the daemon.
PumpsEnd(s) ==
  /\ daemon[s] = "pumping" /\ (proc[s] = "exited" \/ hop[s] = "down")
  /\ daemon' = [daemon EXCEPT ![s] = IF OnlyOutput(s) THEN "exiting" ELSE "ending"]
  /\ UNCHANGED <<panel, sock, hop, proc, exit>>

\* The exit frame and the close; both are lost if the proxy has gone.
SendExit(s) ==
  /\ daemon[s] = "exiting" /\ daemon' = [daemon EXCEPT ![s] = "ending"]
  /\ exit' = [exit EXCEPT ![s] = IF hop[s] = "up" THEN "sent" ELSE @]
  /\ UNCHANGED <<panel, sock, hop, proc>>

\* _terminate_session: SIGHUP, then SIGKILL, to what still runs.
Terminate(s) ==
  /\ daemon[s] = "ending" /\ daemon' = [daemon EXCEPT ![s] = "done"]
  /\ proc' = [proc EXCEPT ![s] = IF @ = "running" THEN "killed" ELSE @]
  /\ UNCHANGED <<panel, sock, hop, exit>>

\* onmessage of an open socket.
ShowExit(s) ==
  /\ exit[s] = "sent" /\ sock[s] = "open"
  /\ exit' = [exit EXCEPT ![s] = "shown"]
  /\ panel' = [panel EXCEPT !.status = Show("ended")]
  /\ UNCHANGED <<sock, hop, daemon, proc>>

\* onclose, of the panel's socket or of one it has left behind.
OnClose(s) ==
  /\ sock[s] = "closing" /\ sock' = [sock EXCEPT ![s] = "closed"]
  /\ panel' = [ws |-> IF panel.ws = s THEN None ELSE panel.ws,
               status |-> Show(IF panel.status = "ended" THEN "ended" ELSE "disconnected")]
  /\ UNCHANGED <<hop, daemon, proc, exit>>

\* What the services and the browser do of their own accord.
SessionServes(s) ==
  \/ Accept(s) \/ DaemonAccepts(s) \/ ProxyEnds(s) \/ PumpsEnd(s) \/ SendExit(s)
  \/ Terminate(s) \/ ShowExit(s) \/ OnClose(s)

SessionNext ==
  \/ Unmount
  \/ \E s \in Session :
       SessionServes(s) \/ Connect(s) \/ Refuse(s) \/ HopBreaks(s) \/ ProcessExits(s)

-----------------------------------------------------------------------------
(* Properties                                                              *)

\* The panel says "ended" only of a process that ended by itself, and of
\* the latest one (terminal_ws, TerminalPanel ws.onmessage).
EndedByItself ==
  panel.status = "ended" =>
    \E s \in Session : proc[s] = "exited" /\ \A u \in Session : u > s => sock[u] = "unused"

\* Sockets never pile up: a Reconnect closes the one before, also where a
\* late onclose of an older socket made the panel say "disconnected" of a
\* live one (connect, TerminalPanel ws.onclose).
OneLiveSocket ==
  \A s, u \in Session : {sock[s], sock[u]} \subseteq {"connecting", "open"} => s = u

=============================================================================
