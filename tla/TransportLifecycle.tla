------------------------- MODULE TransportLifecycle -------------------------
(***************************************************************************)
(* The daemon's runtime: run_runtime joins the local IPC server            *)
(* (apps/daemon/src/ipc_server.rs) with the outbound transport's           *)
(* connect / serve / back-off loop (run_transport_lifecycle in             *)
(* apps/daemon/src/lib.rs and run_remote_processor), under one shutdown    *)
(* signal (apps/daemon/src/state.rs).                                      *)
(*                                                                         *)
(* What an envelope does is OperationGate's and AccessGrants' subject;     *)
(* here it is received and handled.  The two loops run in one task, the    *)
(* IPC connections in tasks of their own.                                  *)
(***************************************************************************)
EXTENDS Naturals, Sequences

CONSTANTS Connections,   \* IPC connections
          Jitter,        \* possible values of hash(attempt) % 1000
          MaxAttempt     \* where the attempt counter stops counting

ASSUME TransportConstants ==
  /\ Jitter \subseteq 0 .. 999
  /\ MaxAttempt \in Nat /\ MaxAttempt >= 7   \* the delay is constant from 7

VARIABLES
  relay,      \* "up": it accepts, authenticates and answers; else "down"
  socket,     \* the transport's connection: "none", "live" or "dead"
  phase,      \* where run_transport_lifecycle is
  slot,       \* DaemonState::transport is Some
  view,       \* DaemonState::transport_state
  attempt,    \* failure_attempt
  delay,      \* the last wait since the last connection, in ms
  ipc,        \* where run_ipc_server is
  conn,       \* its connections
  requested,  \* the watch channel's value
  seen,       \* each waiter has seen the channel's latest version
  waiter      \* where each loop's cancelled() future is

remote == <<socket, phase, slot, view, attempt, delay>>
server == <<ipc, conn>>
signal == <<requested, seen, waiter>>
vars == <<relay, remote, server, signal>>

Loops == {"remote", "ipc"}

Init ==
  /\ relay \in {"up", "down"} /\ socket = "none"
  /\ phase \in {"connect", "done"}   \* "done": TransportMode::Disabled
  /\ slot = FALSE /\ view = "Disconnected"
  /\ attempt = 0 /\ delay = 0
  /\ ipc = "accept" /\ conn = [c \in Connections |-> "none"]
  /\ requested = FALSE
  /\ seen = [l \in Loops |-> FALSE]
  /\ waiter = [l \in Loops |-> "fresh"]

-----------------------------------------------------------------------------
(* ShutdownSignal: a watch channel that stays at true.                    *)

Request ==
  /\ requested' = TRUE
  /\ seen' = [l \in Loops |-> FALSE]
  /\ UNCHANGED waiter

Selecting(l) == IF l = "ipc" THEN ipc = "accept"
                             ELSE phase \in {"connect", "serve", "sleep"}

(* cancelled() subscribes, looks at the value, and otherwise waits for    *)
(* the version to change.                                                 *)
Subscribe(l) ==
  /\ Selecting(l) /\ waiter[l] = "fresh"
  /\ waiter' = [waiter EXCEPT ![l] = "subscribed"]
  /\ seen' = [seen EXCEPT ![l] = TRUE]
  /\ UNCHANGED <<relay, remote, server, requested>>

(* Variant: waits for a change without looking at the value first.        *)
LookLater(l) ==
  /\ Selecting(l)
  /\ \/ waiter[l] = "subscribed" /\ UNCHANGED seen
     \/ waiter[l] = "waiting" /\ ~seen[l] /\ seen' = [seen EXCEPT ![l] = TRUE]
  /\ waiter' = [waiter EXCEPT ![l] =
                   IF requested /\ waiter[l] = "waiting" THEN "fired" ELSE "waiting"]
  /\ UNCHANGED <<relay, remote, server, requested>>

Look(l) ==
  /\ Selecting(l)
  /\ \/ waiter[l] = "subscribed" /\ UNCHANGED seen
     \/ waiter[l] = "waiting" /\ ~seen[l] /\ seen' = [seen EXCEPT ![l] = TRUE]
  /\ waiter' = [waiter EXCEPT ![l] = IF requested THEN "fired" ELSE "waiting"]
  /\ UNCHANGED <<relay, remote, server, requested>>

Cancelled(l) == Selecting(l) /\ waiter[l] = "fired"

(* Leaving a select! drops its cancelled() future.                        *)
Drop(l) ==
  /\ waiter' = [waiter EXCEPT ![l] = "fresh"]
  /\ UNCHANGED <<requested, seen>>

-----------------------------------------------------------------------------
(* Back-off: 250 ms doubling to 30 s, which it reaches at attempt 7.      *)
PowersOfTwo == <<1, 2, 4, 8, 16, 32, 64>>

DelayForAttempt(n) == IF n < 7 THEN 250 * PowersOfTwo[n + 1] ELSE 30000

(* Variant: jitter of plus or minus a half.                               *)
JitteredDelayWide(ms, u) == (ms * (5000 + 10 * u)) \div 10000

(* delay * (1 + (u/1000 - 1/2) * 4/10), truncated to milliseconds.        *)
JitteredDelay(ms, u) == (ms * (8000 + 4 * u)) \div 10000

ConnectOk ==
  /\ phase = "connect" /\ relay = "up"
  /\ socket' = "live"
  /\ attempt' = 0 /\ delay' = 0 /\ view' = "Connected"
  /\ phase' = "publish"
  /\ Drop("remote")
  /\ UNCHANGED <<relay, slot, server>>

ConnectFails ==
  /\ phase = "connect" /\ relay = "down"
  /\ view' = "Failed"
  /\ phase' = "delay"
  /\ Drop("remote")
  /\ UNCHANGED <<relay, socket, slot, attempt, delay, server>>

(* run_remote_processor publishes the transport, then serves.             *)
Publish ==
  /\ phase = "publish"
  /\ slot' = TRUE /\ phase' = "serve"
  /\ UNCHANGED <<relay, socket, view, attempt, delay, server, signal>>

(* receive() yields an envelope, or NoMessage: an acknowledgement, a      *)
(* ping, or a time-out whose heartbeat could be sent, which a connection  *)
(* the peer has left allows for a while.                                  *)
Receive ==
  /\ phase = "serve"
  /\ \/ socket = "live" /\ phase' = "handle"
     \/ phase' = "pause"
  /\ Drop("remote")
  /\ UNCHANGED <<relay, socket, slot, view, attempt, delay, server>>

(* The socket is closed, the heartbeat cannot be sent, or a frame is      *)
(* refused (a refused frame is the relay going down as it is read).       *)
ReceiveFails ==
  /\ phase = "serve" /\ socket = "dead"
  /\ phase' = "unpublish"
  /\ Drop("remote")
  /\ UNCHANGED <<relay, socket, slot, view, attempt, delay, server>>

(* The envelope is handled to its end, or 20 ms pass: a select! branch's  *)
(* body is not cancelled.                                                 *)
Handled ==
  /\ phase \in {"handle", "pause"}
  /\ phase' = "serve"
  /\ UNCHANGED <<relay, socket, slot, view, attempt, delay, server, signal>>

ServeCancelled ==
  /\ phase = "serve" /\ Cancelled("remote")
  /\ phase' = "unpublish"
  /\ Drop("remote")
  /\ UNCHANGED <<relay, socket, slot, view, attempt, delay, server>>

Unpublish ==
  /\ phase = "unpublish"
  /\ slot' = FALSE /\ phase' = "disconnect"
  /\ UNCHANGED <<relay, socket, view, attempt, delay, server, signal>>

Disconnect ==
  /\ phase = "disconnect"
  /\ socket' = "none" /\ phase' = "record"
  /\ UNCHANGED <<relay, slot, view, attempt, delay, server, signal>>

(* Variant: only the reconnect is recorded.                               *)
RecordSkipped ==
  /\ phase = "record"
  /\ phase' = "decide"
  /\ UNCHANGED <<relay, socket, slot, view, attempt, delay, server, signal>>

RecordDisconnected ==
  /\ phase = "record"
  /\ view' = "Disconnected" /\ phase' = "decide"
  /\ UNCHANGED <<relay, socket, slot, attempt, delay, server, signal>>

(* TransportConnectivityEvent::Reconnecting.                              *)
AfterReconnecting(v) ==
  IF v = "Disconnected" THEN "Reconnecting" ELSE "Connecting"

(* Variant: a lost connection ends the loop.                              *)
DecideGivesUp ==
  /\ phase = "decide"
  /\ phase' = "final"
  /\ UNCHANGED <<relay, socket, slot, view, attempt, delay, server, signal>>

Decide ==
  /\ phase = "decide"
  /\ \/ requested /\ phase' = "final" /\ UNCHANGED view
     \/ ~requested /\ phase' = "delay" /\ view' = AfterReconnecting(view)
  /\ UNCHANGED <<relay, socket, slot, attempt, delay, server, signal>>

Delay ==
  /\ phase = "delay"
  /\ \E u \in Jitter : delay' = JitteredDelay(DelayForAttempt(attempt), u)
  /\ attempt' = IF attempt < MaxAttempt THEN attempt + 1 ELSE attempt
  /\ phase' = "sleep"
  /\ UNCHANGED <<relay, socket, slot, view, server, signal>>

Sleep ==
  /\ phase = "sleep"
  /\ phase' = "connect"
  /\ Drop("remote")
  /\ UNCHANGED <<relay, socket, slot, view, attempt, delay, server>>

LoopCancelled ==
  /\ phase \in {"connect", "sleep"} /\ Cancelled("remote")
  /\ phase' = "final"
  /\ Drop("remote")
  /\ UNCHANGED <<relay, socket, slot, view, attempt, delay, server>>

Final ==
  /\ phase = "final"
  /\ slot' = FALSE /\ phase' = "done"
  /\ UNCHANGED <<relay, socket, view, attempt, delay, server, signal>>
-----------------------------------------------------------------------------
(* run_ipc_server: one task per connection, reaped by the accept loop.    *)

Accept(c) ==
  /\ ipc = "accept" /\ conn[c] = "none"
  /\ conn' = [conn EXCEPT ![c] = "reading"]
  /\ Drop("ipc")
  /\ UNCHANGED <<relay, remote, ipc>>

Join(c) ==
  /\ ipc = "accept" /\ conn[c] = "ended"
  /\ conn' = [conn EXCEPT ![c] = "none"]
  /\ Drop("ipc")
  /\ UNCHANGED <<relay, remote, ipc>>

(* try_join! drops the other loop where it awaits; main returns the error *)
Awaiting == phase \in {"connect", "serve", "handle", "pause",
                       "disconnect", "sleep", "done"}

AcceptFails ==
  /\ ipc = "accept" /\ Awaiting
  /\ ipc' = "failed"
  /\ UNCHANGED <<relay, remote, conn, signal>>

(* abort_all, then join_next until no task is left.                       *)
ServerCancelled ==
  /\ ipc = "accept" /\ Cancelled("ipc")
  /\ ipc' = "draining"
  /\ Drop("ipc")
  /\ UNCHANGED <<relay, remote, conn>>

Drain(c) ==
  /\ ipc = "draining" /\ conn[c] # "none"
  /\ conn' = [conn EXCEPT ![c] = "none"]
  /\ UNCHANGED <<relay, remote, ipc, signal>>

(* Variant: returns once the tasks are told to abort.                     *)
ServerReturnsEarly ==
  /\ ipc = "draining"
  /\ ipc' = "done"
  /\ UNCHANGED <<relay, remote, conn, signal>>

ServerReturns ==
  /\ ipc = "draining" /\ \A c \in Connections : conn[c] = "none"
  /\ ipc' = "done"
  /\ UNCHANGED <<relay, remote, conn, signal>>

(* handle_connection: read a request, handle it, write the reply.         *)
ReadRequest(c) ==
  /\ conn[c] = "reading"
  /\ conn' = [conn EXCEPT ![c] = "handling"]
  /\ UNCHANGED <<relay, remote, ipc, signal>>

Reply(c) ==
  /\ conn[c] = "handling"
  /\ conn' = [conn EXCEPT ![c] = "reading"]
  /\ UNCHANGED <<relay, remote, ipc, signal>>

ConnectionEnds(c) ==
  /\ conn[c] \in {"reading", "handling"}
  /\ conn' = [conn EXCEPT ![c] = "ended"]
  /\ UNCHANGED <<relay, remote, ipc, signal>>

(* IpcRequest::DaemonShutdown, or ctrl-c.                                 *)
ShutdownCall(c) ==
  /\ conn[c] = "reading"
  /\ Request
  /\ conn' = [conn EXCEPT ![c] = "handling"]
  /\ UNCHANGED <<relay, remote, ipc>>

Stopped == ipc = "failed" \/ (ipc = "done" /\ phase = "done")

CtrlC ==
  /\ ~Stopped /\ ~requested
  /\ Request
  /\ UNCHANGED <<relay, remote, server>>

(* The relay and the network.                                             *)
RelayChanges ==
  /\ relay' \in {"up", "down"} /\ relay' # relay
  /\ socket' = IF socket = "live" THEN "dead" ELSE socket
  /\ UNCHANGED <<phase, slot, view, attempt, delay, server, signal>>
-----------------------------------------------------------------------------
Attempt == ConnectOk \/ ConnectFails

RemoteStep ==
  \/ Attempt \/ Publish \/ Receive \/ ReceiveFails \/ Handled
  \/ ServeCancelled \/ Unpublish \/ Disconnect \/ RecordDisconnected
  \/ Decide \/ Delay \/ Sleep \/ LoopCancelled \/ Final

ServerStep ==
  \/ ServerCancelled \/ ServerReturns \/ AcceptFails
  \/ \E c \in Connections : Accept(c) \/ Join(c) \/ Drain(c)

ConnectionStep(c) ==
  ReadRequest(c) \/ Reply(c) \/ ConnectionEnds(c) \/ ShutdownCall(c)

Next ==
  \/ ~Stopped /\ \/ RemoteStep \/ ServerStep
                 \/ \E c \in Connections : ConnectionStep(c)
                 \/ \E l \in Loops : Subscribe(l) \/ Look(l)
  \/ CtrlC
  \/ RelayChanges

Spec == Init /\ [][Next]_vars

Live(A) == ~Stopped /\ A

(* Every await of the loops has a time-out or ends; a select! polls its   *)
(* branches in random order, so one ready over and over is taken; a dead  *)
(* socket's writes fail in the end.                                       *)
Fairness ==
  /\ WF_vars(Live(Attempt)) /\ WF_vars(Live(Publish))
  /\ WF_vars(Live(Handled)) /\ WF_vars(Live(Unpublish))
  /\ WF_vars(Live(Disconnect)) /\ WF_vars(Live(RecordDisconnected))
  /\ WF_vars(Live(Decide)) /\ WF_vars(Live(Delay)) /\ WF_vars(Live(Sleep))
  /\ WF_vars(Live(Final)) /\ WF_vars(Live(ServerReturns))
  /\ \A c \in Connections : WF_vars(Live(Drain(c)))
  /\ SF_vars(Live(ReceiveFails))
  /\ SF_vars(Live(ServeCancelled)) /\ SF_vars(Live(LoopCancelled))
  /\ SF_vars(Live(ServerCancelled))
  /\ \A l \in Loops : SF_vars(Live(Subscribe(l))) /\ SF_vars(Live(Look(l)))

FairSpec == Spec /\ Fairness
-----------------------------------------------------------------------------
Serving == {"serve", "handle", "pause", "unpublish"}
Open == Serving \cup {"publish", "disconnect"}
Phases == Open \cup {"record", "decide", "delay", "sleep", "connect",
                     "final", "done"}

(* The variables have their types; the loop never records the view        *)
(* "Connecting", which TransportState has.                                *)
TransportTypeOK ==
  /\ relay \in {"up", "down"} /\ socket \in {"none", "live", "dead"}
  /\ phase \in Phases /\ slot \in BOOLEAN
  /\ view \in {"Disconnected", "Connected", "Reconnecting", "Failed"}
  /\ attempt \in 0 .. MaxAttempt /\ delay \in Nat
  /\ ipc \in {"accept", "failed", "draining", "done"}
  /\ conn \in [Connections -> {"none", "reading", "handling", "ended"}]
  /\ requested \in BOOLEAN /\ seen \in [Loops -> BOOLEAN]
  /\ waiter \in [Loops -> {"fresh", "subscribed", "waiting", "fired"}]

(* ShutdownSignal::cancelled misses no request: a loop that sleeps on an  *)
(* up-to-date receiver sleeps on the value false, wherever the request    *)
(* falls between its subscription, its look at the value and its wait.    *)
NoLostWakeup ==
  \A l \in Loops : /\ waiter[l] = "waiting" /\ seen[l] => ~requested
                   /\ waiter[l] = "fired" => requested

(* The transport an approval finds in DaemonState::transport is one the   *)
(* lifecycle has connected and not begun to tear down, and the daemon     *)
(* reports Connected while it is there.                                   *)
SlotIsServed == slot => socket # "none" /\ view = "Connected"

(* The reported transport state says Connected from the moment a          *)
(* connection is made until its teardown is recorded, and at no other     *)
(* time: not while the loop backs off, redials or has returned.           *)
ViewIsHonest == (view = "Connected") <=> (phase \in Open \cup {"record"})

(* run_ipc_server returns Ok only when no connection task is left to act  *)
(* on the state.                                                          *)
HandlersAreGone == ipc = "done" => \A c \in Connections : conn[c] = "none"

(* The inductive invariant of the runtime: what each phase implies for    *)
(* the slot, the socket and the view, which wait the attempt counter      *)
(* stands for, and that the signal is not missed.                         *)
TransportInvariant ==
  /\ slot <=> phase \in Serving
  /\ socket # "none" <=> phase \in Open
  /\ phase = "decide" => view = "Disconnected"
  /\ attempt \in 1 .. 6 =>
       \E u \in Jitter : delay = JitteredDelay(DelayForAttempt(attempt - 1), u)
  /\ ViewIsHonest
  /\ NoLostWakeup
  /\ HandlersAreGone

(* The same with the types of the loops, the signal and the connections.  *)
TransportInductive == TransportTypeOK /\ TransportInvariant

GrowingWait ==
  phase = "delay" /\ phase' = "sleep" =>
    /\ delay' >= 200 /\ delay' < 36000
    /\ attempt > 0 => delay' > delay \/ delay' >= 24000

(* Back-off never busy-loops and never shortens: every wait is at least   *)
(* 200 ms and under 36 s, and each failed redial waits longer than the    *)
(* one before it, whatever the jitter, until the waits reach 24 s.        *)
WaitsGrow == [][GrowingWait]_vars

(* A requested shutdown ends the runtime, wherever the two loops are.     *)
ShutdownCompletes == requested ~> Stopped

(* While no shutdown is asked for and the listener works, a relay that    *)
(* comes back for good is served again: the loop never gives up.          *)
Reconnects ==
  phase = "connect" /\ <>[](relay = "up" /\ ~requested /\ ipc = "accept")
    => []<>(phase = "serve" /\ socket = "live")
=============================================================================
