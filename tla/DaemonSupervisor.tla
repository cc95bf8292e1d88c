-------------------------- MODULE DaemonSupervisor --------------------------
(***************************************************************************)
(* Who runs the daemon.  The desktop shell (daemon_lifecycle.rs) and the   *)
(* command line (apps/cli) both launch, replace and stop the one daemon of *)
(* a data directory.  They share nothing but the local endpoint, the       *)
(* gateway.lock the daemon holds while it lives, and the daemon.stopped    *)
(* marker file, so every hand-off between them is a race.                  *)
(*                                                                         *)
(* A slot is a process that may sit on the endpoint: a daemon of the       *)
(* packaged version, a stale daemon of an older release, or an alien       *)
(* program of another product or IPC contract.  A slot is reused once its  *)
(* process is gone.                                                        *)
(***************************************************************************)
EXTENDS Naturals, FiniteSets

CONSTANTS
    Slots,          \* processes that may be alive at once
    Clis,           \* command line invocations that may be in flight at once
    CliGoals,       \* the commands users run
    Desktop,        \* the desktop shell, one actor: start_lock serialises it
    NoSlot,         \* no connection
    FirstBuilds,    \* what may be serving when the history begins
    MaxFaults       \* bound: crashes, kills, failed spawns, marker I/O errors,
                    \* connects that fail and deadlines that expire on a live
                    \* peer, other daemons and programs that arrive

ASSUME SupervisorAssumption ==
    /\ Desktop \notin Clis
    /\ NoSlot \notin Slots
    /\ CliGoals \subseteq {"start", "stop", "restart", "request"}
    /\ FirstBuilds \subseteq {"packaged", "stale", "alien"}
    /\ MaxFaults \in Nat

START_ATTEMPTS == 3

Actors == Clis \cup {Desktop}
Builds == {"packaged", "stale", "alien"}

Phases == {"none", "starting", "opening", "serving", "stopping", "closing"}

Views == {"Starting", "Ready", "Stopped", "Failed"}

\* "undo" is the desktop stopping the daemon it has just launched because the
\* stop marker appeared meanwhile.
Goals == {"none", "watch", "command", "undo", "start", "stop", "restart", "request"}

Pcs == {"idle", "closed", "mark", "probe", "recheck", "shutdown", "ack", "gone",
        "unmark", "clear", "launch", "wait", "postcheck", "request", "verified"}

VARIABLES
    phase,      \* [Slots -> Phases]
    build,      \* [Slots -> Builds]
    marker,     \* the daemon.stopped file exists
    adopt,      \* adopt_stop_marker_on_first_start
    view,       \* DaemonLifecycleView.state
    attempt,    \* launches made by the current ensure_ready
    pc,         \* [Actors -> Pcs]
    goal,       \* [Actors -> Goals]
    conn,       \* [Actors -> Slots \cup {NoSlot}]: peer of the open connection
    met,        \* [Actors -> Slots \cup {NoSlot}]: the stale daemon this call
                \* probed, while that process lives
    strayed,    \* other builds that have executed a privileged request
    faults

procVars == <<phase, build>>
deskVars == <<adopt, view, attempt>>
vars == <<phase, build, marker, adopt, view, attempt, pc, goal, conn, met,
          strayed, faults>>

-----------------------------------------------------------------------------
(* The endpoint and the lock                                               *)

\* The process the socket name leads to.
Listening(s) == phase[s] \in {"serving", "stopping"}
Endpoint == {s \in Slots : Listening(s)}

\* gateway.lock is held from Storage::open until the process is gone.
Holds(s) == build[s] # "alien" /\ phase[s] \in {"opening", "serving", "stopping", "closing"}
LockFree == \A s \in Slots : ~Holds(s)

\* A new process takes a free slot; which one makes no difference.
SomeFree == \E s \in Slots : phase[s] = "none"
FreeSlot == CHOOSE s \in Slots : phase[s] = "none"

Starts(s, b) ==
    /\ phase' = [phase EXCEPT ![s] = "starting"]
    /\ build' = [build EXCEPT ![s] = b]

\* Some process has been spawned and is still on its way to the endpoint.
Coming == \E s \in Slots : phase[s] \in {"starting", "opening"}

Fault == faults < MaxFaults /\ faults' = faults + 1

\* An exited process leaves nothing of itself in its slot.
Ends(s) ==
    /\ phase' = [phase EXCEPT ![s] = "none"]
    /\ build' = [build EXCEPT ![s] = "packaged"]
    /\ met' = [a \in Actors |-> IF met[a] = s THEN NoSlot ELSE met[a]]

\* Variant: a client goes on with the connection of a process that is gone.
ConnectionsKept(s) == UNCHANGED conn

\* A connection ends with the process, or the listener task, that served it.
DropConnections(s) == conn' = [a \in Actors |-> IF conn[a] = s THEN NoSlot ELSE conn[a]]

FirstSlot == CHOOSE s \in Slots : TRUE

Init ==
    /\ \/ /\ phase = [s \in Slots |-> "none"]
          /\ build = [s \in Slots |-> "packaged"]
       \/ \E b \in FirstBuilds :
            /\ phase = [s \in Slots |-> IF s = FirstSlot THEN "serving" ELSE "none"]
            /\ build = [s \in Slots |-> IF s = FirstSlot THEN b ELSE "packaged"]
    /\ marker \in BOOLEAN
    /\ adopt = TRUE
    /\ view = "Starting"
    /\ attempt = 0
    /\ pc = [a \in Actors |-> "idle"]
    /\ goal = [a \in Actors |-> "none"]
    /\ conn = [a \in Actors |-> NoSlot]
    /\ met = [a \in Actors |-> NoSlot]
    /\ strayed = {}
    /\ faults = 0

-----------------------------------------------------------------------------
(* The daemon process                                                      *)

\* Storage::open: the exclusive lock, or exit with AnotherInstanceRunning.
TakeLock(s) ==
    /\ phase[s] = "starting"
    /\ IF LockFree
       THEN phase' = [phase EXCEPT ![s] = "opening"] /\ UNCHANGED <<build, met>>
       ELSE Ends(s)
    /\ UNCHANGED <<marker, deskVars, pc, goal, conn, strayed, faults>>

\* Migrations done, run_ipc_server binds the listener; a taken name is an error.
Bind(s) ==
    /\ phase[s] = "opening"
    /\ IF Endpoint = {}
       THEN phase' = [phase EXCEPT ![s] = "serving"] /\ UNCHANGED <<build, met>>
       ELSE Ends(s)
    /\ UNCHANGED <<marker, deskVars, pc, goal, conn, strayed, faults>>

\* run_ipc_server sees the cancellation: every connection task is aborted, with
\* or without its answer written, and the listener is dropped.
ServerReturns(s) ==
    /\ phase[s] = "stopping"
    /\ phase' = [phase EXCEPT ![s] = "closing"]
    /\ DropConnections(s)
    /\ UNCHANGED <<build, marker, deskVars, pc, goal, met, strayed, faults>>

\* The transport is joined, the storage handle dropped and the lock with it.
Exit(s) ==
    /\ phase[s] = "closing"
    /\ Ends(s)
    /\ UNCHANGED <<marker, deskVars, pc, goal, conn, strayed, faults>>

Crash(s) ==
    /\ phase[s] # "none" /\ build[s] # "alien"
    /\ Fault
    /\ Ends(s)
    /\ DropConnections(s)
    /\ UNCHANGED <<marker, deskVars, pc, goal, strayed>>

\* A program of another product takes the free name, or leaves it.
AlienArrives ==
    /\ SomeFree /\ Endpoint = {}
    /\ Fault
    /\ phase' = [phase EXCEPT ![FreeSlot] = "serving"]
    /\ build' = [build EXCEPT ![FreeSlot] = "alien"]
    /\ UNCHANGED <<marker, deskVars, pc, goal, conn, met, strayed>>

\* A client of another installation starts its daemon on this data directory.
StaleArrives ==
    /\ SomeFree
    /\ Fault
    /\ Starts(FreeSlot, "stale")
    /\ UNCHANGED <<marker, deskVars, pc, goal, conn, met, strayed>>

AlienLeaves(s) ==
    /\ Listening(s) /\ build[s] = "alien"
    /\ Ends(s)
    /\ DropConnections(s)
    /\ UNCHANGED <<marker, deskVars, pc, goal, strayed, faults>>

-----------------------------------------------------------------------------
(* What a client learns from the endpoint                                  *)

\* probe_daemon: connect, ask for the identity, validate it.  A listener that is
\* going down may close before it answers; a live one may miss the deadline.
Finding(s) == CASE build[s] = "packaged" -> "Ok"
                [] build[s] = "stale" -> "VersionMismatch"
                [] build[s] = "alien" -> "Incompatible"

ProbeFinds(r) ==
    \/ /\ \E s \in Endpoint : r = Finding(s)
       /\ UNCHANGED faults
    \/ /\ r = "Unavailable"
       /\ \A s \in Endpoint : phase[s] = "stopping"
       /\ UNCHANGED faults
    \/ /\ r = "Unavailable"
       /\ \E s \in Endpoint : phase[s] = "serving"
       /\ Fault

\* wait_for_ready polls the probe until it is decided or the deadline passes.
\* With nothing on its way the deadline passes by itself.
WaitFinds(r) ==
    \/ /\ \E s \in Endpoint : r = Finding(s)
       /\ UNCHANGED faults
    \/ /\ r = "Unavailable"
       /\ Endpoint = {} /\ ~Coming
       /\ UNCHANGED faults
    \/ /\ r = "Unavailable"
       /\ Endpoint # {} \/ Coming
       /\ Fault

\* The call keeps in mind which stale daemon it found.
Meets(a) == \E s \in Endpoint : build[s] = "stale" /\ met' = [met EXCEPT ![a] = s]

Become(a, p) == pc' = [pc EXCEPT ![a] = p]

\* The call is over: the actor forgets what the call knew.
Return(a) ==
    /\ pc' = [pc EXCEPT ![a] = "idle"]
    /\ goal' = [goal EXCEPT ![a] = "none"]
    /\ met' = [met EXCEPT ![a] = NoSlot]
    /\ conn' = [conn EXCEPT ![a] = NoSlot]

\* The desktop's returns also publish a view.
ReturnWith(v) == Return(Desktop) /\ view' = v /\ attempt' = 0

\* ensure_ready has succeeded: the watchdog goes back to sleep, a command goes
\* on to its own request.
ReturnReady ==
    /\ view' = "Ready" /\ attempt' = 0
    /\ met' = [met EXCEPT ![Desktop] = NoSlot]
    /\ UNCHANGED conn
    /\ IF goal[Desktop] = "command"
       THEN Become(Desktop, "request") /\ UNCHANGED goal
       ELSE Become(Desktop, "idle") /\ goal' = [goal EXCEPT ![Desktop] = "none"]

-----------------------------------------------------------------------------
(* stop_verified_daemon, the same steps in both clients: a shutdown request *)
(* on a connection of its own, its Ack, the endpoint gone.                  *)

StopFailed(a) ==
    IF a = Desktop
    THEN /\ ReturnWith(IF goal[a] = "undo" THEN "Stopped" ELSE "Failed")
         /\ UNCHANGED adopt
    ELSE /\ UNCHANGED deskVars
         /\ IF goal[a] = "start"
            THEN Return(a)
            ELSE /\ Become(a, "unmark")
                 /\ conn' = [conn EXCEPT ![a] = NoSlot]
                 /\ UNCHANGED <<goal, met>>

StopSucceeded(a) ==
    CASE a = Desktop /\ goal[a] = "undo" -> ReturnWith("Stopped") /\ UNCHANGED adopt
      [] a = Desktop /\ goal[a] # "undo" ->
            /\ Become(a, "launch")
            /\ view' = "Starting"
            /\ UNCHANGED <<adopt, attempt, goal, conn, met>>
      [] a # Desktop /\ goal[a] = "start" ->
            Become(a, "clear") /\ UNCHANGED <<deskVars, goal, conn, met>>
      [] a # Desktop /\ goal[a] = "restart" ->
            /\ Become(a, "probe")
            /\ goal' = [goal EXCEPT ![a] = "start"]
            /\ met' = [met EXCEPT ![a] = NoSlot]
            /\ UNCHANGED <<deskVars, conn>>
      [] a # Desktop /\ goal[a] = "stop" -> Return(a) /\ UNCHANGED deskVars

\* Variant: a shutdown request that fails is taken for one that was heard.
SendShutdownUnheard(a) ==
    /\ pc[a] = "shutdown"
    /\ UNCHANGED <<procVars, marker, strayed>>
    /\ StopSucceeded(a)
    /\ UNCHANGED faults

\* The listener that answers now need not be the one that was probed; one of
\* another contract may acknowledge, refuse or say nothing.
SendShutdown(a) ==
    /\ pc[a] = "shutdown"
    /\ UNCHANGED <<build, marker, strayed>>
    /\ \/ \E s \in Endpoint :
            /\ build[s] # "alien"
            /\ phase' = [phase EXCEPT ![s] = "stopping"]
            /\ conn' = [conn EXCEPT ![a] = s]
            /\ Become(a, "ack")
            /\ UNCHANGED <<deskVars, goal, met, faults>>
       \/ /\ \E s \in Endpoint : build[s] = "alien"
          /\ Become(a, "gone")
          /\ UNCHANGED <<phase, conn, deskVars, goal, met, faults>>
       \/ /\ \A s \in Endpoint : build[s] = "alien"
          /\ StopFailed(a)
          /\ UNCHANGED <<phase, faults>>
       \/ /\ Endpoint # {}
          /\ Fault
          /\ StopFailed(a)
          /\ UNCHANGED phase

AckArrives(a) ==
    /\ pc[a] = "ack" /\ conn[a] # NoSlot
    /\ Become(a, "gone")
    /\ conn' = [conn EXCEPT ![a] = NoSlot]
    /\ UNCHANGED <<procVars, marker, deskVars, goal, met, strayed, faults>>

\* The connection is aborted before the Ack is written, or the deadline passes.
AckLost(a) ==
    /\ pc[a] = "ack"
    /\ \/ conn[a] = NoSlot /\ UNCHANGED faults
       \/ conn[a] # NoSlot /\ Fault
    /\ StopFailed(a)
    /\ UNCHANGED <<procVars, marker, strayed>>

\* wait_for_stopped: any error of a connect, or the deadline while something
\* answers.  A connect to a live listener fails, too, when the backlog or the
\* pipe is busy or the client has no descriptor left; a new listener on the
\* name keeps it waiting like the old one.
SeesGone(a) ==
    /\ pc[a] = "gone"
    /\ UNCHANGED <<procVars, marker, strayed>>
    /\ \/ Endpoint = {} /\ StopSucceeded(a) /\ UNCHANGED faults
       \/ Endpoint # {} /\ StopSucceeded(a) /\ Fault
       \/ (\E s \in Endpoint : phase[s] = "serving") /\ StopFailed(a) /\ UNCHANGED faults
       \/ (\E s \in Endpoint : phase[s] = "stopping") /\ StopFailed(a) /\ Fault

-----------------------------------------------------------------------------
(* The desktop: ensure_ready under start_lock, for the watchdog or a command *)

EnsureReady(g) ==
    /\ pc[Desktop] = "idle"
    /\ UNCHANGED <<procVars, strayed>>
    /\ adopt' = FALSE
    /\ \/ /\ adopt                           \* the first call removes the marker
          /\ marker' = FALSE
          /\ Become(Desktop, "probe")
          /\ goal' = [goal EXCEPT ![Desktop] = g]
          /\ UNCHANGED <<view, attempt, conn, met, faults>>
       \/ /\ adopt /\ marker                 \* or cannot remove it
          /\ Fault
          /\ ReturnWith("Failed")
          /\ UNCHANGED marker
       \/ /\ ~adopt /\ marker
          /\ ReturnWith("Stopped")
          /\ UNCHANGED <<marker, faults>>
       \/ /\ ~adopt /\ ~marker
          /\ Become(Desktop, "probe")
          /\ goal' = [goal EXCEPT ![Desktop] = g]
          /\ UNCHANGED <<marker, view, attempt, conn, met, faults>>

DesktopProbes ==
    /\ pc[Desktop] = "probe"
    /\ UNCHANGED <<procVars, marker, adopt, strayed>>
    /\ \E r \in {"Ok", "Incompatible", "VersionMismatch", "Unavailable"} :
          /\ ProbeFinds(r)
          /\ CASE r = "Ok" -> ReturnReady
               [] r = "Incompatible" -> ReturnWith("Failed")
               [] r = "VersionMismatch" ->
                     /\ view' = "Starting"
                     /\ Become(Desktop, "shutdown")
                     /\ Meets(Desktop)
                     /\ UNCHANGED <<attempt, goal, conn>>
               [] r = "Unavailable" ->
                     Become(Desktop, "recheck")
                     /\ UNCHANGED <<view, attempt, goal, conn, met>>

\* Variant: the watchdog reports a missing daemon and does not launch one.
DesktopReports ==
    /\ pc[Desktop] = "recheck"
    /\ ReturnWith(IF marker THEN "Stopped" ELSE "Failed")
    /\ UNCHANGED <<procVars, marker, adopt, strayed, faults>>

\* Nothing answers: unless a stop was asked for, launch.
DesktopRechecks ==
    /\ pc[Desktop] = "recheck"
    /\ IF marker
       THEN ReturnWith("Stopped")
       ELSE /\ Become(Desktop, "launch")
            /\ view' = "Starting"
            /\ UNCHANGED <<attempt, goal, conn, met>>
    /\ UNCHANGED <<procVars, marker, adopt, strayed, faults>>

\* spawn_packaged_daemon; a missing or unstartable sidecar ends the call.
DesktopLaunches ==
    /\ pc[Desktop] = "launch"
    /\ UNCHANGED <<marker, adopt, strayed>>
    /\ \/ /\ SomeFree
          /\ Starts(FreeSlot, "packaged")
          /\ attempt' = attempt + 1
          /\ Become(Desktop, "wait")
          /\ UNCHANGED <<view, goal, conn, met, faults>>
       \/ /\ Fault
          /\ ReturnWith("Failed")
          /\ UNCHANGED procVars

DesktopWaits ==
    /\ pc[Desktop] = "wait"
    /\ UNCHANGED <<procVars, marker, adopt, strayed>>
    /\ \E r \in {"Ok", "Incompatible", "VersionMismatch", "Unavailable"} :
          /\ WaitFinds(r)
          /\ CASE r = "Ok" ->
                     Become(Desktop, "postcheck")
                     /\ UNCHANGED <<view, attempt, goal, conn, met>>
               [] r \in {"Incompatible", "VersionMismatch"} -> ReturnWith("Failed")
               [] r = "Unavailable" /\ attempt < START_ATTEMPTS ->
                     Become(Desktop, "launch")
                     /\ UNCHANGED <<view, attempt, goal, conn, met>>
               [] r = "Unavailable" /\ attempt >= START_ATTEMPTS -> ReturnWith("Failed")

DesktopPostchecks ==
    /\ pc[Desktop] = "postcheck"
    /\ IF marker
       THEN /\ Become(Desktop, "shutdown")
            /\ goal' = [goal EXCEPT ![Desktop] = "undo"]
            /\ UNCHANGED <<view, attempt, conn, met>>
       ELSE ReturnReady
    /\ UNCHANGED <<procVars, marker, adopt, strayed, faults>>

\* The window closes at any point of a call; the daemon and its marker stay.
\* Reopening makes a new DaemonLauncher.
DesktopCloses ==
    /\ pc[Desktop] # "closed"
    /\ Fault
    /\ pc' = [pc EXCEPT ![Desktop] = "closed"]
    /\ goal' = [goal EXCEPT ![Desktop] = "none"]
    /\ conn' = [conn EXCEPT ![Desktop] = NoSlot]
    /\ met' = [met EXCEPT ![Desktop] = NoSlot]
    /\ attempt' = 0
    /\ UNCHANGED <<procVars, marker, adopt, view, strayed>>

DesktopOpens ==
    /\ pc[Desktop] = "closed"
    /\ Become(Desktop, "idle")
    /\ adopt' = TRUE
    /\ view' = "Starting"
    /\ UNCHANGED <<procVars, marker, attempt, goal, conn, met, strayed, faults>>

-----------------------------------------------------------------------------
(* The command line: daemon start, stop, restart, and every other command   *)

FirstPc == [start |-> "probe", stop |-> "mark", restart |-> "mark", request |-> "request"]

CliBegins(c, g) ==
    /\ pc[c] = "idle"
    /\ Become(c, FirstPc[g])
    /\ goal' = [goal EXCEPT ![c] = g]
    /\ UNCHANGED <<procVars, marker, deskVars, conn, met, strayed, faults>>

\* mark_daemon_stopped comes before anything else a stop does.
CliMarks(c) ==
    /\ pc[c] = "mark"
    /\ UNCHANGED <<procVars, deskVars, strayed>>
    /\ \/ /\ marker' = TRUE
          /\ Become(c, "probe")
          /\ UNCHANGED <<goal, conn, met, faults>>
       \/ Fault /\ Return(c) /\ UNCHANGED marker

StartProbed(c, r) ==
    CASE r = "Ok" -> Become(c, "unmark") /\ UNCHANGED <<marker, goal, conn, met>>
      [] r = "Incompatible" -> Return(c) /\ UNCHANGED marker
      [] r = "VersionMismatch" ->
            /\ Become(c, "shutdown")
            /\ Meets(c)
            /\ UNCHANGED <<marker, goal, conn>>
      [] r = "Unavailable" -> Become(c, "clear") /\ UNCHANGED <<marker, goal, conn, met>>

\* Variant: a restart that finds nothing to stop probes again.
StopProbedAgain(c, r) ==
    CASE r \in {"Ok", "VersionMismatch"} ->
            Become(c, "shutdown") /\ UNCHANGED <<marker, goal, conn, met>>
      [] r = "Incompatible" -> Become(c, "unmark") /\ UNCHANGED <<marker, goal, conn, met>>
      [] r = "Unavailable" /\ goal[c] = "restart" ->
            UNCHANGED <<marker, pc, goal, conn, met>>
      [] r = "Unavailable" /\ goal[c] = "stop" -> Return(c) /\ UNCHANGED marker

\* "daemon is already stopped" is a success and keeps the marker; a restart
\* goes on to its start.
StopProbed(c, r) ==
    CASE r \in {"Ok", "VersionMismatch"} ->
            Become(c, "shutdown") /\ UNCHANGED <<marker, goal, conn, met>>
      [] r = "Incompatible" -> Become(c, "unmark") /\ UNCHANGED <<marker, goal, conn, met>>
      [] r = "Unavailable" /\ goal[c] = "restart" ->
            /\ goal' = [goal EXCEPT ![c] = "start"]
            /\ UNCHANGED <<marker, pc, conn, met>>
      [] r = "Unavailable" /\ goal[c] = "stop" -> Return(c) /\ UNCHANGED marker

CliProbes(c) ==
    /\ pc[c] = "probe"
    /\ UNCHANGED <<procVars, deskVars, strayed>>
    /\ \E r \in {"Ok", "Incompatible", "VersionMismatch", "Unavailable"} :
          /\ ProbeFinds(r)
          /\ IF goal[c] = "start" THEN StartProbed(c, r) ELSE StopProbed(c, r)

\* clear_stop_marker as the last thing a command does: a stop that failed, or a
\* start that found the daemon ready.  The command ends also when it fails.
CliUnmarks(c) ==
    /\ pc[c] = "unmark"
    /\ \/ marker' = FALSE /\ UNCHANGED faults
       \/ Fault /\ UNCHANGED marker
    /\ Return(c)
    /\ UNCHANGED <<procVars, deskVars, strayed>>

\* clear_stop_marker before the launch; its failure ends the command.
CliClears(c) ==
    /\ pc[c] = "clear"
    /\ UNCHANGED <<procVars, deskVars, strayed>>
    /\ \/ /\ marker' = FALSE
          /\ Become(c, "launch")
          /\ UNCHANGED <<goal, conn, met, faults>>
       \/ Fault /\ Return(c) /\ UNCHANGED marker

CliLaunches(c) ==
    /\ pc[c] = "launch"
    /\ UNCHANGED <<marker, deskVars, strayed>>
    /\ \/ /\ SomeFree
          /\ Starts(FreeSlot, "packaged")
          /\ Become(c, "wait")
          /\ UNCHANGED <<goal, conn, met, faults>>
       \/ Fault /\ Return(c) /\ UNCHANGED procVars

\* wait_for_ready ends the command with success or with an error.
CliWaits(c) ==
    /\ pc[c] = "wait"
    /\ \E r \in {"Ok", "Incompatible", "VersionMismatch", "Unavailable"} : WaitFinds(r)
    /\ Return(c)
    /\ UNCHANGED <<procVars, marker, deskVars, strayed>>

\* The invocation is interrupted.
CliKilled(c) ==
    /\ pc[c] # "idle"
    /\ Fault
    /\ Return(c)
    /\ UNCHANGED <<procVars, marker, deskVars, strayed>>

-----------------------------------------------------------------------------
(* A privileged request, from the desktop or the command line               *)

\* send_request_inner: connect and validate the identity; only the packaged
\* version goes on, on the connection that proved it, within the deadline.
Handshake(a) ==
    /\ pc[a] = "request"
    /\ \/ \E s \in Endpoint :
            /\ Finding(s) = "Ok"
            /\ conn' = [conn EXCEPT ![a] = s]
            /\ Become(a, "verified")
            /\ UNCHANGED <<goal, met, faults>>
       \/ /\ \A s \in Endpoint : Finding(s) # "Ok" \/ phase[s] = "stopping"
          /\ Return(a)
          /\ UNCHANGED faults
       \/ Fault /\ Return(a)
    /\ UNCHANGED <<procVars, marker, deskVars, strayed>>

\* Variant: the request travels on a new connection to the same name.
DeliverOnNewConnection(a) ==
    /\ pc[a] = "verified"
    /\ strayed' = strayed \cup ({build[s] : s \in Endpoint} \ {"packaged"})
    /\ Return(a)
    /\ UNCHANGED <<procVars, marker, deskVars, faults>>

\* The peer of the connection executes the request, or is gone.
Deliver(a) ==
    /\ pc[a] = "verified"
    /\ strayed' = strayed \cup ({build[s] : s \in Slots \cap {conn[a]}} \ {"packaged"})
    /\ Return(a)
    /\ UNCHANGED <<procVars, marker, deskVars, faults>>

-----------------------------------------------------------------------------
ProcessStep == \E s \in Slots :
    TakeLock(s) \/ Bind(s) \/ ServerReturns(s) \/ Exit(s)

Disturbance == AlienArrives \/ StaleArrives \/ \E s \in Slots : Crash(s) \/ AlienLeaves(s)

StopVerified(a) == SendShutdown(a) \/ AckArrives(a) \/ AckLost(a) \/ SeesGone(a)

DesktopStep ==
    \/ DesktopProbes \/ DesktopRechecks \/ DesktopLaunches
    \/ DesktopWaits \/ DesktopPostchecks
    \/ StopVerified(Desktop) \/ Handshake(Desktop) \/ Deliver(Desktop)

CliStep(c) ==
    \/ CliMarks(c) \/ CliProbes(c) \/ CliUnmarks(c) \/ CliClears(c)
    \/ CliLaunches(c) \/ CliWaits(c)
    \/ StopVerified(c) \/ Handshake(c) \/ Deliver(c)

Next ==
    \/ ProcessStep
    \/ Disturbance
    \/ \E g \in {"watch", "command"} : EnsureReady(g)
    \/ DesktopStep
    \/ DesktopCloses
    \/ DesktopOpens
    \/ \E c \in Clis :
          \/ \E g \in CliGoals : CliBegins(c, g)
          \/ CliStep(c)
          \/ CliKilled(c)

Spec == Init /\ [][Next]_vars

\* A process goes on with what it is doing, a started command goes on until it
\* returns, and the watchdog loop wakes up again for as long as the desktop is
\* open.  The polls of wait_for_ready and wait_for_stopped repeat until their
\* deadline, so what they can see again and again they do see, and a slot that
\* comes free again and again is taken: both make the clients strongly fair.
\* Users, crashes and the alien owe nobody a step.
Fairness ==
    /\ \A s \in Slots : WF_vars(TakeLock(s) \/ Bind(s) \/ ServerReturns(s) \/ Exit(s))
    /\ WF_vars(\E g \in {"watch", "command"} : EnsureReady(g))
    /\ SF_vars(DesktopStep)
    /\ \A c \in Clis : SF_vars(CliStep(c))

FairSpec == Spec /\ Fairness

-----------------------------------------------------------------------------
(* Properties                                                              *)

SupervisorTypeOK ==
    /\ phase \in [Slots -> Phases]
    /\ build \in [Slots -> Builds]
    /\ marker \in BOOLEAN
    /\ adopt \in BOOLEAN
    /\ view \in Views
    /\ attempt \in 0..START_ATTEMPTS
    /\ pc \in [Actors -> Pcs]
    /\ goal \in [Actors -> Goals]
    /\ conn \in [Actors -> Slots \cup {NoSlot}]
    /\ met \in [Actors -> Slots \cup {NoSlot}]
    /\ strayed \subseteq Builds
    /\ faults \in 0..MaxFaults

\* A privileged request is executed only by a daemon of the packaged version,
\* whoever takes the endpoint between the handshake and the request:
\* send_request keeps to the connection that proved the identity.
PrivilegedReachesPackaged == strayed = {}

\* gateway.lock is exclusive: of any daemons, whoever launched them, one has
\* the data directory open.
OneHolder == \A s, t \in Slots : Holds(s) /\ Holds(t) => s = t

\* A stale daemon is retired before its replacement opens the data directory:
\* a client launches the packaged daemon only after the stale one that it met
\* has taken its shutdown request or is gone, whoever else stops, starts or
\* takes over daemons meanwhile, and where the launch comes while that one is
\* still going down, gateway.lock keeps the two apart (stop_verified_daemon,
\* Storage::open).
StaleIsRetiredFirst ==
    /\ \A a \in Actors :
          met[a] # NoSlot /\ pc[a] \in {"clear", "launch", "wait"} =>
              phase[met[a]] \in {"stopping", "closing"}
    /\ OneHolder

\* A connection that a client still holds leads to the process it was made to,
\* and one whose handshake succeeded to a packaged daemon.
ConnectionIsLive ==
    \A a \in Actors :
        conn[a] # NoSlot =>
            /\ Listening(conn[a])
            /\ pc[a] = "verified" => build[conn[a]] = "packaged"

\* What a client at p may keep in mind of the stale daemons: one that took a
\* shutdown request never serves again.
MayMeet(v, p) ==
    /\ v # NoSlot => build[v] = "stale" /\ phase[v] \in {"serving", "stopping", "closing"}
    /\ p \in {"idle", "closed", "mark", "probe", "recheck"} => v = NoSlot
    /\ v # NoSlot /\ p \in {"ack", "gone", "clear", "launch", "wait", "postcheck"} =>
          phase[v] \in {"stopping", "closing"}

\* One listener at a time, so the stale daemon a client met is the one that
\* takes its shutdown request.
MetIsLeaving ==
    /\ \A s, t \in Slots : Listening(s) /\ Listening(t) => s = t
    /\ \A a \in Actors : MayMeet(met[a], pc[a])

\* ensure_ready counts its launches from nothing, and what is left of the
\* count after an undone launch is not carried into another call.
AttemptsAreCounted ==
    /\ pc[Desktop] = "launch" => attempt < START_ATTEMPTS
    /\ pc[Desktop] \notin {"launch", "wait", "postcheck"} =>
          attempt = 0 \/ (pc[Desktop] \in {"shutdown", "ack", "gone"} /\ goal[Desktop] = "undo")

\* A command that probes or stops is one of the three that do.
CommandsFit ==
    \A c \in Clis :
        pc[c] \in {"mark", "probe", "shutdown", "ack", "gone"} =>
            goal[c] \in {"start", "stop", "restart"}

SupervisorInvariant ==
    /\ SupervisorTypeOK /\ ConnectionIsLive /\ MetIsLeaving
    /\ PrivilegedReachesPackaged

\* What each step of the two clients and of the processes preserves: the
\* inductive invariant behind the two guarantees above.
SupervisorInductive ==
    SupervisorInvariant /\ OneHolder /\ AttemptsAreCounted /\ CommandsFit

GatewayListens == \E s \in Endpoint : build[s] # "alien"
AlienListens == \E s \in Endpoint : build[s] = "alien"

\* Once the desktop stays open, nobody's stop marker stays and the endpoint is
\* not held by another product, the watchdog brings a daemon up and keeps it
\* up, whatever crashed, was killed or was stopped before.
Recovers ==
    <>[](pc[Desktop] # "closed" /\ ~marker /\ ~AlienListens)
        => <>[](view = "Ready" /\ GatewayListens)

\* Every command and every ensure_ready returns: no client waits for ever on an
\* endpoint, an answer or another client, whatever the peers do meanwhile.
CallsReturn == \A a \in Actors : []<>(pc[a] \in {"idle", "closed"})

\* The release checklist's "CLI `daemon stop` is not raced by the desktop
\* watchdog": once the stop has returned and the desktop shows Stopped, no
\* daemon comes up.
StopIsNotRaced ==
    [][marker /\ view = "Stopped" /\ (\A a \in Actors : pc[a] = "idle")
         => (GatewayListens' => GatewayListens)]_vars

\* docs/protocol/README.md, "so a stale Gateway process can be retired before
\* its packaged replacement starts", read as: no stale daemon listens any more
\* when a client that met one launches.
StaleIsGoneFirst ==
    \A a \in Actors :
        met[a] # NoSlot /\ pc[a] = "launch" => ~Listening(met[a])
=============================================================================
