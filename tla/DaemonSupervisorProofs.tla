----------------------- MODULE DaemonSupervisorProofs -----------------------
(***************************************************************************)
(* SupervisorInductive is inductive for any number of processes, command   *)
(* line invocations and faults.  Most steps of a client touch only its own *)
(* columns, and end it (Return) or move it on (Become): two lemmas say     *)
(* what either preserves, and the actions are split into such moves.       *)
(***************************************************************************)
EXTENDS DaemonSupervisor, TLAPS

\* The columns of the clients, and those of the shell with the counters.
ActorTypeOK ==
    /\ pc \in [Actors -> Pcs]
    /\ goal \in [Actors -> Goals]
    /\ conn \in [Actors -> Slots \cup {NoSlot}]
    /\ met \in [Actors -> Slots \cup {NoSlot}]

FlagTypeOK == marker \in BOOLEAN /\ adopt \in BOOLEAN

ShellTypeOK ==
    /\ view \in Views
    /\ attempt \in 0..START_ATTEMPTS
    /\ faults \in 0..MaxFaults

ProcTypeOK == phase \in [Slots -> Phases] /\ build \in [Slots -> Builds]

\* What an actor's own columns have to satisfy.
ActorsKeep == ActorTypeOK /\ ConnectionIsLive /\ MetIsLeaving

LEMMA Parts ==
    SupervisorInvariant =>
        ProcTypeOK /\ FlagTypeOK /\ ShellTypeOK /\ ActorsKeep /\ PrivilegedReachesPackaged
BY DEF SupervisorInvariant, SupervisorTypeOK, ActorTypeOK, FlagTypeOK, ShellTypeOK, ProcTypeOK,
    ActorsKeep

LEMMA PartsNext ==
    ASSUME ProcTypeOK', FlagTypeOK', ShellTypeOK', ActorsKeep', PrivilegedReachesPackaged'
    PROVE  SupervisorInvariant'
<1>1. strayed' \subseteq Builds
    BY DEF PrivilegedReachesPackaged, Builds
<1>2. SupervisorTypeOK'
    BY <1>1 DEF SupervisorTypeOK, ActorTypeOK, FlagTypeOK, ShellTypeOK, ProcTypeOK, ActorsKeep
<1>3. QED
    BY <1>2 DEF SupervisorInvariant, ActorsKeep

LEMMA DesktopIsActor == Desktop \in Actors /\ Clis \subseteq Actors /\ Desktop \notin Clis
BY SupervisorAssumption DEF Actors

LEMMA FreeIsFree == SomeFree => FreeSlot \in Slots /\ phase[FreeSlot] = "none"
BY DEF SomeFree, FreeSlot

LEMMA FaultCounts ==
    ASSUME faults \in 0..MaxFaults, Fault
    PROVE  faults' \in 0..MaxFaults
BY SupervisorAssumption DEF Fault

\* Nothing kept in mind is always right, and what is right stays right while
\* the processes stay as they are.
LEMMA NoneMet == \A p : MayMeet(NoSlot, p)
BY Zenon DEF MayMeet

LEMMA SameMet ==
    ASSUME NEW v, NEW p, UNCHANGED procVars, MayMeet(v, p)
    PROVE  MayMeet(v, p)'
BY Zenon DEF MayMeet, procVars

\* So a client that changes its own columns keeps the whole.
LEMMA MetKeeps ==
    ASSUME ActorTypeOK, MetIsLeaving, UNCHANGED procVars, NEW a \in Actors,
           MayMeet(met'[a], pc'[a]),
           \A b \in Actors \ {a} : met'[b] = met[b] /\ pc'[b] = pc[b]
    PROVE  MetIsLeaving'
<1>1. \A b \in Actors : MayMeet(met'[b], pc'[b])
    BY Zenon DEF MetIsLeaving
<1>2. \A b \in Actors : MayMeet(met[b], pc[b])'
    BY <1>1, Zenon DEF MayMeet, procVars
<1>3. \A s, t \in Slots : Listening(s)' /\ Listening(t)' => s = t
    BY Zenon DEF MetIsLeaving, Listening, procVars
<1>4. QED
    BY <1>2, <1>3, Zenon DEF MetIsLeaving

\* A client that returns lets go of everything.
LEMMA ReturnKeeps ==
    ASSUME ProcTypeOK, ActorsKeep, NEW a \in Actors, Return(a), UNCHANGED procVars
    PROVE  ActorsKeep'
<1> USE DEF ActorsKeep, Return, procVars, ActorTypeOK
<1>1. ActorTypeOK'
    BY DEF Pcs, Goals
<1>2. ConnectionIsLive'
    BY DEF ConnectionIsLive, Listening
<1>3. MetIsLeaving'
    BY NoneMet, MetKeeps
<1>4. QED
    BY <1>1, <1>2, <1>3

\* A client that moves on with its connection as it is.
LEMMA BecomeKeeps ==
    ASSUME ProcTypeOK, ActorsKeep, NEW a \in Actors, NEW p \in Pcs \ {"verified"},
           Become(a, p), UNCHANGED <<phase, build, conn>>,
           goal' \in [Actors -> Goals],
           NEW v \in Slots \cup {NoSlot}, met' = [met EXCEPT ![a] = v],
           MayMeet(v, p)
    PROVE  ActorsKeep'
<1> USE DEF ActorsKeep, Become, ActorTypeOK
<1>1. ActorTypeOK'
    OBVIOUS
<1>2. ConnectionIsLive'
    BY DEF ConnectionIsLive, Listening
<1>3. MetIsLeaving'
    BY MetKeeps DEF procVars
<1>4. QED
    BY <1>1, <1>2, <1>3

\* The same with what the call knows unchanged.
LEMMA BecomeSame ==
    ASSUME ProcTypeOK, ActorsKeep, NEW a \in Actors, NEW p \in Pcs \ {"verified"},
           Become(a, p), UNCHANGED <<phase, build, conn, met>>,
           goal' \in [Actors -> Goals],
           MayMeet(met[a], p)
    PROVE  ActorsKeep'
<1>1. met[a] \in Slots \cup {NoSlot} /\ met' = [met EXCEPT ![a] = met[a]]
    BY DEF ActorsKeep, ActorTypeOK
<1>2. QED
    BY <1>1, BecomeKeeps, ZenonT(60)

-----------------------------------------------------------------------------
(* The processes                                                           *)

LEMMA ProcessKeeps ==
    ASSUME SupervisorInvariant, NEW s \in Slots,
           TakeLock(s) \/ Bind(s) \/ ServerReturns(s) \/ Exit(s) \/ Crash(s) \/ AlienLeaves(s)
    PROVE  SupervisorInvariant'
<1> USE SupervisorAssumption DEF SupervisorInvariant, procVars, deskVars
<1>1. SupervisorTypeOK'
    <2> USE DEF SupervisorTypeOK, Phases, Builds
    <2>1. CASE TakeLock(s) \/ Bind(s)
        <3>1. UNCHANGED <<marker, deskVars, pc, goal, conn, strayed, faults>>
            BY <2>1 DEF TakeLock, Bind
        <3>2. \/ phase' = [phase EXCEPT ![s] = "opening"] /\ UNCHANGED <<build, met>>
              \/ phase' = [phase EXCEPT ![s] = "serving"] /\ UNCHANGED <<build, met>>
              \/ Ends(s)
            BY <2>1, Zenon DEF TakeLock, Bind
        <3>3. CASE Ends(s)
            BY <3>1, <3>3, ZenonT(60) DEF Ends
        <3>4. CASE ~Ends(s)
            BY <3>1, <3>2, <3>4, ZenonT(60)
        <3>5. QED
            BY <3>3, <3>4
    <2>2. CASE ServerReturns(s) \/ Exit(s)
        BY <2>2, ZenonT(60) DEF ServerReturns, Exit, Ends, DropConnections
    <2>3. CASE Crash(s)
        BY <2>3 DEF Crash, Ends, DropConnections, Fault
    <2>4. CASE AlienLeaves(s)
        BY <2>4 DEF AlienLeaves, Ends, DropConnections
    <2>5. QED
        BY <2>1, <2>2, <2>3, <2>4
<1>2. ConnectionIsLive'
    BY DEF TakeLock, Bind, ServerReturns, Exit, Crash, AlienLeaves, Ends, DropConnections,
        SupervisorTypeOK, ConnectionIsLive, Listening, Endpoint
<1>3. MetIsLeaving'
    <2>1. /\ UNCHANGED pc /\ \A t \in Slots \ {s} : phase'[t] = phase[t] /\ build'[t] = build[t]
          /\ \/ Ends(s)
             \/ /\ UNCHANGED <<build, met>>
                /\ \/ phase[s] = "starting" /\ phase'[s] = "opening"
                   \/ phase[s] = "opening" /\ phase'[s] = "serving" /\ Endpoint = {}
                   \/ phase[s] = "stopping" /\ phase'[s] = "closing"
        BY DEF TakeLock, Bind, ServerReturns, Exit, Crash, AlienLeaves, Ends, SupervisorTypeOK
    <2>2. \A t, u \in Slots : Listening(t)' /\ Listening(u)' => t = u
        BY <2>1 DEF Ends, SupervisorTypeOK, MetIsLeaving, Listening, Endpoint
    <2>3. ASSUME NEW a \in Actors PROVE MayMeet(met[a], pc[a])'
        <3>1. MayMeet(met[a], pc[a]) /\ met[a] \in Slots \cup {NoSlot}
            BY DEF MetIsLeaving, SupervisorTypeOK
        <3>2. CASE Ends(s)
            <4>1. met'[a] = IF met[a] = s THEN NoSlot ELSE met[a]
                BY <3>2 DEF Ends
            <4>2. CASE met[a] = s \/ met[a] = NoSlot
                BY <4>1, <4>2, Zenon DEF MayMeet
            <4>3. CASE met[a] \in Slots \ {s}
                BY <2>1, <3>1, <4>1, <4>3 DEF MayMeet
            <4>4. QED
                BY <3>1, <4>2, <4>3
        <3>3. CASE UNCHANGED <<build, met>>
            BY <2>1, <3>1, <3>3 DEF MayMeet, Ends, SupervisorTypeOK
        <3>4. QED
            BY <2>1, <3>2, <3>3
    <2>4. QED
        BY <2>2, <2>3 DEF MetIsLeaving
<1>4. PrivilegedReachesPackaged'
    BY ZenonT(60) DEF TakeLock, Bind, ServerReturns, Exit, Crash, AlienLeaves, PrivilegedReachesPackaged
<1>5. QED
    BY <1>1, <1>2, <1>3, <1>4

\* A program that takes a free slot is nobody's stale daemon.
LEMMA ArrivalKeeps ==
    ASSUME SupervisorInvariant, AlienArrives \/ StaleArrives
    PROVE  SupervisorInvariant'
<1> USE FreeIsFree, SupervisorAssumption DEF SupervisorInvariant
<1>1. /\ SomeFree /\ Fault /\ UNCHANGED <<marker, adopt, view, attempt, pc, goal, conn, met, strayed>>
      /\ phase' = [phase EXCEPT ![FreeSlot] = "starting"] \/
            (Endpoint = {} /\ phase' = [phase EXCEPT ![FreeSlot] = "serving"])
      /\ build' = [build EXCEPT ![FreeSlot] = "alien"] \/ build' = [build EXCEPT ![FreeSlot] = "stale"]
    BY DEF AlienArrives, StaleArrives, Starts, deskVars
<1>2. SupervisorTypeOK'
    BY <1>1 DEF Fault, SupervisorTypeOK, Phases, Builds
<1>3. \A t \in Slots \ {FreeSlot} : phase'[t] = phase[t] /\ build'[t] = build[t]
    BY <1>1 DEF SupervisorTypeOK
<1>4. ConnectionIsLive'
    BY <1>1, <1>3 DEF SupervisorTypeOK, ConnectionIsLive, Listening
<1>5. MetIsLeaving'
    <2>1. \A t, u \in Slots : Listening(t)' /\ Listening(u)' => t = u
        BY <1>1, <1>3 DEF SupervisorTypeOK, MetIsLeaving, Listening, Endpoint
    <2>2. ASSUME NEW a \in Actors PROVE MayMeet(met[a], pc[a])'
        BY <1>1, <1>3 DEF SupervisorTypeOK, MetIsLeaving, MayMeet
    <2>3. QED
        BY <2>1, <2>2 DEF MetIsLeaving
<1>6. QED
    BY <1>1, <1>2, <1>4, <1>5 DEF PrivilegedReachesPackaged

\* A spawn by either client.
LEMMA SpawnKeeps ==
    ASSUME ProcTypeOK, ActorsKeep, NEW a \in Actors, pc[a] = "launch", SomeFree,
           Starts(FreeSlot, "packaged"), Become(a, "wait"), UNCHANGED <<goal, conn, met>>
    PROVE  ProcTypeOK' /\ ActorsKeep'
<1> USE FreeIsFree DEF ActorsKeep, ActorTypeOK, ProcTypeOK, Starts, Become
<1>1. ProcTypeOK' /\ ActorTypeOK'
    BY DEF Phases, Builds, Pcs
<1>2. ConnectionIsLive'
    BY DEF ConnectionIsLive, Listening
<1>3. MetIsLeaving'
    BY DEF MetIsLeaving, MayMeet, Listening
<1>4. QED
    BY <1>1, <1>2, <1>3

-----------------------------------------------------------------------------
(* The desktop                                                             *)

LEMMA EnsureReadyKeeps ==
    ASSUME SupervisorInvariant, NEW g \in {"watch", "command"}, EnsureReady(g)
    PROVE  SupervisorInvariant'
<1> USE Parts, PartsNext, DesktopIsActor
<1>0. FlagTypeOK'
    BY ZenonT(60) DEF EnsureReady, FlagTypeOK
<1>1. ProcTypeOK' /\ PrivilegedReachesPackaged'
    BY DEF EnsureReady, procVars, ProcTypeOK, PrivilegedReachesPackaged
<1>2. CASE Return(Desktop) /\ view' \in {"Failed", "Stopped"} /\ attempt' = 0 /\ marker' = marker
    <2>1. faults' \in 0..MaxFaults
        BY FaultCounts DEF EnsureReady, ShellTypeOK
    <2>2. ShellTypeOK'
        BY <1>2, <2>1 DEF EnsureReady, ShellTypeOK, Views, START_ATTEMPTS
    <2>3. QED
        BY <1>0, <1>1, <1>2, <2>2, ReturnKeeps DEF EnsureReady
<1>3. CASE /\ Become(Desktop, "probe") /\ goal' = [goal EXCEPT ![Desktop] = g]
           /\ marker' \in {marker, FALSE}
           /\ UNCHANGED <<view, attempt, conn, met, faults>>
    <2>1. ShellTypeOK'
        BY <1>3 DEF EnsureReady, ShellTypeOK
    <2>2. "probe" \in Pcs /\ goal' \in [Actors -> Goals] /\ met[Desktop] = NoSlot
        BY <1>3 DEF EnsureReady, Pcs, Goals, ActorsKeep, ActorTypeOK, MetIsLeaving, MayMeet
    <2>3. ActorsKeep'
        BY <1>3, <2>2, BecomeSame, NoneMet DEF EnsureReady, procVars
    <2>4. QED
        BY <1>0, <1>1, <2>1, <2>3
<1>4. QED
    BY <1>2, <1>3, ZenonT(60) DEF EnsureReady, ReturnWith

\* ensure_ready's success.
LEMMA ReadyKeeps ==
    ASSUME SupervisorInvariant, ReturnReady, UNCHANGED <<procVars, marker, adopt, strayed>>,
           faults' \in 0..MaxFaults
    PROVE  SupervisorInvariant'
<1> USE Parts, PartsNext, DesktopIsActor
<1>0. FlagTypeOK'
    BY DEF FlagTypeOK
<1>1. ProcTypeOK' /\ PrivilegedReachesPackaged' /\ ShellTypeOK'
    BY DEF ReturnReady, procVars, ProcTypeOK, PrivilegedReachesPackaged, ShellTypeOK, Views,
        START_ATTEMPTS
<1>2. goal' \in [Actors -> Goals] /\ {"request", "idle"} \subseteq Pcs
    BY DEF ReturnReady, ActorsKeep, ActorTypeOK, Goals, Pcs
<1>3. ActorsKeep'
    BY <1>2, BecomeKeeps, NoneMet, ZenonT(60) DEF ReturnReady, procVars
<1>4. QED
    BY <1>0, <1>1, <1>3

\* Any other end of ensure_ready.
LEMMA ReturnWithKeeps ==
    ASSUME SupervisorInvariant, NEW v \in Views, ReturnWith(v),
           UNCHANGED <<procVars, marker, adopt, strayed>>, faults' \in 0..MaxFaults
    PROVE  SupervisorInvariant'
<1> USE Parts, PartsNext, DesktopIsActor
<1>0. FlagTypeOK'
    BY DEF FlagTypeOK
<1>1. ProcTypeOK' /\ PrivilegedReachesPackaged' /\ ShellTypeOK'
    BY DEF ReturnWith, procVars, ProcTypeOK, PrivilegedReachesPackaged, ShellTypeOK,
        START_ATTEMPTS
<1>2. QED
    BY <1>0, <1>1, ReturnKeeps DEF ReturnWith

\* A move of the shell inside ensure_ready.
LEMMA ShellMoves ==
    ASSUME SupervisorInvariant, NEW p \in Pcs \ {"verified"}, Become(Desktop, p),
           UNCHANGED <<procVars, marker, adopt, strayed, attempt, goal, conn, met>>,
           view' \in {view, "Starting"}, faults' \in 0..MaxFaults,
           MayMeet(met[Desktop], p)
    PROVE  SupervisorInvariant'
<1> USE Parts, PartsNext, DesktopIsActor
<1>0. FlagTypeOK'
    BY DEF FlagTypeOK
<1>1. ProcTypeOK' /\ PrivilegedReachesPackaged' /\ ShellTypeOK'
    BY DEF procVars, ProcTypeOK, PrivilegedReachesPackaged, ShellTypeOK, Views
<1>2. goal' \in [Actors -> Goals]
    BY DEF ActorsKeep, ActorTypeOK
<1>3. ActorsKeep'
    BY <1>2, BecomeSame DEF procVars
<1>4. QED
    BY <1>0, <1>1, <1>3

LEMMA DesktopProbesKeeps ==
    ASSUME SupervisorInvariant, DesktopProbes
    PROVE  SupervisorInvariant'
<1> USE Parts, PartsNext, DesktopIsActor
<1>1. PICK r \in {"Ok", "Incompatible", "VersionMismatch", "Unavailable"} :
        /\ ProbeFinds(r)
        /\ r = "Ok" => ReturnReady
        /\ r = "Incompatible" => ReturnWith("Failed")
        /\ r = "VersionMismatch" =>
              /\ view' = "Starting"
              /\ Become(Desktop, "shutdown")
              /\ Meets(Desktop)
              /\ UNCHANGED <<attempt, goal, conn>>
        /\ r = "Unavailable" =>
              Become(Desktop, "recheck") /\ UNCHANGED <<view, attempt, goal, conn, met>>
    BY ZenonT(60) DEF DesktopProbes
<1>2. faults' \in 0..MaxFaults
    BY <1>1, FaultCounts DEF ProbeFinds, ShellTypeOK
<1>3. UNCHANGED <<procVars, marker, adopt, strayed>> /\ met[Desktop] = NoSlot
    BY DEF DesktopProbes, ActorsKeep, MetIsLeaving, MayMeet
<1>4. {"recheck", "shutdown"} \subseteq Pcs \ {"verified"} /\ "Failed" \in Views
    BY DEF Pcs, Views
<1>5. CASE r = "Ok"
    BY <1>1, <1>2, <1>3, <1>5, ReadyKeeps
<1>6. CASE r = "Incompatible"
    BY <1>1, <1>2, <1>3, <1>4, <1>6, ReturnWithKeeps
<1>7. CASE r = "VersionMismatch"
    <2>0. FlagTypeOK'
        BY <1>3 DEF FlagTypeOK
    <2>1. ProcTypeOK' /\ PrivilegedReachesPackaged' /\ ShellTypeOK'
        BY <1>1, <1>2, <1>3, <1>7 DEF procVars, ProcTypeOK, PrivilegedReachesPackaged,
            ShellTypeOK, Views
    <2>2. goal' \in [Actors -> Goals]
        BY <1>1, <1>7 DEF ActorsKeep, ActorTypeOK
    <2>3. ActorsKeep'
        <3>1. PICK s \in Endpoint : build[s] = "stale" /\ met' = [met EXCEPT ![Desktop] = s]
            BY <1>1, <1>7, Zenon DEF Meets
        <3>2. s \in Slots /\ MayMeet(s, "shutdown")
            BY <3>1 DEF Endpoint, Listening, MayMeet
        <3>3. QED
            BY <1>1, <1>3, <1>4, <1>7, <2>2, <3>1, <3>2, BecomeKeeps, ZenonT(60) DEF procVars
    <2>4. QED
        BY <2>0, <2>1, <2>3
<1>8. CASE r = "Unavailable"
    BY <1>1, <1>2, <1>3, <1>4, <1>8, ShellMoves, NoneMet
<1>9. QED
    BY <1>5, <1>6, <1>7, <1>8

LEMMA DesktopRechecksKeeps ==
    ASSUME SupervisorInvariant, DesktopRechecks
    PROVE  SupervisorInvariant'
<1>1. faults' \in 0..MaxFaults /\ met[Desktop] = NoSlot
    BY Parts, DesktopIsActor DEF DesktopRechecks, ShellTypeOK, ActorsKeep, MetIsLeaving,
        MayMeet
<1>2. "launch" \in Pcs \ {"verified"} /\ "Stopped" \in Views
    BY DEF Pcs, Views
<1>3. QED
    BY <1>1, <1>2, ShellMoves, ReturnWithKeeps, NoneMet DEF DesktopRechecks

LEMMA DesktopLaunchesKeeps ==
    ASSUME SupervisorInvariant, AttemptsAreCounted, DesktopLaunches
    PROVE  SupervisorInvariant'
<1> USE Parts, PartsNext, DesktopIsActor
<1>1. CASE Fault /\ ReturnWith("Failed") /\ UNCHANGED procVars
    <2>1. faults' \in 0..MaxFaults /\ "Failed" \in Views
        BY <1>1, FaultCounts DEF ShellTypeOK, Views
    <2>2. QED
        BY <1>1, <2>1, ReturnWithKeeps DEF DesktopLaunches
<1>2. CASE /\ SomeFree /\ Starts(FreeSlot, "packaged") /\ attempt' = attempt + 1
           /\ Become(Desktop, "wait") /\ UNCHANGED <<view, goal, conn, met, faults>>
    <2>1. ProcTypeOK' /\ ActorsKeep'
        BY <1>2, SpawnKeeps DEF DesktopLaunches
    <2>2. FlagTypeOK'
        BY DEF DesktopLaunches, FlagTypeOK
    <2>3. ShellTypeOK' /\ PrivilegedReachesPackaged'
        BY <1>2 DEF DesktopLaunches, AttemptsAreCounted, ShellTypeOK, START_ATTEMPTS,
            PrivilegedReachesPackaged
    <2>4. QED
        BY <2>1, <2>2, <2>3
<1>3. QED
    BY <1>1, <1>2 DEF DesktopLaunches

LEMMA DesktopWaitsKeeps ==
    ASSUME SupervisorInvariant, DesktopWaits
    PROVE  SupervisorInvariant'
<1> USE Parts, DesktopIsActor
<1>1. PICK r \in {"Ok", "Incompatible", "VersionMismatch", "Unavailable"} :
        /\ WaitFinds(r)
        /\ \/ Become(Desktop, "postcheck") /\ UNCHANGED <<view, attempt, goal, conn, met>>
           \/ ReturnWith("Failed")
           \/ Become(Desktop, "launch") /\ UNCHANGED <<view, attempt, goal, conn, met>>
    <2>1. PICK r \in {"Ok", "Incompatible", "VersionMismatch", "Unavailable"} :
            /\ WaitFinds(r)
            /\ CASE r = "Ok" ->
                       Become(Desktop, "postcheck")
                       /\ UNCHANGED <<view, attempt, goal, conn, met>>
                 [] r \in {"Incompatible", "VersionMismatch"} -> ReturnWith("Failed")
                 [] r = "Unavailable" /\ attempt < START_ATTEMPTS ->
                       Become(Desktop, "launch")
                       /\ UNCHANGED <<view, attempt, goal, conn, met>>
                 [] r = "Unavailable" /\ attempt >= START_ATTEMPTS -> ReturnWith("Failed")
        BY ZenonT(60) DEF DesktopWaits
    <2>2. attempt < START_ATTEMPTS \/ attempt >= START_ATTEMPTS
        BY DEF ShellTypeOK, START_ATTEMPTS
    <2>3. QED
        BY <2>1, <2>2, ZenonT(60)
<1>2. faults' \in 0..MaxFaults
    BY <1>1, FaultCounts DEF WaitFinds, ShellTypeOK
<1>3. /\ UNCHANGED <<procVars, marker, adopt, strayed>>
      /\ MayMeet(met[Desktop], "launch") /\ MayMeet(met[Desktop], "postcheck")
    BY DEF DesktopWaits, ActorsKeep, MetIsLeaving, MayMeet
<1>4. {"launch", "postcheck"} \subseteq Pcs \ {"verified"} /\ "Failed" \in Views
    BY DEF Pcs, Views
<1>5. QED
    BY <1>1, <1>2, <1>3, <1>4, ShellMoves, ReturnWithKeeps

LEMMA DesktopPostchecksKeeps ==
    ASSUME SupervisorInvariant, DesktopPostchecks
    PROVE  SupervisorInvariant'
<1> USE Parts, PartsNext, DesktopIsActor
<1>1. faults' \in 0..MaxFaults
    BY DEF DesktopPostchecks, ShellTypeOK
<1>2. CASE marker
    <2>1. FlagTypeOK'
        BY DEF DesktopPostchecks, FlagTypeOK
    <2>2. ProcTypeOK' /\ ShellTypeOK' /\ PrivilegedReachesPackaged'
        BY <1>2 DEF DesktopPostchecks, procVars, ProcTypeOK, ShellTypeOK,
            PrivilegedReachesPackaged
    <2>3. "shutdown" \in Pcs \ {"verified"} /\ goal' \in [Actors -> Goals]
        BY <1>2 DEF DesktopPostchecks, Pcs, Goals, ActorsKeep, ActorTypeOK
    <2>4. ActorsKeep'
        <3>1. MayMeet(met[Desktop], "shutdown")
            BY DEF DesktopPostchecks, ActorsKeep, MetIsLeaving, MayMeet
        <3>2. QED
            BY <1>2, <2>3, <3>1, BecomeSame DEF DesktopPostchecks, procVars
    <2>5. QED
        BY <2>1, <2>2, <2>4
<1>3. CASE ~marker
    BY <1>1, <1>3, ReadyKeeps DEF DesktopPostchecks
<1>4. QED
    BY <1>2, <1>3

LEMMA WindowKeeps ==
    ASSUME SupervisorInvariant, DesktopCloses \/ DesktopOpens
    PROVE  SupervisorInvariant'
<1> USE DesktopIsActor, SupervisorAssumption DEF SupervisorInvariant
<1>1. SupervisorTypeOK'
    <2> USE DEF SupervisorTypeOK, Pcs, Goals, Views, START_ATTEMPTS, procVars
    <2>1. CASE DesktopCloses
        BY <2>1 DEF DesktopCloses, Fault
    <2>2. CASE DesktopOpens
        BY <2>2 DEF DesktopOpens, Become
    <2>3. QED
        BY <2>1, <2>2
<1>2. ConnectionIsLive'
    BY DEF DesktopCloses, DesktopOpens, Become, SupervisorTypeOK, ConnectionIsLive, Listening,
        procVars
<1>3. MetIsLeaving'
    <2>1. /\ UNCHANGED procVars /\ met'[Desktop] = NoSlot
          /\ \A b \in Actors \ {Desktop} : met'[b] = met[b] /\ pc'[b] = pc[b]
        BY DEF DesktopCloses, DesktopOpens, Become, SupervisorTypeOK, MetIsLeaving, MayMeet
    <2>2. QED
        BY <2>1, NoneMet, MetKeeps DEF ActorTypeOK, SupervisorTypeOK
<1>4. QED
    BY <1>1, <1>2, <1>3, ZenonT(60) DEF DesktopCloses, DesktopOpens, PrivilegedReachesPackaged

-----------------------------------------------------------------------------
(* The command line                                                        *)

\* A command ends.
LEMMA CliReturns ==
    ASSUME SupervisorInvariant, NEW c \in Clis, Return(c), UNCHANGED <<procVars, deskVars, strayed>>,
           marker' \in {marker, FALSE}, faults' \in 0..MaxFaults
    PROVE  SupervisorInvariant'
<1> USE Parts, PartsNext, DesktopIsActor
<1>1. FlagTypeOK'
    BY ZenonT(60) DEF FlagTypeOK, deskVars
<1>2. ProcTypeOK' /\ ShellTypeOK' /\ PrivilegedReachesPackaged'
    BY DEF deskVars, procVars, ProcTypeOK, ShellTypeOK, PrivilegedReachesPackaged
<1>3. QED
    BY <1>1, <1>2, ReturnKeeps

\* A command moves on.
LEMMA CliMoves ==
    ASSUME SupervisorInvariant, NEW c \in Clis, NEW p \in Pcs \ {"verified"}, Become(c, p),
           UNCHANGED <<procVars, deskVars, conn, strayed>>, marker' \in {marker, TRUE, FALSE},
           faults' \in 0..MaxFaults, goal' \in [Actors -> Goals],
           NEW v \in Slots \cup {NoSlot}, met' = [met EXCEPT ![c] = v],
           MayMeet(v, p)
    PROVE  SupervisorInvariant'
<1> USE Parts, PartsNext, DesktopIsActor
<1>1. FlagTypeOK'
    BY ZenonT(60) DEF FlagTypeOK, deskVars
<1>2. ProcTypeOK' /\ ShellTypeOK' /\ PrivilegedReachesPackaged'
    BY DEF deskVars, procVars, ProcTypeOK, ShellTypeOK, PrivilegedReachesPackaged
<1>3. ActorsKeep'
    BY BecomeKeeps, ZenonT(60) DEF procVars
<1>4. QED
    BY <1>1, <1>2, <1>3

\* The same with what the command knows unchanged.
LEMMA CliMovesSame ==
    ASSUME SupervisorInvariant, NEW c \in Clis, NEW p \in Pcs \ {"verified"}, Become(c, p),
           UNCHANGED <<procVars, deskVars, conn, met, strayed>>,
           marker' \in {marker, TRUE, FALSE},
           faults' \in 0..MaxFaults, goal' \in [Actors -> Goals],
           MayMeet(met[c], p)
    PROVE  SupervisorInvariant'
<1>1. met[c] \in Slots \cup {NoSlot} /\ met' = [met EXCEPT ![c] = met[c]]
    BY Parts, DesktopIsActor DEF ActorsKeep, ActorTypeOK
<1>2. QED
    BY <1>1, CliMoves, ZenonT(60)

\* Where the commands begin.
LEMMA FirstPcs ==
    ASSUME NEW g \in CliGoals
    PROVE  /\ g \in {"start", "stop", "restart", "request"}
           /\ FirstPc[g] \in {"probe", "mark", "request"}
           /\ g = "request" => FirstPc[g] = "request"
BY SupervisorAssumption DEF FirstPc

LEMMA CliBeginsKeeps ==
    ASSUME SupervisorInvariant, NEW c \in Clis, NEW g \in CliGoals, CliBegins(c, g)
    PROVE  SupervisorInvariant'
<1>1. g \in {"start", "stop", "restart", "request"}
    BY FirstPcs
<1>2. FirstPc[g] \in {"probe", "mark", "request"}
    BY FirstPcs, SMTT(60)
<1>3. FirstPc[g] \in Pcs \ {"verified"} /\ faults' \in 0..MaxFaults /\ met[c] = NoSlot
    BY <1>2, Parts, DesktopIsActor DEF CliBegins, Pcs, ShellTypeOK, ActorsKeep, MetIsLeaving, MayMeet
<1>4. goal' \in [Actors -> Goals]
    BY <1>1, Parts, DesktopIsActor DEF CliBegins, Goals, ActorsKeep, ActorTypeOK
<1>5. QED
    BY <1>3, <1>4, CliMovesSame, NoneMet DEF CliBegins

LEMMA CliMarksKeeps ==
    ASSUME SupervisorInvariant, NEW c \in Clis, CliMarks(c)
    PROVE  SupervisorInvariant'
<1> USE Parts, DesktopIsActor
<1>1. CASE Fault /\ Return(c) /\ UNCHANGED marker
    <2>1. faults' \in 0..MaxFaults
        BY <1>1, FaultCounts DEF ShellTypeOK
    <2>2. QED
        BY <1>1, <2>1, CliReturns DEF CliMarks
<1>2. CASE marker' = TRUE /\ Become(c, "probe") /\ UNCHANGED <<goal, conn, met, faults>>
    <2>1. /\ "probe" \in Pcs \ {"verified"} /\ faults' \in 0..MaxFaults /\ met[c] = NoSlot
          /\ goal' \in [Actors -> Goals]
        BY <1>2 DEF CliMarks, Pcs, ShellTypeOK, ActorsKeep, ActorTypeOK, MetIsLeaving, MayMeet
    <2>2. QED
        BY <1>2, <2>1, CliMovesSame, NoneMet DEF CliMarks
<1>3. QED
    BY <1>1, <1>2, ZenonT(60) DEF CliMarks

LEMMA CliProbesKeeps ==
    ASSUME SupervisorInvariant, CommandsFit, NEW c \in Clis, CliProbes(c)
    PROVE  SupervisorInvariant'
<1> USE Parts, DesktopIsActor
<1>1. PICK r \in {"Ok", "Incompatible", "VersionMismatch", "Unavailable"} :
        ProbeFinds(r) /\ (StartProbed(c, r) \/ (StopProbed(c, r) /\ goal[c] # "start"))
    BY DEF CliProbes
<1>2. faults' \in 0..MaxFaults
    BY <1>1, FaultCounts DEF ProbeFinds, ShellTypeOK
<1>3. UNCHANGED <<procVars, deskVars, strayed>> /\ met[c] = NoSlot /\ pc[c] = "probe"
    BY DEF CliProbes, ActorsKeep, MetIsLeaving, MayMeet
<1>4. {"shutdown", "clear", "probe", "unmark"} \subseteq Pcs \ {"verified"} /\ goal \in [Actors -> Goals]
    BY DEF Pcs, ActorsKeep, ActorTypeOK
<1>5. CASE Return(c) /\ UNCHANGED marker
    BY <1>2, <1>3, <1>5, CliReturns, SMTT(60)
<1>6. CASE /\ Become(c, "shutdown") \/ Become(c, "unmark")
           /\ UNCHANGED <<marker, goal, conn, met>>
    BY <1>2, <1>3, <1>4, <1>6, CliMovesSame, NoneMet, SMTT(60)
<1>7. CASE /\ Become(c, "shutdown") /\ Meets(c)
           /\ UNCHANGED <<marker, goal, conn>>
    <2>1. PICK s \in Endpoint : build[s] = "stale" /\ met' = [met EXCEPT ![c] = s]
        BY <1>7, Zenon DEF Meets
    <2>2. s \in Slots /\ MayMeet(s, "shutdown")
        BY <2>1 DEF Endpoint, Listening, MayMeet
    <2>3. QED
        BY <1>2, <1>3, <1>4, <1>7, <2>1, <2>2, CliMoves, ZenonT(60)
<1>8. CASE Become(c, "clear") /\ UNCHANGED <<marker, goal, conn, met>>
    BY <1>2, <1>3, <1>4, <1>8, CliMovesSame, NoneMet
<1>9. CASE goal' = [goal EXCEPT ![c] = "start"] /\ UNCHANGED <<marker, pc, conn, met>>
    <2>1. goal' \in [Actors -> Goals] /\ Become(c, "probe")
        BY <1>3, <1>4, <1>9 DEF Goals, Become, ActorsKeep, ActorTypeOK
    <2>2. QED
        BY <1>2, <1>3, <1>4, <1>9, <2>1, CliMovesSame, NoneMet
<1>10. QED
    <2>1. CASE StartProbed(c, r)
        BY <1>1, <1>5, <1>6, <1>7, <1>8, <2>1, ZenonT(60) DEF StartProbed
    <2>2. CASE StopProbed(c, r) /\ goal[c] \in {"restart", "stop"}
        BY <1>1, <1>5, <1>6, <1>9, <2>2, ZenonT(60) DEF StopProbed
    <2>3. goal[c] \in {"start", "restart", "stop"}
        BY DEF CliProbes, CommandsFit
    <2>4. QED
        BY <1>1, <2>1, <2>2, <2>3

LEMMA CliUnmarksKeeps ==
    ASSUME SupervisorInvariant, NEW c \in Clis, CliUnmarks(c) \/ CliWaits(c) \/ CliKilled(c)
    PROVE  SupervisorInvariant'
<1>1. faults' \in 0..MaxFaults
    BY Parts, FaultCounts DEF CliUnmarks, CliWaits, CliKilled, WaitFinds, ShellTypeOK
<1>2. QED
    BY <1>1, CliReturns, ZenonT(60) DEF CliUnmarks, CliWaits, CliKilled

LEMMA CliClearsKeeps ==
    ASSUME SupervisorInvariant, NEW c \in Clis, CliClears(c)
    PROVE  SupervisorInvariant'
<1>1. CASE Fault /\ Return(c) /\ UNCHANGED marker
    <2>1. faults' \in 0..MaxFaults
        BY <1>1, Parts, FaultCounts DEF ShellTypeOK
    <2>2. QED
        BY <1>1, <2>1, CliReturns DEF CliClears
<1>2. CASE marker' = FALSE /\ Become(c, "launch") /\ UNCHANGED <<goal, conn, met, faults>>
    <2>1. /\ "launch" \in Pcs \ {"verified"} /\ faults' \in 0..MaxFaults
          /\ goal' \in [Actors -> Goals]
          /\ MayMeet(met[c], "launch")
        BY <1>2, Parts, DesktopIsActor DEF CliClears, Pcs, ShellTypeOK, ActorsKeep, ActorTypeOK,
            MetIsLeaving, MayMeet
    <2>2. QED
        BY <1>2, <2>1, CliMovesSame, ZenonT(60) DEF CliClears
<1>3. QED
    BY <1>1, <1>2, ZenonT(60) DEF CliClears

LEMMA CliLaunchesKeeps ==
    ASSUME SupervisorInvariant, NEW c \in Clis, CliLaunches(c)
    PROVE  SupervisorInvariant'
<1> USE Parts, PartsNext, DesktopIsActor
<1>1. CASE Fault /\ Return(c) /\ UNCHANGED procVars
    <2>1. faults' \in 0..MaxFaults
        BY <1>1, FaultCounts DEF ShellTypeOK
    <2>2. QED
        BY <1>1, <2>1, CliReturns DEF CliLaunches
<1>2. CASE /\ SomeFree /\ Starts(FreeSlot, "packaged") /\ Become(c, "wait")
           /\ UNCHANGED <<goal, conn, met, faults>>
    <2>1. ProcTypeOK' /\ ActorsKeep'
        BY <1>2, SpawnKeeps DEF CliLaunches
    <2>2. FlagTypeOK'
        BY DEF CliLaunches, deskVars, FlagTypeOK
    <2>3. ShellTypeOK' /\ PrivilegedReachesPackaged'
        BY <1>2, SMTT(60) DEF CliLaunches, deskVars, ShellTypeOK, PrivilegedReachesPackaged
    <2>4. QED
        BY <2>1, <2>2, <2>3
<1>3. QED
    BY <1>1, <1>2 DEF CliLaunches

-----------------------------------------------------------------------------
(* Stopping a daemon, and privileged requests: either client               *)

LEMMA StopFailedKeeps ==
    ASSUME SupervisorInvariant, NEW a \in Actors, StopFailed(a), pc[a] \in {"shutdown", "ack", "gone"},
           UNCHANGED <<procVars, marker, strayed>>, faults' \in 0..MaxFaults
    PROVE  SupervisorInvariant'
<1> USE Parts, PartsNext, DesktopIsActor
<1>1. CASE a = Desktop
    BY <1>1, ReturnWithKeeps, SMTT(60) DEF StopFailed, Views
<1>2. CASE a # Desktop /\ goal[a] = "start"
    BY <1>2, CliReturns DEF StopFailed, Actors
<1>3. CASE a # Desktop /\ goal[a] # "start"
    <2>1. /\ Become(a, "unmark") /\ conn' = [conn EXCEPT ![a] = NoSlot]
          /\ UNCHANGED <<deskVars, goal, met>>
        BY <1>3 DEF StopFailed
    <2>2. FlagTypeOK'
        BY <2>1 DEF FlagTypeOK, deskVars
    <2>3. ProcTypeOK' /\ ShellTypeOK' /\ PrivilegedReachesPackaged'
        BY <2>1, SMTT(60) DEF deskVars, procVars, ProcTypeOK, ShellTypeOK, PrivilegedReachesPackaged
    <2>4. ActorTypeOK'
        BY <2>1, SMTT(60) DEF ActorsKeep, ActorTypeOK, Become, Pcs
    <2>5. ConnectionIsLive'
        BY <2>1, SMTT(60) DEF ActorsKeep, ActorTypeOK, Become, ConnectionIsLive, Listening, procVars
    <2>6. MetIsLeaving'
        <3>1. MayMeet(met[a], "unmark")
            BY DEF ActorsKeep, MetIsLeaving, MayMeet
        <3>2. met'[a] = met[a] /\ pc'[a] = "unmark"
            BY <2>1 DEF ActorsKeep, ActorTypeOK, Become
        <3>3. QED
            BY <2>1, <3>1, <3>2, MetKeeps DEF ActorsKeep, ActorTypeOK, Become
    <2>7. QED
        BY <2>2, <2>3, <2>4, <2>5, <2>6, SMTT(60) DEF ActorsKeep
<1>4. QED
    BY <1>1, <1>2, <1>3, SMTT(60)

LEMMA StopSucceededKeeps ==
    ASSUME SupervisorInvariant, CommandsFit, NEW a \in Actors, StopSucceeded(a), pc[a] = "gone",
           UNCHANGED <<procVars, marker, strayed>>, faults' \in 0..MaxFaults
    PROVE  SupervisorInvariant'
<1> USE Parts, DesktopIsActor
<1>0. /\ goal \in [Actors -> Goals]
      /\ {"launch", "clear", "probe"} \subseteq Pcs \ {"verified"}
      /\ MayMeet(met[a], "launch") /\ MayMeet(met[a], "clear")
    BY DEF ActorsKeep, ActorTypeOK, Pcs, MetIsLeaving, MayMeet
<1>1. CASE a = Desktop /\ goal[a] = "undo"
    BY <1>0, <1>1, ReturnWithKeeps DEF StopSucceeded, Views
<1>2. CASE a = Desktop /\ goal[a] # "undo"
    BY <1>0, <1>2, ShellMoves DEF StopSucceeded
<1>3. CASE a # Desktop /\ goal[a] = "start"
    BY <1>0, <1>3, CliMovesSame, SMTT(60) DEF StopSucceeded, Actors
<1>4. CASE a # Desktop /\ goal[a] = "restart"
    <2>1. /\ Become(a, "probe") /\ goal' = [goal EXCEPT ![a] = "start"]
          /\ met' = [met EXCEPT ![a] = NoSlot] /\ UNCHANGED <<deskVars, conn>>
        BY <1>4 DEF StopSucceeded
    <2>2. goal' \in [Actors -> Goals]
        BY <1>0, <2>1 DEF Goals
    <2>3. QED
        BY <1>0, <1>4, <2>1, <2>2, CliMoves, NoneMet, ZenonT(60) DEF Actors
<1>5. CASE a # Desktop /\ goal[a] = "stop"
    BY <1>0, <1>5, CliReturns DEF StopSucceeded, Actors
<1>6. QED
    BY <1>1, <1>2, <1>3, <1>4, <1>5, SMTT(60) DEF CommandsFit, Actors

LEMMA SendShutdownKeeps ==
    ASSUME SupervisorInvariant, NEW a \in Actors, SendShutdown(a)
    PROVE  SupervisorInvariant'
<1> USE Parts, PartsNext, DesktopIsActor
<1>0. faults' \in 0..MaxFaults
    BY FaultCounts DEF SendShutdown, ShellTypeOK
<1>1. ASSUME NEW s \in Endpoint, build[s] # "alien", phase' = [phase EXCEPT ![s] = "stopping"],
             conn' = [conn EXCEPT ![a] = s], Become(a, "ack"),
             UNCHANGED <<deskVars, goal, met, faults>>
      PROVE  SupervisorInvariant'
    <2> USE <1>1 DEF SendShutdown, ActorsKeep, ActorTypeOK, ProcTypeOK
    <2>1. FlagTypeOK'
        BY SMTT(60) DEF FlagTypeOK, deskVars
    <2>2. ProcTypeOK' /\ PrivilegedReachesPackaged'
        BY SMTT(60) DEF Phases, Endpoint, PrivilegedReachesPackaged
    <2>3. ShellTypeOK'
        BY SMTT(60) DEF ShellTypeOK, deskVars
    <2>4. ActorTypeOK'
        BY SMTT(60) DEF Become, Pcs, Endpoint
    <2>5. ConnectionIsLive'
        BY SMTT(60) DEF Become, ConnectionIsLive, Endpoint, Listening
    <2>6. MetIsLeaving'
        <3>1. s \in Slots /\ Listening(s) /\ pc'[a] = "ack" /\ phase'[s] = "stopping"
            BY SMTT(60) DEF Endpoint, Become
        <3>2. \A t \in Slots \ {s} : phase'[t] = phase[t]
            BY ZenonT(60)
        <3>3. \A t, u \in Slots : Listening(t)' /\ Listening(u)' => t = u
            BY <3>1, <3>2 DEF MetIsLeaving, Listening
        <3>4. ASSUME NEW b \in Actors, b # a PROVE MayMeet(met[b], pc[b])'
            BY <3>1, <3>2, <3>4 DEF MetIsLeaving, MayMeet, Become
        <3>5. MayMeet(met[a], pc[a])'
            <4>1. met[a] \in Slots \ {s} => phase[met[a]] # "serving"
                BY <3>1 DEF MetIsLeaving, Listening
            <4>2. QED
                BY <3>1, <3>2, <4>1 DEF MetIsLeaving, MayMeet
        <3>6. QED
            BY <3>3, <3>4, <3>5 DEF MetIsLeaving
    <2>7. QED
        BY <2>1, <2>2, <2>3, <2>4, <2>5, <2>6, SMTT(60)
<1>2. CASE /\ \E s \in Endpoint : build[s] = "alien"
           /\ Become(a, "gone") /\ UNCHANGED <<phase, conn, deskVars, goal, met, faults>>
    <2>1. FlagTypeOK'
        BY <1>2, SMTT(60) DEF SendShutdown, FlagTypeOK, deskVars
    <2>2. ProcTypeOK' /\ ShellTypeOK' /\ PrivilegedReachesPackaged'
        BY <1>2, SMTT(60) DEF SendShutdown, deskVars, ProcTypeOK, ShellTypeOK, PrivilegedReachesPackaged
    <2>3. "gone" \in Pcs \ {"verified"} /\ goal' \in [Actors -> Goals]
        BY <1>2, SMTT(60) DEF Pcs, ActorsKeep, ActorTypeOK
    <2>4. ActorsKeep'
        <3>1. met[a] # NoSlot => met[a] \in Slots /\ ~Listening(met[a])
            BY <1>2 DEF ActorsKeep, ActorTypeOK, MetIsLeaving, MayMeet, Endpoint
        <3>2. MayMeet(met[a], "gone")
            BY <3>1 DEF ActorsKeep, MetIsLeaving, MayMeet, Listening
        <3>3. QED
            BY <1>2, <2>3, <3>2, BecomeSame, ZenonT(60) DEF SendShutdown
    <2>5. QED
        BY <2>1, <2>2, <2>4, SMTT(60)
<1>3. CASE StopFailed(a) /\ UNCHANGED phase
    BY <1>0, <1>3, StopFailedKeeps DEF SendShutdown, procVars
<1>4. QED
    BY <1>1, <1>2, <1>3 DEF SendShutdown

LEMMA AckKeeps ==
    ASSUME SupervisorInvariant, NEW a \in Actors, AckArrives(a) \/ AckLost(a)
    PROVE  SupervisorInvariant'
<1>1. CASE AckLost(a)
    <2>1. faults' \in 0..MaxFaults
        BY <1>1, Parts, FaultCounts, SMTT(60) DEF AckLost, ShellTypeOK
    <2>2. QED
        BY <1>1, <2>1, StopFailedKeeps, SMTT(60) DEF AckLost
<1>2. CASE AckArrives(a)
    <2> USE <1>2, DesktopIsActor DEF SupervisorInvariant, AckArrives, procVars, deskVars, Become
    <2>1. SupervisorTypeOK'
        BY SMTT(60) DEF SupervisorTypeOK, Pcs
    <2>2. ConnectionIsLive'
        BY SMTT(60) DEF SupervisorTypeOK, ConnectionIsLive, Listening
    <2>3. MetIsLeaving'
        <3>1. MayMeet(met[a], "gone")
            BY DEF MetIsLeaving, MayMeet
        <3>2. QED
            BY <3>1, MetKeeps DEF SupervisorTypeOK, ActorTypeOK
    <2>4. QED
        BY <2>1, <2>2, <2>3, SMTT(60) DEF PrivilegedReachesPackaged
<1>3. QED
    BY <1>1, <1>2, SMTT(60)

LEMMA SeesGoneKeeps ==
    ASSUME SupervisorInvariant, CommandsFit, NEW a \in Actors, SeesGone(a)
    PROVE  SupervisorInvariant'
<1>1. faults' \in 0..MaxFaults
    BY Parts, FaultCounts DEF SeesGone, ShellTypeOK
<1>2. CASE StopFailed(a)
    BY <1>1, <1>2, StopFailedKeeps DEF SeesGone
<1>3. CASE StopSucceeded(a)
    BY <1>1, <1>3, StopSucceededKeeps DEF SeesGone
<1>4. QED
    BY <1>2, <1>3 DEF SeesGone

LEMMA HandshakeKeeps ==
    ASSUME SupervisorInvariant, NEW a \in Actors, Handshake(a)
    PROVE  SupervisorInvariant'
<1> USE Parts, PartsNext
<1>0. FlagTypeOK'
    BY SMTT(60) DEF Handshake, FlagTypeOK, deskVars
<1>1. ProcTypeOK' /\ ShellTypeOK' /\ PrivilegedReachesPackaged'
    <2>1. faults' \in 0..MaxFaults
        BY FaultCounts, SMTT(60) DEF Handshake, ShellTypeOK
    <2>2. QED
        BY <2>1, SMTT(60) DEF Handshake, procVars, deskVars, ProcTypeOK, ShellTypeOK,
            PrivilegedReachesPackaged
<1>2. CASE Return(a)
    BY <1>0, <1>1, <1>2, ReturnKeeps DEF Handshake
<1>3. ASSUME NEW s \in Endpoint, Finding(s) = "Ok", conn' = [conn EXCEPT ![a] = s],
             Become(a, "verified"), UNCHANGED <<goal, met>>
      PROVE  SupervisorInvariant'
    <2>1. s \in Slots /\ Listening(s) /\ build[s] = "packaged"
        BY <1>3, SMTT(60) DEF Endpoint, Finding, ProcTypeOK, Builds
    <2>2. ActorTypeOK'
        BY <1>3, <2>1, SMTT(60) DEF ActorsKeep, ActorTypeOK, Become, Pcs
    <2>3. ConnectionIsLive'
        BY <1>3, <2>1, SMTT(60) DEF ActorsKeep, ActorTypeOK, Handshake, procVars, Become,
            ConnectionIsLive, Listening
    <2>4. MetIsLeaving'
        <3>1. MayMeet(met[a], "verified")
            BY DEF Handshake, ActorsKeep, MetIsLeaving, MayMeet
        <3>2. QED
            BY <1>3, <3>1, MetKeeps DEF ActorsKeep, ActorTypeOK, Handshake, Become
    <2>5. QED
        BY <1>0, <1>1, <2>2, <2>3, <2>4 DEF ActorsKeep
<1>4. QED
    BY <1>2, <1>3, SMTT(60) DEF Handshake

\* The request goes to the process the handshake was made with.
LEMMA DeliverKeeps ==
    ASSUME SupervisorInvariant, NEW a \in Actors, Deliver(a)
    PROVE  SupervisorInvariant'
<1> USE Parts, PartsNext
<1>0. FlagTypeOK'
    BY SMTT(60) DEF Deliver, FlagTypeOK, deskVars
<1>1. ProcTypeOK' /\ ShellTypeOK'
    BY SMTT(60) DEF Deliver, procVars, deskVars, ProcTypeOK, ShellTypeOK
<1>2. \A s \in Slots \cap {conn[a]} : build[s] = "packaged"
    BY SupervisorAssumption, SMTT(60) DEF Deliver, ActorsKeep, ConnectionIsLive
<1>3. PrivilegedReachesPackaged'
    BY <1>2, SMTT(60) DEF Deliver, PrivilegedReachesPackaged
<1>4. QED
    BY <1>0, <1>1, <1>3, ReturnKeeps, SMTT(60) DEF Deliver

-----------------------------------------------------------------------------
(* The launch counter and the goals of the commands                        *)

LEMMA StopOrder ==
    ASSUME SupervisorInvariant, AttemptsAreCounted, CommandsFit, NEW a \in Actors,
           SendShutdown(a) \/ AckArrives(a) \/ AckLost(a) \/ SeesGone(a)
    PROVE  AttemptsAreCounted' /\ CommandsFit'
<1> USE Parts, DesktopIsActor DEF AttemptsAreCounted, CommandsFit, ActorsKeep, ActorTypeOK,
        Become, Return, ReturnWith, deskVars
<1>1. CASE StopFailed(a) /\ pc[a] \in {"shutdown", "ack", "gone"}
    BY <1>1, SMTT(60) DEF StopFailed, Actors
<1>2. CASE StopSucceeded(a) /\ pc[a] = "gone"
    <2>1. CASE a = Desktop
        <3>1. CASE goal[a] = "undo"
            BY <1>2, <2>1, <3>1, SMTT(60) DEF StopSucceeded
        <3>2. CASE goal[a] # "undo"
            <4>1. Become(Desktop, "launch") /\ UNCHANGED <<attempt, goal>>
                BY <1>2, <2>1, <3>2, SMTT(60) DEF StopSucceeded
            <4>2. attempt = 0
                BY <1>2, <2>1, <3>2, SMTT(60)
            <4>3. QED
                BY <4>1, <4>2 DEF START_ATTEMPTS
        <3>3. QED
            BY <3>1, <3>2
    <2>2. CASE a \in Clis
        <3>1. goal[a] \in {"start", "stop", "restart"} /\ a # Desktop
            BY <1>2, <2>2
        <3>2. UNCHANGED deskVars /\ \A b \in Actors \ {a} : pc'[b] = pc[b] /\ goal'[b] = goal[b]
            BY <1>2, <2>2, <3>1, ZenonT(60) DEF StopSucceeded
        <3>3. pc'[a] \in {"mark", "probe", "shutdown", "ack", "gone"} => goal'[a] = "start"
            BY <1>2, <2>2, <3>1, ZenonT(60) DEF StopSucceeded
        <3>4. QED
            BY <3>1, <3>2, <3>3, SMTT(60)
    <2>3. QED
        BY <2>1, <2>2, SMTT(60) DEF Actors
<1>3. CASE /\ Become(a, "ack") \/ Become(a, "gone")
           /\ pc[a] \in {"shutdown", "ack"}
           /\ UNCHANGED <<deskVars, goal>>
    BY <1>3, SMTT(60)
<1>4. QED
    BY <1>1, <1>2, <1>3, SMTT(60) DEF SendShutdown, AckArrives, AckLost, SeesGone

LEMMA DesktopOrder ==
    ASSUME SupervisorInvariant, AttemptsAreCounted, CommandsFit,
           \/ \E g \in {"watch", "command"} : EnsureReady(g)
           \/ DesktopProbes \/ DesktopRechecks \/ DesktopLaunches \/ DesktopWaits
           \/ DesktopPostchecks \/ DesktopCloses \/ DesktopOpens
    PROVE  AttemptsAreCounted' /\ CommandsFit'
<1> USE Parts, DesktopIsActor DEF AttemptsAreCounted, CommandsFit, ActorsKeep, ActorTypeOK,
        Become, Return, ReturnWith, ReturnReady, START_ATTEMPTS
<1>1. CASE \E g \in {"watch", "command"} : EnsureReady(g)
    BY <1>1 DEF EnsureReady
<1>2. CASE DesktopProbes
    BY <1>2, ZenonT(60) DEF DesktopProbes
<1>3. CASE DesktopRechecks \/ DesktopLaunches
    BY <1>3 DEF DesktopRechecks, DesktopLaunches
<1>4. CASE DesktopWaits
    <2>1. attempt < START_ATTEMPTS \/ attempt >= START_ATTEMPTS
        BY DEF ShellTypeOK
    <2>2. \/ Become(Desktop, "postcheck") /\ UNCHANGED <<attempt, goal>>
          \/ ReturnWith("Failed")
          \/ Become(Desktop, "launch") /\ UNCHANGED <<attempt, goal>> /\ attempt < START_ATTEMPTS
        BY <1>4, <2>1, ZenonT(60) DEF DesktopWaits
    <2>3. QED
        BY <2>2
<1>5. CASE DesktopPostchecks
    BY <1>5 DEF DesktopPostchecks
<1>6. CASE DesktopCloses \/ DesktopOpens
    BY <1>6, SMTT(60) DEF DesktopCloses, DesktopOpens
<1>7. QED
    BY <1>1, <1>2, <1>3, <1>4, <1>5, <1>6, SMTT(60)

LEMMA CliOrder ==
    ASSUME SupervisorInvariant, AttemptsAreCounted, CommandsFit, NEW c \in Clis,
           \/ \E g \in CliGoals : CliBegins(c, g)
           \/ CliMarks(c) \/ CliProbes(c) \/ CliUnmarks(c) \/ CliClears(c)
           \/ CliLaunches(c) \/ CliWaits(c) \/ CliKilled(c)
    PROVE  AttemptsAreCounted' /\ CommandsFit'
<1> USE Parts, DesktopIsActor DEF AttemptsAreCounted, CommandsFit, ActorsKeep, ActorTypeOK,
        Become, Return, deskVars
<1>1. ASSUME NEW g \in CliGoals, CliBegins(c, g) PROVE AttemptsAreCounted' /\ CommandsFit'
    <2>1. g \in {"start", "stop", "restart"} \/ (g = "request" /\ FirstPc[g] = "request")
        BY FirstPcs, SMTT(60)
    <2>2. QED
        BY <1>1, <2>1, SMTT(60) DEF CliBegins
<1>2. CASE CliMarks(c)
    BY <1>2, SMTT(60) DEF CliMarks
<1>3. CASE CliProbes(c)
    <2>1. UNCHANGED deskVars
        BY <1>3, SMTT(60) DEF CliProbes
    <2>2. PICK r \in {"Ok", "Incompatible", "VersionMismatch", "Unavailable"} :
            IF goal[c] = "start" THEN StartProbed(c, r) ELSE StopProbed(c, r)
        BY <1>3, SMTT(60) DEF CliProbes
    <2>3. goal[c] \in {"start", "stop", "restart"} /\ pc[c] = "probe"
        BY <1>3 DEF CliProbes
    <2>4. CASE goal[c] = "start"
        BY <2>1, <2>2, <2>4, ZenonT(60) DEF StartProbed
    <2>5. CASE goal[c] \in {"stop", "restart"}
        BY <2>1, <2>2, <2>3, <2>5, ZenonT(60) DEF StopProbed
    <2>6. QED
        BY <2>3, <2>4, <2>5, ZenonT(60)
<1>4. CASE CliUnmarks(c) \/ CliClears(c) \/ CliLaunches(c) \/ CliWaits(c) \/ CliKilled(c)
    BY <1>4, SMTT(60) DEF CliUnmarks, CliClears, CliLaunches, CliWaits, CliKilled
<1>5. QED
    BY <1>1, <1>2, <1>3, <1>4, SMTT(60)

\* What leaves the clients' columns, the shell and the counter alone.
LEMMA QuietOrder ==
    ASSUME AttemptsAreCounted, CommandsFit, UNCHANGED <<pc, goal, attempt>>
    PROVE  AttemptsAreCounted' /\ CommandsFit'
BY SMTT(60) DEF AttemptsAreCounted, CommandsFit

\* A privileged request leaves the counter alone and ends or goes on.
LEMMA RequestOrder ==
    ASSUME SupervisorInvariant, AttemptsAreCounted, CommandsFit, NEW a \in Actors,
           Handshake(a) \/ Deliver(a)
    PROVE  AttemptsAreCounted' /\ CommandsFit'
BY Parts, DesktopIsActor, ZenonT(60) DEF Handshake, Deliver, AttemptsAreCounted, CommandsFit, ActorsKeep,
    ActorTypeOK, Become, Return, deskVars

-----------------------------------------------------------------------------
(* The lock                                                                *)

\* Only a process that finds the lock free becomes a holder.
LEMMA HolderKeeps ==
    ASSUME OneHolder, NEW s \in Slots,
           \A t \in Slots : Holds(t)' => Holds(t) \/ (t = s /\ LockFree)
    PROVE  OneHolder'
BY DEF OneHolder, LockFree

LEMMA HolderStep ==
    ASSUME SupervisorTypeOK, OneHolder, [Next]_vars
    PROVE  OneHolder'
<1> USE SupervisorAssumption DEF SupervisorTypeOK
<1>1. ASSUME NEW s \in Slots,
             TakeLock(s) \/ Bind(s) \/ ServerReturns(s) \/ Exit(s) \/ Crash(s) \/ AlienLeaves(s)
      PROVE  OneHolder'
    <2>1. /\ \A t \in Slots \ {s} : phase'[t] = phase[t] /\ build'[t] = build[t]
          /\ \/ phase'[s] = "none"
             \/ build'[s] = build[s] /\ phase'[s] = "opening" /\ LockFree
             \/ build'[s] = build[s] /\ phase[s] \in {"opening", "stopping"}
        BY <1>1, SMTT(60) DEF TakeLock, Bind, ServerReturns, Exit, Crash, AlienLeaves, Ends
    <2>2. \A t \in Slots : Holds(t)' => Holds(t) \/ (t = s /\ LockFree)
        BY <2>1, ZenonT(60) DEF Holds
    <2>3. QED
        BY <2>2, HolderKeeps
<1>2. CASE SomeFree /\ (AlienArrives \/ \E b \in Builds : Starts(FreeSlot, b))
    <2>1. /\ FreeSlot \in Slots
          /\ \A t \in Slots \ {FreeSlot} : phase'[t] = phase[t] /\ build'[t] = build[t]
          /\ phase'[FreeSlot] = "starting" \/ build'[FreeSlot] = "alien"
        BY <1>2, FreeIsFree DEF AlienArrives, Starts
    <2>2. \A t \in Slots : Holds(t)' => Holds(t) \/ (t = FreeSlot /\ LockFree)
        BY <2>1 DEF Holds
    <2>3. QED
        BY <2>1, <2>2, HolderKeeps, ZenonT(60)
<1>3. ASSUME NEW a \in Actors, SendShutdown(a) PROVE OneHolder'
    <2>1. build' = build /\ \A t \in Slots : phase'[t] = phase[t] \/ Listening(t)
        BY <1>3 DEF SendShutdown, StopFailed, Endpoint
    <2>2. \A t \in Slots : Holds(t)' => Holds(t)
        BY <2>1 DEF Holds, Listening
    <2>3. QED
        BY <2>2 DEF OneHolder
<1>4. CASE UNCHANGED procVars
    BY <1>4 DEF procVars, OneHolder, Holds
<1>5. \/ SomeFree /\ (AlienArrives \/ \E b \in Builds : Starts(FreeSlot, b))
      \/ \E s \in Slots : TakeLock(s) \/ Bind(s) \/ ServerReturns(s) \/ Exit(s) \/ Crash(s)
                                \/ AlienLeaves(s)
      \/ \E a \in Actors : SendShutdown(a)
      \/ UNCHANGED procVars
    <2>1. CASE ProcessStep \/ Disturbance
        BY <2>1, Zenon DEF ProcessStep, Disturbance, AlienArrives, StaleArrives, Builds
    <2>2. ASSUME NEW a \in Actors, StopVerified(a) \/ Handshake(a) \/ Deliver(a)
          PROVE  SendShutdown(a) \/ UNCHANGED procVars
        BY <2>2 DEF StopVerified, AckArrives, AckLost, SeesGone, Handshake, Deliver
    <2>3. CASE \/ \E g \in {"watch", "command"} : EnsureReady(g)
               \/ DesktopProbes \/ DesktopRechecks \/ DesktopWaits
               \/ DesktopPostchecks \/ DesktopCloses \/ DesktopOpens
        BY <2>3, ZenonT(60) DEF EnsureReady, DesktopProbes, DesktopRechecks, DesktopWaits,
            DesktopPostchecks, DesktopCloses, DesktopOpens
    <2>4. ASSUME NEW c \in Clis,
                 \/ \E g \in CliGoals : CliBegins(c, g)
                 \/ CliMarks(c) \/ CliProbes(c) \/ CliUnmarks(c) \/ CliClears(c)
                 \/ CliWaits(c) \/ CliKilled(c)
          PROVE  UNCHANGED procVars
        BY <2>4 DEF CliBegins, CliMarks, CliProbes, CliUnmarks, CliClears, CliWaits, CliKilled
    <2>5. CASE DesktopLaunches \/ \E c \in Clis : CliLaunches(c)
        BY <2>5, Zenon DEF DesktopLaunches, CliLaunches, Builds
    <2>6. CASE UNCHANGED vars
        BY <2>6 DEF vars, procVars
    <2>7. QED
        BY <2>1, <2>2, <2>3, <2>4, <2>5, <2>6, DesktopIsActor, ZenonT(60)
           DEF Next, DesktopStep, CliStep, Actors
<1>6. QED
    BY <1>1, <1>2, <1>3, <1>4, <1>5, Zenon

-----------------------------------------------------------------------------
LEMMA SupervisorStep == SupervisorInductive /\ [Next]_vars => SupervisorInductive'
<1> SUFFICES ASSUME SupervisorInvariant, AttemptsAreCounted, CommandsFit, [Next]_vars
             PROVE  SupervisorInvariant' /\ AttemptsAreCounted' /\ CommandsFit'
    BY HolderStep, Zenon DEF SupervisorInductive, SupervisorInvariant
<1>1. CASE ProcessStep \/ Disturbance
    <2>1. UNCHANGED <<pc, goal, attempt>>
        BY <1>1 DEF ProcessStep, Disturbance, TakeLock, Bind, ServerReturns, Exit, Crash,
            AlienArrives, StaleArrives, AlienLeaves, deskVars
    <2>2. SupervisorInvariant'
        BY <1>1, ProcessKeeps, ArrivalKeeps, SMTT(60) DEF ProcessStep, Disturbance
    <2>3. QED
        BY <2>1, <2>2, QuietOrder, SMTT(60)
<1>2. ASSUME NEW a \in Actors, StopVerified(a) \/ Handshake(a) \/ Deliver(a)
      PROVE  SupervisorInvariant' /\ AttemptsAreCounted' /\ CommandsFit'
    <2>1. SupervisorInvariant'
        BY <1>2, SendShutdownKeeps, AckKeeps, SeesGoneKeeps, HandshakeKeeps, DeliverKeeps
           DEF StopVerified
    <2>2. QED
        BY <1>2, <2>1, StopOrder, RequestOrder, SMTT(60) DEF StopVerified
<1>3. CASE \/ \E g \in {"watch", "command"} : EnsureReady(g)
           \/ DesktopProbes \/ DesktopRechecks \/ DesktopLaunches \/ DesktopWaits
           \/ DesktopPostchecks \/ DesktopCloses \/ DesktopOpens
    <2>1. SupervisorInvariant'
        BY <1>3, EnsureReadyKeeps, DesktopProbesKeeps, DesktopRechecksKeeps,
           DesktopLaunchesKeeps, DesktopWaitsKeeps, DesktopPostchecksKeeps, WindowKeeps, SMTT(60)
    <2>2. QED
        BY <1>3, <2>1, DesktopOrder
<1>4. ASSUME NEW c \in Clis,
             \/ \E g \in CliGoals : CliBegins(c, g)
             \/ CliMarks(c) \/ CliProbes(c) \/ CliUnmarks(c) \/ CliClears(c)
             \/ CliLaunches(c) \/ CliWaits(c) \/ CliKilled(c)
      PROVE  SupervisorInvariant' /\ AttemptsAreCounted' /\ CommandsFit'
    <2>1. SupervisorInvariant'
        BY <1>4, CliBeginsKeeps, CliMarksKeeps, CliProbesKeeps, CliUnmarksKeeps,
           CliClearsKeeps, CliLaunchesKeeps, SMTT(60)
    <2>2. QED
        BY <1>4, <2>1, CliOrder, SMTT(60)
<1>5. CASE UNCHANGED vars
    <2>1. SupervisorInvariant'
        BY <1>5, SMTT(60) DEF vars, SupervisorInvariant, SupervisorTypeOK, ConnectionIsLive,
            MetIsLeaving, MayMeet, PrivilegedReachesPackaged, Listening
    <2>2. QED
        BY <1>5, <2>1, QuietOrder, SMTT(60) DEF vars
<1>6. QED
    BY <1>1, <1>2, <1>3, <1>4, <1>5, DesktopIsActor DEF Next, DesktopStep, CliStep

LEMMA SupervisorStart == Init => SupervisorInductive
<1> SUFFICES ASSUME Init PROVE SupervisorInductive
    BY SMTT(60)
<1> USE SupervisorAssumption, DesktopIsActor DEF Init
<1>1. phase \in [Slots -> Phases] /\ build \in [Slots -> Builds]
    BY SMTT(60) DEF Phases, Builds
<1>2. SupervisorTypeOK
    BY <1>1, SMTT(60) DEF SupervisorTypeOK, Pcs, Goals, Views, START_ATTEMPTS
<1>3. ConnectionIsLive /\ AttemptsAreCounted /\ CommandsFit
    BY SMTT(60) DEF ConnectionIsLive, AttemptsAreCounted, CommandsFit
<1>0. OneHolder
    BY SMTT(60) DEF OneHolder, Holds
<1>4. MetIsLeaving /\ PrivilegedReachesPackaged
    <2>1. \A s, t \in Slots : Listening(s) /\ Listening(t) => s = t
        BY <1>1, SMTT(60) DEF Listening
    <2>2. \A a \in Actors : MayMeet(met[a], pc[a])
        BY NoneMet, SMTT(60)
    <2>3. QED
        BY <2>1, <2>2 DEF MetIsLeaving, PrivilegedReachesPackaged
<1>5. QED
    BY <1>0, <1>2, <1>3, <1>4 DEF SupervisorInductive, SupervisorInvariant

\* In every reachable state of the desktop, the command line and any number of
\* daemons, connections lead where they were made to, one process listens and
\* one holds gateway.lock, a stale daemon that a client met has its shutdown
\* request before that client goes on to launch, and launches are counted,
\* through failing connects, lost answers and stale or foreign arrivals.
THEOREM SupervisorHolds == Spec => []SupervisorInductive
BY SupervisorStart, SupervisorStep, PTL DEF Spec

\* send_request never has a privileged request executed by a daemon of another
\* version or by another product, for any number of clients and processes.
THEOREM PrivilegedHolds == Spec => []PrivilegedReachesPackaged
<1>1. SupervisorInductive => PrivilegedReachesPackaged
    BY SMTT(60) DEF SupervisorInductive, SupervisorInvariant
<1>2. QED
    BY <1>1, SupervisorHolds, PTL

\* stop_verified_daemon and Storage::open: whatever wait_for_stopped took for a
\* stopped daemon, a client launches only after the stale daemon that it met
\* has taken its shutdown request, and never do two daemons have the data
\* directory open.
THEOREM StaleRetiredHolds == Spec => []StaleIsRetiredFirst
<1>1. SupervisorInductive => StaleIsRetiredFirst
    <2> SUFFICES ASSUME SupervisorInductive PROVE StaleIsRetiredFirst
        OBVIOUS
    <2>1. \A a \in Actors : MayMeet(met[a], pc[a])
        BY DEF SupervisorInductive, SupervisorInvariant, MetIsLeaving
    <2>2. QED
        BY <2>1 DEF SupervisorInductive, MayMeet, StaleIsRetiredFirst
<1>2. QED
    BY <1>1, SupervisorHolds, PTL
=============================================================================
