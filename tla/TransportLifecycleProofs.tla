---------------------- MODULE TransportLifecycleProofs ----------------------
(***************************************************************************)
(* TransportInvariant is inductive: one case per action of the two loops,  *)
(* of the connections, of the signal and of the relay.  The safety         *)
(* properties of the runtime follow from it.                               *)
(***************************************************************************)
EXTENDS TransportLifecycle, TLAPS

(* A jittered wait stays within a fifth of the wait it jitters            *)
(* (reconnect.rs, jittered_delay).                                        *)
LEMMA JitterBounds ==
  ASSUME NEW ms \in Nat, NEW u \in Jitter
  PROVE  /\ JitteredDelay(ms, u) \in Nat
         /\ 10 * JitteredDelay(ms, u) >= 8 * ms - 9
         /\ ms > 0 => 10 * JitteredDelay(ms, u) < 12 * ms
<1> DEFINE x == ms * (8000 + 4 * u)
<1>1. u \in 0 .. 999
  BY TransportConstants
<1>2. x \in Nat /\ x >= 8000 * ms /\ (ms > 0 => x < 12000 * ms)
  <2>1. ms * u \in Nat /\ ms * u <= 999 * ms
    BY <1>1
  <2>2. x = 8000 * ms + 4 * (ms * u)
    BY <1>1
  <2> HIDE DEF x
  <2> QED
    BY <2>1, <2>2
<1> HIDE DEF x
<1>3. x \div 10000 \in Nat /\ 10000 * (x \div 10000) <= x
         /\ 10000 * (x \div 10000) > x - 10000
  BY <1>2
<1> QED
  BY <1>2, <1>3 DEF JitteredDelay, x

(* The waits before jitter (reconnect.rs, delay_for_attempt): from 250 ms *)
(* to 30 s, doubling with each of the first seven attempts.               *)
LEMMA DelayValues ==
  /\ DelayForAttempt(0) = 250 /\ DelayForAttempt(1) = 500
  /\ DelayForAttempt(2) = 1000 /\ DelayForAttempt(3) = 2000
  /\ DelayForAttempt(4) = 4000 /\ DelayForAttempt(5) = 8000
  /\ DelayForAttempt(6) = 16000
  /\ \A n \in Nat : n >= 7 => DelayForAttempt(n) = 30000
<1>1. ASSUME NEW n \in Nat, n >= 7
      PROVE  DelayForAttempt(n) = 30000
  <2> DEFINE a == 250 * PowersOfTwo[n + 1]
  <2>1. DelayForAttempt(n) = IF n < 7 THEN a ELSE 30000
    BY DEF DelayForAttempt
  <2> HIDE DEF a
  <2> QED
    BY <1>1, <2>1
<1> QED
  BY <1>1 DEF DelayForAttempt, PowersOfTwo

(* Every wait before jitter is a natural number of milliseconds between   *)
(* 250 and 30000.                                                         *)
LEMMA DelayType ==
  ASSUME NEW n \in Nat
  PROVE  DelayForAttempt(n) \in Nat /\ DelayForAttempt(n) >= 250
<1>1. n = 0 \/ n = 1 \/ n = 2 \/ n = 3 \/ n = 4 \/ n = 5 \/ n = 6 \/ n >= 7
  OBVIOUS
<1> QED
  BY <1>1, DelayValues

(* Every step of the runtime keeps the types.                             *)
LEMMA TypeStep ==
  ASSUME TransportTypeOK, TransportInvariant, [Next]_vars
  PROVE  TransportTypeOK'
<1> USE TransportConstants DEF TransportTypeOK, Loops, remote, server, signal
<1> DEFINE Ok(x) == x \in Phases
<1>0. /\ Ok("serve") /\ Ok("handle") /\ Ok("pause") /\ Ok("unpublish")
      /\ Ok("publish") /\ Ok("disconnect") /\ Ok("record") /\ Ok("decide")
      /\ Ok("delay") /\ Ok("sleep") /\ Ok("connect") /\ Ok("final")
      /\ Ok("done")
  BY DEF Phases, Open, Serving
<1>1. CASE RemoteStep
  <2>1. CASE Delay
    <3>1. delay' \in Nat
      <4>1. PICK u \in Jitter : delay' = JitteredDelay(DelayForAttempt(attempt), u)
        BY <2>1 DEF Delay
      <4>2. DelayForAttempt(attempt) \in Nat
        BY DelayType
      <4> QED
        BY <4>1, <4>2, JitterBounds
    <3>2. attempt' \in 0 .. MaxAttempt
      BY <2>1 DEF Delay
    <3> QED
      BY <2>1, <3>1, <3>2, <1>0 DEF Delay
  <2>2. CASE ConnectOk
    BY <2>2, <1>0 DEF ConnectOk, Drop
  <2>3. CASE ConnectFails
    BY <2>3, <1>0 DEF ConnectFails, Drop
  <2>4. CASE Publish
    BY <2>4, <1>0 DEF Publish
  <2>5. CASE Receive
    BY <2>5, <1>0 DEF Receive, Drop
  <2>6. CASE ReceiveFails
    BY <2>6, <1>0 DEF ReceiveFails, Drop
  <2>7. CASE Handled
    BY <2>7, <1>0 DEF Handled
  <2>8. CASE ServeCancelled
    BY <2>8, <1>0 DEF ServeCancelled, Drop
  <2>9. CASE Unpublish
    BY <2>9, <1>0, ZenonT(60) DEF Unpublish
  <2>10. CASE Disconnect
    BY <2>10, <1>0 DEF Disconnect
  <2>11. CASE RecordDisconnected
    BY <2>11, <1>0 DEF RecordDisconnected
  <2>12. CASE Decide
    BY <2>12, <1>0 DEF Decide, AfterReconnecting, TransportInvariant
  <2>13. CASE Sleep
    BY <2>13, <1>0 DEF Sleep, Drop
  <2>14. CASE LoopCancelled
    BY <2>14, <1>0 DEF LoopCancelled, Drop
  <2>15. CASE Final
    BY <2>15, <1>0, ZenonT(60) DEF Final
  <2> QED
    BY <1>1, <2>1, <2>2, <2>3, <2>4, <2>5, <2>6, <2>7, <2>8, <2>9, <2>10, <2>11, <2>12, <2>13, <2>14, <2>15
       DEF RemoteStep, Attempt
<1>2. CASE ServerStep
  <2>1. CASE ServerCancelled \/ ServerReturns \/ AcceptFails
    BY <2>1 DEF ServerCancelled, ServerReturns, AcceptFails, Drop
  <2>2. ASSUME NEW c \in Connections, Accept(c) \/ Join(c) \/ Drain(c)
        PROVE  TransportTypeOK'
    BY <2>2 DEF Accept, Join, Drain, Drop
  <2> QED
    BY <1>2, <2>1, <2>2 DEF ServerStep
<1>3. ASSUME NEW c \in Connections, ConnectionStep(c)
      PROVE  TransportTypeOK'
  <2>1. CASE ReadRequest(c) \/ Reply(c) \/ ConnectionEnds(c)
    BY <2>1 DEF ReadRequest, Reply, ConnectionEnds
  <2>2. CASE ShutdownCall(c)
    BY <2>2 DEF ShutdownCall, Request
  <2> QED
    BY <1>3, <2>1, <2>2 DEF ConnectionStep
<1>4. ASSUME NEW l \in Loops, Subscribe(l)
      PROVE  TransportTypeOK'
  BY <1>4 DEF Subscribe
<1>5. ASSUME NEW l \in Loops, Look(l)
      PROVE  TransportTypeOK'
  <2>1. waiter' \in [Loops -> {"fresh", "subscribed", "waiting", "fired"}]
    BY <1>5 DEF Look
  <2>2. seen' \in [Loops -> BOOLEAN]
    <3>1. CASE seen' = seen
      BY <3>1
    <3>2. CASE seen' = [seen EXCEPT ![l] = TRUE]
      BY <3>2
    <3> QED
      BY <1>5, <3>1, <3>2, Zenon DEF Look
  <2>3. UNCHANGED <<relay, remote, server, requested>>
    BY <1>5 DEF Look
  <2> QED
    BY <2>1, <2>2, <2>3
<1>6. CASE CtrlC
  BY <1>6 DEF CtrlC, Request
<1>7. CASE RelayChanges
  BY <1>7 DEF RelayChanges
<1>8. CASE UNCHANGED vars
  BY <1>8 DEF vars
<1> QED
  BY <1>1, <1>2, <1>3, <1>4, <1>5, <1>6, <1>7, <1>8, ZenonT(60) DEF Next

(* What a phase implies for the slot, the socket and the view.            *)
Phased ==
  /\ slot <=> phase \in Serving
  /\ socket # "none" <=> phase \in Open
  /\ phase = "decide" => view = "Disconnected"
  /\ ViewIsHonest

(* Each step of run_transport_lifecycle (lib.rs) keeps it: one case per   *)
(* step of the loop.                                                      *)
LEMMA PhasedStep ==
  ASSUME TransportTypeOK, Phased, [Next]_vars
  PROVE  Phased'
<1> USE DEF Phased, ViewIsHonest, Open, Serving
<1>1. CASE RemoteStep
  <2>1. CASE ConnectOk
    BY <2>1 DEF ConnectOk
  <2>2. CASE ConnectFails
    BY <2>2 DEF ConnectFails
  <2>3. CASE Publish
    BY <2>3 DEF Publish
  <2>4. CASE Receive
    BY <2>4 DEF Receive
  <2>5. CASE ReceiveFails
    BY <2>5 DEF ReceiveFails
  <2>6. CASE Handled
    BY <2>6 DEF Handled
  <2>7. CASE ServeCancelled
    BY <2>7 DEF ServeCancelled
  <2>8. CASE Unpublish
    BY <2>8 DEF Unpublish
  <2>9. CASE Disconnect
    BY <2>9 DEF Disconnect
  <2>10. CASE RecordDisconnected
    BY <2>10 DEF RecordDisconnected
  <2>11. CASE Decide
    BY <2>11 DEF Decide, AfterReconnecting
  <2>12. CASE Delay
    BY <2>12 DEF Delay
  <2>13. CASE Sleep
    BY <2>13 DEF Sleep
  <2>14. CASE LoopCancelled
    BY <2>14 DEF LoopCancelled
  <2>15. CASE Final
    BY <2>15 DEF Final
  <2> QED
    BY <1>1, <2>1, <2>2, <2>3, <2>4, <2>5, <2>6, <2>7, <2>8, <2>9, <2>10, <2>11, <2>12, <2>13, <2>14, <2>15
       DEF RemoteStep, Attempt
<1>2. CASE RelayChanges
  BY <1>2 DEF RelayChanges, TransportTypeOK
<1>3. CASE UNCHANGED remote
  BY <1>3 DEF remote
<1> QED
  BY <1>1, <1>2, <1>3
     DEF Next, ServerStep, ConnectionStep, ServerCancelled, ServerReturns,
         AcceptFails, Accept, Join, Drain, ReadRequest, Reply, ConnectionEnds,
         ShutdownCall, CtrlC, Subscribe, Look, vars

(* No step of a loop, a handler or the relay makes a loop miss the        *)
(* shutdown request (state.rs, ShutdownSignal).                           *)
LEMMA SignalStep ==
  ASSUME TransportTypeOK, NoLostWakeup, [Next]_vars
  PROVE  NoLostWakeup'
<1> USE DEF NoLostWakeup, TransportTypeOK
<1>1. ASSUME NEW l \in Loops, Drop(l)
      PROVE  NoLostWakeup'
  BY <1>1 DEF Drop
<1>2. CASE Request
  BY <1>2 DEF Request
<1>3. ASSUME NEW l \in Loops, Subscribe(l)
      PROVE  NoLostWakeup'
  BY <1>3 DEF Subscribe
<1>4. ASSUME NEW l \in Loops, Look(l)
      PROVE  NoLostWakeup'
  <2> SUFFICES ASSUME NEW m \in Loops
               PROVE  /\ waiter'[m] = "waiting" /\ seen'[m] => ~requested'
                      /\ waiter'[m] = "fired" => requested'
    OBVIOUS
  <2>1. CASE m = l
    BY <1>4, <2>1 DEF Look
  <2>2. CASE m # l
    BY <1>4, <2>2 DEF Look
  <2> QED
    BY <2>1, <2>2
<1>5. CASE UNCHANGED signal
  BY <1>5 DEF signal
<1> HIDE DEF NoLostWakeup, TransportTypeOK
<1>6. "remote" \in Loops /\ "ipc" \in Loops
  BY DEF Loops
<1>7. CASE RemoteStep
  BY <1>7, <1>1, <1>5, <1>6
     DEF RemoteStep, Attempt, ConnectOk, ConnectFails, Publish, Receive, ReceiveFails, Handled, ServeCancelled, Unpublish, Disconnect, RecordDisconnected, Decide, Delay, Sleep, LoopCancelled, Final
<1>8. CASE ServerStep
  BY <1>8, <1>1, <1>5, <1>6
     DEF ServerStep, ServerCancelled, ServerReturns, AcceptFails, Accept,
         Join, Drain
<1>9. ASSUME NEW c \in Connections, ConnectionStep(c)
      PROVE  NoLostWakeup'
  BY <1>9, <1>2, <1>5
     DEF ConnectionStep, ReadRequest, Reply, ConnectionEnds, ShutdownCall
<1>10. CASE CtrlC
  BY <1>10, <1>2 DEF CtrlC
<1>11. CASE RelayChanges \/ UNCHANGED vars
  BY <1>11, <1>5, SMTT(60) DEF RelayChanges, vars
<1> QED
  BY <1>3, <1>4, <1>7, <1>8, <1>9, <1>10, <1>11 DEF Next

(* The attempt counter and the last wait stay in step: the wait before    *)
(* attempt n is a jittered delay_for_attempt(n - 1).                      *)
Waited ==
  attempt \in 1 .. 6 =>
    \E u \in Jitter : delay = JitteredDelay(DelayForAttempt(attempt - 1), u)

(* Only the back-off and a successful connect (lib.rs) change the two.    *)
LEMMA WaitedStep ==
  ASSUME TransportTypeOK, Waited, [Next]_vars
  PROVE  Waited'
<1> USE DEF Waited
<1>1. CASE Delay
  <2>1. PICK u \in Jitter : delay' = JitteredDelay(DelayForAttempt(attempt), u)
    BY <1>1 DEF Delay
  <2>2. attempt' \in 1 .. 6 => attempt' - 1 = attempt
    BY <1>1, TransportConstants DEF Delay, TransportTypeOK
  <2> QED
    BY <2>1, <2>2
<1>2. CASE ConnectOk
  BY <1>2 DEF ConnectOk
<1>3. CASE UNCHANGED <<attempt, delay>>
  BY <1>3
<1> QED
  BY <1>1, <1>2, <1>3
     DEF Next, RemoteStep, Attempt, ConnectFails, Publish, Receive,
         ReceiveFails, Handled, ServeCancelled, Unpublish, Disconnect,
         RecordDisconnected, Decide, Sleep, LoopCancelled, Final,
         ServerStep, ConnectionStep, ServerCancelled, ServerReturns,
         AcceptFails, Accept, Join, Drain, ReadRequest, Reply, ConnectionEnds,
         ShutdownCall, CtrlC, Subscribe, Look, RelayChanges, vars, remote

(* Once the server has returned no connection is opened (ipc_server.rs).  *)
LEMMA HandlersStep ==
  ASSUME TransportTypeOK, HandlersAreGone, [Next]_vars
  PROVE  HandlersAreGone'
<1> USE DEF HandlersAreGone, TransportTypeOK
<1>1. CASE UNCHANGED server
  BY <1>1 DEF server
<1>2. CASE ServerStep
  BY <1>2 DEF ServerStep, ServerCancelled, ServerReturns, AcceptFails,
              Accept, Join, Drain
<1>3. ASSUME NEW c \in Connections, ConnectionStep(c)
      PROVE  HandlersAreGone'
  BY <1>3 DEF ConnectionStep, ReadRequest, Reply, ConnectionEnds, ShutdownCall
<1> HIDE DEF HandlersAreGone, TransportTypeOK
<1> QED
  BY <1>1, <1>2, <1>3
     DEF Next, RemoteStep, Attempt, ConnectOk, ConnectFails, Publish, Receive,
         ReceiveFails, Handled, ServeCancelled, Unpublish, Disconnect,
         RecordDisconnected, Decide, Delay, Sleep, LoopCancelled, Final,
         CtrlC, Subscribe, Look, RelayChanges, vars

(* The types and the inductive invariant hold throughout: lib.rs'         *)
(* lifecycle, the IPC server and the shutdown signal together.            *)
THEOREM InvariantHolds == Spec => [](TransportTypeOK /\ TransportInvariant)
<1>0. TransportInvariant <=> Phased /\ Waited /\ NoLostWakeup /\ HandlersAreGone
  BY DEF TransportInvariant, Phased, Waited
<1>1. Init => TransportTypeOK /\ TransportInvariant
  <2> SUFFICES ASSUME Init
               PROVE  TransportTypeOK /\ TransportInvariant
    OBVIOUS
  <2>1. TransportTypeOK
    <3>1. phase \in Phases /\ attempt \in 0 .. MaxAttempt
      BY TransportConstants DEF Init, Phases, Open, Serving
    <3>2. /\ conn \in [Connections -> {"none", "reading", "handling", "ended"}]
          /\ seen \in [Loops -> BOOLEAN]
          /\ waiter \in [Loops -> {"fresh", "subscribed", "waiting", "fired"}]
      BY DEF Init
    <3> QED
      BY <3>1, <3>2, ZenonT(60) DEF Init, TransportTypeOK
  <2>2. Phased /\ Waited /\ HandlersAreGone
    BY DEF Init, Phased, Waited, HandlersAreGone, ViewIsHonest, Open, Serving
  <2>3. NoLostWakeup
    BY DEF Init, NoLostWakeup
  <2> QED
    BY <1>0, <2>1, <2>2, <2>3
<1>2. TransportTypeOK /\ TransportInvariant /\ [Next]_vars
        => (TransportTypeOK /\ TransportInvariant)'
  BY <1>0, TypeStep, PhasedStep, WaitedStep, SignalStep, HandlersStep
     DEF TransportInvariant, Phased, Waited
<1> QED
  BY <1>1, <1>2, PTL DEF Spec

(* The same under the name the model checker knows it by.                 *)
THEOREM TransportHolds == Spec => []TransportInductive
BY InvariantHolds, PTL DEF TransportInductive

(* The variables keep their types, and the loop never reports Connecting. *)
THEOREM TypeCorrect == Spec => []TransportTypeOK
BY InvariantHolds, PTL

(* No loop ever sleeps through a shutdown request (state.rs, cancelled).  *)
THEOREM SignalHolds == Spec => []NoLostWakeup
<1>1. TransportInvariant => NoLostWakeup
  BY DEF TransportInvariant
<1> QED
  BY <1>1, InvariantHolds, PTL

(* A published transport is connected and reported so (lib.rs, the slot   *)
(* is cleared before the disconnect).                                     *)
THEOREM SlotHolds == Spec => []SlotIsServed
<1>1. TransportInvariant => SlotIsServed
  BY DEF TransportInvariant, SlotIsServed, ViewIsHonest, Open
<1> QED
  BY <1>1, InvariantHolds, PTL

(* The reported state follows the connection (lib.rs, the calls of        *)
(* record_transport_event).                                               *)
THEOREM ViewHolds == Spec => []ViewIsHonest
<1>1. TransportInvariant => ViewIsHonest
  BY DEF TransportInvariant
<1> QED
  BY <1>1, InvariantHolds, PTL

(* The IPC server leaves no handler behind (ipc_server.rs, abort_all and  *)
(* the join loop).                                                        *)
THEOREM HandlersHold == Spec => []HandlersAreGone
<1>1. TransportInvariant => HandlersAreGone
  BY DEF TransportInvariant
<1> QED
  BY <1>1, InvariantHolds, PTL

(* Back-off never busy-loops and never shortens, for every jitter the     *)
(* hash can give (lib.rs and reconnect.rs).                               *)
THEOREM BackoffHolds == Spec => WaitsGrow
<1>1. TransportTypeOK /\ TransportInvariant /\ [Next]_vars => [GrowingWait]_vars
  <2> SUFFICES ASSUME TransportTypeOK, Waited, [Next]_vars,
                      phase = "delay", phase' = "sleep"
               PROVE  /\ delay' >= 200 /\ delay' < 36000
                      /\ attempt > 0 => delay' > delay \/ delay' >= 24000
    BY DEF GrowingWait, TransportInvariant, Waited
  <2>1. Delay
    BY DEF Next, RemoteStep, Attempt, ConnectOk, ConnectFails, Publish, Receive,
           ReceiveFails, Handled, ServeCancelled, Unpublish, Disconnect,
           RecordDisconnected, Decide, Sleep, LoopCancelled, Final,
           ServerStep, ConnectionStep, ServerCancelled, ServerReturns,
           AcceptFails, Accept, Join, Drain, ReadRequest, Reply,
           ConnectionEnds, ShutdownCall, CtrlC, Subscribe, Look, RelayChanges,
           vars, remote
  <2>2. attempt \in Nat
    BY TransportConstants DEF TransportTypeOK
  <2>3. PICK ms \in Nat : ms = DelayForAttempt(attempt) /\ ms >= 250
    BY <2>2, DelayType
  <2>4. PICK new \in Nat : /\ new = delay'
                          /\ 10 * new >= 8 * ms - 9 /\ 10 * new < 12 * ms
    <3>1. PICK u \in Jitter : delay' = JitteredDelay(ms, u)
      BY <2>1, <2>3 DEF Delay
    <3>2. ms > 0
      BY <2>3
    <3> QED
      BY <3>1, <3>2, JitterBounds
  <2>9. 10 * new >= 8 * ms - 9 /\ 10 * new < 12 * ms
    BY <2>4, ZenonT(60)
  <2>5. CASE attempt >= 7
    <3>1. ms >= 30000 /\ ms <= 30000
      BY <2>2, <2>3, <2>5, DelayValues
    <3>2. new >= 24000 /\ new >= 200 /\ new < 36000
      <4>1. 10 * new >= 239991 /\ 10 * new < 360000
        BY <2>9, <3>1
      <4> QED
        BY <4>1
    <3> QED
      BY <2>4, <3>2
  <2>6. CASE attempt = 0
    <3>1. ms >= 250 /\ ms <= 250
      BY <2>3, <2>6, DelayValues
    <3>2. new >= 200 /\ new < 36000
      <4>1. 10 * new >= 1991 /\ 10 * new < 3000
        BY <2>9, <3>1
      <4> QED
        BY <4>1
    <3> QED
      BY <2>4, <2>6, <3>2
  <2>7. CASE attempt \in 1 .. 6
    <3>1. PICK last \in Nat : /\ last = DelayForAttempt(attempt - 1)
                             /\ last >= 250 /\ ms = 2 * last /\ ms <= 16000
      <4>1. attempt = 1 \/ attempt = 2 \/ attempt = 3 \/ attempt = 4
              \/ attempt = 5 \/ attempt = 6
        BY <2>7
      <4> QED
        BY <4>1, <2>3, DelayValues
    <3>2. PICK old \in Nat : old = delay /\ 10 * old < 12 * last
      <4>1. PICK v \in Jitter : delay = JitteredDelay(last, v)
        BY <2>7, <3>1 DEF Waited
      <4>2. last > 0
        BY <3>1
      <4> QED
        BY <4>1, <4>2, JitterBounds
    <3>3. new > old /\ new >= 200 /\ new < 36000
      BY <2>4, <3>1, <3>2
    <3> QED
      BY <2>4, <3>2, <3>3
  <2> QED
    BY <2>2, <2>5, <2>6, <2>7
<1> QED
  BY <1>1, InvariantHolds, PTL DEF Spec, WaitsGrow
=============================================================================
