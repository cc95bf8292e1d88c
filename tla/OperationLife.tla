--------------------------- MODULE OperationLife ---------------------------
(***************************************************************************)
(* What the gate promises of one operation id: a life it lives once.  The  *)
(* policy judges it, a judgement that asks for the user waits for one, an  *)
(* approved operation is called once, and only a call that was made can be *)
(* told a success.  There is no processor here, no queue, no connection,   *)
(* no restart: none of them gives an operation a second life.              *)
(***************************************************************************)
EXTENDS Naturals

CONSTANT Ops

VARIABLES stage,  \* of each operation
          calls   \* tools/call requests made for it

Init == /\ stage = [o \in Ops |-> "new"]
        /\ calls = [o \in Ops |-> 0]

\* Where an operation may go without a call.
After == [new |-> {"waiting", "approved", "refused"},
          waiting |-> {"approved", "refused", "failed"},
          refused |-> {"failed"},
          approved |-> {"failed"},
          called |-> {"success", "failed"},
          success |-> {}, failed |-> {}]

Pass(o) == /\ \E next \in After[stage[o]] : stage' = [stage EXCEPT ![o] = next]
           /\ UNCHANGED calls

Call(o) == /\ stage[o] = "approved"
           /\ stage' = [stage EXCEPT ![o] = "called"]
           /\ calls' = [calls EXCEPT ![o] = @ + 1]

Next == \E o \in Ops : Pass(o) \/ Call(o)

Spec == Init /\ [][Next]_<<stage, calls>>
=============================================================================
