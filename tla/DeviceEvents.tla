---------------------------- MODULE DeviceEvents ----------------------------
(***************************************************************************)
(* What a DeviceWatcher promises to the goroutine that ranges over C():    *)
(* a stream of state transitions that chain per device, with no transition *)
(* from a state to itself, and, once an error is stored, nothing but the   *)
(* close of the channel.  Devices start out disconnected.                  *)
(***************************************************************************)
CONSTANTS Serials, DeviceStates, Disconnected

VARIABLES
  view,    \* the state of every device according to the events received
  event,   \* the event received last, <<Serial, OldState, NewState>>
  err,     \* what Err() returns, "nil" until an error is stored
  open     \* FALSE once the channel is closed

vars == <<view, event, err, open>>

Init ==
  /\ view = [s \in Serials |-> Disconnected]
  /\ event = <<>>
  /\ err = "nil"
  /\ open = TRUE

\* One event: its OldState is what the consumer last heard of that device.
Report(s, new) ==
  /\ open /\ err = "nil"
  /\ new # view[s]
  /\ event' = <<s, view[s], new>>
  /\ view' = [view EXCEPT ![s] = new]
  /\ UNCHANGED <<err, open>>

\* The one error of a watcher is stored, while the channel is still open.
Fail ==
  /\ open /\ err = "nil" /\ err' # "nil"
  /\ UNCHANGED <<view, event, open>>

Close ==
  /\ open /\ err # "nil"
  /\ open' = FALSE
  /\ UNCHANGED <<view, event, err>>

Next ==
  \/ \E s \in Serials, new \in DeviceStates : Report(s, new)
  \/ Fail
  \/ Close

Spec == Init /\ [][Next]_vars
=============================================================================
