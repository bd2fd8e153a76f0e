---------------------------- MODULE SyncService ----------------------------
(***************************************************************************)
(* What the calls of a sync connection promise about the files of the      *)
(* device.  From the moment a push of a file has begun until it is         *)
(* reported without an error the file is exposed: the device may commit    *)
(* it whole or drop it, at any time, even after the call has failed.  It   *)
(* is reported only when the device has it whole, and no file that is not  *)
(* exposed changes.                                                        *)
(***************************************************************************)
EXTENDS Naturals

CONSTANTS File, Absent

VARIABLES
  store,     \* the files of the device
  size,      \* the length of each local file
  exposed,   \* files whose push has begun and has not been reported
  reported   \* files of the last call that were reported as pushed

vars == <<store, size, exposed, reported>>

Local(f) == [i \in 1..size[f] |-> <<"local", f, i>>]

Init == exposed = {} /\ reported = {}

\* A new call on a connection that owes nothing: a push of F, or of none.
Begin(F) ==
  /\ exposed = {} /\ exposed' = F
  /\ reported' = {}
  /\ UNCHANGED <<store, size>>

\* The next file of a push of a directory.
Expose(f) ==
  /\ exposed' = exposed \cup {f}
  /\ reported' = reported \ {f}
  /\ UNCHANGED <<store, size>>

Commit(f) ==
  /\ f \in exposed
  /\ store' = [store EXCEPT ![f] = Local(f)]
  /\ UNCHANGED <<size, exposed, reported>>

Drop(f) ==
  /\ f \in exposed
  /\ store' = [store EXCEPT ![f] = Absent]
  /\ UNCHANGED <<size, exposed, reported>>

Report(f) ==
  /\ f \in exposed /\ store[f] = Local(f)
  /\ exposed' = exposed \ {f}
  /\ reported' = reported \cup {f}
  /\ UNCHANGED <<store, size>>

Next ==
  \/ \E F \in {{}} \cup {{f} : f \in File} : Begin(F)
  \/ \E f \in File : Expose(f) \/ Commit(f) \/ Drop(f) \/ Report(f)

Spec == Init /\ [][Next]_vars
=============================================================================
