------------------------------- MODULE Reboot -------------------------------
(***************************************************************************)
(* Device.Reboot (cmd_linuxcmd.go): the reboot command, a loop that polls  *)
(* State until the device has gone, and one that polls State and           *)
(* BootCompleted until it is back.  State turns every failure of a query   *)
(* into StateInvalid (device.go), which the first loop takes for a device  *)
(* that has gone.                                                          *)
(*                                                                         *)
(* The device is external.  It shuts down some time after it accepted the  *)
(* command, and is until then as it was: online, with sys.boot_completed   *)
(* still set.  A query is a connection of its own, with a read deadline,   *)
(* and may fail (DeviceCall).                                              *)
(***************************************************************************)
EXTENDS Integers

CONSTANT MaxBoots   \* bound: how many times the device goes down

ASSUME BootsAssumption == MaxBoots \in Nat

VARIABLES
  wait,       \* waitToBootCompleted
  device,     \* external: "up", "leaving", "down", "starting" (online, not booted) or "booted"
  downs,      \* external: how many times it has gone down
  step, outcome,
  ctx, timer, \* the context of the caller, and the timeout of the loop: "live" or "done"
  misled,     \* the first loop was ended by a query that failed, or was disturbed
  seen,       \* downs, when BootCompleted said yes
  late        \* queries begun after the context of the caller had ended

external == <<device, downs>>
rebootVars == <<wait, external, step, outcome, ctx, timer, misled, seen, late>>

RebootInit ==
  /\ wait \in BOOLEAN
  /\ device = "up" /\ downs = 0
  /\ step = "command" /\ outcome = "none"
  /\ ctx \in {"live", "done"} /\ timer = "live"
  /\ misled = FALSE /\ seen = -1 /\ late = 0

Ends(result) == step' = "returned" /\ outcome' = result
Query == late' = IF ctx = "done" THEN late + 1 ELSE late

(***************************************************************************)
(* RunCommand("reboot").  A deadline that is exceeded is passed over,      *)
(* wherever it struck; io.EOF never gets here unwrapped, so that a         *)
(* connection that breaks makes Reboot fail.                               *)
(***************************************************************************)
Command ==
  /\ step = "command"
  /\ device' \in {device, "leaving"}
  /\ \/ step' = "gone?" /\ UNCHANGED outcome
     \/ Ends("error")
  /\ UNCHANGED <<wait, downs, ctx, timer, misled, seen, late>>

\* what State returns of a query that the server answers as it should
Known ==
  CASE device = "down" -> {"invalid", "offline"}
    [] device = "starting" -> {"offline", "unauthorized", "online"}
    [] OTHER -> {"online"}

\* StateInvalid comes with every error of a query, and StateOffline also of a device
\* whose cable or connection was disturbed for a moment
Disturbed == {"invalid", "offline"}

\* the mutant: one look at the device, whatever it shows
PollGone_Once ==
  /\ step = "gone?" /\ Query
  /\ \E state \in Known \cup Disturbed :
       /\ misled' = (state \notin Known) /\ timer' = "live"
       /\ IF wait THEN step' = "back?" /\ UNCHANGED outcome ELSE Ends("nil")
  /\ UNCHANGED <<wait, external, ctx, seen>>

\* one turn of the first loop; the second has a timeout of its own
PollGone ==
  /\ step = "gone?" /\ Query
  /\ \E state \in Known \cup Disturbed :
       IF state \in {"invalid", "offline"}
       THEN /\ misled' = (state \notin Known) /\ timer' = "live"
            /\ IF wait THEN step' = "back?" /\ UNCHANGED outcome ELSE Ends("nil")
       ELSE step' = "sleep1" /\ UNCHANGED <<outcome, timer, misled>>
  /\ UNCHANGED <<wait, external, ctx, seen>>

PollBack ==
  /\ step = "back?" /\ Query
  /\ \E state \in Known \cup Disturbed : step' = IF state = "online" THEN "booted?" ELSE "sleep2"
  /\ UNCHANGED <<wait, external, outcome, ctx, timer, misled, seen>>

\* sys.boot_completed, read with a command of its own: the device may have gone
\* since State; an output that was lost is not "1"
BootCompleted ==
  /\ step = "booted?" /\ Query
  /\ \/ device \in {"up", "leaving", "booted"} /\ Ends("nil") /\ seen' = downs
     \/ step' = "sleep2" /\ UNCHANGED <<outcome, seen>>
  /\ UNCHANGED <<wait, external, ctx, timer, misled>>

Expired == ctx = "done" \/ timer = "done"

\* the mutant: the timer of the loop is set again in every turn
Sleep_Rearmed ==
  /\ step \in {"sleep1", "sleep2"}
  /\ \/ ctx = "done" /\ Ends("error") /\ UNCHANGED timer
     \/ ctx # "done" /\ timer' = "live" /\ UNCHANGED outcome /\ step' = IF step = "sleep1" THEN "gone?" ELSE "back?"
  /\ UNCHANGED <<wait, external, ctx, misled, seen, late>>

\* the select of a loop: the two seconds begin anew with every turn, and do not
\* pass before a context that has ended is seen
Sleep ==
  /\ step \in {"sleep1", "sleep2"}
  /\ \/ Expired /\ Ends("error")
     \/ ~Expired /\ UNCHANGED outcome /\ step' = IF step = "sleep1" THEN "gone?" ELSE "back?"
  /\ UNCHANGED <<wait, external, ctx, timer, misled, seen, late>>

\* 30 or 90 seconds have passed
Timeout ==
  /\ step \notin {"command", "returned"} /\ timer = "live" /\ timer' = "done"
  /\ UNCHANGED <<wait, external, step, outcome, ctx, misled, seen, late>>

CtxEnds ==
  /\ step # "returned" /\ ctx = "live" /\ ctx' = "done"
  /\ UNCHANGED <<wait, external, step, outcome, timer, misled, seen, late>>

(***************************************************************************)
(* External: the device, which may also go down of itself once more.       *)
(***************************************************************************)
Device ==
  /\ \/ /\ device \in {"leaving", "starting", "booted"} /\ downs < MaxBoots
        /\ device' = "down" /\ downs' = downs + 1
     \/ device = "down" /\ device' = "starting" /\ UNCHANGED downs
     \/ device = "starting" /\ device' = "booted" /\ UNCHANGED downs
  /\ UNCHANGED <<wait, step, outcome, ctx, timer, misled, seen, late>>

Caller == Command \/ PollGone \/ PollBack \/ BootCompleted \/ Sleep

RebootNext == Caller \/ Timeout \/ CtxEnds \/ Device

(***************************************************************************)
(* Every query returns by its own deadline, and the timers fire; the       *)
(* device does as it likes.                                                *)
(***************************************************************************)
RebootSpec == RebootInit /\ [][RebootNext]_rebootVars /\ WF_rebootVars(Caller) /\ WF_rebootVars(Timeout)

-----------------------------------------------------------------------------
RebootTypeOK ==
  /\ wait \in BOOLEAN /\ misled \in BOOLEAN
  /\ device \in {"up", "leaving", "down", "starting", "booted"}
  /\ downs \in 0..MaxBoots /\ seen \in -1..MaxBoots /\ late \in Nat
  /\ step \in {"command", "gone?", "sleep1", "back?", "booted?", "sleep2", "returned"}
  /\ outcome \in {"none", "nil", "error"} /\ (outcome = "none" <=> step # "returned")
  /\ ctx \in {"live", "done"} /\ timer \in {"live", "done"}

\* A reboot that reports success has waited until the device went down and, if asked
\* to, has read the boot property of a boot that came after it: neither the state nor the
\* property of the boot before may pass for them.  The one exception is a first loop that
\* was ended by a query which failed or was disturbed (cmd_linuxcmd.go:361-386).
TrueBoot ==
  outcome = "nil" /\ ~misled =>
     /\ downs > 0
     /\ wait => seen > 0

\* A reboot whose context has ended asks at most three more questions (one of the
\* first loop, two of the second) before it returns (cmd_linuxcmd.go:366, 387).
LateQueries == late <= 3

\* A reboot returns, whatever the device does.
Returns == step = "command" ~> step = "returned"
=============================================================================
