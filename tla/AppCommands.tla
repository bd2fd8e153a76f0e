----------------------------- MODULE AppCommands -----------------------------
(***************************************************************************)
(* The wrappers that change an app of the device: PmInstall, PmUninstall,  *)
(* PmClear (cmd_pm.go), LaunchAppByMonkey, AmStart, AmForceStop            *)
(* (cmd_am.go).  The shell protocol brings no exit status, so each judges  *)
(* by what its command printed: some by a word that must be there, some by *)
(* one that must not.  Output that is cut with its connection passes for   *)
(* all of it, and the device goes on with a command nobody waits for.      *)
(*                                                                         *)
(* External: the app, and the commands that run on the device.  Output is  *)
(* a sequence of "good" (Success, Events injected), "bad" (Failure, Error: *)
(* or a message of force-stop) and "other" (anything else, a cut word      *)
(* among it).                                                              *)
(***************************************************************************)
EXTENDS Naturals, Sequences

CONSTANTS
  MaxCalls,   \* bound: how many calls are made, one after the other
  MaxNoise    \* bound: how many other words a command prints

ASSUME BoundsAssumption == MaxCalls \in Nat /\ MaxNoise \in Nat

Pm == {"install", "uninstall", "clear"}
Ops == Pm \cup {"launch", "start", "stop"}
Word == {"good", "bad", "other"}

VARIABLES
  app,        \* external: "absent", "stopped" or "running"
  op,         \* the call
  pc, out,    \* out: "refused" is the verdict on an answer, "error" one of the connection
  stage,      \* external: what the command of the call does: "none", "running", "over"
  printed,    \* external: what it has printed
  done,       \* external: it has had its effect
  lost,       \* its connection was lost
  orphans,    \* external: commands that run on after their call has returned
  calls

command == <<stage, printed, done>>
vars == <<app, op, pc, out, stage, printed, done, lost, orphans, calls>>

Init ==
  /\ app \in {"absent", "stopped", "running"}
  /\ op = "stop" /\ pc = "idle" /\ out = "none"
  /\ stage = "none" /\ printed = <<>> /\ done = FALSE
  /\ lost = FALSE /\ orphans = {} /\ calls = 0

Return(result) == pc' = "idle" /\ out' = result

\* the command of the call ends with its connection, or runs on
Abandon == orphans' \in {orphans, orphans \cup IF stage = "over" THEN {} ELSE {op}}

Call ==
  /\ pc = "idle" /\ calls < MaxCalls
  /\ op' \in Ops /\ pc' = "send" /\ out' = "none"
  /\ stage' = "none" /\ printed' = <<>> /\ done' = FALSE
  /\ lost' = FALSE /\ calls' = calls + 1
  /\ UNCHANGED <<app, orphans>>

\* RunShellCommand; one that fails on its status may have started the command
Send ==
  /\ pc = "send"
  /\ \/ pc' = "read" /\ stage' = "running" /\ UNCHANGED <<out, orphans>>
     \/ Return("error") /\ Abandon /\ UNCHANGED stage
  /\ UNCHANGED <<app, op, printed, done, lost, calls>>

\* the mutant: what is not a failure is a success, for all of them
Succeeds_NotBad(words) == \A i \in DOMAIN words : words[i] # "bad"

Succeeds(words) ==
  CASE op \in Pm -> words = <<"good">>
    [] op = "launch" -> \E i \in DOMAIN words : words[i] = "good"
    [] op = "start" -> \A i \in DOMAIN words : words[i] # "bad"
    [] op = "stop" -> words = <<>>

Judge(words) == Return(IF Succeeds(words) THEN "nil" ELSE "refused")

\* what is read of the output when its connection is lost
Cuts == {SubSeq(printed, 1, n) : n \in 0..Len(printed)} \cup
        {SubSeq(printed, 1, n - 1) \o <<"other">> : n \in 1..Len(printed)}

\* the output ends with the command or with the connection, or the deadline or
\* the context ends the call
Answer ==
  /\ pc = "read"
  /\ \/ stage = "over" /\ Judge(printed) /\ UNCHANGED <<lost, orphans>>
     \/ (\E words \in Cuts : Judge(words)) /\ lost' = TRUE /\ Abandon
     \/ Return("error") /\ Abandon /\ UNCHANGED lost
  /\ UNCHANGED <<app, op, command, calls>>

(***************************************************************************)
(* External: the device.                                                   *)
(***************************************************************************)
\* the states of the app a command may leave behind, if it takes effect
Effect(o) ==
  IF app = "absent"
  THEN CASE o = "install" -> {"stopped"} [] o = "stop" -> {"absent"} [] OTHER -> {}
  ELSE CASE o = "uninstall" -> {"absent"}
         [] o \in {"install", "clear", "stop"} -> {"stopped"}
         [] OTHER -> {"running"}

Noise ==
  /\ pc = "read" /\ stage = "running" /\ Len(printed) < MaxNoise
  /\ op # "stop"
  /\ printed' = Append(printed, "other")
  /\ UNCHANGED <<app, op, pc, out, stage, done, lost, orphans, calls>>

\* the command of the call takes effect, or fails and says so, though not always in
\* the words the caller looks for: am may end with an exception that has no "Error: "
Work ==
  /\ pc = "read" /\ stage = "running" /\ stage' = "over"
  /\ \/ /\ app' \in Effect(op) /\ done' = TRUE
        /\ printed' = IF op \in Pm \cup {"launch"} THEN Append(printed, "good") ELSE printed
     \/ /\ \E word \in {"bad", "other"} : printed' = Append(printed, word)
        /\ UNCHANGED <<app, done>>
  /\ UNCHANGED <<op, pc, out, lost, orphans, calls>>

\* so does one that nobody waits for
Orphan ==
  /\ \E o \in orphans : orphans' = orphans \ {o} /\ app' \in Effect(o) \cup {app}
  /\ UNCHANGED <<op, pc, out, command, lost, calls>>

\* the app ends of itself
Crash ==
  /\ app = "running" /\ app' = "stopped"
  /\ UNCHANGED <<op, pc, out, command, lost, orphans, calls>>

Next == Call \/ Send \/ Answer \/ Noise \/ Work \/ Orphan \/ Crash

Spec == Init /\ [][Next]_vars

-----------------------------------------------------------------------------
TypeOK ==
  /\ app \in {"absent", "stopped", "running"}
  /\ op \in Ops /\ orphans \subseteq Ops
  /\ pc \in {"idle", "send", "read"}
  /\ out \in {"none", "nil", "refused", "error"} /\ (pc # "idle" => out = "none")
  /\ stage \in {"none", "running", "over"}
  /\ printed \in Seq(Word)
  /\ done \in BOOLEAN /\ lost \in BOOLEAN
  /\ calls \in 0..MaxCalls

\* A call that reports success had its effect: those of pm and of monkey, which wait
\* for a word, wherever their output was cut (cmd_pm.go:71, 97, 155; cmd_am.go:100), and
\* AmForceStop, which waits for silence, while its connection lasts (cmd_am.go:141).
\* Nothing of the kind can be said of AmStart (cmd_am.go:126).
SuccessTrue == out = "nil" /\ (op \in Pm \cup {"launch"} \/ (op = "stop" /\ ~lost)) => done

\* A verdict against a command whose output came whole, with nothing in it but its
\* own words, is true: nothing was done.
RefusalTrue ==
  out = "refused" /\ ~lost /\ (\A i \in DOMAIN printed : printed[i] # "other") => ~done
=============================================================================
