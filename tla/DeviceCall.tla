----------------------------- MODULE DeviceCall -----------------------------
(***************************************************************************)
(* One call of Adb or Device that goes to the adb server (server.go,       *)
(* device.go, shell.go): the connection is dialled, switched to the device *)
(* if need be, used for one request, and closed or handed to the caller.   *)
(*                                                                         *)
(* roundTrip   a host request of Adb, roundTripSingleResponseTimeout       *)
(* kill        KillServer, which reads no answer                           *)
(* killAll     RemoveAllForward                                            *)
(* trip        Remount and DoRemoveForward, on a connection to the device  *)
(* doForward   DoForward                                                   *)
(* open        Forward and RunShellCommand, whose connection is handed out *)
(* sync        NewSyncConn                                                 *)
(* openSync    OpenDirReader, OpenFileReader, OpenFileWriter               *)
(* stat        Stat of a path                                              *)
(* run         RunCommandTimeout                                           *)
(* runCtx      RunCommandCtx, with its goroutine                           *)
(*                                                                         *)
(* The server is external: it accepts, refuses, breaks off, or is silent.  *)
(* No read of it has to end unless a deadline is set.                      *)
(***************************************************************************)
EXTENDS Integers

CONSTANTS MaxOutput    \* bound: pieces of output of a command

ASSUME MaxOutputAssumption == MaxOutput \in Nat

VARIABLES op, timed,   \* the call; RunCommandTimeout has a positive timeout
          synced,      \* NewSyncConn has handed its connection to the call
          pc, conn, deadline,
          result,
          sent, ended, \* external: output the device has sent; the command is over
          lost,        \* the connection broke off
          got,         \* pieces of output read by run, or given to the writer of runCtx, whose
                       \* errors nobody looks at
          gpc, chan,   \* the goroutine of RunCommandCtx; the values in its channel, of capacity 2
          ctx, late    \* the context; pieces written after RunCommandCtx returned

call == <<op, timed, synced>>
peer == <<sent, ended, lost>>
routine == <<gpc, chan, got, late>>
vars == <<call, pc, conn, deadline, result, peer, routine, ctx>>

Ops == {"roundTrip", "kill", "killAll", "trip", "doForward", "open", "sync", "openSync",
        "stat", "run", "runCtx"}
HostOps == {"roundTrip", "kill", "killAll"}
SyncOps == {"sync", "openSync", "stat"}
Handing == {"open", "sync", "openSync"}

Init ==
  /\ op \in Ops /\ timed \in BOOLEAN /\ synced = FALSE
  /\ pc = "dial" /\ conn = "none" /\ deadline = FALSE
  /\ result = "none"
  /\ sent = 0 /\ ended = FALSE /\ lost = FALSE
  /\ got = 0 /\ gpc = "none" /\ chan = 0
  /\ ctx = "live" /\ late = 0

Go(where) == pc' = where /\ UNCHANGED <<conn, result>>

\* the deferred or explicit Close runs on the way out
ReturnClosing(err) == pc' = "done" /\ conn' = "closed" /\ result' = err
ReturnKeeping(err) == pc' = "done" /\ UNCHANGED conn /\ result' = err

(***************************************************************************)
(* Dial, and the request that switches the connection to the device.       *)
(***************************************************************************)
Dialled ==
  /\ conn' = "open" /\ UNCHANGED result
  /\ pc' = IF op \in HostOps THEN "request" ELSE "transport"
  /\ deadline' = (op = "roundTrip")

\* a server that is not there is started, if the configuration says so, and dialled again
Dial ==
  /\ pc \in {"dial", "redial"}
  /\ \/ Dialled
     \/ ReturnKeeping("error") /\ UNCHANGED deadline
     \/ pc = "dial" /\ Go("start") /\ UNCHANGED deadline
  /\ UNCHANGED <<call, peer, routine, ctx>>

\* adb start-server, which is waited for without a limit
Start ==
  /\ pc = "start"
  /\ Go("redial") \/ ReturnKeeping("error")
  /\ UNCHANGED <<call, deadline, peer, routine, ctx>>

SendTransport ==
  /\ pc = "transport"
  /\ \/ Go("transportStatus") /\ deadline' = TRUE
     \/ ReturnClosing("error") /\ UNCHANGED deadline
  /\ UNCHANGED <<call, peer, routine, ctx>>

TransportStatus ==
  /\ pc = "transportStatus"
  /\ \/ Go("request") /\ deadline' = FALSE
     \/ ReturnClosing("error") /\ UNCHANGED deadline
  /\ UNCHANGED <<call, peer, routine, ctx>>

(***************************************************************************)
(* The request.  NewSyncConn does not close the connection when it fails,  *)
(* and its callers have none to close then.                                *)
(***************************************************************************)
Fails(err) == IF op \in SyncOps THEN ReturnKeeping(err) ELSE ReturnClosing(err)

\* the mutant: no deadline is set before the status is read
SendRequest_Unguarded ==
  /\ pc = "request"
  /\ (op = "kill" /\ ReturnClosing("nil")) \/ (op # "kill" /\ Go("status")) \/ Fails("error")
  /\ UNCHANGED <<call, deadline, peer, routine, ctx>>

SendRequest ==
  /\ pc = "request"
  /\ \/ op # "kill" /\ Go("status") /\ deadline' = IF op = "trip" THEN deadline ELSE TRUE
     \/ op = "kill" /\ ReturnClosing("nil") /\ UNCHANGED deadline
     \/ Fails("error") /\ UNCHANGED deadline
  /\ UNCHANGED <<call, peer, routine, ctx>>

\* the mutant: the deadline is not cleared
AfterStatus_Keeps ==
  \/ op \in {"roundTrip", "trip"} /\ Go("message") /\ UNCHANGED <<deadline, gpc>>
  \/ op \in {"doForward", "killAll"} /\ ReturnClosing("nil") /\ UNCHANGED <<deadline, gpc>>
  \/ op \in {"open", "sync"} /\ ReturnKeeping("nil") /\ UNCHANGED <<deadline, gpc>>
  \/ op \in {"openSync", "stat"} /\ Go("exchange") /\ UNCHANGED <<deadline, gpc>>
  \/ op = "run" /\ Go("output") /\ UNCHANGED <<deadline, gpc>>
  \/ op = "runCtx" /\ Go("select") /\ gpc' = "read" /\ UNCHANGED deadline

AfterStatus ==
  \/ op \in {"roundTrip", "trip"} /\ Go("message") /\ UNCHANGED <<deadline, gpc>>
  \/ op \in {"doForward", "killAll"} /\ ReturnClosing("nil") /\ deadline' = FALSE /\ UNCHANGED gpc
  \/ op \in {"open", "sync"} /\ ReturnKeeping("nil") /\ deadline' = FALSE /\ UNCHANGED gpc
  \/ op \in {"openSync", "stat"} /\ Go("exchange") /\ deadline' = FALSE /\ UNCHANGED gpc
  \/ op = "run" /\ Go("output") /\ deadline' = timed /\ UNCHANGED gpc
  \/ op = "run" /\ timed /\ ReturnClosing("error") /\ deadline' = FALSE /\ UNCHANGED gpc
  \/ op = "runCtx" /\ Go("select") /\ deadline' = FALSE /\ gpc' = "read"

Status ==
  /\ pc = "status"
  /\ \/ op \in SyncOps /\ AfterStatus /\ synced' = TRUE
     \/ op \notin SyncOps /\ AfterStatus /\ UNCHANGED synced
     \/ Fails("error") /\ UNCHANGED <<synced, deadline, gpc>>
  /\ UNCHANGED <<op, timed, peer, chan, got, ctx, late>>

\* the answer to a host request, which may not parse
HostAnswer ==
  /\ pc = "message" /\ op = "roundTrip"
  /\ \/ ReturnClosing("nil") /\ deadline' = FALSE
     \/ ReturnClosing("error") /\ deadline' \in {deadline, FALSE}
  /\ UNCHANGED <<call, peer, routine, ctx>>

TripAnswer ==
  /\ pc = "message" /\ op = "trip"
  /\ ReturnClosing("nil") \/ ReturnClosing("error")
  /\ UNCHANGED <<call, deadline, peer, routine, ctx>>

\* the first request on a connection in sync mode; for the reader or the writer
\* that is returned it is only sent.  The mutant: no Close when it cannot be
SyncRequest_Leaks ==
  /\ pc = "exchange" /\ op = "openSync"
  /\ ReturnKeeping("nil") \/ ReturnKeeping("error")
  /\ UNCHANGED <<call, deadline, peer, routine, ctx>>

SyncRequest ==
  /\ pc = "exchange" /\ op = "openSync"
  /\ ReturnKeeping("nil") \/ ReturnClosing("error")
  /\ UNCHANGED <<call, deadline, peer, routine, ctx>>

StatAnswer ==
  /\ pc = "exchange" /\ op = "stat"
  /\ ReturnClosing("nil") \/ ReturnClosing("error")
  /\ UNCHANGED <<call, deadline, peer, routine, ctx>>

\* a read with a deadline fails when it has passed
Expires ==
  /\ deadline /\ pc \in {"transportStatus", "status", "message", "output"}
  /\ IF pc = "status" THEN Fails("timeout") ELSE ReturnClosing("timeout")
  /\ UNCHANGED <<call, deadline, peer, routine, ctx>>

(***************************************************************************)
(* External: the output of the command, and its end.                       *)
(***************************************************************************)
Running == conn = "open" /\ op \in {"run", "runCtx"} /\ pc \in {"output", "select"} /\ ~ended /\ ~lost

DeviceWrites ==
  /\ Running /\ sent < MaxOutput /\ sent' = sent + 1
  /\ UNCHANGED <<call, pc, conn, deadline, result, ended, lost, routine, ctx>>

DeviceEnds ==
  /\ Running /\ ended' = TRUE
  /\ UNCHANGED <<call, pc, conn, deadline, result, sent, lost, routine, ctx>>

Lose ==
  /\ Running /\ lost' = TRUE
  /\ sent' \in (IF gpc = "write" THEN got + 1 ELSE got)..sent
  /\ UNCHANGED <<call, pc, conn, deadline, result, ended, routine, ctx>>

AtEnd == got = sent /\ (ended \/ lost)

(***************************************************************************)
(* RunCommandTimeout reads to the end of the stream, which is also what a  *)
(* lost connection looks like, unless it is reset.                         *)
(***************************************************************************)
ReadOutput ==
  /\ pc = "output" /\ got < sent /\ got' = got + 1
  /\ UNCHANGED <<call, pc, conn, deadline, result, peer, gpc, chan, ctx, late>>

\* the mutant: one Read in place of io.ReadAll
OutputEnds_OneRead ==
  /\ pc = "output" /\ (AtEnd \/ got > 0)
  /\ ReturnClosing("nil")
  /\ UNCHANGED <<call, deadline, peer, routine, ctx>>

OutputEnds ==
  /\ pc = "output" /\ AtEnd
  /\ ReturnClosing("nil") \/ (lost /\ ReturnClosing("error"))
  /\ UNCHANGED <<call, deadline, peer, routine, ctx>>

(***************************************************************************)
(* RunCommandCtx: the goroutine reads and writes until a Read fails, which *)
(* the deferred Close of the call makes it do.                             *)
(***************************************************************************)
RoutineRead ==
  /\ gpc = "read"
  /\ \/ conn = "open" /\ got < sent /\ gpc' = "write"
     \/ (conn # "open" \/ AtEnd) /\ gpc' = "send"
  /\ UNCHANGED <<call, pc, conn, deadline, result, peer, chan, got, ctx, late>>

RoutineWrite ==
  /\ gpc = "write" /\ gpc' = "read" /\ got' = got + 1
  /\ late' = IF pc = "done" THEN late + 1 ELSE late
  /\ UNCHANGED <<call, pc, conn, deadline, result, peer, chan, ctx>>

\* the mutant: an unbuffered channel
RoutineSend_Unbuffered ==
  /\ gpc = "send" /\ pc = "select" /\ chan' = chan + 1 /\ gpc' = "done"
  /\ UNCHANGED <<call, pc, conn, deadline, result, peer, got, ctx, late>>

RoutineSend ==
  /\ gpc = "send" /\ chan < 2 /\ chan' = chan + 1 /\ gpc' = "done"
  /\ UNCHANGED <<call, pc, conn, deadline, result, peer, got, ctx, late>>

\* the mutant: the connection is left to the goroutine
CtxDone_Keeps ==
  /\ pc = "select" /\ ctx = "done"
  /\ ReturnKeeping("ctx")
  /\ UNCHANGED <<call, deadline, peer, routine, ctx>>

CtxDone ==
  /\ pc = "select" /\ ctx = "done"
  /\ ReturnClosing("ctx")
  /\ UNCHANGED <<call, deadline, peer, routine, ctx>>

ChanReady ==
  /\ pc = "select" /\ chan > 0 /\ chan' = chan - 1
  /\ ReturnClosing("nil")
  /\ UNCHANGED <<call, deadline, peer, gpc, got, ctx, late>>

CancelCtx ==
  /\ op = "runCtx" /\ ctx = "live" /\ ctx' = "done"
  /\ UNCHANGED <<call, pc, conn, deadline, result, peer, routine>>

Caller == Dial \/ SendTransport \/ SendRequest \/ SyncRequest \/ OutputEnds \/ ReadOutput \/ CtxDone \/ ChanReady
Server == Start \/ TransportStatus \/ Status \/ HostAnswer \/ TripAnswer \/ StatAnswer
External == DeviceWrites \/ DeviceEnds \/ Lose \/ CancelCtx
Routine == RoutineRead \/ RoutineWrite \/ RoutineSend

Next == Caller \/ Server \/ Expires \/ External \/ Routine

(***************************************************************************)
(* The program runs and its deadlines expire; the server owes nothing.     *)
(***************************************************************************)
Spec == Init /\ [][Next]_vars /\ WF_vars(Caller) /\ WF_vars(Expires) /\ WF_vars(Routine)

-----------------------------------------------------------------------------
TypeOK ==
  /\ op \in Ops /\ timed \in BOOLEAN /\ synced \in BOOLEAN
  /\ pc \in {"dial", "start", "redial", "transport", "transportStatus", "request", "status", "message",
             "exchange", "output", "select", "done"}
  /\ conn \in {"none", "open", "closed"} /\ deadline \in BOOLEAN
  /\ result \in {"none", "nil", "error", "timeout", "ctx"}
  /\ sent \in 0..MaxOutput /\ ended \in BOOLEAN /\ lost \in BOOLEAN
  /\ got \in 0..sent /\ chan \in 0..2
  /\ gpc \in {"none", "read", "write", "send", "done"}
  /\ ctx \in {"live", "done"} /\ late \in 0..MaxOutput

\* A call that returns has closed its connection, unless it hands it out, or fails
\* inside NewSyncConn, which does not close it (device.go:307-312).  Once NewSyncConn has
\* returned a connection, every way out with an error closes it (device.go:235-283).
Released ==
  pc = "done" /\ conn = "open" =>
     IF result = "nil" THEN op \in Handing ELSE op \in SyncOps /\ ~synced

\* No deadline of the call is left on a connection it hands out, where it would end
\* a stream that has nothing to do with it (readStatusWithTimeout).
HandedClean == pc = "done" /\ conn = "open" /\ result = "nil" => ~deadline

\* When the call returns without an error it has read, or given to its writer, all that
\* arrived up to the end of the stream, which is also what a lost connection looks like
\* (shell.go:132-136); the writer of RunCommandCtx is then never written again.  What the
\* writer makes of a piece is its own affair: its error is dropped (shell.go:129).
OutputWhole ==
  pc = "done" /\ result = "nil" /\ op \in {"run", "runCtx"} =>
     /\ got = sent /\ (ended \/ lost)
     /\ op = "runCtx" => gpc = "done"

\* After its context has ended, RunCommandCtx's writer is written at most once more,
\* with what had been read before the connection was closed.
OneLateWrite == late <= 1

\* Every call returns, however silent the server: only the start of a server, and the
\* answers to Remount, DoRemoveForward and Stat, are waited for without a deadline, and a
\* command without a timeout, or whose context is live, may run on.
Returns ==
  (pc # "done") ~>
     \/ pc = "done"
     \/ pc = "start"
     \/ op = "trip" /\ pc \in {"status", "message"}
     \/ op = "stat" /\ pc = "exchange"
     \/ op = "run" /\ ~timed /\ pc = "output" /\ ~(ended \/ lost)
     \/ op = "runCtx" /\ ctx = "live" /\ pc = "select" /\ ~(ended \/ lost)

\* The goroutine of RunCommandCtx does not outlive its call for ever.
RoutineEnds == (pc = "done" /\ gpc # "none") ~> gpc = "done"
=============================================================================
