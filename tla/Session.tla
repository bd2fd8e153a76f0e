------------------------------ MODULE Session ------------------------------
(***************************************************************************)
(* A Session: one remote command over the shell protocol.  Four goroutines *)
(* share it: the caller of Start and Wait, the two goroutines Start spawns *)
(* (one copies Stdin out, one reads packets), and a caller of Close.  They *)
(* meet on the unbuffered errorChan, from which Wait receives once.        *)
(* Stdout stands for Stderr too.                                           *)
(***************************************************************************)
EXTENDS Naturals, Sequences

CONSTANTS
  MaxOutput,   \* bound: packets of output of the command
  MaxInput     \* bound: chunks read from Stdin

ASSUME BoundsAssumption == MaxOutput \in Nat /\ MaxInput \in Nat

VARIABLES
  Stdin, Stdout,   \* "nil", any other reader or writer, or a "pipe" of the session
  errorChan,       \* errorChan was made
  abort,           \* Session.abort
  transport,       \* FALSE once Session.transport is nil
  handles,         \* handlesToClose
  closed,          \* the pipe ends that are closed
  pc,              \* where each goroutine is
  sending,         \* the error a goroutine sends, or is about to send
  result,          \* what Wait returned
  net,             \* the connection: "up", "lost" by the peer, "closed" by Close
  inflow,          \* the packets on their way to the reader
  cut,             \* a lost connection ends between two packets ("clean") or not
  exited,          \* the exit status of the command, "none" while it runs
  produced,        \* packets of output the command wrote
  written,         \* packets of output written to Stdout
  taken            \* chunks read from Stdin

fields  == <<Stdin, Stdout, errorChan, transport, handles>>
command == <<exited, produced>>
wire    == <<net, inflow, cut>>
vars == <<fields, abort, closed, pc, sending, result, wire, command, written, taken>>

Goroutines == {"caller", "stdin", "reader", "closer"}
Senders == {"stdin", "reader"}

Init ==
  /\ Stdin \in {"nil", "reader"} /\ Stdout \in {"nil", "writer"}
  /\ errorChan = FALSE /\ abort = FALSE /\ transport = TRUE
  /\ handles = {} /\ closed = {}
  /\ pc = [g \in Goroutines |-> CASE g = "caller" -> "new" [] g = "closer" -> "idle" [] OTHER -> "none"]
  /\ sending = [g \in Senders |-> "none"] /\ result = "none"
  /\ net = "up" /\ inflow = <<>> /\ cut = "none"
  /\ exited = "none" /\ produced = 0 /\ written = 0
  /\ taken = 0

\* A panic ends every goroutine.
Running == \A g \in Goroutines : pc[g] # "panic"

Go(g, to) == Running /\ pc' = [pc EXCEPT ![g] = to]

\* Goroutine g has an error, or an exit status, for errorChan.
Report(g, e) == sending' = [sending EXCEPT ![g] = e] /\ Go(g, "report")

closeFiles == closed' = closed \cup handles /\ handles' = {}

-----------------------------------------------------------------------------
(* The caller: StdinPipe, StdoutPipe, Start, Wait. *)

StdinPipe ==
  /\ pc.caller = "new" /\ Stdin = "nil" /\ ~errorChan
  /\ Stdin' = "pipe" /\ handles' = handles \cup {"stdin"}
  /\ UNCHANGED <<Stdout, errorChan, transport, abort, closed, pc, sending, result,
                 wire, command, written, taken>>

StdoutPipe ==
  /\ pc.caller = "new" /\ Stdout = "nil" /\ ~errorChan
  /\ Stdout' = "pipe" /\ handles' = handles \cup {"stdout"}
  /\ UNCHANGED <<Stdin, errorChan, transport, abort, closed, pc, sending, result,
                 wire, command, written, taken>>

\* The request and its status.  If the status does not come the transport is
\* closed.
StartRequest ==
  /\ pc.caller = "new"
  /\ \/ net = "up" /\ Go("caller", "starting") /\ UNCHANGED net
     \/ Go("caller", "failed") /\ net' \in {net, "closed"}
  /\ UNCHANGED <<fields, abort, closed, sending, result, inflow, cut, command,
                 written, taken>>

\* Without a Stdin the end of the input is sent before the reader is spawned.
StartGoroutines ==
  /\ pc.caller = "starting"
  /\ errorChan' = TRUE /\ abort' = FALSE
  /\ \/ /\ Stdin # "nil"
        /\ pc' = [pc EXCEPT !.caller = "started", !.stdin = "loop", !.reader = "loop"]
     \/ Stdin = "nil" /\ pc' = [pc EXCEPT !.caller = "started", !.reader = "loop"]
     \/ Stdin = "nil" /\ net = "lost" /\ Go("caller", "failed")
  /\ UNCHANGED <<Stdin, Stdout, transport, handles, closed, sending, result, wire,
                 command, written, taken>>

\* The caller reads the pipe of StdoutPipe to its end before it waits.
Drain ==
  /\ \/ pc.caller = "started" /\ Stdout = "pipe" /\ Go("caller", "draining")
     \/ pc.caller = "draining" /\ "stdout" \in closed /\ Go("caller", "drained")
  /\ UNCHANGED <<fields, abort, closed, sending, result, wire, command, written, taken>>

Wait ==
  /\ pc.caller \in {"started", "drained"}
  /\ IF abort THEN result' = "aborted" /\ Go("caller", "done")
              ELSE Go("caller", "wait") /\ UNCHANGED result
  /\ UNCHANGED <<fields, abort, closed, sending, wire, command, written, taken>>

\* The one rendezvous on errorChan of a Wait.
Receive(g) ==
  /\ pc.caller = "wait" /\ pc[g] = "report" /\ Running
  /\ result' = sending[g]
  /\ IF sending[g] = "closeFiles"
     THEN /\ sending' = [sending EXCEPT ![g] = exited]
          /\ pc' = [pc EXCEPT !.caller = "close"]
     ELSE /\ pc' = [pc EXCEPT !.caller = "close", ![g] = "done"]
          /\ UNCHANGED sending
  /\ UNCHANGED <<fields, abort, closed, wire, command, written, taken>>

-----------------------------------------------------------------------------
(* Close, by the caller at the end of Wait and by any other goroutine. *)

CallClose ==
  /\ pc.closer = "idle" /\ pc.caller \notin {"new", "starting", "failed"}
  /\ Go("closer", "close")
  /\ UNCHANGED <<fields, abort, closed, sending, result, wire, command, written, taken>>

CloseAbort(g) ==
  /\ pc[g] = "close"
  /\ abort' = TRUE
  /\ Go(g, IF transport THEN "closing" ELSE "files")
  /\ UNCHANGED <<fields, closed, sending, result, wire, command, written, taken>>

\* s.transport is read again: if it became nil, Close of a nil Conn panics.
CloseTransport(g) ==
  /\ pc[g] = "closing"
  /\ IF transport THEN net' = "closed" /\ transport' = FALSE /\ Go(g, "files")
                  ELSE Go(g, "panic") /\ UNCHANGED <<net, transport>>
  /\ UNCHANGED <<Stdin, Stdout, errorChan, handles, abort, closed, sending, result,
                 inflow, cut, command, written, taken>>

\* Mutant: the pipes are left to the garbage collector.
CloseFiles_Kept(g) ==
  /\ pc[g] = "files" /\ Go(g, "done")
  /\ UNCHANGED <<fields, abort, closed, sending, result, wire, command, written, taken>>

CloseFiles(g) ==
  /\ pc[g] = "files"
  /\ closeFiles
  /\ Go(g, "done")
  /\ UNCHANGED <<Stdin, Stdout, errorChan, transport, abort, sending, result, wire,
                 command, written, taken>>

-----------------------------------------------------------------------------
(* The goroutine that copies Stdin. *)

StdinLoop ==
  /\ pc.stdin = "loop"
  /\ Go("stdin", IF abort THEN "done" ELSE "read")
  /\ UNCHANGED <<fields, abort, closed, sending, result, wire, command, written, taken>>

\* The input has more, and a reader may say with its last bytes that they are
\* the last: EOF wins, and the bytes are dropped.
StdinData ==
  /\ pc.stdin = "read" /\ "stdin" \notin closed
  /\ taken < MaxInput /\ taken' = taken + 1
  /\ \/ Go("stdin", "send")
     \/ Stdin = "reader" /\ Go("stdin", "sendEOF")
  /\ UNCHANGED <<fields, abort, closed, sending, result, wire, command, written>>

StdinEOF ==
  /\ pc.stdin = "read" /\ "stdin" \notin closed
  /\ Go("stdin", "sendEOF")
  /\ UNCHANGED <<fields, abort, closed, sending, result, wire, command, written, taken>>

\* The read end of the pipe was closed under the goroutine.
StdinError ==
  /\ pc.stdin = "read" /\ "stdin" \in closed
  /\ Report("stdin", "copyStdin")
  /\ UNCHANGED <<fields, abort, closed, result, wire, command, written, taken>>

\* A reader of the caller's may fail of itself.
StdinFails ==
  /\ pc.stdin = "read" /\ Stdin = "reader"
  /\ Report("stdin", "copyStdin")
  /\ UNCHANGED <<fields, abort, closed, result, wire, command, written, taken>>

\* An error of this Send is ignored.
StdinSend ==
  /\ pc.stdin = "send" /\ Go("stdin", "loop")
  /\ UNCHANGED <<fields, abort, closed, sending, result, wire, command, written, taken>>

\* A lost connection may still accept a packet.
Sends == net # "closed"
SendFails == net # "up"

StdinSendEOF ==
  /\ pc.stdin = "sendEOF"
  /\ \/ Sends /\ Go("stdin", "done") /\ UNCHANGED sending
     \/ SendFails /\ Report("stdin", "closeStdin")
  /\ UNCHANGED <<fields, abort, closed, result, wire, command, written, taken>>

-----------------------------------------------------------------------------
(* The goroutine that reads packets. *)

\* Mutant: an aborted reader returns and sends nothing.
ReaderLoop_Return ==
  /\ pc.reader = "loop"
  /\ Go("reader", IF abort THEN "done" ELSE "read")
  /\ UNCHANGED <<fields, abort, closed, sending, result, wire, command, written, taken>>

ReaderLoop ==
  /\ pc.reader = "loop"
  /\ IF abort THEN Report("reader", "ExitMissingError")
              ELSE Go("reader", "read") /\ UNCHANGED sending
  /\ UNCHANGED <<fields, abort, closed, result, wire, command, written, taken>>

ReadPacket ==
  /\ pc.reader = "read" /\ net # "closed" /\ inflow # <<>>
  /\ Go("reader", IF Head(inflow) = "out" THEN "write" ELSE "exit")
  /\ inflow' = Tail(inflow)
  /\ UNCHANGED <<fields, abort, closed, sending, result, net, cut, command, written, taken>>

\* A packet of another type than output and exit.
ReadUnexpected ==
  /\ pc.reader = "read" /\ net = "up" /\ inflow = <<>> /\ exited = "none"
  /\ Report("reader", "unexpected")
  /\ UNCHANGED <<fields, abort, closed, result, wire, command, written, taken>>

\* An exit packet without a status: msg[0] panics.
ReadBareExit ==
  /\ pc.reader = "read" /\ net = "up" /\ inflow = <<>> /\ exited = "none"
  /\ Go("reader", "panic")
  /\ UNCHANGED <<fields, abort, closed, sending, result, wire, command, written, taken>>

\* Mutant: the end of the connection is taken for the end of the command.
ReadError_AsSuccess ==
  /\ pc.reader = "read"
  /\ \/ net = "closed" /\ Report("reader", "read")
     \/ /\ net = "lost" /\ inflow = <<>>
        /\ Report("reader", IF cut = "clean" THEN "0" ELSE "read")
  /\ UNCHANGED <<fields, abort, closed, result, wire, command, written, taken>>

ReadError ==
  /\ pc.reader = "read"
  /\ \/ net = "closed" /\ Report("reader", "read")
     \/ /\ net = "lost" /\ inflow = <<>>
        /\ Report("reader", IF cut = "clean" THEN "ExitMissingError" ELSE "read")
  /\ UNCHANGED <<fields, abort, closed, result, wire, command, written, taken>>

WriteOutput ==
  /\ pc.reader = "write"
  /\ IF "stdout" \in closed
     THEN Report("reader", "write") /\ UNCHANGED written
     ELSE written' = written + 1 /\ Go("reader", "loop") /\ UNCHANGED sending
  /\ UNCHANGED <<fields, abort, closed, result, wire, command, taken>>

\* An exit packet.  closeFiles fails if a Close is closing the same files: then
\* that error is sent first, and the exit status after it.
ReaderExit ==
  /\ pc.reader = "exit"
  /\ closeFiles
  /\ \/ Report("reader", exited)
     \/ /\ \E g \in {"caller", "closer"} : pc[g] = "files"
        /\ handles # {} /\ Report("reader", "closeFiles")
  /\ UNCHANGED <<Stdin, Stdout, errorChan, transport, abort, result, wire, command,
                 written, taken>>

-----------------------------------------------------------------------------
(* The command and its connection. *)

session == <<fields, abort, closed, pc, sending, result, written, taken>>

Output ==
  /\ Running /\ pc.reader # "none" /\ exited = "none" /\ produced < MaxOutput /\ net = "up"
  /\ produced' = produced + 1 /\ inflow' = Append(inflow, "out")
  /\ UNCHANGED <<session, net, cut, exited>>

Exit(status) ==
  /\ Running /\ pc.reader # "none" /\ exited = "none" /\ net = "up"
  /\ exited' = status /\ inflow' = Append(inflow, "exit")
  /\ UNCHANGED <<session, net, cut, produced>>

\* The daemon closes the connection after the exit packet; it is lost at any
\* time, and with it an end of what was in flight.
Hangup ==
  /\ Running /\ net = "up" /\ net' = "lost"
  /\ \/ exited # "none" /\ cut' = "clean" /\ UNCHANGED inflow
     \/ \E k \in 0..Len(inflow) : inflow' = SubSeq(inflow, 1, k) /\ cut' \in {"clean", "error"}
  /\ UNCHANGED <<session, command>>

-----------------------------------------------------------------------------
Closing == \E g \in {"caller", "closer"} : CloseAbort(g) \/ CloseTransport(g) \/ CloseFiles(g)

Caller == StartRequest \/ StartGoroutines \/ Wait \/ Drain \/ \E g \in Senders : Receive(g)

Copier == StdinLoop \/ StdinError \/ StdinSend \/ StdinSendEOF

Reader == ReaderLoop \/ ReadPacket \/ ReadError \/ WriteOutput \/ ReaderExit

Next ==
  \/ StdinPipe \/ StdoutPipe \/ Caller \/ CallClose \/ Closing
  \/ Copier \/ StdinData \/ StdinEOF \/ StdinFails
  \/ Reader \/ ReadUnexpected \/ ReadBareExit
  \/ Output \/ Hangup \/ \E status \in {"0", "1"} : Exit(status)

Spec == Init /\ [][Next]_vars

\* Goroutines are scheduled.  Nothing is assumed of the source of the input, of
\* the command and of its connection.
Fairness ==
  WF_vars(Caller) /\ WF_vars(Closing) /\ WF_vars(Copier) /\ WF_vars(Reader)
FairSpec == Spec /\ Fairness

-----------------------------------------------------------------------------
Errors == {"none", "0", "1", "ExitMissingError", "read", "write", "closeFiles",
           "copyStdin", "closeStdin", "unexpected"}

Places == {"new", "starting", "started", "failed", "draining", "drained", "wait",
           "idle", "close", "closing", "files", "panic", "done", "none", "loop",
           "read", "send", "sendEOF", "report", "write", "exit"}

\* Every variable stays in its range.
TypeOK ==
  /\ Stdin \in {"nil", "reader", "pipe"} /\ Stdout \in {"nil", "writer", "pipe"}
  /\ errorChan \in BOOLEAN /\ abort \in BOOLEAN /\ transport \in BOOLEAN
  /\ handles \subseteq {"stdin", "stdout"} /\ closed \subseteq {"stdin", "stdout"}
  /\ pc \in [Goroutines -> Places] /\ sending \in [Senders -> Errors]
  /\ result \in Errors \cup {"aborted"}
  /\ net \in {"up", "lost", "closed"} /\ inflow \in Seq({"out", "exit"})
  /\ cut \in {"none", "clean", "error"} /\ exited \in {"none", "0", "1"}
  /\ produced \in 0..MaxOutput /\ written \in 0..produced
  /\ taken \in 0..MaxInput

\* An exit status that Wait returns is the command's, and comes after all the
\* output the command wrote before it exited.
ExitStatusTrue ==
  result \in {"0", "1"} => result = exited /\ written = produced

\* ExitMissingError means that no exit status was read: the session was aborted,
\* or its connection ended between two packets before the exit packet.
ExitMissingTrue ==
  [][pc.caller = "wait" /\ ~abort /\ result' = "ExitMissingError" => cut = "clean"]_vars

\* When Wait is done the connection and the pipes of the session are closed.
WaitReleases ==
  pc.caller = "done" /\ result # "aborted" =>
    net = "closed" /\ handles = {}
      /\ (Stdin = "pipe" => "stdin" \in closed) /\ (Stdout = "pipe" => "stdout" \in closed)

\* A Wait returns once the command has exited, its connection is lost, the session
\* is closed, or Stdin, an output or a packet failed one of the two goroutines:
\* whatever the other is doing, one of them sends (session.go:157-229, 291).
WaitReturns ==
  (pc.caller = "wait" /\ (exited # "none" \/ net # "up" \/ abort
                            \/ \E g \in Senders : sending[g] # "none"))
    ~> (pc.caller = "done" \/ ~Running)

\* Who reads the pipe of StdoutPipe to its end before Wait gets there once the
\* exit packet was read or the session is closed, though nobody receives from
\* errorChan (session.go:85, 210).
DrainEnds ==
  (pc.caller = "draining" /\ (pc.reader = "exit" \/ abort))
    ~> (pc.caller # "draining" \/ ~Running)
=============================================================================
