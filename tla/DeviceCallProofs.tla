-------------------------- MODULE DeviceCallProofs --------------------------
(***************************************************************************)
(* Proofs about one call of Adb or Device (DeviceCall), for any amount of  *)
(* output: its connection is closed or handed out without a deadline, what *)
(* it returns of a command is whole, and its writer is let alone.          *)
(***************************************************************************)
EXTENDS DeviceCall, TLAPS

\* Where the call is tells whether it has a connection and a result.
Connected ==
  /\ pc \in {"dial", "start", "redial"} => conn = "none"
  /\ pc \notin {"dial", "start", "redial", "done"} => conn = "open"
  /\ pc # "done" => result = "none"

\* Which calls read what: KillServer nothing, only RunCommandTimeout output itself, and
\* only RunCommandCtx selects.
Placed ==
  /\ pc = "message" => op \in {"roundTrip", "trip"}
  /\ pc = "status" => op # "kill"
  /\ pc = "exchange" => op \in {"openSync", "stat"}
  /\ synced => op \in SyncOps /\ pc \in {"exchange", "done"}
  /\ pc = "output" => op = "run"
  /\ pc = "select" => op = "runCtx" /\ gpc # "none"
  /\ gpc # "none" => op = "runCtx" /\ pc \in {"select", "done"}

\* The request of sync mode is sent after the deadline of the status was cleared.
Timing == pc = "exchange" => ~deadline

\* A goroutine that reports, while the connection is open, has read all of the output.
Reported ==
  /\ gpc = "write" => got < sent
  /\ gpc \in {"send", "done"} /\ conn = "open" => AtEnd
  /\ chan > 0 => gpc = "done"

\* The one piece that can be written after the return was read before it.
Lateness ==
  /\ late <= got
  /\ pc # "done" \/ gpc = "write" => late = 0

IInv == TypeOK /\ Connected /\ Placed /\ Timing /\ Reported /\ Lateness
          /\ Released /\ HandedClean /\ OutputWhole /\ OneLateWrite

-----------------------------------------------------------------------------
\* Init is a state of the invariant.
LEMMA InitIInv == Init => IInv
<1> SUFFICES ASSUME Init PROVE IInv
    OBVIOUS
<1>1. TypeOK
  <2>1. sent = 0 /\ got = 0 /\ chan = 0 /\ late = 0
      BY DEF Init
  <2>2. sent \in 0..MaxOutput /\ got \in 0..sent /\ chan \in 0..2 /\ late \in 0..MaxOutput
      BY <2>1, MaxOutputAssumption
  <2>3. /\ op \in Ops /\ timed \in BOOLEAN /\ synced \in BOOLEAN /\ deadline \in BOOLEAN /\ ended \in BOOLEAN /\ lost \in BOOLEAN
        /\ pc = "dial" /\ conn = "none" /\ result = "none" /\ gpc = "none" /\ ctx = "live"
      BY Zenon DEF Init
  <2> QED BY <2>2, <2>3 DEF TypeOK
<1>2. Connected /\ Placed /\ Timing /\ Reported /\ Lateness
    BY DEF Init, Connected, Placed, Timing, Reported, Lateness
<1>3. Released /\ HandedClean /\ OutputWhole /\ OneLateWrite
    BY DEF Init, Released, HandedClean, OutputWhole, OneLateWrite
<1> QED BY <1>1, <1>2, <1>3 DEF IInv

\* The steps of the caller before the request is answered.
LEMMA Asking ==
  ASSUME IInv, Dial \/ Start \/ SendTransport \/ TransportStatus \/ SendRequest \/ SyncRequest
  PROVE  IInv'
<1>1. CASE Dial \/ Start
  <2>1. /\ pc \in {"dial", "start", "redial"}
        /\ UNCHANGED <<op, timed, synced, sent, ended, lost, gpc, chan, got, late, ctx>>
        /\ \/ conn' = "open" /\ pc' \in {"request", "transport"} /\ result' = result /\ deadline' \in BOOLEAN
           \/ pc' = "done" /\ conn' = conn /\ result' = "error" /\ deadline' = deadline
           \/ pc' \in {"start", "redial"} /\ conn' = conn /\ result' = result /\ deadline' = deadline
    BY <1>1 DEF Dial, Dialled, Start, Go, ReturnKeeping, call, peer, routine
  <2>2. conn = "none" /\ synced = FALSE /\ gpc = "none" /\ result = "none"
    BY <2>1 DEF IInv, TypeOK, Connected, Placed
  <2>3. TypeOK' /\ Connected'
    BY <2>1, <2>2 DEF IInv, TypeOK, Connected
  <2>4. Placed' /\ Timing' /\ Reported' /\ Lateness'
    BY <2>1, <2>2 DEF IInv, TypeOK, Placed, Timing, Reported, Lateness, AtEnd
  <2>5. Released' /\ HandedClean' /\ OutputWhole' /\ OneLateWrite'
    BY <2>1, <2>2 DEF IInv, Released, HandedClean, OutputWhole, OneLateWrite
  <2> QED BY <2>3, <2>4, <2>5 DEF IInv
<1>2. CASE SendTransport
  BY <1>2 DEF SendTransport, Go, SyncOps, Handing, ReturnClosing, call, peer, routine, IInv, TypeOK, Connected, Placed,
     Timing, Reported, Lateness, Released, HandedClean, OutputWhole, OneLateWrite, AtEnd
<1>3. CASE TransportStatus
  BY <1>3 DEF TransportStatus, Go, SyncOps, Handing, ReturnClosing, call, peer, routine, IInv, TypeOK, Connected, Placed,
     Timing, Reported, Lateness, Released, HandedClean, OutputWhole, OneLateWrite, AtEnd
<1>4. CASE SendRequest
  BY <1>4 DEF SendRequest, Go, Fails, SyncOps, Handing, ReturnKeeping, ReturnClosing, call, peer, routine, IInv, TypeOK,
     Connected, Placed, Timing, Reported, Lateness, Released, HandedClean, OutputWhole, OneLateWrite, AtEnd
<1>5. CASE SyncRequest
  <2>1. /\ pc' = "done"
        /\ (conn' = conn /\ result' = "nil") \/ (conn' = "closed" /\ result' = "error")
        /\ pc = "exchange" /\ op = "openSync"
        /\ UNCHANGED <<op, timed, synced, deadline, sent, ended, lost, gpc, chan, got, late, ctx>>
    BY <1>5 DEF SyncRequest, ReturnKeeping, ReturnClosing, call, peer, routine
  <2>2. deadline = FALSE
    BY <2>1 DEF IInv, Timing
  <2>3. TypeOK' /\ Connected' /\ Placed' /\ Timing' /\ Lateness'
    BY <2>1, <2>2 DEF IInv, TypeOK, Connected, Placed, Timing, Lateness
  <2>4. Reported' /\ Released' /\ HandedClean' /\ OutputWhole' /\ OneLateWrite'
    BY <2>1, <2>2 DEF IInv, Reported, AtEnd, Placed, Handing, Released, HandedClean, OutputWhole, OneLateWrite
  <2> QED BY <2>3, <2>4 DEF IInv
<1> QED BY <1>1, <1>2, <1>3, <1>4, <1>5

\* The steps that read an answer of the server.
LEMMA Answered ==
  ASSUME IInv, Status \/ HostAnswer \/ TripAnswer \/ StatAnswer \/ Expires
  PROVE  IInv'
<1>1. CASE Status
  <2>1. CASE AfterStatus /\ (op \in SyncOps => synced' = TRUE) /\ (op \notin SyncOps => synced' = synced)
    <3>1. op \in Ops /\ op # "kill"
      BY <1>1 DEF Status, IInv, TypeOK, Placed
    <3>2. /\ pc = "status" /\ conn = "open" /\ result = "none" /\ gpc = "none" /\ chan = 0
          /\ synced = FALSE
          /\ UNCHANGED <<op, timed, sent, ended, lost, chan, got, late, ctx>>
      <4>1. pc = "status" /\ UNCHANGED <<op, timed, sent, ended, lost, chan, got, late, ctx>>
        BY <1>1 DEF Status, peer
      <4>2. conn = "open" /\ result = "none" /\ gpc = "none" /\ chan = 0 /\ synced = FALSE
        BY <4>1 DEF IInv, TypeOK, Connected, Placed, Reported
      <4> QED BY <4>1, <4>2
    <3>3. CASE op \in {"roundTrip", "trip"}
      <4>1. pc' = "message" /\ conn' = conn /\ result' = result /\ deadline' = deadline /\ gpc' = gpc
        BY <2>1, <3>2, <3>3 DEF AfterStatus, Go
      <4>2. op \notin SyncOps
        BY <3>3 DEF SyncOps
      <4>3. synced' = FALSE
        BY <2>1, <3>2, <4>2
      <4>4. TypeOK' /\ Connected' /\ Timing'
        BY <3>2, <3>3, <4>1, <4>3 DEF IInv, TypeOK, Connected, Timing
      <4>5. Placed' /\ Reported' /\ Lateness'
        BY <3>2, <3>3, <4>1, <4>3 DEF IInv, Placed, Reported, Lateness, AtEnd
      <4>6. Released' /\ HandedClean' /\ OutputWhole' /\ OneLateWrite'
        BY <3>2, <3>3, <4>1, <4>3 DEF IInv, Released, HandedClean, OutputWhole, OneLateWrite
      <4> QED BY <4>4, <4>5, <4>6 DEF IInv
    <3>4. CASE op \in {"doForward", "killAll"} \/ (op = "run" /\ pc' = "done")
      <4>1. /\ pc' = "done" /\ conn' = "closed" /\ result' \in {"nil", "error"}
            /\ op = "run" => result' = "error"
            /\ deadline' = FALSE /\ gpc' = gpc
        BY <2>1, <3>2, <3>4 DEF AfterStatus, Go, ReturnClosing
      <4>2. op \notin SyncOps
        BY <3>4 DEF SyncOps
      <4>3. synced' = FALSE
        BY <2>1, <3>2, <4>2
      <4>4. TypeOK' /\ Connected' /\ Timing'
        BY <3>2, <3>4, <4>1, <4>3 DEF IInv, TypeOK, Connected, Timing
      <4>5. Placed' /\ Reported' /\ Lateness'
        BY <3>2, <3>4, <4>1, <4>3 DEF IInv, Placed, Reported, Lateness, AtEnd
      <4>6. Released' /\ HandedClean' /\ OutputWhole' /\ OneLateWrite'
        BY <3>2, <3>4, <4>1, <4>3 DEF IInv, Released, HandedClean, OutputWhole, OneLateWrite
      <4> QED BY <4>4, <4>5, <4>6 DEF IInv
    <3>5. CASE op \in {"open", "sync"}
      <4>1. /\ pc' = "done" /\ conn' = "open" /\ result' = "nil" /\ deadline' = FALSE /\ gpc' = gpc
            /\ op \in Handing
        BY <3>2, <3>5, <2>1 DEF AfterStatus, ReturnKeeping, Handing
      <4>2. synced' \in BOOLEAN /\ (synced' => op \in SyncOps)
        BY <3>2, <2>1
      <4>3. TypeOK' /\ Connected' /\ Timing'
        BY <3>2, <3>5, <4>1, <4>2 DEF IInv, TypeOK, Connected, Timing
      <4>4. Placed' /\ Reported' /\ Lateness'
        BY <3>2, <3>5, <4>1, <4>2 DEF IInv, Placed, Reported, Lateness, AtEnd
      <4>5. Released' /\ HandedClean' /\ OutputWhole' /\ OneLateWrite'
        BY <3>2, <3>5, <4>1, <4>2 DEF IInv, Released, HandedClean, OutputWhole, OneLateWrite
      <4> QED BY <4>3, <4>4, <4>5 DEF IInv
    <3>6. CASE op \in {"openSync", "stat"}
      <4>1. pc' = "exchange" /\ conn' = conn /\ result' = result /\ deadline' = FALSE /\ gpc' = gpc
        BY <2>1, <3>2, <3>6 DEF AfterStatus, Go
      <4>2. synced' \in BOOLEAN /\ (synced' => op \in SyncOps)
        BY <3>2, <2>1
      <4>3. TypeOK' /\ Connected' /\ Timing'
        BY <3>2, <3>6, <4>1, <4>2 DEF IInv, TypeOK, Connected, Timing
      <4>4. Placed' /\ Reported' /\ Lateness'
        BY <3>2, <3>6, <4>1, <4>2 DEF IInv, Placed, Reported, Lateness, AtEnd
      <4>5. Released' /\ HandedClean' /\ OutputWhole' /\ OneLateWrite'
        BY <3>2, <3>6, <4>1, <4>2 DEF IInv, Released, HandedClean, OutputWhole, OneLateWrite
      <4> QED BY <4>3, <4>4, <4>5 DEF IInv
    <3>7. CASE op = "run" /\ pc' # "done"
      <4>1. pc' = "output" /\ conn' = conn /\ result' = result /\ deadline' = timed /\ gpc' = gpc
        BY <2>1, <3>2, <3>7 DEF AfterStatus, Go, ReturnClosing
      <4>2. op \notin SyncOps
        BY <3>7 DEF SyncOps
      <4>3. synced' = FALSE
        BY <2>1, <3>2, <4>2
      <4>4. TypeOK' /\ Connected' /\ Timing'
        BY <3>2, <3>7, <4>1, <4>3 DEF IInv, TypeOK, Connected, Timing
      <4>5. Placed' /\ Reported' /\ Lateness'
        BY <3>2, <3>7, <4>1, <4>3 DEF IInv, Placed, Reported, Lateness, AtEnd
      <4>6. Released' /\ HandedClean' /\ OutputWhole' /\ OneLateWrite'
        BY <3>2, <3>7, <4>1, <4>3 DEF IInv, Released, HandedClean, OutputWhole, OneLateWrite
      <4> QED BY <4>4, <4>5, <4>6 DEF IInv
    <3>8. CASE op = "runCtx"
      <4>1. pc' = "select" /\ conn' = conn /\ result' = result /\ deadline' = FALSE /\ gpc' = "read"
        BY <2>1, <3>2, <3>8 DEF AfterStatus, Go
      <4>2. op \notin SyncOps
        BY <3>8 DEF SyncOps
      <4>3. synced' = FALSE
        BY <2>1, <3>2, <4>2
      <4>4. TypeOK' /\ Connected' /\ Timing'
        BY <3>2, <3>8, <4>1, <4>3 DEF IInv, TypeOK, Connected, Timing
      <4>5. Placed' /\ Reported' /\ Lateness'
        BY <3>2, <3>8, <4>1, <4>3 DEF IInv, Placed, Reported, Lateness, AtEnd
      <4>6. Released' /\ HandedClean' /\ OutputWhole' /\ OneLateWrite'
        BY <3>2, <3>8, <4>1, <4>3 DEF IInv, Released, HandedClean, OutputWhole, OneLateWrite
      <4> QED BY <4>4, <4>5, <4>6 DEF IInv
    <3> QED BY <3>1, <3>3, <3>4, <3>5, <3>6, <3>7, <3>8 DEF Ops
  <2>2. CASE Fails("error") /\ UNCHANGED <<synced, deadline, gpc>>
    <3>1. /\ pc' = "done" /\ result' = "error"
          /\ conn' = "closed" \/ (conn' = conn /\ op \in SyncOps)
          /\ UNCHANGED <<op, timed, synced, deadline, sent, ended, lost, gpc, chan, got, late, ctx>>
      BY <1>1, <2>2 DEF Status, Fails, ReturnKeeping, ReturnClosing, peer
    <3>2. pc = "status" /\ conn = "open" /\ gpc = "none" /\ chan = 0 /\ synced = FALSE
      BY <1>1 DEF Status, IInv, TypeOK, Connected, Placed, Reported
    <3> QED BY <3>1, <3>2 DEF IInv, TypeOK, Connected, Placed,
       Timing, Reported, Lateness, Released, HandedClean, OutputWhole, OneLateWrite, AtEnd
  <2> QED BY <1>1, <2>1, <2>2 DEF Status
<1>2. CASE HostAnswer \/ TripAnswer \/ StatAnswer
  <2>1. /\ pc' = "done" /\ conn' = "closed" /\ result' \in {"nil", "error"} /\ deadline' \in BOOLEAN
        /\ pc \in {"message", "exchange"}
        /\ UNCHANGED <<op, timed, synced, sent, ended, lost, gpc, chan, got, late, ctx>>
    BY <1>2 DEF HostAnswer, TripAnswer, StatAnswer, ReturnClosing, call, peer, routine, IInv, TypeOK
  <2>2. TypeOK'
    BY <2>1 DEF IInv, TypeOK
  <2>3. Connected' /\ Placed' /\ Timing' /\ Reported' /\ Lateness' /\ Released' /\ HandedClean' /\ OneLateWrite'
    BY <2>1 DEF IInv, TypeOK, Connected, Placed, Timing, Reported, Lateness, Released, HandedClean, OneLateWrite, AtEnd
  <2>4. OutputWhole'
    BY <2>1 DEF IInv, Placed, OutputWhole, AtEnd
  <2> QED BY <2>2, <2>3, <2>4 DEF IInv
<1>3. CASE Expires
  <2>1. \/ pc' = "done" /\ conn' = "closed" /\ result' = "timeout"
        \/ pc' = "done" /\ conn' = conn /\ result' = "timeout" /\ op \in SyncOps
    BY <1>3 DEF Expires, Fails, ReturnKeeping, ReturnClosing
  <2>2. pc \notin {"done", "select", "dial", "start", "redial"} /\ synced = FALSE
        /\ UNCHANGED <<op, timed, synced, deadline, sent, ended, lost, gpc, chan, got, late, ctx>>
    BY <1>3 DEF Expires, call, peer, routine, IInv, TypeOK, Placed
  <2>3. TypeOK' /\ Connected' /\ Placed' /\ Timing' /\ Reported' /\ Lateness'
    BY <2>1, <2>2 DEF IInv, TypeOK, Connected, Placed, Timing, Reported, Lateness, AtEnd
  <2>4. Released' /\ HandedClean' /\ OutputWhole' /\ OneLateWrite'
    BY <2>1, <2>2 DEF IInv, TypeOK, Released, HandedClean, OutputWhole, OneLateWrite
  <2> QED BY <2>3, <2>4 DEF IInv
<1> QED BY <1>1, <1>2, <1>3

\* The steps of the device, the connection and the context.
LEMMA Outside ==
  ASSUME IInv, External
  PROVE  IInv'
<1>1. CASE DeviceWrites \/ DeviceEnds \/ Lose
  <2>1. /\ conn = "open" /\ pc \in {"output", "select"} /\ ~ended /\ ~lost
        /\ UNCHANGED <<op, timed, synced, pc, conn, deadline, result, gpc, chan, got, late, ctx>>
        /\ ended' \in BOOLEAN /\ lost' \in BOOLEAN
    BY <1>1 DEF DeviceWrites, DeviceEnds, Lose, Running, call, routine, IInv, TypeOK
  <2>2. sent \in Nat /\ got \in 0..sent /\ sent <= MaxOutput /\ (gpc = "write" => got < sent)
    BY MaxOutputAssumption DEF IInv, TypeOK, Reported
  <2>3. sent' \in 0..MaxOutput /\ got \in 0..sent' /\ (gpc = "write" => got < sent')
    <3>1. CASE DeviceWrites
      BY <2>2, <3>1, MaxOutputAssumption DEF DeviceWrites
    <3>2. CASE DeviceEnds
      BY <2>2, <3>2, MaxOutputAssumption DEF DeviceEnds
    <3>3. CASE Lose
      BY <2>2, <3>3, MaxOutputAssumption DEF Lose
    <3> QED BY <1>1, <3>1, <3>2, <3>3
  <2>4. gpc \notin {"send", "done"}
    BY <2>1 DEF IInv, Reported, AtEnd
  <2>5. TypeOK' /\ Reported'
    BY <2>1, <2>2, <2>3, <2>4 DEF IInv, TypeOK, Reported, AtEnd
  <2>6. Connected' /\ Placed' /\ Timing' /\ Lateness'
    BY <2>1 DEF IInv, Connected, Placed, Timing, Lateness
  <2>7. Released' /\ HandedClean' /\ OutputWhole' /\ OneLateWrite'
    BY <2>1 DEF IInv, Released, HandedClean, OutputWhole, OneLateWrite
  <2> QED BY <2>5, <2>6, <2>7 DEF IInv
<1>2. CASE CancelCtx
  BY <1>2 DEF CancelCtx, call, peer, routine, IInv, TypeOK, Connected, Placed, Timing, Reported, Lateness,
     Released, HandedClean, OutputWhole, OneLateWrite, AtEnd
<1> QED BY <1>1, <1>2 DEF External

\* The steps of the caller that read output or end the wait for it.
LEMMA Reading ==
  ASSUME IInv, ReadOutput \/ OutputEnds \/ CtxDone \/ ChanReady
  PROVE  IInv'
<1>1. CASE ReadOutput
  BY <1>1, MaxOutputAssumption DEF ReadOutput, call, peer, IInv, TypeOK, Connected, Placed, Timing, Reported,
     Lateness, Released, HandedClean, OutputWhole, OneLateWrite, AtEnd
<1>2. CASE OutputEnds
  BY <1>2 DEF OutputEnds, ReturnClosing, call, peer, routine, IInv, TypeOK, Connected, Placed, Timing, Reported,
     Lateness, Released, HandedClean, OutputWhole, OneLateWrite, AtEnd
<1>3. CASE CtxDone
  BY <1>3 DEF CtxDone, ReturnClosing, call, peer, routine, IInv, TypeOK, Connected, Placed, Timing, Reported,
     Lateness, Released, HandedClean, OutputWhole, OneLateWrite, AtEnd
<1>4. CASE ChanReady
  <2>1. /\ pc' = "done" /\ conn' = "closed" /\ result' = "nil" /\ chan' = chan - 1
        /\ pc = "select" /\ chan > 0
        /\ UNCHANGED <<op, timed, synced, deadline, sent, ended, lost, gpc, got, late, ctx>>
    BY <1>4 DEF ChanReady, ReturnClosing, call, peer
  <2>2. gpc = "done" /\ conn = "open" /\ AtEnd
    BY <2>1 DEF IInv, TypeOK, Reported, Connected
  <2>3. TypeOK'
    BY <2>1 DEF IInv, TypeOK
  <2>4. Connected' /\ Placed' /\ Timing' /\ Reported' /\ Lateness'
    BY <2>1, <2>2 DEF IInv, TypeOK, Connected, Placed, Timing, Reported, Lateness, AtEnd
  <2>5. Released' /\ HandedClean' /\ OutputWhole' /\ OneLateWrite'
    BY <2>1, <2>2 DEF IInv, Released, HandedClean, OutputWhole, OneLateWrite, AtEnd
  <2> QED BY <2>3, <2>4, <2>5 DEF IInv
<1> QED BY <1>1, <1>2, <1>3, <1>4

\* The steps of the goroutine of RunCommandCtx.
LEMMA Routines ==
  ASSUME IInv, Routine
  PROVE  IInv'
<1>1. CASE RoutineRead
  <2>1. /\ gpc = "read"
        /\ UNCHANGED <<op, timed, synced, pc, conn, deadline, result, sent, ended, lost, chan, got, ctx, late>>
        /\ \/ conn = "open" /\ got < sent /\ gpc' = "write"
           \/ (conn # "open" \/ AtEnd) /\ gpc' = "send"
    BY <1>1 DEF RoutineRead, call, peer
  <2>2. TypeOK' /\ Connected' /\ Timing' /\ Released' /\ HandedClean' /\ OneLateWrite'
    BY <2>1 DEF IInv, TypeOK, Connected, Timing, Released, HandedClean, OneLateWrite
  <2>3. Placed' /\ Reported'
    BY <2>1 DEF IInv, TypeOK, Placed, Reported, AtEnd
  <2>4. Lateness' /\ OutputWhole'
    BY <2>1 DEF IInv, TypeOK, Placed, Lateness, Released, Handing, SyncOps, OutputWhole
  <2> QED BY <2>2, <2>3, <2>4 DEF IInv
<1>2. CASE RoutineWrite
  BY <1>2, MaxOutputAssumption DEF RoutineWrite, call, peer, IInv, TypeOK, Connected, Placed, Timing, Reported,
     Lateness, Released, HandedClean, OutputWhole, OneLateWrite, AtEnd
<1>3. CASE RoutineSend
  BY <1>3 DEF RoutineSend, call, peer, IInv, TypeOK, Connected, Placed, Timing, Reported, Lateness,
     Released, HandedClean, OutputWhole, OneLateWrite, AtEnd
<1> QED BY <1>1, <1>2, <1>3 DEF Routine

LEMMA NextIInv == IInv /\ [Next]_vars => IInv'
<1> SUFFICES ASSUME IInv, [Next]_vars PROVE IInv'
    OBVIOUS
<1>1. CASE Caller
    BY <1>1, Asking, Reading DEF Caller
<1>2. CASE Server
    BY <1>2, Asking, Answered DEF Server
<1>3. CASE Expires
    BY <1>3, Answered
<1>4. CASE External
    BY <1>4, Outside
<1>5. CASE Routine
    BY <1>5, Routines
<1>6. CASE UNCHANGED vars
    BY <1>6 DEF vars, call, peer, routine, IInv, TypeOK, Connected, Placed, Timing, Reported, Lateness,
       Released, HandedClean, OutputWhole, OneLateWrite, AtEnd
<1> QED BY <1>1, <1>2, <1>3, <1>4, <1>5, <1>6 DEF Next

LEMMA Inductive == Spec => []IInv
BY InitIInv, NextIInv, PTL DEF Spec

-----------------------------------------------------------------------------
\* The variables of a call stay in their ranges.
THEOREM TypeCorrect == Spec => []TypeOK
<1>1. IInv => TypeOK
    BY DEF IInv
<1> QED BY <1>1, Inductive, PTL

\* A call that returns has closed its connection or handed it out, whatever the server
\* answered and when; only a failure inside NewSyncConn leaves it open, and no failure
\* of a call that NewSyncConn has given a connection.
THEOREM NothingLeftBehind == Spec => []Released
<1>1. IInv => Released
    BY DEF IInv
<1> QED BY <1>1, Inductive, PTL

\* A connection that is handed out has no deadline, that of its status included.
THEOREM HandedOutClean == Spec => []HandedClean
<1>1. IInv => HandedClean
    BY DEF IInv
<1> QED BY <1>1, Inductive, PTL

\* Of a call that returns without an error all output that arrived was read, or given to
\* the writer, for any amount of it.
THEOREM OutputComplete == Spec => []OutputWhole
<1>1. IInv => OutputWhole
    BY DEF IInv
<1> QED BY <1>1, Inductive, PTL

\* A writer whose call has returned is written at most once more.
THEOREM FewLateWrites == Spec => []OneLateWrite
<1>1. IInv => OneLateWrite
    BY DEF IInv
<1> QED BY <1>1, Inductive, PTL
=============================================================================
