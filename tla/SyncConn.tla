------------------------------ MODULE SyncConn ------------------------------
(***************************************************************************)
(* One connection in sync mode (wire/sync_conn.go, sync_file.go,           *)
(* sync_dir.go): Stat, SendList with ReadDir, PullFile, PushFile and       *)
(* PushDir, called one after another by the owner of the connection, and   *)
(* the push of cmd/adb, which drives a SyncFileWriter by hand.             *)
(*                                                                         *)
(* The device is external.  A file is a sequence of bytes; a byte says     *)
(* where it comes from, so that a mixture of two files can be told.  What  *)
(* the device sends is a stream of headers and of single bytes, so that    *)
(* the connection can be lost between a DATA header and its payload.       *)
(***************************************************************************)
EXTENDS Integers, Sequences, SequencesExt, FiniteSetsExt

CONSTANTS File,              \* the files of the local directory
          MaxSize,           \* bound: length of a file
          SyncMaxChunkSize,  \* wire/util.go: the size of the buffers of PullFile and PushFile
          DeviceChunk,       \* the largest chunk the device sends
          Ops,               \* the calls the owner of the connection makes
          Lossy,             \* the connection may be lost
          MaxCalls,          \* bound: calls on the connection
          MaxWork,           \* bound: calls times the length of the longest file
          Dir,               \* a directory of the device
          Absent             \* no file

ASSUME ChunkAssumption == SyncMaxChunkSize \in Nat \ {0} /\ DeviceChunk \in Nat \ {0}
ASSUME BoundsAssumption == MaxSize \in Nat /\ MaxCalls \in Nat
ASSUME FileAssumption == IsFiniteSet(File)

VARIABLES net,      \* "up"; "cut": lost or ended by the device; "closed": by Close
          up, down, \* requests on their way to the device, headers and bytes from it
          dev,      \* external: what the device is doing
          store,    \* external: the files of the device
          size,     \* the length of each local file, which does not change
          disk,     \* the local file that PullFile writes
          pc, call, \* where the current call is, and its arguments
          at,       \* bytes of the local file PushFile has sent
          toRead,   \* SyncFileReader.toRead
          listing,  \* the entries ReadDir has returned
          garbled,  \* the stream was read at a point that is not the start of a header
          result,   \* how the last call ended
          calls     \* calls made

device == <<dev, store>>
client == <<size, disk, pc, call, at, toRead, listing, garbled, result, calls>>
vars == <<net, up, down, device, client>>

Local(f) == [i \in 1..size[f] |-> <<"local", f, i>>]
Remote(f, n) == [i \in 1..n |-> <<"remote", f, i>>]
Names == SetToSeq(File)

Req(id, f, data) == [id |-> id, file |-> f, data |-> data]
Header(id, n) == [id |-> id, n |-> n, byte |-> <<>>]
Byte(b) == [id |-> "byte", n |-> 0, byte |-> b]
Payload(data) == <<Header("DATA", Len(data))>> \o [i \in DOMAIN data |-> Byte(data[i])]
Dent(f) == [id |-> "DENT", n |-> 0, byte |-> <<f>>]
Failed(why) == [id |-> "FAIL", n |-> 0, byte |-> <<why>>]

NoCall == [op |-> "none", file |-> Absent, todo |-> <<>>, pushed |-> {}, errs |-> {}]
NoResult == [op |-> "none", file |-> Absent, todo |-> <<>>, pushed |-> {}, errs |-> {}, err |-> "nil"]
Idle == [mode |-> "idle", file |-> Absent, got |-> <<>>]

Init ==
  /\ net = "up" /\ up = <<>> /\ down = <<>>
  /\ dev = Idle
  /\ store \in [File -> {Absent} \cup {<<>>}] \cup
        {[f \in File |-> Remote(f, n[f])] : n \in [File -> 1..MaxSize]}
  /\ size \in [File -> 0..MaxSize]
  /\ disk = <<>> /\ pc = "idle" /\ call = NoCall
  /\ at = 0 /\ toRead = 0 /\ listing = <<>> /\ garbled = FALSE
  /\ result = NoResult /\ calls = 0

(***************************************************************************)
(* Reading and writing the net.Conn.  A write to a lost connection may     *)
(* still succeed; what is already in the socket can be read after a loss,  *)
(* not after Close.                                                        *)
(***************************************************************************)
Write(req) == net # "closed" /\ up' = IF net = "up" THEN Append(up, req) ELSE up
WriteFails == net # "up" /\ UNCHANGED up
Reads(item) == net # "closed" /\ ~garbled /\ down # <<>> /\ item = Head(down)
ReadFails == \/ net = "closed"
             \/ garbled
             \/ net = "cut" /\ down = <<>>

Go(where) == pc' = where /\ UNCHANGED <<call, result>>
Return(err) ==
  /\ pc' = "idle" /\ call' = NoCall
  /\ result' = [op |-> call.op, file |-> call.file, todo |-> call.todo,
                pushed |-> call.pushed, errs |-> call.errs, err |-> err]

\* bytes of a reply to something else are read as a header
Garble == garbled' = TRUE /\ Return("error")

(***************************************************************************)
(* A call.  A connection whose call failed is closed by every caller in    *)
(* the library.                                                            *)
(***************************************************************************)
Call(op, f, todo) ==
  /\ pc = "idle" /\ calls < MaxCalls
  /\ \A g \in File : (calls + 1) * size[g] <= MaxWork
  /\ result.err \in {"nil", "missing"}
  /\ result.op # "cmdpush"          \* that program has ended
  /\ calls' = calls + 1
  /\ call' = [op |-> op, file |-> f, todo |-> todo, pushed |-> {}, errs |-> {}]
  /\ pc' = CASE op \in {"stat", "list", "pull"} -> "stat"
             [] op = "pushdir" -> "walk"
             [] OTHER -> "open"
  /\ UNCHANGED <<net, up, down, device, size, disk, at, toRead, listing, garbled, result>>

Stat ==
  /\ pc = "stat"
  /\ \/ Write(Req("STAT", call.file, <<>>)) /\ Go("lstat")
     \/ WriteFails /\ Return("error")
  /\ UNCHANGED <<net, down, device, size, disk, at, toRead, listing, garbled, calls>>

finishLstatV1 ==
  /\ pc = "lstat"
  /\ \/ /\ Reads(Head(down)) /\ down' = Tail(down)
        /\ IF Head(down).id # "STAT" THEN Garble
           ELSE /\ UNCHANGED garbled
                /\ IF Head(down).n < 0 THEN Return("missing")
                   ELSE CASE call.op = "stat" -> Return("nil")
                          [] call.op = "list" -> Go("list")
                          [] call.op = "pull" -> Go("create")
     \/ ReadFails /\ Return("error") /\ UNCHANGED <<down, garbled>>
  /\ UNCHANGED <<net, up, device, size, disk, at, toRead, listing, calls>>

SendList ==
  /\ pc = "list"
  /\ \/ Write(Req("LIST", call.file, <<>>)) /\ Go("dents") /\ listing' = <<>>
     \/ WriteFails /\ Return("error") /\ UNCHANGED listing
  /\ UNCHANGED <<net, down, device, size, disk, at, toRead, garbled, calls>>

\* the mutant: an end of the connection ends the listing
ReadDent_CutIsEnd ==
  /\ pc = "dents"
  /\ \/ /\ Reads(Head(down)) /\ down' = Tail(down)
        /\ IF Head(down).id = "DENT"
           THEN listing' = Append(listing, Head(down).byte[1]) /\ Go("dents")
           ELSE Return("nil") /\ UNCHANGED listing
     \/ ReadFails /\ Return("nil") /\ UNCHANGED <<down, listing>>
  /\ UNCHANGED <<net, up, device, size, disk, at, toRead, garbled, calls>>

\* one more turn of ReadDir, which was asked for all of the directory
Listed(f) == listing' = Append(listing, f) /\ Go("dents")

\* readDentV1 wraps an io.EOF of the connection, so that only DONE returns io.EOF itself
ReadDent ==
  /\ pc = "dents"
  /\ \/ /\ Reads(Head(down)) /\ down' = Tail(down)
        /\ CASE Head(down).id = "DENT" ->
                  Listed(Head(down).byte[1]) /\ UNCHANGED garbled
             [] Head(down).id = "DONE" ->
                  Return("nil") /\ UNCHANGED <<listing, garbled>>
             [] OTHER -> Garble /\ UNCHANGED listing
     \/ ReadFails /\ Return("error") /\ UNCHANGED <<down, listing, garbled>>
  /\ UNCHANGED <<net, up, device, size, disk, at, toRead, calls>>

(***************************************************************************)
(* PullFile: Stat, os.Create, Recv, then Read and Write until a Read       *)
(* returns no byte.                                                        *)
(***************************************************************************)
Create ==
  /\ pc = "create"
  /\ \/ disk' = <<>> /\ Go("recv")
     \/ Return("error") /\ UNCHANGED disk
  /\ UNCHANGED <<net, up, down, device, size, at, toRead, listing, garbled, calls>>

Recv ==
  /\ pc = "recv"
  /\ \/ Write(Req("RECV", call.file, <<>>)) /\ Go("pull") /\ toRead' = 0
     \/ WriteFails /\ Return("error") /\ UNCHANGED toRead
  /\ UNCHANGED <<net, down, device, size, disk, at, listing, garbled, calls>>

\* the mutant: an end of the connection is not told from the end of the file
ReadNextChunkSize_BareEOF ==
  /\ pc = "pull" /\ toRead = 0
  /\ \/ /\ Reads(Head(down)) /\ down' = Tail(down)
        /\ CASE Head(down).id = "DATA" ->
                  toRead' = Head(down).n /\ Go("pull") /\ UNCHANGED garbled
             [] Head(down).id = "FAIL" /\ Head(down).byte[1] = "absent" ->
                  Return("missing") /\ UNCHANGED <<toRead, garbled>>
             [] OTHER -> Return("nil") /\ UNCHANGED <<toRead, garbled>>
     \/ ReadFails /\ Return("nil") /\ UNCHANGED <<down, toRead, garbled>>
  /\ UNCHANGED <<net, up, device, size, disk, at, listing, calls>>

ReadNextChunkSize ==
  /\ pc = "pull" /\ toRead = 0
  /\ \/ /\ Reads(Head(down)) /\ down' = Tail(down)
        /\ CASE Head(down).id = "DATA" ->
                  toRead' = Head(down).n /\ Go("pull") /\ UNCHANGED garbled
             [] Head(down).id = "DONE" -> Return("nil") /\ UNCHANGED <<toRead, garbled>>
             [] Head(down).id = "FAIL" ->
                  /\ Return(IF Head(down).byte[1] = "absent" THEN "missing" ELSE "error")
                  /\ UNCHANGED <<toRead, garbled>>
             [] Head(down).id = "OKAY" -> Return("error") /\ UNCHANGED <<toRead, garbled>>
             [] OTHER -> Garble /\ UNCHANGED toRead
     \/ ReadFails /\ Return("error") /\ UNCHANGED <<down, toRead, garbled>>
  /\ UNCHANGED <<net, up, device, size, disk, at, listing, calls>>

Arrived(n) == n <= Len(down) /\ \A i \in 1..n : down[i].id = "byte"
Wanted == Min({toRead, SyncMaxChunkSize})

\* io.ReadFull: EOF before the first byte, ErrUnexpectedEOF after it; PullFile
\* takes the first for the end of the file
ReadPayload ==
  /\ pc = "pull" /\ toRead > 0
  /\ \/ /\ Reads(Head(down)) /\ Arrived(Wanted)
        /\ toRead' = toRead - Wanted
        /\ down' = SubSeq(down, Wanted + 1, Len(down))
        /\ \/ disk' = disk \o [i \in 1..Wanted |-> down[i].byte] /\ Go("pull")
           \/ Return("error") /\ UNCHANGED disk    \* the local disk is full
     \/ /\ net = "cut" /\ ~Arrived(Wanted)
        /\ down' = <<>> /\ UNCHANGED <<disk, toRead>>
        /\ Return(IF Arrived(1) THEN "error" ELSE "nil")
     \/ ReadFails /\ Return("error") /\ UNCHANGED <<down, disk, toRead>>
  /\ UNCHANGED <<net, up, device, size, at, listing, garbled, calls>>

(***************************************************************************)
(* PushFile: Lstat and Open, Send, then Read and Write to the end of the   *)
(* local file, then CopyDone.  PushDir calls it for one file after another *)
(* and goes on after an error.                                             *)
(***************************************************************************)
PushReturn(err) ==
  IF call.op # "pushdir" THEN Return(err)
  ELSE /\ pc' = "walk"
       /\ call' = [call EXCEPT !.errs = IF err = "nil" THEN @ ELSE @ \cup {call.file}]
       /\ UNCHANGED result

\* the mutant: a file is not counted before it is pushed
Walk_NotCounted ==
  /\ pc = "walk"
  /\ \/ call.todo = <<>> /\ Return(IF call.errs = {} THEN "nil" ELSE "error") /\ UNCHANGED at
     \/ /\ call.todo # <<>> /\ pc' = "open" /\ at' = 0
        /\ call' = [call EXCEPT !.todo = Tail(@), !.file = Head(call.todo)]
        /\ UNCHANGED result
  /\ UNCHANGED <<net, up, down, device, size, disk, toRead, listing, garbled, calls>>

Walk ==
  /\ pc = "walk"
  /\ \/ call.todo = <<>> /\ Return(IF call.errs = {} THEN "nil" ELSE "error") /\ UNCHANGED at
     \/ /\ call.todo # <<>> /\ pc' = "open" /\ at' = 0
        /\ call' = [call EXCEPT !.todo = Tail(@), !.file = Head(call.todo),
                                !.pushed = @ \cup {Head(call.todo)}]
        /\ UNCHANGED result
     \/ \* d.Info fails: the file is gone, and is passed over
        /\ call.todo # <<>> /\ call' = [call EXCEPT !.todo = Tail(@)]
        /\ UNCHANGED <<pc, at, result>>
     \/ call.todo # <<>> /\ Return("error") /\ UNCHANGED at   \* WalkDir cannot read a directory
  /\ UNCHANGED <<net, up, down, device, size, disk, toRead, listing, garbled, calls>>

OpenLocal ==
  /\ pc = "open"
  /\ \/ Go("send") /\ at' = 0
     \/ PushReturn("error") /\ UNCHANGED at
  /\ UNCHANGED <<net, up, down, device, size, disk, toRead, listing, garbled, calls>>

\* the mutant: a status is awaited after SEND, as after a request to the server
Send_Await ==
  /\ pc = "send"
  /\ \/ Write(Req("SEND", call.file, <<>>)) /\ Go("status")
     \/ WriteFails /\ PushReturn("error")
  /\ UNCHANGED <<net, down, device, size, disk, at, toRead, listing, garbled, calls>>

Send ==
  /\ pc = "send"
  /\ \/ Write(Req("SEND", call.file, <<>>)) /\ Go("copy")
     \/ WriteFails /\ PushReturn("error")
  /\ UNCHANGED <<net, down, device, size, disk, at, toRead, listing, garbled, calls>>

\* the mutant: a failed Read of the local file ends the copy as its end does
CopyChunk_ErrorIsEnd ==
  /\ pc = "copy" /\ at < size[call.file]
  /\ LET n == Min({SyncMaxChunkSize, size[call.file] - at})
     IN \/ /\ Write(Req("DATA", call.file, SubSeq(Local(call.file), at + 1, at + n)))
           /\ at' = at + n /\ Go("copy")
        \/ WriteFails /\ PushReturn("error") /\ UNCHANGED at
        \/ Write(Req("DONE", call.file, <<>>)) /\ Go("status") /\ UNCHANGED at
  /\ UNCHANGED <<net, down, device, size, disk, toRead, listing, garbled, calls>>

\* the mutant: CopyDone is deferred, so that it also runs when a Read fails
CopyChunk_DeferDone ==
  /\ pc = "copy" /\ at < size[call.file]
  /\ LET n == Min({SyncMaxChunkSize, size[call.file] - at})
     IN \/ /\ Write(Req("DATA", call.file, SubSeq(Local(call.file), at + 1, at + n)))
           /\ at' = at + n /\ Go("copy")
        \/ WriteFails /\ PushReturn("error") /\ UNCHANGED at
        \/ Write(Req("DONE", call.file, <<>>)) /\ PushReturn("error") /\ UNCHANGED at
  /\ UNCHANGED <<net, down, device, size, disk, toRead, listing, garbled, calls>>

CopyChunk ==
  /\ pc = "copy" /\ at < size[call.file]
  /\ LET n == Min({SyncMaxChunkSize, size[call.file] - at})
     IN \/ /\ Write(Req("DATA", call.file, SubSeq(Local(call.file), at + 1, at + n)))
           /\ at' = at + n /\ Go("copy")
        \/ WriteFails /\ PushReturn("error") /\ UNCHANGED at
        \/ PushReturn("error") /\ UNCHANGED <<up, at>>      \* localFile.Read fails
  /\ UNCHANGED <<net, down, device, size, disk, toRead, listing, garbled, calls>>

\* the mutant: CopyDone does not wait for the status
SendDone_NoWait ==
  /\ pc = "copy" /\ at = size[call.file] /\ call.op # "cmdpush"
  /\ \/ Write(Req("DONE", call.file, <<>>)) /\ PushReturn("nil")
     \/ WriteFails /\ PushReturn("error")
  /\ UNCHANGED <<net, down, device, size, disk, at, toRead, listing, garbled, calls>>

SendDone ==
  /\ pc = "copy" /\ at = size[call.file] /\ call.op # "cmdpush"
  /\ \/ Write(Req("DONE", call.file, <<>>)) /\ Go("status")
     \/ WriteFails /\ PushReturn("error")
     \/ PushReturn("error") /\ UNCHANGED up      \* the Read that should find the end fails
  /\ UNCHANGED <<net, down, device, size, disk, at, toRead, listing, garbled, calls>>

\* readSyncStatusFailureAsError: a DATA or DONE header is read with its payload
ReadStatus ==
  /\ pc = "status"
  /\ \/ /\ Reads(Head(down))
        /\ LET n == IF Head(down).id = "DATA" THEN Head(down).n ELSE 0
           IN down' = SubSeq(down, 2 + Min({n, Len(down) - 1}), Len(down))
        /\ CASE Head(down).id = "OKAY" -> PushReturn("nil") /\ UNCHANGED garbled
             [] Head(down).id \in {"FAIL", "DATA", "DONE"} -> PushReturn("error") /\ UNCHANGED garbled
             [] OTHER -> garbled' = TRUE /\ PushReturn("error")
     \/ ReadFails /\ PushReturn("error") /\ UNCHANGED <<down, garbled>>
  /\ UNCHANGED <<net, up, device, size, disk, at, toRead, listing, calls>>

(***************************************************************************)
(* push of cmd/adb: Close is deferred after CopyDone and so runs before    *)
(* it; the error of CopyDone is dropped and the exit code is 0.            *)
(***************************************************************************)
CmdPushReturns ==
  /\ pc = "copy" /\ at = size[call.file] /\ call.op = "cmdpush"
  /\ net' = "closed" /\ \E err \in {"nil", "error"} : Return(err)    \* "error": the last Read fails
  /\ UNCHANGED <<up, down, device, size, disk, at, toRead, listing, garbled, calls>>

\* the context of PushFileCtx or PushDirCtx ends: its deferred Close runs while
\* the goroutine is still in PushFile or PushDir
Cancel ==
  /\ pc # "idle" /\ call.op \in {"push", "pushdir"} /\ net # "closed"
  /\ net' = "closed"
  /\ UNCHANGED <<up, down, device, client>>

(***************************************************************************)
(* External: the device.  It answers one request after another; what it    *)
(* sends after the connection ended is lost.  A SEND that cannot be        *)
(* carried out is refused at once, its data are read to DONE; another      *)
(* request before DONE ends the connection.                                *)
(***************************************************************************)
Reply(items) == down' = IF net = "up" THEN down \o items ELSE down
Handle(id) == dev.mode = "idle" /\ up # <<>> /\ Head(up).id = id /\ up' = Tail(up)

DeviceStat ==
  /\ Handle("STAT")
  /\ LET f == Head(up).file
     IN IF f = Dir
        THEN \E there \in BOOLEAN : Reply(<<Header("STAT", IF there THEN 0 ELSE -1)>>)
        ELSE Reply(<<Header("STAT", IF store[f] = Absent THEN -1 ELSE Len(store[f]))>>)
  /\ UNCHANGED <<net, device, client>>

\* in an order of its own
Present == SetToSeq({f \in File : store[f] # Absent})

DeviceList ==
  /\ Handle("LIST")
  /\ Reply([i \in DOMAIN Present |-> Dent(Present[i])] \o <<Header("DONE", 0)>>)
  /\ UNCHANGED <<net, device, client>>

DeviceRecv ==
  /\ Handle("RECV")
  /\ IF store[Head(up).file] = Absent
     THEN Reply(<<Failed("absent")>>) /\ UNCHANGED dev
     ELSE dev' = [mode |-> "recv", file |-> Head(up).file, got |-> store[Head(up).file]] /\ UNCHANGED down
  /\ UNCHANGED <<net, store, client>>

DeviceSends ==
  /\ dev.mode = "recv"
  /\ \/ \E n \in 1..Min({DeviceChunk, Len(dev.got)}) :
          /\ Reply(Payload(SubSeq(dev.got, 1, n)))
          /\ dev' = [dev EXCEPT !.got = SubSeq(@, n + 1, Len(@))]
     \/ dev.got = <<>> /\ Reply(<<Header("DONE", 0)>>) /\ dev' = Idle
     \/ dev.got # <<>> /\ Reply(<<Failed("read")>>) /\ dev' = Idle
  /\ UNCHANGED <<net, up, store, client>>

DeviceSend ==
  /\ Handle("SEND")
  /\ \/ dev' = [mode |-> "send", file |-> Head(up).file, got |-> <<>>] /\ UNCHANGED down
     \/ dev' = [mode |-> "discard", file |-> Head(up).file, got |-> <<>>] /\ Reply(<<Failed("open")>>)
  /\ UNCHANGED <<net, store, client>>

DeviceData ==
  /\ dev.mode \in {"send", "discard"} /\ up # <<>> /\ Head(up).id = "DATA" /\ up' = Tail(up)
  /\ \/ dev' = [dev EXCEPT !.got = @ \o Head(up).data] /\ UNCHANGED <<down, store>>
     \/ /\ dev.mode = "send"                              \* its disk is full
        /\ dev' = [dev EXCEPT !.mode = "discard"] /\ Reply(<<Failed("write")>>)
        /\ store' = [store EXCEPT ![dev.file] = Absent]
  /\ UNCHANGED <<net, client>>

DeviceDone ==
  /\ dev.mode \in {"send", "discard"} /\ up # <<>> /\ Head(up).id = "DONE" /\ up' = Tail(up)
  /\ IF dev.mode = "send"
     THEN store' = [store EXCEPT ![dev.file] = dev.got] /\ Reply(<<Header("OKAY", 0)>>)
     ELSE UNCHANGED <<store, down>>
  /\ dev' = Idle
  /\ UNCHANGED <<net, client>>

DeviceRefuses ==
  /\ up # <<>>
  /\ IF dev.mode = "idle" THEN Head(up).id \in {"DATA", "DONE"}
     ELSE dev.mode \in {"send", "discard"} /\ Head(up).id \notin {"DATA", "DONE"}
  /\ net' = IF net = "up" THEN "cut" ELSE net
  /\ up' = <<>> /\ dev' = Idle /\ Reply(<<Failed("request")>>)
  /\ store' = IF dev.mode = "send" THEN [store EXCEPT ![dev.file] = Absent] ELSE store
  /\ UNCHANGED client

\* the connection has ended in the middle of a SEND
DeviceAborts ==
  /\ net # "up" /\ up = <<>> /\ dev.mode \in {"send", "discard"}
  /\ dev' = Idle
  /\ store' = IF dev.mode = "send" THEN [store EXCEPT ![dev.file] = Absent] ELSE store
  /\ UNCHANGED <<net, up, down, client>>

\* the connection is lost, with any suffix of what is on its way
Lose ==
  /\ Lossy /\ net = "up" /\ net' = "cut"
  /\ \E i \in 0..Len(up) : up' = SubSeq(up, 1, i)
  /\ \E i \in 0..Len(down) : down' = SubSeq(down, 1, i)
  /\ UNCHANGED <<device, client>>

Client ==
  \/ Stat \/ finishLstatV1 \/ SendList \/ ReadDent
  \/ Create \/ Recv \/ ReadNextChunkSize \/ ReadPayload
  \/ Walk \/ OpenLocal \/ Send \/ CopyChunk \/ SendDone \/ ReadStatus \/ CmdPushReturns

Device ==
  \/ DeviceStat \/ DeviceList \/ DeviceRecv \/ DeviceSends
  \/ DeviceSend \/ DeviceData \/ DeviceDone \/ DeviceRefuses \/ DeviceAborts

CallAny ==
  \/ \E op \in Ops \cap {"stat", "pull", "push", "cmdpush"}, f \in File : Call(op, f, <<>>)
  \/ "list" \in Ops /\ Call("list", Dir, <<>>)
  \/ "pushdir" \in Ops /\ Call("pushdir", Dir, Names)

Next == CallAny \/ Client \/ Device \/ Cancel \/ Lose

(***************************************************************************)
(* The owner finishes the calls it makes, and the device answers.          *)
(***************************************************************************)
Spec == Init /\ [][Next]_vars /\ WF_vars(Client) /\ WF_vars(Device)

-----------------------------------------------------------------------------
Bytes == {<<"local", f, i>> : f \in File, i \in 1..MaxSize}
           \cup {<<"remote", f, i>> : f \in File, i \in 1..MaxSize}
Errs == {"nil", "missing", "error"}

TypeOK ==
  /\ net \in {"up", "cut", "closed"}
  /\ dev.mode \in {"idle", "recv", "send", "discard"}
  /\ \A f \in File : store[f] = Absent \/ store[f] \in Seq(Bytes)
  /\ size \in [File -> 0..MaxSize]
  /\ disk \in Seq(Bytes)
  /\ pc \in {"idle", "stat", "lstat", "list", "dents", "create", "recv", "pull",
             "walk", "open", "send", "copy", "status"}
  /\ call.errs \subseteq call.pushed /\ call.pushed \subseteq File
  /\ at \in 0..MaxSize /\ toRead \in 0..MaxSize
  /\ listing \in Seq(File) /\ garbled \in BOOLEAN
  /\ result.err \in Errs /\ calls \in 0..MaxCalls

Ended(ops, err) == pc = "idle" /\ result.op \in ops /\ result.err = err

\* A pull that ends without an error has written the file of the device, whole
\* unless the connection was lost right after the header of a chunk; what it
\* wrote is then a beginning of that file (PullFile, SyncFileReader.Read).
PulledPrefix ==
  Ended({"pull"}, "nil") =>
     /\ store[result.file] # Absent
     /\ IsPrefix(disk, store[result.file])
     /\ disk = store[result.file] \/ net = "cut"

\* When a push ends without an error, or PushDir without naming the file in its
\* errors, the device has the whole file (PushFile, CopyDone, PushDir).
PushTrue ==
  /\ Ended({"push"}, "nil") => store[result.file] = Local(result.file)
  /\ pc = "idle" /\ result.op = "pushdir" =>
        \A f \in result.pushed \ result.errs : store[f] = Local(f)

\* A listing that ends with io.EOF is the whole directory (ReadDir: "At the end
\* of a directory, the error is io.EOF").
ListTrue == Ended({"list"}, "nil") => listing = Present

\* A call that ends without an error leaves nothing of its exchange behind for the
\* next call to read: what SyncConn relies on, having no way to tell replies apart.
InStep ==
  pc = "idle" /\ result.err \in {"nil", "missing"} /\ net = "up" =>
     up = <<>> /\ down = <<>> /\ dev = Idle

\* What SyncService calls exposed and reported.  PushDir exposes one file after
\* another and leaves those whose push failed exposed; cmd/adb never reports.
Latest == IF pc = "idle" THEN result ELSE call
Unreported ==
  CASE Latest.op = "pushdir" -> Latest.errs \cup {f \in {Latest.file} : pc \in {"open", "send", "copy", "status"}}
    [] Latest.op = "push" -> {f \in {Latest.file} : pc # "idle" \/ result.err # "nil"}
    [] Latest.op = "cmdpush" -> {Latest.file}
    [] OTHER -> {}
Pushing ==
  CASE Latest.op = "pushdir" -> Latest.pushed
    [] Latest.op = "push" -> {Latest.file}
    [] OTHER -> {}

Service == INSTANCE SyncService WITH exposed <- Unreported, reported <- Pushing \ Unreported

\* The calls of a connection implement SyncService: a file of the device changes
\* only while its push is open or has failed, it becomes the whole local file or
\* nothing, and a push is reported only when it has been done (wire/sync_conn.go).
ImplementsService == Service!Spec

\* Every call ends: the device answers, or the connection is lost, or it is closed
\* by the context of PushFileCtx or PushDirCtx.
CallsEnd == pc # "idle" ~> pc = "idle"

\* sync_conn.go:230: only the end of the file ends a pull.
PullComplete == Ended({"pull"}, "nil") => disk = store[result.file]

\* cmd/adb: "Push a file to the device."
CmdPushTrue ==
  Ended({"cmdpush"}, "nil") ~> \E f \in File : result.file = f /\ store[f] = Local(f)
=============================================================================
