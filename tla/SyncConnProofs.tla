--------------------------- MODULE SyncConnProofs ---------------------------
(***************************************************************************)
(* SyncConn: its invariants, and that it implements SyncService, for every *)
(* set of files, size of a file, chunk size and number of calls.           *)
(***************************************************************************)
EXTENDS SyncConn, FiniteSetTheorems, SequenceTheorems, TLAPS

FilePhases == {"open", "send", "copy", "status"}
PushOps == {"push", "pushdir", "cmdpush"}

Requests == [id : {"STAT", "LIST"}, file : File \cup {Dir}, data : Seq(Bytes)]
              \cup [id : {"RECV", "SEND", "DATA", "DONE"}, file : File, data : Seq(Bytes)]
Items == {Header(id, n) : id \in {"STAT", "OKAY", "DONE"}, n \in -1..MaxSize}
           \cup {Header("DATA", n) : n \in 1..MaxSize}
           \cup {Byte(b) : b \in Bytes} \cup {Dent(f) : f \in File}
           \cup {Failed(why) : why \in {"absent", "open", "write", "read", "request"}}

\* What a file of the device is.
Contents == {s \in Seq(Bytes) : Len(s) <= MaxSize}
Devices == {Idle} \cup [mode : {"recv"}, file : File, got : Contents]
             \cup [mode : {"send", "discard"}, file : File, got : Seq(Bytes)]

Typed ==
  /\ net \in {"up", "cut", "closed"}
  /\ up \in Seq(Requests) /\ down \in Seq(Items) /\ dev \in Devices
  /\ store \in [File -> {Absent} \cup Contents]
  /\ size \in [File -> 0..MaxSize]
  /\ disk \in Seq(Bytes) /\ at \in 0..MaxSize /\ toRead \in 0..MaxSize
  /\ listing \in Seq(File) /\ garbled = FALSE /\ calls \in 0..MaxCalls

\* Where a call can be, and what it has in hand there.
OpsAt(where) ==
  CASE where = "idle" -> {"none"}
    [] where \in {"stat", "lstat"} -> {"stat", "list", "pull"}
    [] where \in {"list", "dents"} -> {"list"}
    [] where \in {"create", "recv", "pull"} -> {"pull"}
    [] where = "walk" -> {"pushdir"}
    [] where = "status" -> {"push", "pushdir"}
    [] OTHER -> PushOps

AnyOp == {"none", "stat", "list", "pull"} \cup PushOps
CallType == [op : AnyOp, file : File \cup {Dir, Absent},
             todo : Seq(File), pushed : SUBSET File, errs : SUBSET File]
ResultType == [op : AnyOp, file : File \cup {Dir, Absent},
               todo : Seq(File), pushed : SUBSET File, errs : SUBSET File, err : Errs]

Phases ==
  /\ pc \in {"idle", "stat", "lstat", "list", "dents", "create", "recv", "pull", "walk"} \cup FilePhases
  /\ call \in CallType /\ call.op \in OpsAt(pc)
  /\ pc # "idle" => call.file \in File \cup {Dir}
  /\ pc \in {"stat", "lstat"} => call.op = "list" \/ call.file \in File
  /\ pc \in {"create", "recv", "pull"} \cup FilePhases => call.file \in File
  /\ pc = "copy" => at <= size[call.file]
  /\ pc = "send" => at = 0
  /\ pc = "recv" => disk = <<>>
  /\ \A i, j \in DOMAIN call.todo : call.todo[i] = call.todo[j] => i = j
  /\ \A i \in DOMAIN call.todo : call.todo[i] \notin call.pushed
  /\ call.errs \subseteq call.pushed
  /\ call.op = "pushdir" /\ pc \in FilePhases => call.file \in call.pushed \ call.errs
  /\ result \in ResultType
  /\ result.op \in {"stat", "pull", "push", "cmdpush"} => result.file \in File
  /\ result.op = "pushdir" /\ result.err # "error" => result.errs = {}
  /\ result.op \in {"push", "pushdir"} => result.err # "missing"
  /\ result.op = "cmdpush" /\ result.err # "error" => net = "closed" /\ result.err = "nil"

(***************************************************************************)
(* The requests u on their way in the middle of which the device d is, in  *)
(* the order of the local files, whose lengths are sz.                     *)
(***************************************************************************)
OfPush == {"SEND", "DATA", "DONE"}
Busy(d) == d.mode \in {"send", "discard"}

\* How much of its file a push has sent, up to and with request r
Offset(r) == IF r.id = "DATA" THEN r.data[Len(r.data)][3] ELSE 0

\* r goes on with the push of f, which has n bytes, after the first off
Follows(r, f, off, n) ==
  /\ r.file = f
  /\ \/ /\ r.id = "DATA" /\ r.data # <<>> /\ off + Len(r.data) <= n
        /\ \A i \in 1..Len(r.data) : r.data[i] = <<"local", f, off + i>>
     \/ r.id = "DONE" /\ off = n

Adjacent(u, sz) ==
  \A i \in 2..Len(u) : u[i].id \in {"DATA", "DONE"} =>
    /\ u[i-1].id \in {"SEND", "DATA"}
    /\ Follows(u[i], u[i-1].file, Offset(u[i-1]), sz[u[i-1].file])

\* r is what the device waits for
Awaited(r, d, sz) ==
  /\ Busy(d) /\ r.file = d.file
  /\ d.mode = "send" => Follows(r, d.file, Len(d.got), sz[d.file])

Ahead(u, d, sz) == u # <<>> /\ u[1].id \in {"DATA", "DONE"} => Awaited(u[1], d, sz)

\* What the device has taken is the beginning of the local file.
Taken(d, sz) ==
  d.mode = "send" =>
    /\ Len(d.got) <= sz[d.file]
    /\ \A i \in 1..Len(d.got) : d.got[i] = <<"local", d.file, i>>

Stream == Adjacent(up, size) /\ Ahead(up, dev, size) /\ Taken(dev, size)

\* Whatever may still change a file of the device is a push of an exposed file.
PushesOnly(u, d, files) ==
  /\ \A i \in 1..Len(u) : u[i].id \in OfPush => u[i].file \in files
  /\ Busy(d) => d.file \in files

Exposed == PushesOnly(up, dev, Unreported)

\* What was reported stays true.
Kept ==
  /\ \A f \in Pushing \ Unreported : store[f] = Local(f)
  /\ PulledPrefix
  /\ ListTrue

(***************************************************************************)
(* The two ends of the connection, by what the call is doing.              *)
(***************************************************************************)
AtRest == up = <<>> /\ dev = Idle

Quiet == \/ pc \in {"stat", "list", "create", "recv"}
         \/ pc = "idle" /\ result.err # "error" /\ result.op # "cmdpush"

QuietTalk == Quiet => down = <<>> /\ (net = "up" => AtRest)

LstatTalk ==
  pc = "lstat" =>
    /\ down # <<>> => Len(down) = 1 /\ down[1].id = "STAT"
    /\ net = "up" =>
         /\ dev = Idle
         /\ \/ up = <<>> /\ down # <<>>
            \/ down = <<>> /\ \E f \in File \cup {Dir} : up = <<Req("STAT", f, <<>>)>>

\* the rest s of the reply to LIST, after k entries of all
RestOfList(s, k, all) ==
  /\ k + Len(s) <= Len(all) + 1
  /\ \A i \in 1..Len(s) : s[i] = IF k + i <= Len(all) THEN Dent(all[k + i]) ELSE Header("DONE", 0)

DentsTalk ==
  pc = "dents" =>
    /\ Len(listing) <= Len(Present)
    /\ \A i \in 1..Len(listing) : listing[i] = Present[i]
    /\ RestOfList(down, Len(listing), Present)
    /\ net = "up" =>
         /\ dev = Idle
         /\ \/ up = <<>> /\ Len(listing) + Len(down) = Len(Present) + 1
            \/ (\E f \in File \cup {Dir} : up = <<Req("LIST", f, <<>>)>>) /\ listing = <<>> /\ down = <<>>

(***************************************************************************)
(* What is on its way of the file F, of which m bytes are written and the  *)
(* next n items belong to the current chunk: reading the first i items of  *)
(* s makes the local file c[i] bytes long.                                 *)
(***************************************************************************)
Chunk(s, c, i, n) ==
  /\ \A k \in 0..n : i + k <= Len(s) => c[i + k] = c[i] + k
  /\ \A k \in 1..n : i + k <= Len(s) => s[i + k].id = "byte"
  /\ i + n < Len(s) => s[i + n + 1].id # "byte"

Chunks(F, c, s, n, m) ==
  /\ c \in [0..Len(s) -> 0..Len(F)]
  /\ c[0] = m /\ Chunk(s, c, 0, n)
  /\ \A i \in 1..Len(s) :
       /\ s[i].id \in {"byte", "DATA", "DONE", "FAIL"}
       /\ s[i].id = "byte" => s[i].byte = F[c[i]]
       /\ s[i].id = "DATA" => c[i] = c[i - 1] /\ s[i].n \in 1..MaxSize /\ Chunk(s, c, i, s[i].n)
       /\ s[i].id \in {"DONE", "FAIL"} => i = Len(s)
       /\ s[i].id = "DONE" => c[i - 1] = Len(F)

\* Every chunk on its way is whole.
Whole(s, n) ==
  /\ n <= Len(s)
  /\ \A i \in 1..Len(s) : s[i].id = "DATA" => i + s[i].n <= Len(s)

Terminated(s) == s # <<>> /\ s[Len(s)].id \in {"DONE", "FAIL"}

\* what the device has not sent yet of F, after the first p bytes
Rest(F, p, got) == Len(got) = Len(F) - p /\ \A i \in 1..Len(got) : got[i] = F[p + i]

Begins(s, F) == Len(s) <= Len(F) /\ \A i \in 1..Len(s) : s[i] = F[i]

PullAbsent ==
  /\ toRead = 0 /\ (down = <<>> \/ down = <<Failed("absent")>>)
  /\ net = "up" =>
       /\ dev = Idle
       /\ \/ down = <<>> /\ up = <<Req("RECV", call.file, <<>>)>>
          \/ down # <<>> /\ up = <<>>

PullPresent(F) ==
  /\ Begins(disk, F)
  /\ \E c \in [0..Len(down) -> 0..Len(F)] :
       /\ Chunks(F, c, down, toRead, Len(disk))
       /\ net = "up" =>
            \/ /\ up = <<Req("RECV", call.file, <<>>)>> /\ dev = Idle
               /\ down = <<>> /\ disk = <<>> /\ toRead = 0
            \/ /\ up = <<>> /\ dev.mode = "recv" /\ ~Terminated(down)
               /\ Whole(down, toRead) /\ Rest(F, c[Len(down)], dev.got)
            \/ up = <<>> /\ dev = Idle /\ Terminated(down) /\ Whole(down, toRead)

PullTalk ==
  pc = "pull" => IF store[call.file] = Absent THEN PullAbsent ELSE PullPresent(store[call.file])

(***************************************************************************)
(* A push.  A SEND that comes before the DONE of the push before it breaks *)
(* the exchange: the device ends the connection when it gets there.        *)
(***************************************************************************)
Broken(u, d, k) == u[k].id = "SEND" /\ IF k = 1 THEN Busy(d) ELSE u[k-1].id # "DONE"
Dead(u, d) == \E k \in 1..Len(u) : Broken(u, d, k)
NoSend(u) == \A k \in 1..Len(u) : u[k].id # "SEND"
OnlyFails(s) == \A i \in 1..Len(s) : s[i].id = "FAIL"

\* The last request on its way, or the device, is in the middle of a push.
InPush(u, d) == IF u = <<>> THEN Busy(d) ELSE u[Len(u)].id # "DONE"

\* The device commits nothing of u: a DONE comes after a SEND that breaks the
\* exchange, or ends a file that was refused.
NoCommit(u, d) ==
  \A i \in 1..Len(u) : u[i].id = "DONE" =>
    \/ \E k \in 1..i : Broken(u, d, k)
    \/ d.mode = "discard" /\ \A k \in 1..i : u[k].id # "SEND"

\* After a file whose push stopped in the middle: nothing more is committed.
Tainted ==
  /\ call.errs # {} /\ OnlyFails(down) /\ NoCommit(up, dev)
  /\ Dead(up, dev) \/ (InPush(up, dev) /\ pc \notin {"copy", "status"})

\* The device has not begun, is taking, or has refused the file f.
Unread(u, d, f) ==
  /\ d.mode # "send"
  /\ \E k \in 1..Len(u) : /\ u[k].id = "SEND" /\ u[k].file = f
                          /\ \A i \in 1..Len(u) : u[i].id = "SEND" => i = k
Taking(u, d, f) == d.mode = "send" /\ d.file = f /\ NoSend(u)
Refused(u, d) == d.mode = "discard" /\ NoSend(u)
Answered == Len(down) = 1 /\ down[1].id = "OKAY" /\ AtRest /\ store[call.file] = Local(call.file)

OneFail == Len(down) = 1 /\ down[1].id = "FAIL"

Clean ==
  /\ ~Dead(up, dev)
  /\ pc \in {"walk", "open", "send"} =>
       /\ down = <<>> /\ NoSend(up) /\ dev.mode # "send" /\ ~InPush(up, dev)
       /\ call.errs = {} => AtRest
  /\ pc = "copy" =>
       /\ InPush(up, dev)
       /\ \/ down = <<>> /\ (Unread(up, dev, call.file) \/ Taking(up, dev, call.file))
          \/ OneFail /\ Refused(up, dev)
  /\ pc = "status" =>
       /\ ~InPush(up, dev)
       /\ \/ down = <<>> /\ (Unread(up, dev, call.file) \/ Taking(up, dev, call.file))
          \/ OneFail /\ (Refused(up, dev) \/ AtRest)
          \/ Answered

\* Where the copy of the local file f is, at the end of the requests
CopyAt(u, d, f, n) ==
  IF u = <<>> THEN Busy(d) /\ d.file = f /\ (d.mode = "send" => Len(d.got) = n)
  ELSE LET r == u[Len(u)] IN r.id \in {"SEND", "DATA"} /\ r.file = f /\ Offset(r) = n

PushUp ==
  /\ dev.mode # "recv" /\ \A i \in 1..Len(up) : up[i].id \in OfPush
  /\ pc = "copy" => CopyAt(up, dev, call.file, at)
  /\ pc = "status" /\ up # <<>> => up[Len(up)].id = "DONE"
  /\ Tainted \/ Clean

PushTalk ==
  pc \in {"walk"} \cup FilePhases =>
    /\ pc = "walk" /\ call.errs = {} => down = <<>>
    /\ IF net = "up" THEN PushUp ELSE OnlyFails(down) \/ (pc = "status" /\ Answered)

Talk == QuietTalk /\ LstatTalk /\ DentsTalk /\ PullTalk /\ PushTalk

IInv == Typed /\ Phases /\ Stream /\ Exposed /\ Kept /\ (net # "closed" => Talk)

-----------------------------------------------------------------------------
LEMMA MinOf == ASSUME NEW a \in Int, NEW b \in Int
               PROVE  /\ Min({a, b}) \in {a, b} /\ Min({a, b}) <= a /\ Min({a, b}) <= b
<1>1. PICK m \in {a, b} : \A y \in {a, b} : m <= y
  <2>1. CASE a <= b BY <2>1
  <2>2. CASE b <= a BY <2>2
  <2> QED BY <2>1, <2>2
<1>2. Min({a, b}) \in {a, b} /\ \A y \in {a, b} : Min({a, b}) <= y
  BY <1>1, Zenon DEF Min
<1> QED BY <1>2

LEMMA SetToSeqOf == ASSUME NEW S, IsFiniteSet(S)
                    PROVE  /\ SetToSeq(S) \in Seq(S)
                           /\ \A i, j \in DOMAIN SetToSeq(S) : SetToSeq(S)[i] = SetToSeq(S)[j] => i = j
<1>1. Cardinality(S) \in Nat /\ ExistsBijection(1..Cardinality(S), S)
  BY FS_CardinalityType
<1>2. \E f \in [1..Cardinality(S) -> S] : IsInjective(f)
  BY <1>1, Zenon DEF ExistsBijection, Bijection, Injection
<1>3. SetToSeq(S) \in [1..Cardinality(S) -> S] /\ IsInjective(SetToSeq(S))
  BY <1>2, Zenon DEF SetToSeq
<1>4. SetToSeq(S) \in Seq(S)
  BY <1>1, <1>3
<1> QED BY <1>3, <1>4, Zenon DEF IsInjective

LEMMA NamesOf == Names \in Seq(File) /\ \A i, j \in DOMAIN Names : Names[i] = Names[j] => i = j
BY SetToSeqOf, FileAssumption, Zenon DEF Names

LEMMA PresentOf == Present \in Seq(File)
<1> DEFINE S == {f \in File : store[f] # Absent}
<1>1. IsFiniteSet(S) BY FileAssumption, FS_Subset
<1>2. SetToSeq(S) \in Seq(S) BY <1>1, SetToSeqOf
<1>3. S \subseteq File OBVIOUS
<1>4. SetToSeq(S) \in Seq(File) BY <1>2, <1>3, SeqMonotonic
<1> QED BY <1>4 DEF Present

LEMMA TailOf == ASSUME NEW S, NEW s \in Seq(S), s # <<>>
                PROVE  /\ Len(s) \in Nat /\ Len(s) >= 1
                       /\ Tail(s) \in Seq(S) /\ Len(Tail(s)) = Len(s) - 1
                       /\ \A i \in 1..Len(s)-1 : Tail(s)[i] = s[i+1]
                       /\ Head(s) = s[1] /\ s[1] \in S
                       /\ Tail(s) = <<>> <=> Len(s) = 1
<1>1. /\ Len(s) \in Nat /\ Len(s) >= 1
      /\ Tail(s) \in Seq(S) /\ Len(Tail(s)) = Len(s) - 1
      /\ \A i \in 1..Len(s)-1 : Tail(s)[i] = s[i+1]
      /\ Head(s) = s[1] /\ s[1] \in S
  BY HeadTailProperties, LenProperties, EmptySeq
<1>2. Tail(s) = <<>> <=> Len(Tail(s)) = 0
  BY <1>1, EmptySeq
<1> QED BY <1>1, <1>2

LEMMA AppendOf == ASSUME NEW S, NEW s \in Seq(S), NEW e \in S
                  PROVE  /\ Len(s) \in Nat /\ Append(s, e) \in Seq(S) /\ Len(Append(s, e)) = Len(s) + 1
                         /\ Append(s, e) # <<>>
                         /\ \A i \in 1..Len(s) : Append(s, e)[i] = s[i]
                         /\ Append(s, e)[Len(s) + 1] = e
BY AppendProperties, LenProperties

\* A prefix, and what is left after it
LEMMA EmptyOf == ASSUME NEW S, NEW s \in Seq(S)
                 PROVE  Len(s) \in Nat /\ (s = <<>> <=> Len(s) = 0)
BY LenProperties, EmptySeq

\* A prefix, and what is left after it
LEMMA CutOf == ASSUME NEW S, NEW s \in Seq(S), NEW n \in 0..Len(s)
               PROVE  /\ Len(s) \in Nat
                      /\ SubSeq(s, 1, n) \in Seq(S) /\ Len(SubSeq(s, 1, n)) = n
                      /\ SubSeq(s, 1, n) = <<>> <=> n = 0
                      /\ \A i \in 1..n : SubSeq(s, 1, n)[i] = s[i]
                      /\ SubSeq(s, n+1, Len(s)) \in Seq(S) /\ Len(SubSeq(s, n+1, Len(s))) = Len(s) - n
                      /\ SubSeq(s, n+1, Len(s)) = <<>> <=> n = Len(s)
                      /\ \A i \in 1..Len(s)-n : SubSeq(s, n+1, Len(s))[i] = s[n+i]
<1>1. Len(s) \in Nat /\ \A i \in 1..Len(s) : s[i] \in S
  BY LenProperties, ElementOfSeq
<1>2. /\ SubSeq(s, 1, n) \in Seq(S) /\ Len(SubSeq(s, 1, n)) = n
      /\ \A i \in 1..n : SubSeq(s, 1, n)[i] = s[i]
  BY <1>1, SubSeqProperties
<1>3. /\ SubSeq(s, n+1, Len(s)) \in Seq(S) /\ Len(SubSeq(s, n+1, Len(s))) = Len(s) - n
      /\ \A i \in 1..Len(s)-n : SubSeq(s, n+1, Len(s))[i] = s[n+i]
  BY <1>1, SubSeqProperties
<1>4. SubSeq(s, 1, n) = <<>> <=> Len(SubSeq(s, 1, n)) = 0
  BY <1>2, EmptyOf
<1>5. SubSeq(s, n+1, Len(s)) = <<>> <=> Len(SubSeq(s, n+1, Len(s))) = 0
  BY <1>3, EmptyOf
<1> QED BY <1>1, <1>2, <1>3, <1>4, <1>5, SMTT(30)

-----------------------------------------------------------------------------
(***************************************************************************)
(* A request is added to the requests of a push.                           *)
(***************************************************************************)
\* r goes on where the requests u, or the device, have got to.
GoesOn(r, u, d, sz) ==
  r.id \in {"DATA", "DONE"} =>
    IF u = <<>> THEN Awaited(r, d, sz)
    ELSE LET q == u[Len(u)] IN q.id \in {"SEND", "DATA"} /\ Follows(r, q.file, Offset(q), sz[q.file])

LEMMA AppendStream ==
  ASSUME NEW u \in Seq(Requests), NEW d, NEW sz, NEW r \in Requests,
         Adjacent(u, sz), Ahead(u, d, sz), GoesOn(r, u, d, sz)
  PROVE  Adjacent(Append(u, r), sz) /\ Ahead(Append(u, r), d, sz)
<1> DEFINE n == Len(u)  v == Append(u, r)
<1>1. /\ n \in Nat /\ Len(v) = n + 1 /\ v # <<>>
      /\ \A i \in 1..n : v[i] = u[i]
      /\ v[n + 1] = r
  BY AppendOf
<1>2. u = <<>> <=> n = 0
  BY EmptyOf
<1> HIDE DEF v
<1>3. Adjacent(v, sz)
  <2> SUFFICES ASSUME NEW i \in 2..n+1, v[i].id \in {"DATA", "DONE"}
               PROVE  /\ v[i-1].id \in {"SEND", "DATA"}
                      /\ Follows(v[i], v[i-1].file, Offset(v[i-1]), sz[v[i-1].file])
    BY <1>1 DEF Adjacent
  <2>1. CASE i <= n
    <3>1. v[i] = u[i] /\ v[i-1] = u[i-1] /\ i \in 2..Len(u)
      BY <1>1, <2>1
    <3> QED BY <3>1 DEF Adjacent
  <2>2. CASE i = n + 1
    <3>1. v[i] = r /\ v[i-1] = u[n] /\ u # <<>>
      BY <1>1, <1>2, <2>2
    <3> QED BY <3>1 DEF GoesOn
  <2> QED BY <1>1, <2>1, <2>2
<1>4. Ahead(v, d, sz)
  <2>1. CASE u = <<>>
    BY <1>1, <1>2, <2>1 DEF Ahead, GoesOn
  <2>2. CASE u # <<>>
    <3>1. v[1] = u[1]
      BY <1>1, <1>2, <2>2
    <3> QED BY <2>2, <3>1 DEF Ahead
  <2> QED BY <2>1, <2>2
<1> QED BY <1>3, <1>4 DEF v

LEMMA AppendPushesOnly ==
  ASSUME NEW u \in Seq(Requests), NEW d, NEW files, NEW r \in Requests,
         PushesOnly(u, d, files), r.id \in OfPush => r.file \in files
  PROVE  PushesOnly(Append(u, r), d, files)
<1>1. /\ Len(u) \in Nat /\ Len(Append(u, r)) = Len(u) + 1
      /\ \A i \in 1..Len(u) : Append(u, r)[i] = u[i]
      /\ Append(u, r)[Len(u) + 1] = r
  BY AppendOf
<1> QED BY <1>1 DEF PushesOnly

LEMMA AppendPush ==
  ASSUME NEW u \in Seq(Requests), NEW d \in Devices, NEW r \in Requests
  PROVE  LET v == Append(u, r)
         IN /\ Dead(u, d) => Dead(v, d)
            /\ r.id # "SEND" /\ Dead(v, d) => Dead(u, d)
            /\ r.id = "SEND" => (Dead(v, d) <=> Dead(u, d) \/ InPush(u, d))
            /\ InPush(v, d) <=> r.id # "DONE"
            /\ NoCommit(u, d) /\ (r.id = "DONE" => Dead(u, d)) => NoCommit(v, d)
            /\ r.id # "SEND" /\ NoSend(u) => NoSend(v)
            /\ \A f : r.id # "SEND" /\ Unread(u, d, f) => Unread(v, d, f)
            /\ r.id = "SEND" /\ NoSend(u) /\ d.mode # "send" => Unread(v, d, r.file)
<1> DEFINE n == Len(u)  v == Append(u, r)
<1>1. /\ n \in Nat /\ Len(v) = n + 1 /\ v # <<>>
      /\ \A i \in 1..n : v[i] = u[i]
      /\ v[n + 1] = r
  BY AppendOf
<1>2. u = <<>> <=> n = 0
  BY EmptyOf
<1> HIDE DEF v
<1>3. \A k \in 1..n : Broken(u, d, k) <=> Broken(v, d, k)
  BY <1>1 DEF Broken
<1>4. Broken(v, d, n + 1) <=> r.id = "SEND" /\ InPush(u, d)
  BY <1>1, <1>2 DEF Broken, InPush
<1>5. Dead(u, d) => Dead(v, d)
  BY <1>1, <1>3 DEF Dead
<1>6. r.id # "SEND" /\ Dead(v, d) => Dead(u, d)
  BY <1>1, <1>3, <1>4 DEF Dead
<1>7. r.id = "SEND" => (Dead(v, d) <=> Dead(u, d) \/ InPush(u, d))
  BY <1>1, <1>3, <1>4 DEF Dead
<1>8. InPush(v, d) <=> r.id # "DONE"
  BY <1>1 DEF InPush
<1>9. NoCommit(u, d) /\ (r.id = "DONE" => Dead(u, d)) => NoCommit(v, d)
  <2> SUFFICES ASSUME NoCommit(u, d), r.id = "DONE" => Dead(u, d), NEW i \in 1..n+1, v[i].id = "DONE"
               PROVE  \/ \E k \in 1..i : Broken(v, d, k)
                      \/ d.mode = "discard" /\ \A k \in 1..i : v[k].id # "SEND"
    BY <1>1 DEF NoCommit
  <2>1. CASE i <= n
    <3>1. i \in 1..n /\ u[i].id = "DONE" /\ \A k \in 1..i : v[k] = u[k] /\ k \in 1..n
      BY <1>1, <2>1
    <3>2. \/ \E k \in 1..i : Broken(u, d, k)
          \/ d.mode = "discard" /\ \A k \in 1..i : u[k].id # "SEND"
      BY <3>1 DEF NoCommit
    <3> QED BY <1>3, <3>1, <3>2
  <2>2. CASE i = n + 1
    <3>1. PICK k \in 1..n : Broken(u, d, k)
      BY <1>1, <2>2 DEF Dead
    <3>2. Broken(v, d, k) /\ k \in 1..i
      BY <1>1, <1>3, <2>2, <3>1
    <3> QED BY <3>2
  <2> QED BY <1>1, <2>1, <2>2
<1>10. r.id # "SEND" /\ NoSend(u) => NoSend(v)
  BY <1>1 DEF NoSend
<1>11. ASSUME NEW f, r.id # "SEND", Unread(u, d, f) PROVE Unread(v, d, f)
  <2>1. PICK k \in 1..n : /\ u[k].id = "SEND" /\ u[k].file = f
                          /\ \A i \in 1..n : u[i].id = "SEND" => i = k
    BY <1>11 DEF Unread
  <2>2. /\ k \in 1..Len(v) /\ v[k].id = "SEND" /\ v[k].file = f
        /\ \A i \in 1..Len(v) : v[i].id = "SEND" => i = k
    BY <1>1, <1>11, <2>1
  <2> QED BY <1>11, <2>2 DEF Unread
<1>12. ASSUME r.id = "SEND", NoSend(u), d.mode # "send" PROVE Unread(v, d, r.file)
  <2>1. /\ n + 1 \in 1..Len(v) /\ v[n + 1].id = "SEND" /\ v[n + 1].file = r.file
        /\ \A i \in 1..Len(v) : v[i].id = "SEND" => i = n + 1
    BY <1>1, <1>12 DEF NoSend
  <2> QED BY <1>12, <2>1 DEF Unread
<1> QED BY <1>5, <1>6, <1>7, <1>8, <1>9, <1>10, <1>11, <1>12 DEF v

(***************************************************************************)
(* The device, which was d, takes the first request r of a push and is     *)
(* then e.                                                                 *)
(***************************************************************************)
TakenIn(r, d, e) ==
  /\ r.id \in {"SEND", "DATA"} =>
       Busy(e) /\ e.file = r.file /\ (e.mode = "send" => Len(e.got) = Offset(r))
  /\ r.id = "DONE" => ~Busy(e)
  /\ r.id = "DATA" /\ d.mode = "discard" => e.mode = "discard"

LEMMA TailStream ==
  ASSUME NEW u \in Seq(Requests), u # <<>>, NEW d, NEW e, NEW sz,
         Adjacent(u, sz), TakenIn(u[1], d, e)
  PROVE  Adjacent(Tail(u), sz) /\ Ahead(Tail(u), e, sz)
<1> DEFINE n == Len(u)  v == Tail(u)
<1>1. /\ n \in Nat /\ n >= 1 /\ v \in Seq(Requests) /\ Len(v) = n - 1
      /\ \A i \in 1..n-1 : v[i] = u[i+1]
  BY TailOf
<1>2. v = <<>> <=> n = 1
  BY TailOf
<1> HIDE DEF v
<1>3. Adjacent(v, sz)
  <2> SUFFICES ASSUME NEW i \in 2..n-1, v[i].id \in {"DATA", "DONE"}
               PROVE  /\ v[i-1].id \in {"SEND", "DATA"}
                      /\ Follows(v[i], v[i-1].file, Offset(v[i-1]), sz[v[i-1].file])
    BY <1>1 DEF Adjacent
  <2>1. v[i] = u[i+1] /\ v[i-1] = u[(i+1)-1] /\ i+1 \in 2..Len(u)
    BY <1>1
  <2> QED BY <2>1 DEF Adjacent
<1>4. Ahead(v, e, sz)
  <2> SUFFICES ASSUME v # <<>>, v[1].id \in {"DATA", "DONE"} PROVE Awaited(v[1], e, sz)
    BY DEF Ahead
  <2>1. v[1] = u[2] /\ 2 \in 2..Len(u)
    BY <1>1, <1>2
  <2>2. u[1].id \in {"SEND", "DATA"} /\ Follows(v[1], u[1].file, Offset(u[1]), sz[u[1].file])
    BY <2>1 DEF Adjacent
  <2>3. v[1].file = u[1].file
    BY <2>2, Zenon DEF Follows
  <2>4. Busy(e) /\ e.file = u[1].file /\ (e.mode = "send" => Len(e.got) = Offset(u[1]))
    BY <2>2 DEF TakenIn
  <2>5. ASSUME e.mode = "send" PROVE Follows(v[1], e.file, Len(e.got), sz[e.file])
    BY <2>2, <2>4, <2>5, Zenon
  <2> QED BY <2>3, <2>4, <2>5, Zenon DEF Awaited
<1> QED BY <1>3, <1>4 DEF v

LEMMA TailPushesOnly ==
  ASSUME NEW u \in Seq(Requests), u # <<>>, NEW d, NEW e, NEW files,
         PushesOnly(u, d, files), Busy(e) => e.file \in files
  PROVE  PushesOnly(Tail(u), e, files)
<1>1. /\ Len(u) \in Nat /\ Len(u) >= 1 /\ Len(Tail(u)) = Len(u) - 1
      /\ \A i \in 1..Len(u)-1 : Tail(u)[i] = u[i+1]
  BY TailOf
<1> QED BY <1>1 DEF PushesOnly

LEMMA TailPush ==
  ASSUME NEW u \in Seq(Requests), u # <<>>, NEW d \in Devices, NEW e \in Devices, NEW sz,
         Adjacent(u, sz), \A i \in 1..Len(u) : u[i].id \in OfPush, ~Broken(u, d, 1), TakenIn(u[1], d, e)
  PROVE  LET v == Tail(u)
         IN /\ Dead(u, d) <=> Dead(v, e)
            /\ InPush(u, d) <=> InPush(v, e)
            /\ NoSend(u) => NoSend(v)
            /\ NoCommit(u, d) => NoCommit(v, e)
            /\ \A f : u[1].id # "SEND" /\ e.mode # "send" /\ Unread(u, d, f) => Unread(v, e, f)
            /\ \A f : u[1].id = "SEND" /\ Unread(u, d, f) => u[1].file = f /\ NoSend(v)
            /\ u[1].id = "DONE" /\ NoSend(u) => v = <<>>
<1> DEFINE n == Len(u)  v == Tail(u)
<1>1. /\ n \in Nat /\ n >= 1 /\ v \in Seq(Requests) /\ Len(v) = n - 1
      /\ \A i \in 1..n-1 : v[i] = u[i+1]
  BY TailOf
<1>2. v = <<>> <=> n = 1
  BY TailOf
<1> HIDE DEF v
<1>3. \A k \in 1..n-1 : Broken(v, e, k) <=> Broken(u, d, k+1)
  <2> SUFFICES ASSUME NEW k \in 1..n-1 PROVE Broken(v, e, k) <=> Broken(u, d, k+1)
    OBVIOUS
  <2>1. CASE k = 1
    <3>1. v[1] = u[2] /\ u[1].id \in OfPush
      BY <1>1, <2>1
    <3>2. Busy(e) <=> u[1].id # "DONE"
      BY <3>1 DEF TakenIn, OfPush
    <3>3. Broken(v, e, 1) <=> v[1].id = "SEND" /\ Busy(e)
      BY DEF Broken
    <3>4. Broken(u, d, 2) <=> u[2].id = "SEND" /\ u[1].id # "DONE"
      BY DEF Broken
    <3> QED BY <2>1, <3>1, <3>2, <3>3, <3>4
  <2>2. CASE k > 1
    <3>1. v[k] = u[k+1] /\ v[k-1] = u[(k+1)-1]
      BY <1>1, <2>2
    <3> QED BY <2>2, <3>1 DEF Broken
  <2> QED BY <2>1, <2>2
<1>4. Dead(u, d) <=> Dead(v, e)
  <2>1. ASSUME NEW k \in 1..n, Broken(u, d, k) PROVE Dead(v, e)
    <3>1. k # 1 /\ k-1 \in 1..n-1 /\ (k-1)+1 = k
      BY <1>1, <2>1
    <3> QED BY <1>1, <1>3, <2>1, <3>1 DEF Dead
  <2>2. ASSUME NEW k \in 1..n-1, Broken(v, e, k) PROVE Dead(u, d)
    <3>1. k+1 \in 1..n
      BY <1>1
    <3> QED BY <1>3, <2>2, <3>1 DEF Dead
  <2> QED BY <1>1, <2>1, <2>2 DEF Dead
<1>5. InPush(u, d) <=> InPush(v, e)
  <2>1. CASE n = 1
    <3>1. v = <<>> /\ u[n].id \in OfPush /\ u[n] = u[1]
      BY <1>2, <2>1
    <3> QED BY <3>1 DEF InPush, TakenIn, OfPush
  <2>2. CASE n > 1
    <3>1. v # <<>> /\ v[Len(v)] = u[n]
      BY <1>1, <1>2, <2>2
    <3> QED BY <3>1 DEF InPush
  <2> QED BY <1>1, <2>1, <2>2
<1>6. NoSend(u) => NoSend(v)
  BY <1>1 DEF NoSend
<1>7. u[1].id = "DONE" => v = <<>> \/ v[1].id \notin {"DATA", "DONE"}
  <2> SUFFICES ASSUME u[1].id = "DONE", v # <<>> PROVE v[1].id \notin {"DATA", "DONE"}
    OBVIOUS
  <2>1. v[1] = u[2] /\ 2 \in 2..Len(u)
    BY <1>1, <1>2
  <2> QED BY <2>1 DEF Adjacent
<1>8. NoCommit(u, d) => NoCommit(v, e)
  <2> SUFFICES ASSUME NoCommit(u, d), NEW i \in 1..n-1, v[i].id = "DONE",
                      \A k \in 1..i : ~Broken(v, e, k)
               PROVE  e.mode = "discard" /\ \A k \in 1..i : v[k].id # "SEND"
    BY <1>1 DEF NoCommit
  <2>1. i + 1 \in 1..n /\ u[i+1].id = "DONE"
    BY <1>1
  <2>2. \A k \in 1..i+1 : ~Broken(u, d, k)
    <3> SUFFICES ASSUME NEW k \in 1..i+1, k # 1 PROVE ~Broken(u, d, k)
      OBVIOUS
    <3>1. k-1 \in 1..i /\ k-1 \in 1..n-1 /\ (k-1)+1 = k
      BY <1>1
    <3> QED BY <1>3, <3>1
  <2>3. d.mode = "discard" /\ \A k \in 1..i+1 : u[k].id # "SEND"
    BY <2>1, <2>2 DEF NoCommit
  <2>4. \A k \in 1..i : v[k].id # "SEND"
    BY <1>1, <2>3
  <2>5. u[1].id = "DATA"
    <3>1. v # <<>> /\ v[1] = u[2] /\ 2 \in 2..Len(u) /\ 2 \in 1..i+1 /\ 1 \in 1..i+1
      BY <1>1, <1>2
    <3>2. u[2].id # "SEND" /\ u[1].id # "SEND"
      BY <2>3, <3>1
    <3>3. u[2].id \in OfPush /\ u[1].id \in OfPush
      BY <1>1, <3>1
    <3> QED BY <1>7, <3>1, <3>2, <3>3 DEF OfPush
  <2> QED BY <2>3, <2>4, <2>5 DEF TakenIn
<1>9. ASSUME NEW f, u[1].id # "SEND", e.mode # "send", Unread(u, d, f) PROVE Unread(v, e, f)
  <2>1. PICK k \in 1..n : /\ u[k].id = "SEND" /\ u[k].file = f
                          /\ \A i \in 1..n : u[i].id = "SEND" => i = k
    BY <1>9 DEF Unread
  <2>2. k # 1 /\ k-1 \in 1..Len(v) /\ v[k-1] = u[k]
    BY <1>1, <1>9, <2>1
  <2>3. ASSUME NEW i \in 1..Len(v), v[i].id = "SEND" PROVE i = k-1
    BY <1>1, <2>1, <2>3, SMTT(30)
  <2> QED BY <1>9, <2>1, <2>2, <2>3 DEF Unread
<1>10. ASSUME NEW f, u[1].id = "SEND", Unread(u, d, f) PROVE u[1].file = f /\ NoSend(v)
  <2>1. PICK k \in 1..n : /\ u[k].id = "SEND" /\ u[k].file = f
                          /\ \A i \in 1..n : u[i].id = "SEND" => i = k
    BY <1>10 DEF Unread
  <2>2. k = 1
    BY <1>1, <1>10, <2>1
  <2> QED BY <1>1, <2>1, <2>2 DEF NoSend
<1>11. ASSUME u[1].id = "DONE", NoSend(u), v # <<>> PROVE FALSE
  <2>1. v[1] = u[2] /\ 2 \in 2..Len(u) /\ 2 \in 1..Len(u)
    BY <1>1, <1>2, <1>11
  <2>2. u[2].id # "SEND" /\ u[2].id \in OfPush
    BY <1>11, <2>1 DEF NoSend
  <2> QED BY <1>7, <1>11, <2>1, <2>2 DEF OfPush
<1> QED BY <1>4, <1>5, <1>6, <1>8, <1>9, <1>10, <1>11 DEF v

LEMMA CopyAtStep ==
  ASSUME NEW u \in Seq(Requests), NEW d, NEW f, NEW n
  PROVE  /\ \A r \in Requests : r.id \in {"SEND", "DATA"} /\ r.file = f => CopyAt(Append(u, r), d, f, Offset(r))
         /\ \A e : u # <<>> /\ CopyAt(u, d, f, n) /\ TakenIn(u[1], d, e) => CopyAt(Tail(u), e, f, n)
<1>1. ASSUME NEW r \in Requests, r.id \in {"SEND", "DATA"}, r.file = f
      PROVE  CopyAt(Append(u, r), d, f, Offset(r))
  <2>1. Append(u, r) # <<>> /\ Append(u, r)[Len(Append(u, r))] = r
    BY AppendOf
  <2> QED BY <1>1, <2>1 DEF CopyAt
<1>2. ASSUME NEW e, u # <<>>, CopyAt(u, d, f, n), TakenIn(u[1], d, e)
      PROVE  CopyAt(Tail(u), e, f, n)
  <2>1. /\ Len(u) \in Nat /\ Len(u) >= 1 /\ Len(Tail(u)) = Len(u) - 1
        /\ \A i \in 1..Len(u)-1 : Tail(u)[i] = u[i+1]
        /\ Tail(u) = <<>> <=> Len(u) = 1
    BY <1>2, TailOf
  <2>2. u[Len(u)].id \in {"SEND", "DATA"} /\ u[Len(u)].file = f /\ Offset(u[Len(u)]) = n
    BY <1>2 DEF CopyAt
  <2>3. CASE Len(u) = 1
    <3>1. u[1].id \in {"SEND", "DATA"} /\ u[1].file = f /\ Offset(u[1]) = n
      BY <2>2, <2>3
    <3>2. Busy(e) /\ e.file = f /\ (e.mode = "send" => Len(e.got) = n)
      BY <1>2, <3>1 DEF TakenIn
    <3> QED BY <2>1, <2>3, <3>2 DEF CopyAt
  <2>4. CASE Len(u) # 1
    <3>1. Tail(u) # <<>> /\ Tail(u)[Len(Tail(u))] = u[Len(u)]
      BY <2>1, <2>4
    <3> QED BY <2>2, <3>1 DEF CopyAt
  <2> QED BY <2>3, <2>4
<1> QED BY <1>1, <1>2

LEMMA CutStream ==
  ASSUME NEW u \in Seq(Requests), NEW d, NEW sz, NEW files, NEW n \in 0..Len(u),
         Adjacent(u, sz), Ahead(u, d, sz), PushesOnly(u, d, files)
  PROVE  LET v == SubSeq(u, 1, n) IN Adjacent(v, sz) /\ Ahead(v, d, sz) /\ PushesOnly(v, d, files)
<1> DEFINE v == SubSeq(u, 1, n)
<1>1. Len(u) \in Nat /\ v \in Seq(Requests) /\ Len(v) = n /\ \A i \in 1..n : v[i] = u[i]
  BY CutOf
<1>2. v # <<>> => n >= 1
  BY CutOf
<1> HIDE DEF v
<1>3. Adjacent(v, sz)
  <2> SUFFICES ASSUME NEW i \in 2..n, v[i].id \in {"DATA", "DONE"}
               PROVE  /\ v[i-1].id \in {"SEND", "DATA"}
                      /\ Follows(v[i], v[i-1].file, Offset(v[i-1]), sz[v[i-1].file])
    BY <1>1 DEF Adjacent
  <2>1. v[i] = u[i] /\ v[i-1] = u[i-1] /\ i \in 2..Len(u)
    BY <1>1
  <2> QED BY <2>1 DEF Adjacent
<1>4. Ahead(v, d, sz)
  <2> SUFFICES ASSUME v # <<>> PROVE u # <<>> /\ v[1] = u[1]
    BY DEF Ahead
  <2> QED BY <1>1, <1>2, EmptyOf
<1>5. PushesOnly(v, d, files)
  BY <1>1 DEF PushesOnly
<1> QED BY <1>3, <1>4, <1>5 DEF v

-----------------------------------------------------------------------------
(***************************************************************************)
(* What is on its way of a file, when some of it is read, sent or lost.    *)
(***************************************************************************)
\* The first n items are read: c goes on from there.
Later(c, s, n) == [k \in 0..Len(s)-n |-> c[k+n]]
IsLater(c, s, n, b, t) ==
  /\ b = Later(c, s, n)
  /\ Len(t) = Len(s) - n /\ \A i \in 1..Len(s)-n : t[i] = s[n+i]

Reading(F, c, s, n, m, w, l) ==
  /\ F \in Seq(Bytes) /\ s \in Seq(Items) /\ n \in Nat /\ m \in Nat /\ w \in 0..Len(s) /\ l \in Nat
  /\ Chunks(F, c, s, n, m) /\ Chunk(s, c, w, l)
HasRead(F, c, s, n, w, l, t, b) ==
  /\ Chunks(F, b, t, l, c[w]) /\ c[w] \in 0..Len(F)
  /\ b[Len(t)] = c[Len(s)]
  /\ w + l <= Len(s) /\ Whole(s, n) => Whole(t, l)
  /\ Terminated(t) => Terminated(s)
  /\ Terminated(s) => w = Len(s) \/ Terminated(t)

LEMMA LaterChunks ==
  ASSUME NEW F, NEW c, NEW s, NEW n, NEW m, NEW w, NEW l, NEW t, NEW b,
         Reading(F, c, s, n, m, w, l), t \in Seq(Items), IsLater(c, s, w, b, t)
  PROVE  HasRead(F, c, s, n, w, l, t, b)
<1> DEFINE N == Len(s)
<1>0. /\ F \in Seq(Bytes) /\ s \in Seq(Items) /\ n \in Nat /\ m \in Nat /\ w \in 0..N /\ l \in Nat
      /\ Chunks(F, c, s, n, m) /\ Chunk(s, c, w, l)
  BY DEF Reading
<1>1. /\ N \in Nat /\ Len(t) = N - w
      /\ \A i \in 1..N-w : t[i] = s[w+i]
  BY <1>0, EmptyOf DEF IsLater
<1>2. Len(F) \in Nat /\ c \in [0..N -> 0..Len(F)]
  BY <1>0, EmptyOf DEF Chunks
<1>3. t = <<>> <=> w = N
  BY <1>0, <1>1, EmptyOf
<1>4. s = <<>> <=> N = 0
  BY <1>0, EmptyOf
<1>5. b \in [0..N-w -> 0..Len(F)] /\ \A k \in 0..N-w : b[k] = c[k+w]
  <2>1. b = Later(c, s, w)
    BY <1>0 DEF IsLater
  <2>2. \A k \in 0..N-w : k + w \in 0..N
    BY <1>0, <1>1
  <2> QED BY <1>0, <1>2, <2>1, <2>2 DEF Later
<1>6. \A j \in 1..N :
        /\ s[j].id \in {"byte", "DATA", "DONE", "FAIL"}
        /\ s[j].id = "byte" => s[j].byte = F[c[j]]
        /\ s[j].id = "DATA" => c[j] = c[j-1] /\ s[j].n \in 1..MaxSize /\ Chunk(s, c, j, s[j].n)
        /\ s[j].id \in {"DONE", "FAIL"} => j = N
        /\ s[j].id = "DONE" => c[j-1] = Len(F)
  BY <1>0 DEF Chunks
<1>7. ASSUME NEW i \in 0..N-w, NEW x \in Nat, Chunk(s, c, w+i, x)
      PROVE  Chunk(t, b, i, x)
  <2> DEFINE j == w + i
  <2>1. /\ j \in 0..N /\ b[i] = c[j]
        /\ \A k \in 0..x : j + k <= N => c[j + k] = c[j] + k
        /\ \A k \in 1..x : j + k <= N => s[j + k].id = "byte"
        /\ j + x < N => s[j + x + 1].id # "byte"
    BY <1>0, <1>1, <1>5, <1>7 DEF Chunk
  <2>2. ASSUME NEW k \in 0..N-w-i PROVE b[i + k] = c[j + k]
    <3>1. i + k \in 0..N-w /\ (i + k) + w = j + k
      BY <1>0, <1>1
    <3>2. b[i + k] = c[(i + k) + w]
      BY <1>0, <1>5, <3>1
    <3> QED BY <1>0, <3>1, <3>2
  <2>3. ASSUME NEW k \in 1..N-w-i PROVE t[i + k] = s[j + k]
    <3>1. i + k \in 1..N-w /\ w + (i + k) = j + k
      BY <1>0, <1>1
    <3>2. t[i + k] = s[w + (i + k)]
      BY <1>0, <1>1, <3>1
    <3> QED BY <1>0, <3>1, <3>2
  <2> HIDE DEF j
  <2>4. ASSUME NEW k \in 0..x, i + k <= N-w PROVE b[i + k] = b[i] + k
    <3>1. k \in 0..N-w-i /\ j + k <= N
      BY <1>0, <1>1, <2>4 DEF j
    <3> QED BY <1>0, <2>1, <2>2, <3>1
  <2>5. ASSUME NEW k \in 1..x, i + k <= N-w PROVE t[i + k].id = "byte"
    <3>1. k \in 1..N-w-i /\ j + k <= N
      BY <1>0, <1>1, <2>5 DEF j
    <3> QED BY <1>0, <2>1, <2>3, <3>1
  <2>6. ASSUME i + x < N-w PROVE t[i + x + 1].id # "byte"
    <3>1. x + 1 \in 1..N-w-i /\ j + x < N
      BY <1>0, <1>1, <2>6, SMTT(30) DEF j
    <3>2. t[i + (x + 1)] = s[j + (x + 1)]
      BY <1>0, <2>3, <3>1
    <3>3. i + (x + 1) = i + x + 1 /\ j + (x + 1) = j + x + 1
      BY <1>0, <1>1, <2>1
    <3> QED BY <1>0, <2>1, <3>1, <3>2, <3>3
  <2> QED BY <1>0, <1>1, <2>4, <2>5, <2>6 DEF Chunk
<1>8. ASSUME NEW i \in 1..N-w
      PROVE  /\ t[i].id \in {"byte", "DATA", "DONE", "FAIL"}
             /\ t[i].id = "byte" => t[i].byte = F[b[i]]
             /\ t[i].id = "DATA" => b[i] = b[i-1] /\ t[i].n \in 1..MaxSize /\ Chunk(t, b, i, t[i].n)
             /\ t[i].id \in {"DONE", "FAIL"} => i = N-w
             /\ t[i].id = "DONE" => b[i-1] = Len(F)
  <2> DEFINE j == w + i
  <2>1. t[i] = s[j] /\ j \in 1..N /\ b[i] = c[j] /\ b[i-1] = c[j-1] /\ (i = N-w <=> j = N)
    <3>1. t[i] = s[j] /\ j \in 1..N /\ (i = N-w <=> j = N)
      BY <1>0, <1>1
    <3>2. i \in 0..N-w /\ i-1 \in 0..N-w /\ i+w = j /\ (i-1)+w = j-1
      BY <1>0, <1>1
    <3>3. b[i] = c[i+w] /\ b[i-1] = c[(i-1)+w]
      BY <1>0, <1>5, <3>2
    <3> QED BY <1>0, <3>1, <3>2, <3>3
  <2>2. ASSUME t[i].id = "DATA" PROVE Chunk(t, b, i, t[i].n)
    <3>1. s[j].n \in Nat /\ Chunk(s, c, j, s[j].n)
      BY <1>0, <1>6, <2>1, <2>2, BoundsAssumption, SMTT(30)
    <3>2. i \in 0..N-w
      BY <1>0, <1>1
    <3> QED BY <1>0, <1>7, <2>1, <3>1, <3>2
  <2> HIDE DEF j
  <2> QED BY <1>0, <1>6, <2>1, <2>2
<1>9. c[w] \in 0..Len(F) /\ b[Len(t)] = c[N] /\ b[0] = c[w]
  <2>1. w \in 0..N /\ N-w \in 0..N-w /\ 0 \in 0..N-w /\ (N-w)+w = N /\ 0+w = w
    BY <1>0, <1>1
  <2> QED BY <1>0, <1>1, <1>2, <1>5, <2>1
<1>10. Chunk(t, b, 0, l)
  <2>1. w + 0 = w /\ 0 \in 0..N-w
    BY <1>0, <1>1
  <2> QED BY <1>0, <1>7, <2>1
<1>11. Chunks(F, b, t, l, c[w])
  BY <1>0, <1>1, <1>5, <1>8, <1>9, <1>10 DEF Chunks
<1>12. w + l <= N /\ Whole(s, n) => Whole(t, l)
  <2> SUFFICES ASSUME w + l <= N, Whole(s, n) PROVE Whole(t, l)
    OBVIOUS
  <2>1. ASSUME NEW i \in 1..Len(t), t[i].id = "DATA" PROVE i + t[i].n <= Len(t)
    <3> DEFINE j == w + i
    <3>1. j \in 1..N /\ t[i] = s[j] /\ t[i].n \in 1..MaxSize
      BY <1>0, <1>1, <1>8, <2>1
    <3> HIDE DEF j
    <3>2. j + t[i].n <= N
      BY <1>0, <2>1, <3>1 DEF Whole
    <3>3. t[i].n \in Nat /\ j = w + i
      BY <1>0, <3>1, BoundsAssumption, SMTT(30) DEF j
    <3> QED BY <1>0, <1>1, <3>2, <3>3, SMTT(30)
  <2>2. l <= Len(t)
    BY <1>0, <1>1
  <2> QED BY <1>0, <2>1, <2>2 DEF Whole
<1>13. Terminated(t) => Terminated(s)
  BY <1>0, <1>1, <1>3, <1>4 DEF Terminated
<1>14. Terminated(s) => w = N \/ Terminated(t)
  BY <1>0, <1>1, <1>3, <1>4 DEF Terminated
<1> QED BY <1>0, <1>9, <1>11, <1>12, <1>13, <1>14 DEF HasRead

LEMMA CutChunks ==
  ASSUME NEW F \in Seq(Bytes), NEW s \in Seq(Items), NEW c, NEW n \in Nat, NEW m \in Nat,
         Chunks(F, c, s, n, m), NEW w \in 0..Len(s)
  PROVE  Chunks(F, [k \in 0..w |-> c[k]], SubSeq(s, 1, w), n, m)
<1> DEFINE N == Len(s)  t == SubSeq(s, 1, w)  b == [k \in 0..w |-> c[k]]
<1>1. /\ N \in Nat /\ t \in Seq(Items) /\ Len(t) = w
      /\ \A i \in 1..w : t[i] = s[i]
  BY CutOf
<1>2. Len(F) \in Nat /\ c \in [0..N -> 0..Len(F)]
  BY EmptyOf DEF Chunks
<1>3. b \in [0..w -> 0..Len(F)] /\ \A k \in 0..w : b[k] = c[k]
  BY <1>1, <1>2
<1> HIDE DEF t, b
<1>4. ASSUME NEW i \in 0..w, NEW x \in Nat, Chunk(s, c, i, x) PROVE Chunk(t, b, i, x)
  <2>1. ASSUME NEW k \in 0..x, i + k <= w PROVE b[i + k] = b[i] + k
    <3>1. i + k \in 0..w /\ i + k <= N
      BY <1>1, <2>1
    <3>2. c[i + k] = c[i] + k
      BY <1>4, <3>1 DEF Chunk
    <3> QED BY <1>3, <3>1, <3>2
  <2>2. ASSUME NEW k \in 1..x, i + k <= w PROVE t[i + k].id = "byte"
    <3>1. i + k \in 1..w /\ i + k <= N
      BY <1>1, <2>2
    <3>2. s[i + k].id = "byte"
      BY <1>4, <3>1 DEF Chunk
    <3> QED BY <1>1, <3>1, <3>2
  <2>3. ASSUME i + x < w PROVE t[i + x + 1].id # "byte"
    BY <1>1, <1>4, <2>3 DEF Chunk
  <2> QED BY <1>1, <2>1, <2>2, <2>3 DEF Chunk
<1>5. \A j \in 1..N :
        /\ s[j].id \in {"byte", "DATA", "DONE", "FAIL"}
        /\ s[j].id = "byte" => s[j].byte = F[c[j]]
        /\ s[j].id = "DATA" => c[j] = c[j-1] /\ s[j].n \in 1..MaxSize /\ Chunk(s, c, j, s[j].n)
        /\ s[j].id \in {"DONE", "FAIL"} => j = N
        /\ s[j].id = "DONE" => c[j-1] = Len(F)
  BY DEF Chunks
<1>6. ASSUME NEW i \in 1..w
      PROVE  /\ t[i].id \in {"byte", "DATA", "DONE", "FAIL"}
             /\ t[i].id = "byte" => t[i].byte = F[b[i]]
             /\ t[i].id = "DATA" => b[i] = b[i-1] /\ t[i].n \in 1..MaxSize /\ Chunk(t, b, i, t[i].n)
             /\ t[i].id \in {"DONE", "FAIL"} => i = w
             /\ t[i].id = "DONE" => b[i-1] = Len(F)
  <2>1. t[i] = s[i] /\ i \in 1..N /\ (i = N => i = w) /\ i \in 0..w /\ i-1 \in 0..w
    BY <1>1
  <2>2. b[i] = c[i] /\ b[i-1] = c[i-1]
    BY <1>3, <2>1
  <2>3. ASSUME t[i].id = "DATA" PROVE Chunk(t, b, i, t[i].n)
    <3>1. s[i].n \in Nat /\ Chunk(s, c, i, s[i].n)
      BY <1>5, <2>1, <2>3, BoundsAssumption
    <3> QED BY <1>4, <2>1, <3>1
  <2> QED BY <1>5, <2>1, <2>2, <2>3
<1>7. Chunk(t, b, 0, n) /\ b[0] = m
  <2>1. Chunk(s, c, 0, n) /\ c[0] = m /\ 0 \in 0..w
    BY DEF Chunks
  <2> QED BY <1>3, <1>4, <2>1
<1> QED BY <1>1, <1>3, <1>6, <1>7 DEF Chunks, t, b

\* x items are added to the end, of which the first is not a byte of the chunk before it.
More(c, s, t) == [k \in 0..Len(s)+Len(t) |-> IF k <= Len(s) THEN c[k] ELSE c[Len(s)] + (k - Len(s) - 1)]

LEMMA MoreChunks ==
  ASSUME NEW F \in Seq(Bytes), NEW s \in Seq(Items), NEW c, NEW n \in Nat, NEW m \in Nat,
         Chunks(F, c, s, n, m), Whole(s, n), ~Terminated(s),
         NEW t \in Seq(Items), t # <<>>,
         c[Len(s)] + (Len(t) - 1) <= Len(F),
         \/ /\ t[1].id = "DATA" /\ t[1].n \in 1..MaxSize /\ Len(t) = t[1].n + 1
            /\ \A i \in 2..Len(t) : t[i].id = "byte" /\ t[i].byte = F[c[Len(s)] + i - 1]
         \/ Len(t) = 1 /\ t[1].id = "DONE" /\ c[Len(s)] = Len(F)
         \/ Len(t) = 1 /\ t[1].id = "FAIL"
  PROVE  LET v == s \o t
             b == More(c, s, t)
         IN /\ Chunks(F, b, v, n, m) /\ Whole(v, n) /\ b[Len(v)] = c[Len(s)] + Len(t) - 1
            /\ Terminated(v) <=> t[1].id # "DATA"
<1> DEFINE N == Len(s)  L == Len(t)  v == s \o t  b == More(c, s, t)
<1>1. /\ N \in Nat /\ L \in Nat /\ L >= 1 /\ v \in Seq(Items) /\ Len(v) = N + L /\ v # <<>>
      /\ \A i \in 1..N : v[i] = s[i]
      /\ \A i \in 1..L : v[N + i] = t[i]
  <2>1. N \in Nat /\ L \in Nat /\ L >= 1
    BY EmptyOf
  <2>2. /\ v \in Seq(Items) /\ Len(v) = N + L
        /\ \A i \in 1..N+L : v[i] = IF i <= N THEN s[i] ELSE t[i - N]
    BY ConcatProperties
  <2>3. ASSUME NEW i \in 1..L PROVE v[N + i] = t[i]
    <3>1. N+i \in 1..N+L /\ ~(N+i <= N) /\ (N+i) - N = i
      BY <2>1
    <3> QED BY <2>2, <3>1
  <2>4. v # <<>>
    BY <2>1, <2>2, EmptySeq
  <2> QED BY <2>1, <2>2, <2>3, <2>4
<1>2. Len(F) \in Nat /\ c \in [0..N -> 0..Len(F)] /\ c[N] \in 0..Len(F)
  <2>1. Len(F) \in Nat
    BY EmptyOf
  <2>2. c \in [0..N -> 0..Len(F)] /\ N \in 0..N
    BY <1>1 DEF Chunks
  <2> QED BY <2>1, <2>2
<1>3. /\ b \in [0..N+L -> 0..Len(F)]
      /\ \A k \in 0..N : b[k] = c[k]
      /\ \A k \in 1..L : b[N + k] = c[N] + k - 1
  BY <1>1, <1>2 DEF More
<1> HIDE DEF v, b
<1>4. \A j \in 1..N :
        /\ s[j].id \in {"byte", "DATA", "DONE", "FAIL"}
        /\ s[j].id = "byte" => s[j].byte = F[c[j]]
        /\ s[j].id = "DATA" => c[j] = c[j-1] /\ s[j].n \in 1..MaxSize /\ Chunk(s, c, j, s[j].n)
        /\ s[j].id \in {"DONE", "FAIL"} => j = N
        /\ s[j].id = "DONE" => c[j-1] = Len(F)
  BY DEF Chunks
<1>5. ASSUME NEW i \in 0..N, NEW x \in Nat, Chunk(s, c, i, x), i + x <= N PROVE Chunk(v, b, i, x)
  <2>1. ASSUME NEW k \in 0..x PROVE b[i + k] = b[i] + k
    <3>1. i + k \in 0..N /\ i + k <= N
      BY <1>1, <1>5
    <3>2. c[i + k] = c[i] + k
      BY <1>5, <3>1 DEF Chunk
    <3> QED BY <1>3, <3>1, <3>2
  <2>2. ASSUME NEW k \in 1..x PROVE v[i + k].id = "byte"
    <3>1. i + k \in 1..N /\ i + k <= N
      BY <1>1, <1>5
    <3>2. s[i + k].id = "byte"
      BY <1>5, <3>1 DEF Chunk
    <3> QED BY <1>1, <3>1, <3>2
  <2>3. v[i + x + 1].id # "byte"
    <3>1. CASE i + x < N
      <4>1. s[i + x + 1].id # "byte" /\ i + x + 1 \in 1..N
        BY <1>1, <1>5, <3>1 DEF Chunk
      <4> QED BY <1>1, <4>1
    <3>2. CASE i + x = N
      <4>1. v[N + 1] = t[1] /\ t[1].id # "byte"
        BY <1>1
      <4> QED BY <3>2, <4>1
    <3> QED BY <1>1, <1>5, <3>1, <3>2
  <2> QED BY <2>1, <2>2, <2>3 DEF Chunk
<1>6. ASSUME NEW i \in 1..N
      PROVE  /\ v[i].id \in {"byte", "DATA"}
             /\ v[i].id = "byte" => v[i].byte = F[b[i]]
             /\ v[i].id = "DATA" => b[i] = b[i-1] /\ v[i].n \in 1..MaxSize /\ Chunk(v, b, i, v[i].n)
                                    /\ i + v[i].n <= N
  <2>1. v[i] = s[i] /\ i \in 0..N /\ i-1 \in 0..N /\ b[i] = c[i] /\ b[i-1] = c[i-1]
    <3>1. i \in 0..N /\ i-1 \in 0..N
      BY <1>1
    <3> QED BY <1>1, <1>3, <3>1
  <2>2. ASSUME v[i].id = "DATA" PROVE Chunk(v, b, i, v[i].n) /\ i + v[i].n <= N
    <3>1. s[i].n \in Nat /\ Chunk(s, c, i, s[i].n)
      BY <1>4, <2>1, <2>2, BoundsAssumption, SMTT(30)
    <3>2. i + s[i].n <= N
      BY <2>1, <2>2 DEF Whole
    <3> QED BY <1>5, <2>1, <3>1, <3>2
  <2>3. s[i].id \notin {"DONE", "FAIL"}
    <3>1. i = N => s # <<>>
      BY <1>1, EmptyOf
    <3> QED BY <1>4, <3>1 DEF Terminated
  <2> QED BY <1>4, <2>1, <2>2, <2>3
<1>7. ASSUME NEW i \in 1..L
      PROVE  LET j == N + i
             IN /\ v[j].id \in {"byte", "DATA", "DONE", "FAIL"}
                /\ v[j].id = "byte" => v[j].byte = F[b[j]]
                /\ v[j].id = "DATA" => b[j] = b[j-1] /\ v[j].n \in 1..MaxSize /\ Chunk(v, b, j, v[j].n)
                                       /\ j + v[j].n = N + L
                /\ v[j].id \in {"DONE", "FAIL"} => j = N + L
                /\ v[j].id = "DONE" => b[j-1] = Len(F)
  <2> DEFINE j == N + i
  <2>1. v[j] = t[i] /\ b[j] = c[N] + i - 1
    BY <1>1, <1>3
  <2>0. ASSUME t[1].id = "DATA"
        PROVE  /\ t[1].n \in Nat /\ t[1].n = L - 1 /\ t[1].n \in 1..MaxSize
               /\ \A k \in 2..L : t[k].id = "byte"
    <3>1. /\ t[1].n \in 1..MaxSize /\ L = t[1].n + 1
          /\ \A k \in 2..L : t[k].id = "byte"
      BY <2>0
    <3>2. t[1].n \in Nat
      BY <3>1, BoundsAssumption
    <3> HIDE DEF L
    <3> QED BY <3>1, <3>2
  <2>2. CASE i = 1
    <3>1. b[j] = c[N] /\ b[j-1] = c[N] /\ v[j] = t[1] /\ j = N + 1
      <4>1. j = N + 1 /\ j-1 = N /\ N \in 0..N
        BY <1>1, <2>2
      <4> QED BY <1>2, <1>3, <2>1, <2>2, <4>1
    <3>2. ASSUME v[j].id = "DATA" PROVE Chunk(v, b, j, v[j].n) /\ j + v[j].n = N + L
      <4> DEFINE x == t[1].n
      <4>1. x \in Nat /\ x = L - 1
        BY <2>0, <3>1, <3>2
      <4> HIDE DEF x, j
      <4>2. ASSUME NEW k \in 0..x PROVE b[j + k] = b[j] + k
        <5>1. k + 1 \in 1..L /\ j + k = N + (k + 1)
          BY <1>1, <3>1, <4>1
        <5> QED BY <1>2, <1>3, <3>1, <5>1, SMTT(30)
      <4>3. ASSUME NEW k \in 1..x PROVE v[j + k].id = "byte"
        <5>1. k + 1 \in 1..L /\ k + 1 \in 2..L /\ j + k = N + (k + 1)
          BY <1>1, <3>1, <4>1
        <5>2. v[j + k] = t[k + 1]
          BY <1>1, <5>1
        <5>3. t[k + 1].id = "byte"
          BY <2>0, <3>1, <3>2, <5>1
        <5> QED BY <5>2, <5>3
      <4>4. j + x = N + L
        BY <1>1, <3>1, <4>1
      <4>5. Chunk(v, b, j, x)
        BY <1>1, <4>1, <4>2, <4>3, <4>4, SMTT(30) DEF Chunk
      <4> QED BY <3>1, <4>4, <4>5 DEF x
    <3> QED BY <1>1, <3>1, <3>2
  <2>3. CASE i # 1
    <3>1. i \in 2..L /\ L # 1
      BY <1>1, <2>3, SMTT(30)
    <3>2. t[i].id = "byte" /\ t[i].byte = F[c[N] + i - 1]
      BY <3>1
    <3> QED BY <2>1, <3>2
  <2> QED BY <2>2, <2>3
<1>8. \A i \in 1..N+L : i \in 1..N \/ (i - N \in 1..L /\ N + (i - N) = i)
  BY <1>1
<1>9. Chunks(F, b, v, n, m)
  <2>1. Chunk(v, b, 0, n) /\ b[0] = m
    <3>1. Chunk(s, c, 0, n) /\ c[0] = m /\ 0 + n <= N /\ 0 \in 0..N
      BY <1>1 DEF Chunks, Whole
    <3> QED BY <1>3, <1>5, <3>1
  <2>2. ASSUME NEW i \in 1..Len(v)
        PROVE  /\ v[i].id \in {"byte", "DATA", "DONE", "FAIL"}
               /\ v[i].id = "byte" => v[i].byte = F[b[i]]
               /\ v[i].id = "DATA" => b[i] = b[i-1] /\ v[i].n \in 1..MaxSize /\ Chunk(v, b, i, v[i].n)
               /\ v[i].id \in {"DONE", "FAIL"} => i = Len(v)
               /\ v[i].id = "DONE" => b[i-1] = Len(F)
    <3>1. CASE i \in 1..N
      BY <1>6, <3>1
    <3>2. CASE i \notin 1..N
      <4>1. i - N \in 1..L /\ N + (i - N) = i
        BY <1>1, <1>8, <3>2
      <4> QED BY <1>1, <1>7, <4>1
    <3> QED BY <3>1, <3>2
  <2> QED BY <1>1, <1>3, <2>1, <2>2 DEF Chunks
<1>10. Whole(v, n)
  <2>1. ASSUME NEW i \in 1..Len(v), v[i].id = "DATA" PROVE i + v[i].n <= Len(v)
    <3>1. CASE i \in 1..N
      <4>1. i + v[i].n <= N /\ v[i].n \in 1..MaxSize
        BY <1>6, <2>1, <3>1
      <4> QED BY <1>1, <4>1, BoundsAssumption
    <3>2. CASE i \notin 1..N
      <4>1. i - N \in 1..L /\ N + (i - N) = i
        BY <1>1, <1>8, <3>2
      <4>2. i + v[i].n = N + L
        BY <1>7, <2>1, <4>1
      <4> QED BY <1>1, <4>2
    <3> QED BY <3>1, <3>2
  <2>2. n <= Len(v)
    BY <1>1 DEF Whole
  <2> QED BY <2>1, <2>2 DEF Whole
<1>11. b[Len(v)] = c[N] + L - 1
  BY <1>1, <1>3, SMTT(30)
<1>12. Terminated(v) <=> t[1].id # "DATA"
  <2>1. v[Len(v)] = t[L]
    BY <1>1
  <2>2. L = 1 \/ (L \in 2..L /\ t[L].id = "byte" /\ t[1].id = "DATA")
    BY <1>1
  <2> QED BY <1>1, <2>1, <2>2 DEF Terminated
<1> QED BY <1>9, <1>10, <1>11, <1>12 DEF v, b

-----------------------------------------------------------------------------
(***************************************************************************)
(* A call ends, or goes on.                                                *)
(***************************************************************************)
LEMMA FileOfCall == Phases /\ call.op \in {"stat", "pull", "push", "cmdpush"} => call.file \in File
BY DEF Phases, OpsAt, FilePhases, PushOps

\* What a call that is no push leaves alone
LEMMA NoPush == Phases /\ pc # "idle" /\ call.op \notin PushOps => Unreported = {} /\ Pushing = {}
BY Zenon DEF Unreported, Pushing, Latest, PushOps

LEMMA ReturnPhases ==
  ASSUME Phases, pc # "idle", NEW err \in Errs, Return(err),
         call.op = "pushdir" /\ err # "error" => call.errs = {},
         call.op \in {"push", "pushdir"} => err # "missing",
         call.op = "cmdpush" => err = "error" \/ (err = "nil" /\ net' = "closed")
  PROVE  Phases'
<1>1. /\ pc' = "idle" /\ call' = NoCall
      /\ result' = [op |-> call.op, file |-> call.file, todo |-> call.todo,
                    pushed |-> call.pushed, errs |-> call.errs, err |-> err]
  BY DEF Return
<1>2. call \in CallType
  BY DEF Phases
<1>3. result' \in ResultType
  BY <1>1, <1>2 DEF CallType, ResultType
<1>4. /\ result'.op \in {"stat", "pull", "push", "cmdpush"} => result'.file \in File
      /\ result'.op = "pushdir" /\ result'.err # "error" => result'.errs = {}
      /\ result'.op \in {"push", "pushdir"} => result'.err # "missing"
      /\ result'.op = "cmdpush" /\ result'.err # "error" => net' = "closed" /\ result'.err = "nil"
  BY <1>1, <1>2, FileOfCall
<1>5. call' \in CallType /\ call'.op = "none" /\ call'.todo = <<>> /\ call'.errs = {} /\ call'.pushed = {}
  BY <1>1 DEF NoCall, CallType, AnyOp
<1>6. DOMAIN call'.todo = {}
  BY <1>5
<1> QED BY <1>1, <1>3, <1>4, <1>5, <1>6 DEF Phases, OpsAt, FilePhases

LEMMA ReturnExposes ==
  ASSUME Phases, pc # "idle", NEW err, Return(err)
  PROVE  /\ Pushing' = Pushing
         /\ call.op \notin PushOps => Unreported' = {} /\ Unreported = {} /\ Pushing = {}
         /\ pc = "walk" => Unreported' = Unreported
         /\ call.op = "cmdpush" => Unreported' = Unreported
         /\ call.op = "push" => Unreported' = IF err = "nil" THEN {} ELSE Unreported
<1>1. /\ pc' = "idle" /\ Latest' = result' /\ Latest = call
      /\ result'.op = call.op /\ result'.file = call.file
      /\ result'.pushed = call.pushed /\ result'.errs = call.errs /\ result'.err = err
  BY DEF Return, Latest
<1>2. Pushing' = Pushing
  BY <1>1, Zenon DEF Pushing
<1>3. call.op \notin PushOps => Unreported' = {} /\ Unreported = {} /\ Pushing = {}
  BY <1>1, Zenon DEF Unreported, Pushing, PushOps
<1>4. ASSUME pc = "walk" PROVE Unreported' = Unreported
  <2>1. call.op = "pushdir"
    BY <1>4 DEF Phases, OpsAt
  <2>2. Unreported' = call.errs \cup {f \in {call.file} : FALSE}
    BY <1>1, <2>1 DEF Unreported
  <2>3. Unreported = call.errs \cup {f \in {call.file} : FALSE}
    BY <1>1, <1>4, <2>1 DEF Unreported
  <2> QED BY <2>2, <2>3
<1>5. call.op = "cmdpush" => Unreported' = Unreported
  BY <1>1 DEF Unreported
<1>6. call.op = "push" => Unreported' = IF err = "nil" THEN {} ELSE Unreported
  BY <1>1 DEF Unreported
<1> QED BY <1>2, <1>3, <1>4, <1>5, <1>6

LEMMA ReqOf ==
  /\ \A id \in {"STAT", "LIST"}, f \in File \cup {Dir} : Req(id, f, <<>>) \in Requests
  /\ \A id \in {"RECV", "SEND", "DATA", "DONE"}, f \in File, s \in Seq(Bytes) : Req(id, f, s) \in Requests
  /\ \A id, f, s : Req(id, f, s).id = id /\ Req(id, f, s).file = f /\ Req(id, f, s).data = s
<1>1. <<>> \in Seq(Bytes)
  BY EmptySeq
<1> QED BY <1>1 DEF Req, Requests

LEMMA ItemOf ==
  /\ \A n \in -1..MaxSize : Header("STAT", n) \in Items
  /\ \A n \in 1..MaxSize : Header("DATA", n) \in Items
  /\ Header("DONE", 0) \in Items /\ Header("OKAY", 0) \in Items
  /\ \A b \in Bytes : Byte(b) \in Items
  /\ \A f \in File : Dent(f) \in Items
  /\ \A why \in {"absent", "open", "write", "read", "request"} : Failed(why) \in Items
  /\ \A id, n : Header(id, n).id = id /\ Header(id, n).n = n
  /\ \A b : Byte(b).id = "byte" /\ Byte(b).byte = b
  /\ \A f : Dent(f).id = "DENT" /\ Dent(f).byte[1] = f
  /\ \A why : Failed(why).id = "FAIL"
<1>1. 0 \in -1..MaxSize
  BY BoundsAssumption
<1>2. Header("DONE", 0) \in Items /\ Header("OKAY", 0) \in Items
  BY <1>1 DEF Items
<1>3. \A n \in 1..MaxSize : Header("DATA", n) \in Items
  BY DEF Items
<1>4. \A n \in -1..MaxSize : Header("STAT", n) \in Items
  BY DEF Items
<1>5. /\ \A b \in Bytes : Byte(b) \in Items
      /\ \A f \in File : Dent(f) \in Items
      /\ \A why \in {"absent", "open", "write", "read", "request"} : Failed(why) \in Items
  BY DEF Items
<1>6. /\ \A id, n : Header(id, n).id = id /\ Header(id, n).n = n
      /\ \A b : Byte(b).id = "byte" /\ Byte(b).byte = b
      /\ \A f : Dent(f).id = "DENT" /\ Dent(f).byte[1] = f
      /\ \A why : Failed(why).id = "FAIL"
  BY DEF Header, Byte, Dent, Failed
<1> QED BY <1>2, <1>3, <1>4, <1>5, <1>6

\* Nothing is asked of a call that failed; the others leave nothing behind.
LEMMA IdleTalk ==
  ASSUME pc' = "idle",
         result'.err # "error" /\ result'.op # "cmdpush" => down' = <<>> /\ (net' = "up" => AtRest')
  PROVE  Talk'
<1>1. QuietTalk'
  BY DEF QuietTalk, Quiet
<1>2. LstatTalk' /\ DentsTalk' /\ PullTalk' /\ PushTalk'
  BY DEF LstatTalk, DentsTalk, PullTalk, PushTalk, FilePhases
<1> QED BY <1>1, <1>2 DEF Talk

\* The end of a call that is no push
LEMMA ReadEnds ==
  ASSUME IInv, pc # "idle", call.op \notin PushOps, NEW err \in Errs, Return(err),
         Typed', net' = net, up' = up, dev' = dev, store' = store, size' = size,
         err # "error" => down' = <<>> /\ (net = "up" => AtRest),
         call.op = "pull" /\ err = "nil" =>
           /\ store[call.file] # Absent /\ IsPrefix(disk', store[call.file])
           /\ disk' = store[call.file] \/ net = "cut",
         call.op = "list" /\ err = "nil" => listing' = Present
  PROVE  IInv'
<1>1. /\ pc' = "idle" /\ result'.op = call.op /\ result'.file = call.file /\ result'.err = err
  BY DEF Return
<1>2. Phases'
  BY ReturnPhases DEF IInv, PushOps
<1>3. Unreported' = {} /\ Unreported = {} /\ Pushing' = {} /\ Pushing = {}
  BY ReturnExposes DEF IInv
<1>4. Stream'
  BY DEF IInv, Stream
<1>5. Exposed'
  BY <1>3 DEF IInv, Exposed
<1>6. Present' = Present
  BY DEF Present
<1>7. PulledPrefix' /\ ListTrue'
  BY <1>1, <1>6 DEF PulledPrefix, ListTrue, Ended
<1>8. Kept'
  BY <1>3, <1>7 DEF Kept
<1>9. Talk'
  BY <1>1, IdleTalk DEF AtRest
<1> QED BY <1>2, <1>4, <1>5, <1>8, <1>9 DEF IInv

\* One more step of a call that is no push
LEMMA ReadGoesOn ==
  ASSUME IInv, pc # "idle", call.op \notin PushOps, call' = call, result' = result, pc' # "idle",
         Typed', net' = net, dev' = dev, store' = store, size' = size,
         up' = up \/ \E r \in Requests : r.id \notin OfPush /\ up' = Append(up, r),
         call.op \in OpsAt(pc'), pc' \in {"lstat", "list", "dents", "create", "recv", "pull"},
         pc' = "recv" => disk' = <<>>,
         net # "closed" => Talk'
  PROVE  IInv'
<1>1. Unreported = {} /\ Pushing = {}
  BY NoPush DEF IInv
<1>2. Phases'
  <2>1. call.op \in {"list"} => pc' \notin {"create", "recv", "pull"}
    BY DEF OpsAt
  <2>2. call.file \in File \/ call.op = "list"
    BY DEF IInv, Phases, OpsAt, FilePhases, PushOps
  <2> QED BY <2>1, <2>2 DEF IInv, Phases, FilePhases, PushOps
<1>3. Unreported' = {} /\ Pushing' = {}
  BY Zenon DEF Unreported, Pushing, Latest, PushOps
<1>4. Stream' /\ Exposed'
  <2>1. CASE up' = up
    BY <1>1, <1>3, <2>1 DEF IInv, Stream, Exposed
  <2>2. CASE up' # up
    <3>1. PICK r \in Requests : r.id \notin OfPush /\ up' = Append(up, r)
      BY <2>2
    <3>2. GoesOn(r, up, dev, size) /\ (r.id \in OfPush => r.file \in Unreported)
      BY <3>1 DEF GoesOn, OfPush
    <3>3. Stream'
      BY <3>1, <3>2, AppendStream DEF IInv, Typed, Stream
    <3>4. Exposed'
      BY <1>1, <1>3, <3>1, <3>2, AppendPushesOnly DEF IInv, Typed, Exposed
    <3> QED BY <3>3, <3>4
  <2> QED BY <2>1, <2>2
<1>5. Kept'
  BY <1>3 DEF Kept, PulledPrefix, ListTrue, Ended
<1> QED BY <1>2, <1>4, <1>5 DEF IInv

-----------------------------------------------------------------------------
(***************************************************************************)
(* The steps of Stat, SendList with ReadDent, and PullFile.                *)
(***************************************************************************)
LEMMA StatInv == IInv /\ Stat => IInv'
<1> SUFFICES ASSUME IInv, Stat PROVE IInv'
  OBVIOUS
<1>1. /\ pc = "stat" /\ UNCHANGED <<net, down, dev, store, size, disk, at, toRead, listing, garbled, calls>>
      /\ call.op \in {"stat", "list", "pull"} /\ call.op \notin PushOps /\ call.file \in File \cup {Dir}
  BY DEF Stat, device, IInv, Phases, OpsAt, PushOps
<1>2. CASE WriteFails /\ Return("error")
  <2>1. Typed'
    BY <1>1, <1>2 DEF WriteFails, IInv, Typed
  <2> QED BY <1>1, <1>2, <2>1, ReadEnds DEF WriteFails, Errs
<1>3. CASE Write(Req("STAT", call.file, <<>>)) /\ Go("lstat")
  <2> DEFINE r == Req("STAT", call.file, <<>>)
  <2>1. r \in Requests /\ r.id \notin OfPush
    BY <1>1, ReqOf DEF OfPush
  <2>2. net # "closed" /\ (net = "up" => up' = Append(up, r)) /\ (net # "up" => up' = up)
        /\ pc' = "lstat" /\ call' = call /\ result' = result
    BY <1>3 DEF Write, Go
  <2>3. up' \in Seq(Requests)
    <3> HIDE DEF r
    <3>1. up \in Seq(Requests)
      BY DEF IInv, Typed
    <3> QED BY <2>1, <2>2, <3>1, AppendOf
  <2>4. Typed'
    BY <1>1, <2>3 DEF IInv, Typed
  <2>5. down = <<>> /\ (net = "up" => up = <<>> /\ dev = Idle)
    BY <1>1, <2>2 DEF IInv, Talk, QuietTalk, Quiet, AtRest
  <2>6. net = "up" => up' = <<Req("STAT", call.file, <<>>)>>
    BY <2>2, <2>5
  <2>7. Talk'
    BY <1>1, <2>2, <2>5, <2>6
       DEF Talk, QuietTalk, Quiet, LstatTalk, DentsTalk, PullTalk, PushTalk, FilePhases
  <2> QED BY <1>1, <2>1, <2>2, <2>4, <2>7, ReadGoesOn DEF OpsAt
<1> QED BY <1>2, <1>3 DEF Stat

LEMMA LstatInv == IInv /\ finishLstatV1 => IInv'
<1> SUFFICES ASSUME IInv, finishLstatV1 PROVE IInv'
  OBVIOUS
<1>1. /\ pc = "lstat" /\ UNCHANGED <<net, up, dev, store, size, disk, at, toRead, listing, calls>>
      /\ call.op \in {"stat", "list", "pull"} /\ call.op \notin PushOps
  BY DEF finishLstatV1, device, IInv, Phases, OpsAt, PushOps
<1>2. CASE ReadFails /\ Return("error") /\ UNCHANGED <<down, garbled>>
  <2>1. Typed'
    BY <1>1, <1>2 DEF IInv, Typed
  <2> QED BY <1>1, <1>2, <2>1, ReadEnds DEF Errs
<1>3. ASSUME Reads(Head(down)), down' = Tail(down),
             IF Head(down).id # "STAT" THEN Garble
             ELSE /\ UNCHANGED garbled
                  /\ IF Head(down).n < 0 THEN Return("missing")
                     ELSE CASE call.op = "stat" -> Return("nil")
                            [] call.op = "list" -> Go("list")
                            [] call.op = "pull" -> Go("create")
      PROVE IInv'
  <2>1. net # "closed" /\ down # <<>>
    BY <1>3 DEF Reads
  <2>2. Len(down) = 1 /\ down[1].id = "STAT" /\ (net = "up" => AtRest)
    BY <1>1, <2>1 DEF IInv, Talk, LstatTalk, AtRest
  <2>3. down' = <<>> /\ Head(down) = down[1] /\ down' \in Seq(Items)
    BY <1>3, <2>1, <2>2, TailOf DEF IInv, Typed
  <2>4. garbled' = garbled
        /\ \/ Return("missing")
           \/ call.op = "stat" /\ Return("nil")
           \/ call.op = "list" /\ Go("list")
           \/ call.op = "pull" /\ Go("create")
    BY <1>1, <1>3, <2>2, <2>3
  <2>5. Typed'
    BY <1>1, <2>3, <2>4 DEF IInv, Typed
  <2>6. CASE Return("missing") \/ (call.op = "stat" /\ Return("nil"))
    BY <1>1, <2>2, <2>3, <2>5, <2>6, ReadEnds DEF Errs
  <2>7. CASE (call.op = "list" /\ Go("list")) \/ (call.op = "pull" /\ Go("create"))
    <3>1. call' = call /\ result' = result /\ pc' \in {"list", "create"} /\ call.op \in OpsAt(pc')
      BY <2>7 DEF Go, OpsAt
    <3>2. Talk'
      BY <1>1, <2>2, <2>3, <3>1
         DEF Talk, QuietTalk, Quiet, LstatTalk, DentsTalk, PullTalk, PushTalk, FilePhases, AtRest
    <3> QED BY <1>1, <2>5, <3>1, <3>2, ReadGoesOn
  <2> QED BY <2>4, <2>6, <2>7
<1> QED BY <1>2, <1>3 DEF finishLstatV1

LEMMA SendListInv == IInv /\ SendList => IInv'
<1> SUFFICES ASSUME IInv, SendList PROVE IInv'
  OBVIOUS
<1>1. /\ pc = "list" /\ UNCHANGED <<net, down, dev, store, size, disk, at, toRead, garbled, calls>>
      /\ call.op = "list" /\ call.op \notin PushOps /\ call.file \in File \cup {Dir}
  BY DEF SendList, device, IInv, Phases, OpsAt, PushOps
<1>2. CASE WriteFails /\ Return("error") /\ UNCHANGED listing
  <2>1. Typed'
    BY <1>1, <1>2 DEF WriteFails, IInv, Typed
  <2> QED BY <1>1, <1>2, <2>1, ReadEnds DEF WriteFails, Errs
<1>3. CASE Write(Req("LIST", call.file, <<>>)) /\ Go("dents") /\ listing' = <<>>
  <2> DEFINE r == Req("LIST", call.file, <<>>)
  <2>1. r \in Requests /\ r.id \notin OfPush
    BY <1>1, ReqOf DEF OfPush
  <2>2. net # "closed" /\ (net = "up" => up' = Append(up, r)) /\ (net # "up" => up' = up)
        /\ pc' = "dents" /\ call' = call /\ result' = result
    BY <1>3 DEF Write, Go
  <2>3. up' \in Seq(Requests) /\ listing' \in Seq(File)
    <3> HIDE DEF r
    <3>1. up \in Seq(Requests)
      BY DEF IInv, Typed
    <3>2. up' \in Seq(Requests)
      BY <2>1, <2>2, <3>1, AppendOf
    <3> QED BY <1>3, <3>2, EmptySeq
  <2>4. Typed'
    BY <1>1, <2>3 DEF IInv, Typed
  <2>5. down = <<>> /\ (net = "up" => up = <<>> /\ dev = Idle)
    BY <1>1, <2>2 DEF IInv, Talk, QuietTalk, Quiet, AtRest
  <2>6. net = "up" => up' = <<Req("LIST", call.file, <<>>)>>
    BY <2>2, <2>5
  <2>7. Present' = Present /\ Len(Present) \in Nat
    BY <1>1, PresentOf, EmptyOf DEF Present
  <2>8. DentsTalk'
    BY <1>1, <1>3, <2>2, <2>5, <2>6, <2>7 DEF DentsTalk, RestOfList
  <2>9. Talk'
    BY <2>2, <2>8 DEF Talk, QuietTalk, Quiet, LstatTalk, PullTalk, PushTalk, FilePhases
  <2> QED BY <1>1, <2>1, <2>2, <2>4, <2>9, ReadGoesOn DEF OpsAt
<1> QED BY <1>2, <1>3 DEF SendList

LEMMA ReadDentInv == IInv /\ ReadDent => IInv'
<1> SUFFICES ASSUME IInv, ReadDent PROVE IInv'
  OBVIOUS
<1> DEFINE all == Present  L == Len(listing)  n == Len(all)
<1>1. /\ pc = "dents" /\ UNCHANGED <<net, up, dev, store, size, disk, at, toRead, calls>>
      /\ call.op = "list" /\ call.op \notin PushOps
  BY DEF ReadDent, device, IInv, Phases, OpsAt, PushOps
<1>2. CASE ReadFails /\ Return("error") /\ UNCHANGED <<down, listing, garbled>>
  <2>1. Typed'
    BY <1>1, <1>2 DEF IInv, Typed
  <2> QED BY <1>1, <1>2, <2>1, ReadEnds DEF Errs
<1>3. ASSUME Reads(Head(down)), down' = Tail(down),
             CASE Head(down).id = "DENT" ->
                    Listed(Head(down).byte[1]) /\ UNCHANGED garbled
               [] Head(down).id = "DONE" ->
                    Return("nil") /\ UNCHANGED <<listing, garbled>>
               [] OTHER -> Garble /\ UNCHANGED listing
      PROVE IInv'
  <2>1. net # "closed" /\ down # <<>>
    BY <1>3 DEF Reads
  <2>2. /\ Head(down) = down[1] /\ Len(down) \in Nat /\ Len(down) >= 1
        /\ down' \in Seq(Items) /\ Len(down') = Len(down) - 1
        /\ \A i \in 1..Len(down)-1 : down'[i] = down[i+1]
        /\ down' = <<>> <=> Len(down) = 1
    BY <1>3, <2>1, TailOf DEF IInv, Typed
  <2>3. all \in Seq(File) /\ n \in Nat /\ all' = all /\ \A i \in 1..n : all[i] \in File
    BY <1>1, PresentOf, EmptyOf, ElementOfSeq DEF Present
  <2>4. listing \in Seq(File) /\ L \in Nat
    BY EmptyOf DEF IInv, Typed
  <2> HIDE DEF all
  <2>5. /\ L <= n /\ \A i \in 1..L : listing[i] = all[i]
        /\ L + Len(down) <= n + 1
        /\ \A i \in 1..Len(down) : down[i] = IF L + i <= n THEN Dent(all[L + i]) ELSE Header("DONE", 0)
        /\ net = "up" => dev = Idle /\ up = <<>> /\ L + Len(down) = n + 1
    BY <1>1, <2>1 DEF IInv, Talk, DentsTalk, RestOfList, all
  <2>6. CASE L + 1 <= n
    <3>1. Head(down) = Dent(all[L + 1])
      BY <2>2, <2>5, <2>6
    <3>2. Listed(all[L + 1]) /\ garbled' = garbled
      BY <1>3, <3>1, ItemOf
    <3>3. /\ listing' = Append(listing, all[L + 1]) /\ pc' = "dents" /\ call' = call /\ result' = result
      BY <3>2 DEF Listed, Go
    <3>4. all[L + 1] \in File
      BY <2>3, <2>4, <2>6
    <3>5. /\ listing' \in Seq(File) /\ Len(listing') = L + 1
          /\ \A i \in 1..L : listing'[i] = listing[i]
          /\ listing'[L + 1] = all[L + 1]
      BY <2>4, <3>3, <3>4, AppendOf
    <3>6. Typed'
      BY <1>1, <2>2, <3>2, <3>5 DEF IInv, Typed
    <3>7. \A i \in 1..L+1 : listing'[i] = all[i]
      BY <2>4, <2>5, <3>5, SMTT(30)
    <3>8. RestOfList(down', L + 1, all)
      <4>1. (L + 1) + Len(down') <= n + 1
        BY <2>2, <2>4, <2>5
      <4>2. ASSUME NEW i \in 1..Len(down')
            PROVE  down'[i] = IF (L + 1) + i <= n THEN Dent(all[(L + 1) + i]) ELSE Header("DONE", 0)
        <5>1. i + 1 \in 1..Len(down) /\ down'[i] = down[i + 1] /\ L + (i + 1) = (L + 1) + i
          BY <2>2, <2>4
        <5> QED BY <2>5, <5>1
      <4> QED BY <4>1, <4>2 DEF RestOfList
    <3>9. DentsTalk'
      <4>1. net' = "up" => dev' = Idle /\ up' = <<>> /\ Len(listing') + Len(down') = n + 1
        <5>1. Len(listing') + Len(down') = L + Len(down)
          BY <2>2, <2>4, <3>5
        <5> QED BY <1>1, <2>5, <5>1
      <4>2. Len(listing') <= n
        BY <2>4, <2>6, <3>5
      <4> QED BY <2>3, <3>5, <3>7, <3>8, <4>1, <4>2 DEF DentsTalk, all
    <3>10. Talk'
      BY <3>3, <3>9 DEF Talk, QuietTalk, Quiet, LstatTalk, PullTalk, PushTalk, FilePhases
    <3> QED BY <1>1, <3>3, <3>6, <3>10, ReadGoesOn DEF OpsAt
  <2>7. CASE L + 1 > n
    <3>1. Head(down) = Header("DONE", 0) /\ L = n /\ Len(down) = 1
      BY <2>2, <2>3, <2>4, <2>5, <2>7
    <3>2. Return("nil") /\ listing' = listing /\ garbled' = garbled
      BY <1>3, <3>1, ItemOf
    <3>3. down' = <<>> /\ (net = "up" => AtRest)
      BY <2>2, <2>5, <3>1 DEF AtRest
    <3>4. listing = all
      BY <2>3, <2>4, <2>5, <3>1, SeqEqual
    <3>5. Typed'
      BY <1>1, <2>2, <3>2 DEF IInv, Typed
    <3> QED BY <1>1, <3>2, <3>3, <3>4, <3>5, ReadEnds DEF Errs, all
  <2> QED BY <2>3, <2>4, <2>6, <2>7
<1> QED BY <1>2, <1>3 DEF ReadDent

LEMMA CreateInv == IInv /\ Create => IInv'
<1> SUFFICES ASSUME IInv, Create PROVE IInv'
  OBVIOUS
<1>1. /\ pc = "create"
      /\ UNCHANGED <<net, up, down, dev, store, size, at, toRead, listing, garbled, calls>>
      /\ call.op = "pull" /\ call.op \notin PushOps
  BY DEF Create, device, IInv, Phases, OpsAt, PushOps
<1>2. CASE Return("error") /\ UNCHANGED disk
  <2>1. Typed'
    BY <1>1, <1>2 DEF IInv, Typed
  <2> QED BY <1>1, <1>2, <2>1, ReadEnds DEF Errs
<1>3. CASE disk' = <<>> /\ Go("recv")
  <2>1. pc' = "recv" /\ call' = call /\ result' = result /\ disk' = <<>>
    BY <1>3 DEF Go
  <2>2. Typed'
    BY <1>1, <2>1, EmptySeq DEF IInv, Typed
  <2>3. net # "closed" => Talk'
    BY <1>1, <2>1
       DEF IInv, Talk, QuietTalk, Quiet, LstatTalk, DentsTalk, PullTalk, PushTalk, FilePhases, AtRest
  <2> QED BY <1>1, <2>1, <2>2, <2>3, ReadGoesOn DEF OpsAt
<1> QED BY <1>2, <1>3 DEF Create

LEMMA RecvInv == IInv /\ Recv => IInv'
<1> SUFFICES ASSUME IInv, Recv PROVE IInv'
  OBVIOUS
<1>1. /\ pc = "recv" /\ UNCHANGED <<net, down, dev, store, size, disk, at, listing, garbled, calls>>
      /\ call.op = "pull" /\ call.op \notin PushOps /\ call.file \in File /\ disk = <<>>
  BY DEF Recv, device, IInv, Phases, OpsAt, PushOps
<1>2. CASE WriteFails /\ Return("error") /\ UNCHANGED toRead
  <2>1. Typed'
    BY <1>1, <1>2 DEF WriteFails, IInv, Typed
  <2> QED BY <1>1, <1>2, <2>1, ReadEnds DEF WriteFails, Errs
<1>3. CASE Write(Req("RECV", call.file, <<>>)) /\ Go("pull") /\ toRead' = 0
  <2> DEFINE r == Req("RECV", call.file, <<>>)
  <2>1. r \in Requests /\ r.id \notin OfPush
    BY <1>1, ReqOf, EmptySeq DEF OfPush
  <2>2. net # "closed" /\ (net = "up" => up' = Append(up, r)) /\ (net # "up" => up' = up)
        /\ pc' = "pull" /\ call' = call /\ result' = result /\ toRead' = 0
    BY <1>3 DEF Write, Go
  <2>3. up' \in Seq(Requests)
    <3> HIDE DEF r
    <3>1. up \in Seq(Requests)
      BY DEF IInv, Typed
    <3> QED BY <2>1, <2>2, <3>1, AppendOf
  <2>4. Typed'
    BY <1>1, <2>2, <2>3, BoundsAssumption DEF IInv, Typed
  <2>5. down = <<>> /\ (net = "up" => up = <<>> /\ dev = Idle)
    BY <1>1, <2>2 DEF IInv, Talk, QuietTalk, Quiet, AtRest
  <2>6. net = "up" => up' = <<Req("RECV", call.file, <<>>)>>
    BY <2>2, <2>5
  <2>7. CASE store[call.file] = Absent
    <3>1. PullAbsent'
      BY <1>1, <2>2, <2>5, <2>6 DEF PullAbsent
    <3> QED BY <1>1, <2>1, <2>2, <2>4, <2>7, <3>1, ReadGoesOn
            DEF OpsAt, Talk, QuietTalk, Quiet, LstatTalk, DentsTalk, PullTalk, PushTalk, FilePhases
  <2>8. CASE store[call.file] # Absent
    <3> DEFINE F == store[call.file]  c == [k \in 0..0 |-> 0]
    <3>1. F \in Seq(Bytes) /\ Len(F) \in Nat
      BY <1>1, <2>8, EmptyOf DEF IInv, Typed, Contents
    <3>2. Len(<<>>) = 0
      OBVIOUS
    <3>3. c \in [0..Len(<<>>) -> 0..Len(F)] /\ c[0] = 0
      BY <3>1, <3>2
    <3> HIDE DEF F, c
    <3>4. Chunks(F, c, <<>>, 0, 0)
      BY <3>2, <3>3 DEF Chunks, Chunk
    <3>5. Begins(<<>>, F)
      BY <3>1, <3>2 DEF Begins
    <3>6. PullPresent(F)'
      BY <1>1, <2>2, <2>5, <2>6, <3>2, <3>3, <3>4, <3>5 DEF PullPresent, F
    <3>7. PullTalk'
      BY <1>1, <2>2, <2>8, <3>6 DEF PullTalk, F
    <3> QED BY <1>1, <2>1, <2>2, <2>4, <3>7, ReadGoesOn
            DEF OpsAt, Talk, QuietTalk, Quiet, LstatTalk, DentsTalk, PushTalk, FilePhases
  <2> QED BY <2>7, <2>8
<1> QED BY <1>2, <1>3 DEF Recv

LEMMA PullDef ==
  ASSUME IInv, pc = "pull", net # "closed"
  PROVE  /\ call.op = "pull" /\ call.op \notin PushOps /\ call.file \in File
         /\ store[call.file] = Absent => PullAbsent
         /\ store[call.file] # Absent =>
              /\ store[call.file] \in Contents /\ store[call.file] \in Seq(Bytes)
              /\ PullPresent(store[call.file])
BY DEF IInv, Typed, Contents, Phases, OpsAt, PushOps, Talk, PullTalk

\* A part of the file has been written to the local file.
LEMMA PullTalkGoesOn ==
  ASSUME IInv, pc = "pull", net # "closed", store[call.file] # Absent,
         net' = net, up' = up, dev' = dev, store' = store, call' = call, pc' = "pull",
         NEW b, Begins(disk', store[call.file]), Chunks(store[call.file], b, down', toRead', Len(disk')),
         net = "up" =>
           /\ up = <<>>
           /\ \/ /\ dev.mode = "recv" /\ ~Terminated(down')
                 /\ Whole(down', toRead') /\ Rest(store[call.file], b[Len(down')], dev.got)
              \/ dev = Idle /\ Terminated(down') /\ Whole(down', toRead')
  PROVE  Talk'
<1> DEFINE F == store[call.file]
<1>1. b \in [0..Len(down') -> 0..Len(F)]
  BY DEF Chunks
<1>2. F' = F
  OBVIOUS
<1> HIDE DEF F
<1>3. PullPresent(F)'
  <2>1. \/ net' = "up" /\ net = "up"
        \/ net' # "up"
    OBVIOUS
  <2>2. Begins(disk', F) /\ Chunks(F, b, down', toRead', Len(disk'))
    BY DEF F
  <2>3. net' = "up" =>
         \/ /\ up' = <<>> /\ dev'.mode = "recv" /\ ~Terminated(down')
            /\ Whole(down', toRead') /\ Rest(F, b[Len(down')], dev'.got)
         \/ up' = <<>> /\ dev' = Idle /\ Terminated(down') /\ Whole(down', toRead')
    BY DEF F
  <2> QED BY <1>1, <1>2, <2>2, <2>3 DEF PullPresent
<1>4. PullTalk'
  BY <1>2, <1>3 DEF PullTalk, F
<1> QED BY <1>4 DEF Talk, QuietTalk, Quiet, LstatTalk, DentsTalk, PushTalk, FilePhases

\* The device has gone on with its answer, or the connection has been lost.
LEMMA PullTalkAt ==
  ASSUME store' = store, call' = call, pc' = "pull", store[call.file] # Absent,
         NEW b, Begins(disk', store[call.file]), Chunks(store[call.file], b, down', toRead', Len(disk')),
         net' = "up" =>
           /\ up' = <<>>
           /\ \/ /\ dev'.mode = "recv" /\ ~Terminated(down')
                 /\ Whole(down', toRead') /\ Rest(store[call.file], b[Len(down')], dev'.got)
              \/ dev' = Idle /\ Terminated(down') /\ Whole(down', toRead')
  PROVE  Talk'
<1> DEFINE F == store[call.file]
<1>1. b \in [0..Len(down') -> 0..Len(F)]
  BY DEF Chunks
<1>2. F' = F
  OBVIOUS
<1> HIDE DEF F
<1>3. PullPresent(F)'
  <2>1. Begins(disk', F) /\ Chunks(F, b, down', toRead', Len(disk'))
    BY DEF F
  <2>2. net' = "up" =>
         \/ /\ up' = <<>> /\ dev'.mode = "recv" /\ ~Terminated(down')
            /\ Whole(down', toRead') /\ Rest(F, b[Len(down')], dev'.got)
         \/ up' = <<>> /\ dev' = Idle /\ Terminated(down') /\ Whole(down', toRead')
    BY DEF F
  <2> QED BY <1>1, <1>2, <2>1, <2>2 DEF PullPresent
<1>4. PullTalk'
  BY <1>2, <1>3 DEF PullTalk, F
<1> QED BY <1>4 DEF Talk, QuietTalk, Quiet, LstatTalk, DentsTalk, PushTalk, FilePhases

LEMMA BeginsOf ==
  ASSUME NEW F \in Seq(Bytes), NEW s \in Seq(Bytes), Begins(s, F)
  PROVE  IsPrefix(s, F) /\ (Len(s) = Len(F) => s = F)
<1>1. Len(s) \in Nat /\ Len(F) \in Nat /\ Len(s) <= Len(F) /\ \A i \in 1..Len(s) : s[i] = F[i]
  BY EmptyOf DEF Begins
<1>2. Len(s) \in 0..Len(s) /\ Len(s) \in 0..Len(F)
  BY <1>1
<1>3. /\ SubSeq(s, 1, Len(s)) \in Seq(Bytes) /\ Len(SubSeq(s, 1, Len(s))) = Len(s)
      /\ \A i \in 1..Len(s) : SubSeq(s, 1, Len(s))[i] = s[i]
  BY <1>2, CutOf
<1>4. /\ SubSeq(F, 1, Len(s)) \in Seq(Bytes) /\ Len(SubSeq(F, 1, Len(s))) = Len(s)
      /\ \A i \in 1..Len(s) : SubSeq(F, 1, Len(s))[i] = F[i]
  BY <1>2, CutOf
<1>5. SubSeq(s, 1, Len(s)) = SubSeq(F, 1, Len(s))
  BY <1>1, <1>3, <1>4, SeqEqual
<1>6. Len(s) = Len(F) => s = F
  BY <1>1, SeqEqual
<1> QED BY <1>1, <1>5, <1>6 DEF IsPrefix

LEMMA NextChunkInv == IInv /\ ReadNextChunkSize => IInv'
<1> SUFFICES ASSUME IInv, ReadNextChunkSize PROVE IInv'
  OBVIOUS
<1> DEFINE F == store[call.file]
<1>1. /\ pc = "pull" /\ toRead = 0
      /\ UNCHANGED <<net, up, dev, store, size, disk, at, listing, calls>>
      /\ call.op = "pull" /\ call.op \notin PushOps
  BY DEF ReadNextChunkSize, device, IInv, Phases, OpsAt, PushOps
<1>2. CASE ReadFails /\ Return("error") /\ UNCHANGED <<down, toRead, garbled>>
  <2>1. Typed'
    BY <1>1, <1>2 DEF IInv, Typed
  <2> QED BY <1>1, <1>2, <2>1, ReadEnds DEF Errs
<1>3. ASSUME Reads(Head(down)), down' = Tail(down),
             CASE Head(down).id = "DATA" ->
                       toRead' = Head(down).n /\ Go("pull") /\ UNCHANGED garbled
                  [] Head(down).id = "DONE" -> Return("nil") /\ UNCHANGED <<toRead, garbled>>
                  [] Head(down).id = "FAIL" ->
                       /\ Return(IF Head(down).byte[1] = "absent" THEN "missing" ELSE "error")
                       /\ UNCHANGED <<toRead, garbled>>
                  [] Head(down).id = "OKAY" -> Return("error") /\ UNCHANGED <<toRead, garbled>>
                  [] OTHER -> Garble /\ UNCHANGED toRead
      PROVE IInv'
  <2>1. net # "closed" /\ down # <<>>
    BY <1>3 DEF Reads
  <2>2. /\ Head(down) = down[1] /\ Len(down) \in Nat /\ Len(down) >= 1
        /\ down \in Seq(Items) /\ down' \in Seq(Items) /\ Len(down') = Len(down) - 1
        /\ down' = <<>> <=> Len(down) = 1
        /\ \A i \in 1..Len(down)-1 : down'[i] = down[1+i]
    BY <1>3, <2>1, TailOf DEF IInv, Typed
  <2>3. CASE F = Absent
    <3>1. down = <<Failed("absent")>> /\ (net = "up" => AtRest)
      BY <1>1, <2>1, <2>3, PullDef DEF PullAbsent, AtRest
    <3>2. Head(down).id = "FAIL" /\ Head(down).byte[1] = "absent" /\ down' = <<>>
      BY <2>2, <3>1 DEF Failed
    <3>3. Return("missing") /\ toRead' = toRead /\ garbled' = garbled
      BY <1>3, <3>2
    <3>4. Typed'
      BY <1>1, <2>2, <3>3 DEF IInv, Typed
    <3> QED BY <1>1, <3>1, <3>2, <3>3, <3>4, ReadEnds DEF Errs
  <2>4. CASE F # Absent
    <3>1. F \in Seq(Bytes) /\ PullPresent(F)
      BY <1>1, <2>1, <2>4, PullDef
    <3>2. PICK c \in [0..Len(down) -> 0..Len(F)] :
            /\ Chunks(F, c, down, 0, Len(disk))
            /\ net = "up" =>
                 /\ up = <<>>
                 /\ \/ /\ dev.mode = "recv" /\ ~Terminated(down)
                       /\ Whole(down, 0) /\ Rest(F, c[Len(down)], dev.got)
                    \/ dev = Idle /\ Terminated(down) /\ Whole(down, 0)
      BY <1>1, <2>1, <3>1 DEF PullPresent
    <3>3. disk \in Seq(Bytes) /\ Begins(disk, F) /\ Len(disk) \in Nat /\ Len(F) \in Nat
      BY <3>1, EmptyOf DEF PullPresent, IInv, Typed
    <3> HIDE DEF F
    <3>4. /\ down[1].id \in {"DATA", "DONE", "FAIL"} /\ c[0] = Len(disk)
          /\ down[1].id = "DATA" => c[1] = c[0] /\ down[1].n \in 1..MaxSize /\ Chunk(down, c, 1, down[1].n)
          /\ down[1].id \in {"DONE", "FAIL"} => 1 = Len(down)
          /\ down[1].id = "DONE" => c[0] = Len(F)
      <4>1. c[0] = Len(disk) /\ Chunk(down, c, 0, 0)
        BY <3>2 DEF Chunks
      <4>2. down[1].id # "byte"
        BY <2>2, <4>1 DEF Chunk
      <4>3. 1 \in 1..Len(down) /\ 1 - 1 = 0
        BY <2>2
      <4>4. /\ down[1].id \in {"byte", "DATA", "DONE", "FAIL"}
            /\ down[1].id = "DATA" => c[1] = c[1 - 1] /\ down[1].n \in 1..MaxSize /\ Chunk(down, c, 1, down[1].n)
            /\ down[1].id \in {"DONE", "FAIL"} => 1 = Len(down)
            /\ down[1].id = "DONE" => c[1 - 1] = Len(F)
        BY <3>2, <4>3 DEF Chunks
      <4> QED BY <4>1, <4>2, <4>3, <4>4
    <3>5. CASE down[1].id = "DATA"
      <4> DEFINE n == down[1].n  b == Later(c, down, 1)
      <4>1. n \in Nat /\ n \in 0..MaxSize /\ 1 \in 0..Len(down) /\ Chunk(down, c, 1, n) /\ c[1] = Len(disk)
        BY <2>2, <3>4, <3>5, BoundsAssumption
      <4>2. toRead' = n /\ Go("pull") /\ garbled' = garbled
        BY <1>3, <2>2, <3>5
      <4> HIDE DEF b, n
      <4>3. /\ Chunks(F, b, down', n, Len(disk))
            /\ b[Len(down')] = c[Len(down)]
            /\ 1 + n <= Len(down) /\ Whole(down, 0) => Whole(down', n)
            /\ Terminated(down') => Terminated(down)
            /\ Terminated(down) => 1 = Len(down) \/ Terminated(down')
        <5>1. Reading(F, c, down, 0, Len(disk), 1, n)
          BY <2>2, <3>1, <3>2, <3>3, <4>1 DEF Reading
        <5>2. IsLater(c, down, 1, b, down')
          BY <2>2 DEF b, IsLater
        <5>3. HasRead(F, c, down, 0, 1, n, down', b)
          BY <2>2, <5>1, <5>2, LaterChunks, Zenon
        <5> QED BY <4>1, <5>3 DEF HasRead
      <4>4. Whole(down, 0) => 1 + n <= Len(down)
        BY <2>2, <3>5 DEF Whole, n
      <4>5. ~(Terminated(down) /\ 1 = Len(down))
        BY <3>5 DEF Terminated
      <4>6. pc' = "pull" /\ call' = call /\ result' = result
        BY <4>2 DEF Go
      <4>7. Talk'
        BY <1>1, <2>1, <2>4, <3>2, <3>3, <4>2, <4>3, <4>4, <4>5, <4>6, PullTalkGoesOn DEF F
      <4>8. Typed'
        BY <1>1, <2>2, <4>1, <4>2 DEF IInv, Typed
      <4> QED BY <1>1, <4>6, <4>7, <4>8, ReadGoesOn DEF OpsAt
    <3>6. CASE down[1].id # "DATA"
      <4>1. down' = <<>> /\ Terminated(down)
        BY <2>1, <2>2, <3>4, <3>6 DEF Terminated
      <4>2. net = "up" => AtRest
        BY <3>2, <4>1 DEF AtRest
      <4>3. CASE down[1].id = "DONE"
        <5>1. Return("nil") /\ toRead' = toRead /\ garbled' = garbled
          BY <1>3, <2>2, <4>3
        <5>2. disk' = F /\ IsPrefix(disk', F)
          BY <1>1, <3>1, <3>3, <3>4, <4>3, BeginsOf
        <5>3. Typed'
          BY <1>1, <2>2, <5>1 DEF IInv, Typed
        <5> QED BY <1>1, <2>4, <4>1, <4>2, <5>1, <5>2, <5>3, ReadEnds DEF Errs, F
      <4>4. CASE down[1].id = "FAIL"
        <5>1. PICK err \in {"missing", "error"} : Return(err) /\ toRead' = toRead /\ garbled' = garbled
          BY <1>3, <2>2, <4>4
        <5>2. Typed'
          BY <1>1, <2>2, <5>1 DEF IInv, Typed
        <5> QED BY <1>1, <4>1, <4>2, <5>1, <5>2, ReadEnds DEF Errs
      <4> QED BY <3>4, <3>6, <4>3, <4>4
    <3> QED BY <3>5, <3>6
  <2> QED BY <2>3, <2>4
<1> QED BY <1>2, <1>3 DEF ReadNextChunkSize

\* The rest of a chunk of which w bytes are read
ChunkPart(s, n, w, l) == n \in Nat /\ w \in 0..n /\ w <= Len(s) /\ l = n - w

LEMMA ChunkTail ==
  ASSUME NEW c, NEW s, NEW n, NEW w, NEW l, NEW m, s \in Seq(Items), ChunkPart(s, n, w, l),
         Chunk(s, c, 0, n), c[0] = m, m \in Nat
  PROVE  Chunk(s, c, w, l) /\ c[w] = m + w /\ \A i \in 1..w : c[i] = m + i
<1>1. Len(s) \in Nat /\ n \in Nat /\ w \in 0..n /\ w <= Len(s) /\ l = n - w /\ c[0] = m /\ m \in Nat
  BY EmptyOf DEF ChunkPart
<1>2. /\ \A k \in 0..n : 0 + k <= Len(s) => c[0 + k] = c[0] + k
      /\ \A k \in 1..n : 0 + k <= Len(s) => s[0 + k].id = "byte"
      /\ 0 + n < Len(s) => s[0 + n + 1].id # "byte"
  BY DEF Chunk
<1>3. \A k \in 0..n : k <= Len(s) => c[k] = m + k
  BY <1>1, <1>2
<1>4. c[w] = m + w /\ \A i \in 1..w : c[i] = m + i
  BY <1>1, <1>3
<1>5. ASSUME NEW k \in 0..n-w, w + k <= Len(s) PROVE c[w + k] = c[w] + k
  <2>1. w + k \in 0..n
    BY <1>1
  <2>2. c[w + k] = m + (w + k)
    BY <1>1, <1>3, <1>5, <2>1
  <2> QED BY <1>1, <1>4, <2>2
<1>6. ASSUME NEW k \in 1..n-w, w + k <= Len(s) PROVE s[w + k].id = "byte"
  <2>1. w + k \in 1..n /\ 0 + (w + k) = w + k
    BY <1>1
  <2> QED BY <1>1, <1>2, <1>6, <2>1
<1>7. ASSUME w + (n - w) < Len(s) PROVE s[w + (n - w) + 1].id # "byte"
  <2>1. w + (n - w) + 1 = 0 + n + 1 /\ 0 + n < Len(s)
    BY <1>1, <1>7
  <2> QED BY <1>1, <1>2, <2>1
<1> QED BY <1>1, <1>4, <1>5, <1>6, <1>7 DEF Chunk

\* The bytes of a part of a chunk are written to the local file.
Written(F, s, w, t, v) ==
  /\ F \in Seq(Bytes) /\ s \in Seq(Bytes) /\ Begins(s, F) /\ w \in Nat /\ Len(s) + w <= Len(F)
  /\ \A i \in 1..w : t[i].byte = F[Len(s) + i]
  /\ v = s \o [i \in 1..w |-> t[i].byte]

LEMMA WriteOf ==
  ASSUME NEW F, NEW s, NEW w, NEW t, NEW v, Written(F, s, w, t, v)
  PROVE  v \in Seq(Bytes) /\ Begins(v, F) /\ Len(v) = Len(s) + w
<1> DEFINE p == [i \in 1..w |-> t[i].byte]
<1>9. v = s \o p
  BY DEF Written
<1>0. /\ F \in Seq(Bytes) /\ s \in Seq(Bytes) /\ Begins(s, F) /\ w \in Nat /\ Len(s) + w <= Len(F)
      /\ \A i \in 1..w : t[i].byte = F[Len(s) + i]
  BY DEF Written
<1>1. /\ Len(s) \in Nat /\ Len(F) \in Nat /\ \A i \in 1..Len(s) : s[i] = F[i]
      /\ \A i \in 1..Len(F) : F[i] \in Bytes
  BY <1>0, EmptyOf, ElementOfSeq DEF Begins
<1>2. \A i \in 1..w : p[i] = F[Len(s) + i] /\ p[i] \in Bytes
  <2> SUFFICES ASSUME NEW i \in 1..w PROVE p[i] = F[Len(s) + i] /\ p[i] \in Bytes
    OBVIOUS
  <2>1. Len(s) + i \in 1..Len(F)
    BY <1>0, <1>1
  <2> QED BY <1>0, <1>1, <2>1
<1>3. p \in Seq(Bytes) /\ Len(p) = w
  <2>1. p \in [1..w -> Bytes]
    BY <1>2
  <2> HIDE DEF p
  <2> QED BY <1>0, <2>1
<1> HIDE DEF p
<1>4. /\ v \in Seq(Bytes) /\ Len(v) = Len(s) + w
      /\ \A i \in 1..Len(s)+w : v[i] = IF i <= Len(s) THEN s[i] ELSE p[i - Len(s)]
  BY <1>0, <1>3, <1>9, ConcatProperties
<1>5. ASSUME NEW i \in 1..Len(s)+w PROVE v[i] = F[i]
  <2>1. CASE i <= Len(s)
    <3>1. i \in 1..Len(s)
      BY <1>0, <1>1, <2>1
    <3> QED BY <1>1, <1>4, <2>1, <3>1
  <2>2. CASE ~(i <= Len(s))
    <3>1. i - Len(s) \in 1..w /\ Len(s) + (i - Len(s)) = i
      BY <1>0, <1>1, <2>2
    <3> QED BY <1>2, <1>4, <2>2, <3>1
  <2> QED BY <2>1, <2>2
<1> QED BY <1>0, <1>1, <1>4, <1>5 DEF Begins

LEMMA PayloadInv == IInv /\ ReadPayload => IInv'
<1> SUFFICES ASSUME IInv, ReadPayload PROVE IInv'
  OBVIOUS
<1> DEFINE F == store[call.file]  W == Wanted
<1>1. /\ pc = "pull" /\ toRead > 0 /\ toRead \in 0..MaxSize
      /\ UNCHANGED <<net, up, dev, store, size, at, listing, garbled, calls>>
      /\ call.op = "pull" /\ call.op \notin PushOps
  BY DEF ReadPayload, device, IInv, Typed, Phases, OpsAt, PushOps
<1>2. CASE ReadFails /\ Return("error") /\ UNCHANGED <<down, disk, toRead>>
  <2>1. Typed'
    BY <1>1, <1>2 DEF IInv, Typed
  <2> QED BY <1>1, <1>2, <2>1, ReadEnds DEF Errs
<1>3. W \in Nat /\ W >= 1 /\ W <= toRead /\ toRead \in Nat /\ toRead - W \in 0..MaxSize
  <2>1. toRead \in Int /\ SyncMaxChunkSize \in Int /\ SyncMaxChunkSize >= 1 /\ MaxSize \in Nat
    BY <1>1, ChunkAssumption, BoundsAssumption
  <2>2. Wanted \in {toRead, SyncMaxChunkSize} /\ Wanted <= toRead
    BY <2>1, MinOf DEF Wanted
  <2> QED BY <1>1, <2>1, <2>2
<1>4. ASSUME net # "closed" PROVE F \in Seq(Bytes) /\ F # Absent /\ PullPresent(F)
  BY <1>1, <1>4, PullDef DEF PullAbsent
<1>5. disk \in Seq(Bytes) /\ down \in Seq(Items) /\ Len(disk) \in Nat /\ Len(down) \in Nat
  BY EmptyOf DEF IInv, Typed
<1>6. ASSUME net = "cut", down' = <<>>, disk' = disk, toRead' = toRead,
             Return(IF Arrived(1) THEN "error" ELSE "nil")
      PROVE  IInv'
  <2>1. PICK err \in {"error", "nil"} : Return(err)
    BY <1>6
  <2>2. Begins(disk, F) /\ F \in Seq(Bytes) /\ F # Absent
    BY <1>4, <1>6 DEF PullPresent
  <2>3. IsPrefix(disk', F)
    BY <1>5, <1>6, <2>2, BeginsOf
  <2>4. Typed'
    BY <1>1, <1>6, EmptySeq DEF IInv, Typed
  <2> QED BY <1>1, <1>6, <2>1, <2>2, <2>3, <2>4, ReadEnds DEF Errs
<1>7. ASSUME Reads(Head(down)), Arrived(W), toRead' = toRead - W,
             down' = SubSeq(down, W + 1, Len(down)),
             \/ disk' = disk \o [i \in 1..W |-> down[i].byte] /\ Go("pull")
             \/ Return("error") /\ UNCHANGED disk
      PROVE  IInv'
  <2>1. net # "closed" /\ W <= Len(down) /\ \A i \in 1..W : down[i].id = "byte"
    BY <1>7 DEF Reads, Arrived
  <2> HIDE DEF W
  <2>2. /\ down' \in Seq(Items) /\ Len(down') = Len(down) - W
        /\ \A i \in 1..Len(down)-W : down'[i] = down[W+i]
    <3>1. W \in 0..Len(down)
      BY <1>3, <1>5, <2>1
    <3> QED BY <1>5, <1>7, <3>1, CutOf
  <2>3. CASE Return("error") /\ UNCHANGED disk
    <3>1. Typed'
      BY <1>1, <1>3, <1>7, <2>2, <2>3 DEF IInv, Typed
    <3> QED BY <1>1, <2>3, <3>1, ReadEnds DEF Errs
  <2>4. CASE disk' = disk \o [i \in 1..W |-> down[i].byte] /\ Go("pull")
    <3>1. F \in Seq(Bytes) /\ F # Absent /\ Begins(disk, F) /\ Len(F) \in Nat
      BY <1>4, <2>1, EmptyOf DEF PullPresent
    <3>2. PICK c \in [0..Len(down) -> 0..Len(F)] :
            /\ Chunks(F, c, down, toRead, Len(disk))
            /\ net = "up" =>
                 /\ up = <<>>
                 /\ \/ /\ dev.mode = "recv" /\ ~Terminated(down)
                       /\ Whole(down, toRead) /\ Rest(F, c[Len(down)], dev.got)
                    \/ dev = Idle /\ Terminated(down) /\ Whole(down, toRead)
      BY <1>1, <1>4, <2>1 DEF PullPresent
    <3> HIDE DEF F
    <3> DEFINE l == toRead - W  b == Later(c, down, W)
    <3>3. c[0] = Len(disk) /\ Chunk(down, c, 0, toRead)
      BY <3>2 DEF Chunks
    <3>4. /\ Chunk(down, c, W, l) /\ c[W] = Len(disk) + W
          /\ \A i \in 1..W : c[i] = Len(disk) + i
      <4>1. ChunkPart(down, toRead, W, l)
        BY <1>3, <2>1 DEF ChunkPart
      <4> HIDE DEF l
      <4> QED BY <1>5, <3>3, <4>1, ChunkTail
    <3>5. \A i \in 1..W : down[i].byte = F[Len(disk) + i]
      <4> SUFFICES ASSUME NEW i \in 1..W PROVE down[i].byte = F[Len(disk) + i]
        OBVIOUS
      <4>1. i \in 1..Len(down) /\ down[i].id = "byte"
        BY <1>3, <1>5, <2>1
      <4>2. down[i].byte = F[c[i]]
        BY <3>2, <4>1 DEF Chunks
      <4> QED BY <3>4, <4>2
    <3>6. W \in 0..Len(down) /\ c[W] \in 0..Len(F)
      <4>1. W \in 0..Len(down)
        BY <1>3, <1>5, <2>1
      <4> QED BY <3>2, <4>1
    <3>7. disk' \in Seq(Bytes) /\ Begins(disk', F) /\ Len(disk') = c[W]
      <4>1. Len(disk) + W <= Len(F)
        BY <3>1, <3>4, <3>6
      <4>2. Written(F, disk, W, down, disk')
        BY <1>3, <1>5, <2>4, <3>1, <3>5, <4>1 DEF Written
      <4> QED BY <3>4, <4>2, WriteOf
    <3>8. l \in 0..MaxSize /\ l \in Nat /\ toRead' = l /\ W + l = toRead
      BY <1>3, <1>7
    <3> HIDE DEF l, b
    <3>9. HasRead(F, c, down, toRead, W, l, down', b)
      <4>1. Reading(F, c, down, toRead, Len(disk), W, l)
        BY <1>3, <1>5, <2>1, <3>1, <3>2, <3>4, <3>8 DEF Reading
      <4>2. IsLater(c, down, W, b, down')
        BY <2>2 DEF b, IsLater
      <4> QED BY <2>2, <4>1, <4>2, LaterChunks, Zenon
    <3>10. /\ Chunks(F, b, down', toRead', Len(disk'))
           /\ b[Len(down')] = c[Len(down)]
           /\ Whole(down, toRead) => Whole(down', toRead')
           /\ Terminated(down') => Terminated(down)
           /\ Terminated(down) => W = Len(down) \/ Terminated(down')
      <4>1. Whole(down, toRead) => W + l <= Len(down)
        BY <3>8 DEF Whole
      <4>2. /\ Chunks(F, b, down', l, c[W])
            /\ b[Len(down')] = c[Len(down)]
            /\ W + l <= Len(down) /\ Whole(down, toRead) => Whole(down', l)
            /\ Terminated(down') => Terminated(down)
            /\ Terminated(down) => W = Len(down) \/ Terminated(down')
        BY <3>9, Zenon DEF HasRead
      <4>3. Chunks(F, b, down', toRead', Len(disk'))
        BY <3>7, <3>8, <4>2, Zenon
      <4> QED BY <3>8, <4>1, <4>2, <4>3, Zenon
    <3>11. ~(Terminated(down) /\ W = Len(down))
      <4>1. W = Len(down) => down[Len(down)].id = "byte"
        BY <1>3, <2>1
      <4> QED BY <4>1 DEF Terminated
    <3>12. pc' = "pull" /\ call' = call /\ result' = result
      BY <2>4 DEF Go
    <3>13. Talk'
      <4>1. net = "up" =>
              /\ up = <<>>
              /\ \/ /\ dev.mode = "recv" /\ ~Terminated(down')
                    /\ Whole(down', toRead') /\ Rest(F, b[Len(down')], dev.got)
                 \/ dev = Idle /\ Terminated(down') /\ Whole(down', toRead')
        BY <3>2, <3>10, <3>11
      <4> QED BY <1>1, <2>1, <3>1, <3>7, <3>10, <3>12, <4>1, PullTalkGoesOn DEF F
    <3>14. Typed'
      BY <1>1, <2>2, <3>7, <3>8 DEF IInv, Typed
    <3> QED BY <1>1, <3>12, <3>13, <3>14, ReadGoesOn DEF OpsAt
  <2> QED BY <1>7, <2>3, <2>4
<1>8. \/ ReadFails /\ Return("error") /\ UNCHANGED <<down, disk, toRead>>
      \/ /\ net = "cut" /\ down' = <<>> /\ disk' = disk /\ toRead' = toRead
         /\ Return(IF Arrived(1) THEN "error" ELSE "nil")
      \/ /\ Reads(Head(down)) /\ Arrived(W) /\ toRead' = toRead - W
         /\ down' = SubSeq(down, W + 1, Len(down))
         /\ \/ disk' = disk \o [i \in 1..W |-> down[i].byte] /\ Go("pull")
            \/ Return("error") /\ UNCHANGED disk
  BY DEF ReadPayload
<1> QED BY <1>2, <1>6, <1>7, <1>8

-----------------------------------------------------------------------------
(***************************************************************************)
(* The steps of PushFile and PushDir.                                      *)
(***************************************************************************)
LEMMA PushReturnPhases ==
  ASSUME Phases, pc \in FilePhases, net' = net, size' = size, NEW err \in {"nil", "error"}, PushReturn(err),
         call.op = "cmdpush" => err = "error"
  PROVE  /\ Phases' /\ Pushing' = Pushing
         /\ Unreported' = IF err = "nil" THEN Unreported \ {call.file} ELSE Unreported
         /\ \/ pc' = "idle" /\ call.op # "pushdir" /\ result'.op = call.op /\ result'.err = err
            \/ /\ pc' = "walk" /\ call.op = "pushdir" /\ result' = result
               /\ call'.errs = IF err = "nil" THEN call.errs ELSE call.errs \cup {call.file}
<1>1. call.op \in PushOps /\ call.file \in File /\ call \in CallType
  BY DEF Phases, OpsAt, FilePhases, PushOps
<1>2. CASE call.op # "pushdir"
  <2>1. Return(err)
    BY <1>2 DEF PushReturn
  <2>2. Phases'
    BY <1>2, <2>1, ReturnPhases DEF Errs, FilePhases
  <2>3. /\ pc # "idle" /\ Pushing' = Pushing
        /\ call.op = "cmdpush" => Unreported' = Unreported
        /\ call.op = "push" => Unreported' = IF err = "nil" THEN {} ELSE Unreported
    BY <2>1, ReturnExposes DEF FilePhases
  <2>4. call.op = "push" => Unreported = {call.file}
    BY <2>3 DEF Unreported, Latest
  <2>5. Unreported' = IF err = "nil" THEN Unreported \ {call.file} ELSE Unreported
    BY <1>1, <1>2, <2>3, <2>4 DEF PushOps
  <2>6. pc' = "idle" /\ result'.op = call.op /\ result'.err = err
    BY <2>1 DEF Return
  <2> QED BY <1>2, <2>2, <2>3, <2>5, <2>6
<1>3. CASE call.op = "pushdir"
  <2> DEFINE errs == IF err = "nil" THEN call.errs ELSE call.errs \cup {call.file}
  <2>1. pc' = "walk" /\ call' = [call EXCEPT !.errs = errs] /\ result' = result
    BY <1>3 DEF PushReturn
  <2>2. call.file \in call.pushed \ call.errs /\ call.errs \subseteq call.pushed
    BY <1>3 DEF Phases
  <2>3. /\ call' \in CallType /\ call'.op = call.op /\ call'.file = call.file
        /\ call'.todo = call.todo /\ call'.pushed = call.pushed /\ call'.errs = errs
    BY <1>1, <2>1, <2>2 DEF CallType
  <2>4. Phases'
    <3>1. errs \subseteq call.pushed
      BY <2>2
    <3>2. pc' = "walk" /\ call'.op \in OpsAt(pc')
      BY <1>3, <2>1, <2>3 DEF OpsAt
    <3>3. /\ \A i, j \in DOMAIN call'.todo : call'.todo[i] = call'.todo[j] => i = j
          /\ \A i \in DOMAIN call'.todo : call'.todo[i] \notin call'.pushed
          /\ call'.errs \subseteq call'.pushed
      BY <2>3, <3>1 DEF Phases
    <3>4. /\ result' \in ResultType
          /\ result'.op \in {"stat", "pull", "push", "cmdpush"} => result'.file \in File
          /\ result'.op = "pushdir" /\ result'.err # "error" => result'.errs = {}
          /\ result'.op \in {"push", "pushdir"} => result'.err # "missing"
      BY <2>1 DEF Phases
    <3>5. result'.op = "cmdpush" /\ result'.err # "error" => net' = "closed" /\ result'.err = "nil"
      BY <2>1 DEF Phases
    <3> QED BY <1>1, <2>3, <3>2, <3>3, <3>4, <3>5 DEF Phases, FilePhases
  <2>5. Latest' = call' /\ Latest = call
    BY <2>1 DEF Latest, FilePhases
  <2>6. Pushing' = Pushing
    BY <1>3, <2>3, <2>5 DEF Pushing
  <2>7. Unreported = call.errs \cup {call.file} /\ Unreported' = errs
    BY <1>3, <2>1, <2>3, <2>5 DEF Unreported, FilePhases
  <2> QED BY <1>3, <2>1, <2>2, <2>3, <2>4, <2>6, <2>7
<1> QED BY <1>2, <1>3

\* What is kept when nothing more counts as reported
LEMMA KeptBy ==
  ASSUME Kept, store' = store, size' = size, Pushing' \ Unreported' \subseteq Pushing \ Unreported,
         pc' # "idle" \/ (result'.op \notin {"pull", "list"})
  PROVE  Kept'
<1>1. \A f : Local(f)' = Local(f)
  BY DEF Local
<1>2. PulledPrefix' /\ ListTrue'
  BY DEF PulledPrefix, ListTrue, Ended
<1> QED BY <1>1, <1>2 DEF Kept

LEMMA PushesMore ==
  ASSUME NEW u \in Seq(Requests), NEW d, NEW files, NEW more, PushesOnly(u, d, files), files \subseteq more
  PROVE  PushesOnly(u, d, more)
BY DEF PushesOnly

\* A file is given up.
LEMMA PushFails ==
  ASSUME IInv, pc \in FilePhases, PushReturn("error"), Typed',
         net' = net, up' = up, dev' = dev, store' = store, size' = size,
         net # "closed" => OnlyFails(down'),
         net = "up" /\ pc' = "walk" /\ call'.errs # {} => Tainted' \/ Clean'
  PROVE  IInv'
<1>1. /\ Phases' /\ Pushing' = Pushing /\ Unreported' = Unreported
      /\ \/ pc' = "idle" /\ call.op # "pushdir" /\ result'.op = call.op /\ result'.err = "error"
         \/ /\ pc' = "walk" /\ call.op = "pushdir" /\ result' = result
            /\ call'.errs = call.errs \cup {call.file}
  BY PushReturnPhases DEF IInv
<1>2. call.op \in PushOps
  BY DEF IInv, Phases, OpsAt, FilePhases, PushOps
<1>3. Stream' /\ Exposed'
  BY <1>1 DEF IInv, Stream, Exposed
<1>4. Kept'
  BY <1>1, <1>2, KeptBy DEF IInv, PushOps
<1>5. ASSUME net' # "closed" PROVE Talk'
  <2>1. CASE pc' = "idle"
    BY <1>1, <2>1, IdleTalk
  <2>2. CASE pc' = "walk"
    <3>1. call'.errs # {}
      BY <1>1, <2>2
    <3>2. net = "up" => PushUp'
      BY <2>2, <3>1 DEF IInv, Talk, PushTalk, PushUp, FilePhases
    <3>3. PushTalk'
      BY <1>5, <2>2, <3>1, <3>2 DEF PushTalk
    <3> QED BY <2>2, <3>3 DEF Talk, QuietTalk, Quiet, LstatTalk, DentsTalk, PullTalk, FilePhases
  <2> QED BY <1>1, <2>1, <2>2
<1> QED BY <1>1, <1>3, <1>4, <1>5 DEF IInv

\* A push goes on, with at most one more request.
LEMMA PushGoesOn ==
  ASSUME IInv, pc \in {"walk"} \cup FilePhases, pc' \in {"walk"} \cup FilePhases, Typed', Phases',
         Unreported \subseteq Unreported', Pushing' \ Unreported' \subseteq Pushing \ Unreported,
         net' = net, dev' = dev, store' = store, size' = size, down' = down, result' = result,
         up' = up \/ \E r \in Requests : /\ up' = Append(up, r) /\ r.file \in Unreported'
                                         /\ GoesOn(r, up, dev, size),
         pc' = "walk" /\ call'.errs = {} /\ net # "closed" => down = <<>>,
         net = "up" => PushUp',
         net = "cut" => OnlyFails(down)
  PROVE  IInv'
<1>1. PushesOnly(up, dev, Unreported')
  <2>1. up \in Seq(Requests) /\ PushesOnly(up, dev, Unreported)
    BY DEF IInv, Typed, Exposed
  <2> QED BY <2>1, PushesMore
<1>2. Stream' /\ Exposed'
  <2>1. CASE up' = up
    BY <1>1, <2>1 DEF IInv, Stream, Exposed
  <2>2. CASE up' # up
    <3>1. PICK r \in Requests : up' = Append(up, r) /\ r.file \in Unreported' /\ GoesOn(r, up, dev, size)
      BY <2>2
    <3>2. Stream'
      BY <3>1, AppendStream DEF IInv, Typed, Stream
    <3>3. Exposed'
      BY <1>1, <3>1, AppendPushesOnly DEF IInv, Typed, Exposed
    <3> QED BY <3>2, <3>3
  <2> QED BY <2>1, <2>2
<1>3. Kept'
  BY KeptBy DEF IInv, FilePhases
<1>4. ASSUME net' # "closed" PROVE Talk'
  <2>1. net' = "up" \/ net' = "cut"
    BY <1>4 DEF IInv, Typed
  <2>2. PushTalk'
    BY <2>1 DEF PushTalk
  <2> QED BY <2>2 DEF Talk, QuietTalk, Quiet, LstatTalk, DentsTalk, PullTalk, FilePhases
<1> QED BY <1>2, <1>3, <1>4 DEF IInv

LEMMA TodoOf ==
  ASSUME NEW s \in Seq(File), s # <<>>, NEW done,
         \A i, j \in DOMAIN s : s[i] = s[j] => i = j,
         \A i \in DOMAIN s : s[i] \notin done
  PROVE  /\ Tail(s) \in Seq(File) /\ Head(s) \in File /\ Head(s) \notin done
         /\ \A i, j \in DOMAIN Tail(s) : Tail(s)[i] = Tail(s)[j] => i = j
         /\ \A i \in DOMAIN Tail(s) : Tail(s)[i] \notin done \cup {Head(s)}
<1>1. /\ Len(s) \in Nat /\ Len(s) >= 1
      /\ Tail(s) \in Seq(File) /\ Len(Tail(s)) = Len(s) - 1
      /\ \A i \in 1..Len(s)-1 : Tail(s)[i] = s[i+1]
      /\ Head(s) = s[1] /\ s[1] \in File
  BY TailOf
<1>2. DOMAIN s = 1..Len(s) /\ DOMAIN Tail(s) = 1..Len(s)-1
  BY <1>1, LenProperties
<1>3. \A i \in 1..Len(s)-1 : i + 1 \in 1..Len(s) /\ i + 1 # 1
  BY <1>1
<1>4. 1 \in 1..Len(s)
  BY <1>1
<1>5. ASSUME NEW i \in 1..Len(s)-1, NEW j \in 1..Len(s)-1, Tail(s)[i] = Tail(s)[j] PROVE i = j
  <2>1. i + 1 = j + 1
    BY <1>1, <1>2, <1>3, <1>5
  <2> QED BY <1>1, <2>1
<1>6. \A i \in 1..Len(s)-1 : Tail(s)[i] \notin done /\ Tail(s)[i] # s[1]
  BY <1>1, <1>2, <1>3, <1>4
<1> QED BY <1>1, <1>2, <1>4, <1>5, <1>6

LEMMA WalkReturns ==
  ASSUME IInv, pc = "walk", NEW err \in {"nil", "error"}, Return(err), err = "nil" => call.errs = {}, Typed',
         net' = net, up' = up, down' = down, dev' = dev, store' = store, size' = size
  PROVE  IInv'
<1>1. call.op = "pushdir" /\ pc # "idle"
  BY DEF IInv, Phases, OpsAt
<1>2. pc' = "idle" /\ result'.op = "pushdir" /\ result'.err = err
  BY <1>1 DEF Return
<1>3. Phases'
  BY <1>1, ReturnPhases DEF IInv, Errs
<1>4. Pushing' = Pushing /\ Unreported' = Unreported
  BY <1>1, ReturnExposes DEF IInv
<1>5. Stream' /\ Exposed'
  BY <1>4 DEF IInv, Stream, Exposed
<1>6. Kept'
  BY <1>2, <1>4, KeptBy DEF IInv
<1>7. ASSUME net' # "closed" PROVE Talk'
  <2>1. ASSUME err = "nil" PROVE down = <<>> /\ (net = "up" => AtRest)
    BY <1>7, <2>1 DEF IInv, Talk, PushTalk, PushUp, Tainted, Clean
  <2> QED BY <1>2, <2>1, IdleTalk DEF AtRest
<1> QED BY <1>3, <1>5, <1>6, <1>7 DEF IInv

LEMMA WalkInv == IInv /\ Walk => IInv'
<1> SUFFICES ASSUME IInv, Walk PROVE IInv'
  OBVIOUS
<1>1. /\ pc = "walk"
      /\ UNCHANGED <<net, up, down, dev, store, size, disk, toRead, listing, garbled, calls>>
      /\ call.op = "pushdir" /\ call \in CallType
  BY DEF Walk, device, IInv, Phases, OpsAt
<1>2. CASE call.todo = <<>> /\ Return(IF call.errs = {} THEN "nil" ELSE "error") /\ UNCHANGED at
  <2>1. PICK err \in {"nil", "error"} : Return(err) /\ (err = "nil" => call.errs = {})
    BY <1>2
  <2>2. Typed'
    BY <1>1, <1>2 DEF IInv, Typed
  <2> QED BY <1>1, <2>1, <2>2, WalkReturns
<1>3. CASE call.todo # <<>> /\ Return("error") /\ UNCHANGED at
  <2>1. Typed'
    BY <1>1, <1>3 DEF IInv, Typed
  <2> QED BY <1>1, <1>3, <2>1, WalkReturns
<1>4. ASSUME call.todo # <<>> PROVE
        LET s == call.todo  done == call.pushed
        IN /\ Tail(s) \in Seq(File) /\ Head(s) \in File /\ Head(s) \notin done
           /\ \A i, j \in DOMAIN Tail(s) : Tail(s)[i] = Tail(s)[j] => i = j
           /\ \A i \in DOMAIN Tail(s) : Tail(s)[i] \notin done \cup {Head(s)}
  BY <1>1, <1>4, TodoOf DEF IInv, Phases, CallType
<1> DEFINE rest == Tail(call.todo)  f == Head(call.todo)
<1>5. ASSUME call.todo # <<>>, call' = [call EXCEPT !.todo = Tail(@)], UNCHANGED <<pc, at, result>>
      PROVE  IInv'
  <2>1. /\ rest \in Seq(File)
        /\ \A i, j \in DOMAIN rest : rest[i] = rest[j] => i = j
        /\ \A i \in DOMAIN rest : rest[i] \notin call.pushed
    BY <1>4, <1>5
  <2>2. call' = [call EXCEPT !.todo = rest]
    BY <1>5
  <2> HIDE DEF rest
  <2>3. /\ call' \in CallType /\ call'.op = call.op /\ call'.file = call.file
        /\ call'.todo = rest /\ call'.pushed = call.pushed /\ call'.errs = call.errs
    BY <1>1, <2>1, <2>2 DEF CallType
  <2>4. Phases'
    BY <1>1, <1>5, <2>1, <2>3, SMTT(30) DEF IInv, Phases, OpsAt, FilePhases
  <2>5. Unreported' = Unreported /\ Pushing' = Pushing
    BY <1>1, <1>5, <2>3 DEF Unreported, Pushing, Latest
  <2>6. Typed'
    BY <1>1, <1>5 DEF IInv, Typed
  <2>7. call.errs = {} /\ net # "closed" => down = <<>>
    BY <1>1 DEF IInv, Talk, PushTalk
  <2>8. net = "up" => PushUp'
    <3>1. net = "up" => PushUp
      BY <1>1 DEF IInv, Talk, PushTalk
    <3> QED BY <1>1, <1>5, <2>3, <3>1 DEF PushUp, Tainted, Clean, AtRest
  <2>9. net = "cut" => OnlyFails(down)
    BY <1>1 DEF IInv, Talk, PushTalk
  <2> QED BY <1>1, <1>5, <2>3, <2>4, <2>5, <2>6, <2>7, <2>8, <2>9, PushGoesOn
<1>6. ASSUME call.todo # <<>>, pc' = "open", at' = 0, UNCHANGED result,
             call' = [call EXCEPT !.todo = Tail(@), !.file = Head(call.todo),
                                  !.pushed = @ \cup {Head(call.todo)}]
      PROVE  IInv'
  <2>1. /\ rest \in Seq(File) /\ f \in File /\ f \notin call.pushed
        /\ \A i, j \in DOMAIN rest : rest[i] = rest[j] => i = j
        /\ \A i \in DOMAIN rest : rest[i] \notin call.pushed \cup {f}
    BY <1>4, <1>6
  <2>2. call' = [call EXCEPT !.todo = rest, !.file = f, !.pushed = call.pushed \cup {f}]
    BY <1>6
  <2> HIDE DEF rest, f
  <2>3. /\ call' \in CallType /\ call'.op = call.op /\ call'.file = f
        /\ call'.todo = rest /\ call'.pushed = call.pushed \cup {f} /\ call'.errs = call.errs
    BY <1>1, <2>1, <2>2 DEF CallType
  <2>4. Phases'
    <3>1. call.errs \subseteq call.pushed
      BY DEF IInv, Phases
    <3>2. call'.op \in OpsAt(pc') /\ call'.file \in call'.pushed \ call'.errs /\ call'.errs \subseteq call'.pushed
      BY <1>1, <1>6, <2>1, <2>3, <3>1 DEF OpsAt, PushOps
    <3>3. /\ result' \in ResultType
          /\ result'.op \in {"stat", "pull", "push", "cmdpush"} => result'.file \in File
          /\ result'.op = "pushdir" /\ result'.err # "error" => result'.errs = {}
          /\ result'.op \in {"push", "pushdir"} => result'.err # "missing"
          /\ result'.op = "cmdpush" /\ result'.err # "error" => net' = "closed" /\ result'.err = "nil"
      BY <1>1, <1>6 DEF IInv, Phases
    <3>4. /\ \A i, j \in DOMAIN call'.todo : call'.todo[i] = call'.todo[j] => i = j
          /\ \A i \in DOMAIN call'.todo : call'.todo[i] \notin call'.pushed
      BY <2>1, <2>3
    <3> QED BY <1>1, <1>6, <2>1, <2>3, <3>2, <3>3, <3>4 DEF Phases, FilePhases
  <2>5. Unreported' = Unreported \cup {f} /\ Pushing' = Pushing \cup {f}
    <3>1. Latest = call /\ Latest' = call'
      BY <1>1, <1>6 DEF Latest
    <3>2. Unreported = call.errs /\ Unreported' = call.errs \cup {f}
      BY <1>1, <1>6, <2>3, <3>1 DEF Unreported
    <3>3. Pushing = call.pushed /\ Pushing' = call.pushed \cup {f}
      BY <1>1, <2>3, <3>1 DEF Pushing
    <3> QED BY <3>2, <3>3
  <2>6. Typed'
    BY <1>1, <1>6, BoundsAssumption DEF IInv, Typed
  <2>7. net = "up" => PushUp'
    <3>1. net = "up" => PushUp
      BY <1>1 DEF IInv, Talk, PushTalk
    <3> QED BY <1>1, <1>6, <2>3, <3>1 DEF PushUp, Tainted, Clean, AtRest
  <2>8. net = "cut" => OnlyFails(down)
    BY <1>1 DEF IInv, Talk, PushTalk
  <2>9. pc' \in {"walk"} \cup FilePhases /\ pc' # "walk" /\ Pushing' \ Unreported' \subseteq Pushing \ Unreported
    BY <1>6, <2>5 DEF FilePhases
  <2> QED BY <1>1, <1>6, <2>4, <2>5, <2>6, <2>7, <2>8, <2>9, PushGoesOn
<1> QED BY <1>2, <1>3, <1>5, <1>6 DEF Walk

\* The push of one file goes on.
LEMMA PushStep ==
  ASSUME IInv, pc \in FilePhases, pc' \in FilePhases, call' = call, result' = result,
         call.op \in OpsAt(pc'), pc' = "send" => at' = 0, pc' = "copy" => at' <= size[call.file], Typed',
         net' = net, dev' = dev, store' = store, size' = size, down' = down,
         up' = up \/ \E r \in Requests : up' = Append(up, r) /\ r.file = call.file /\ GoesOn(r, up, dev, size),
         net = "up" => PushUp',
         net = "cut" => OnlyFails(down)
  PROVE  IInv'
<1>1. call.op \in PushOps
  BY DEF IInv, Phases, OpsAt, FilePhases, PushOps
<1>2. Phases'
  BY DEF IInv, Phases, FilePhases
<1>3. Unreported' = Unreported /\ Pushing' = Pushing /\ call.file \in Unreported
  <2>1. Latest = call /\ Latest' = call
    BY DEF Latest, FilePhases
  <2>2. Unreported' = Unreported /\ call.file \in Unreported
    BY <1>1, <2>1 DEF Unreported, FilePhases, PushOps
  <2>3. Pushing' = Pushing
    BY <2>1 DEF Pushing
  <2> QED BY <2>2, <2>3
<1>4. pc' # "walk"
  BY DEF FilePhases
<1>5. up' = up \/ \E r \in Requests : /\ up' = Append(up, r) /\ r.file \in Unreported'
                                      /\ GoesOn(r, up, dev, size)
  BY <1>3
<1> QED BY <1>2, <1>3, <1>4, <1>5, PushGoesOn

LEMMA OpenLocalInv == IInv /\ OpenLocal => IInv'
<1> SUFFICES ASSUME IInv, OpenLocal PROVE IInv'
  OBVIOUS
<1>1. /\ pc = "open" /\ pc \in FilePhases
      /\ UNCHANGED <<net, up, down, dev, store, size, disk, toRead, listing, garbled, calls>>
      /\ call.op \in PushOps
  BY DEF OpenLocal, device, IInv, Phases, OpsAt, FilePhases
<1>2. net = "up" => PushUp
  BY <1>1 DEF IInv, Talk, PushTalk
<1>3. net # "closed" => OnlyFails(down)
  <2>1. net = "up" \/ net = "cut" \/ net = "closed"
    BY DEF IInv, Typed
  <2>2. down = <<>> => OnlyFails(down)
    BY DEF OnlyFails
  <2> QED BY <1>1, <1>2, <2>1, <2>2 DEF IInv, Talk, PushTalk, PushUp, Tainted, Clean
<1>4. CASE Go("send") /\ at' = 0
  <2>1. pc' = "send" /\ call' = call /\ result' = result
    BY <1>4 DEF Go
  <2>2. Typed'
    BY <1>1, <1>4, BoundsAssumption DEF IInv, Typed
  <2>3. net = "up" => PushUp'
    BY <1>1, <1>2, <2>1 DEF PushUp, Tainted, Clean, AtRest
  <2>4. pc' \in FilePhases /\ call.op \in OpsAt(pc')
    BY <1>1, <2>1 DEF FilePhases, OpsAt
  <2> QED BY <1>1, <1>3, <1>4, <2>1, <2>2, <2>3, <2>4, PushStep
<1>5. CASE PushReturn("error") /\ UNCHANGED at
  <2>1. Typed'
    BY <1>1, <1>5 DEF IInv, Typed
  <2>2. ASSUME net = "up", pc' = "walk", call'.errs # {} PROVE Tainted' \/ Clean'
    BY <1>1, <1>2, <2>2 DEF PushUp, Tainted, Clean
  <2> QED BY <1>1, <1>3, <1>5, <2>1, <2>2, PushFails
<1> QED BY <1>4, <1>5 DEF OpenLocal

LEMMA SendInv == IInv /\ Send => IInv'
<1> SUFFICES ASSUME IInv, Send PROVE IInv'
  OBVIOUS
<1> DEFINE r == Req("SEND", call.file, <<>>)
<1>1. /\ pc = "send" /\ pc \in FilePhases /\ at = 0
      /\ UNCHANGED <<net, down, dev, store, size, disk, at, toRead, listing, garbled, calls>>
      /\ call.op \in PushOps /\ call.file \in File /\ size[call.file] \in Nat
      /\ up \in Seq(Requests) /\ dev \in Devices
  BY BoundsAssumption DEF Send, device, IInv, Typed, Phases, OpsAt, FilePhases
<1>2. CASE WriteFails /\ PushReturn("error")
  <2>1. Typed'
    BY <1>1, <1>2 DEF WriteFails, IInv, Typed
  <2>2. net # "closed" => OnlyFails(down)
    BY <1>1, <1>2 DEF WriteFails, IInv, Talk, PushTalk
  <2> QED BY <1>1, <1>2, <2>1, <2>2, PushFails DEF WriteFails
<1>3. CASE Write(r) /\ Go("copy")
  <2>1. r \in Requests /\ r.id = "SEND" /\ r.file = call.file
    <3>1. <<>> \in Seq(Bytes)
      BY EmptySeq
    <3> QED BY <1>1, <3>1 DEF Req, Requests
  <2>2. Offset(r) = 0 /\ GoesOn(r, up, dev, size)
    BY <2>1 DEF Offset, GoesOn
  <2>3. net # "closed" /\ (net = "up" => up' = Append(up, r)) /\ (net # "up" => up' = up)
        /\ pc' = "copy" /\ call' = call /\ result' = result
    BY <1>3 DEF Write, Go
  <2> HIDE DEF r
  <2>4. up' \in Seq(Requests)
    BY <1>1, <2>1, <2>3, AppendOf
  <2>5. Typed'
    BY <1>1, <2>4 DEF IInv, Typed
  <2>6. ASSUME net = "up" PROVE PushUp'
    <3> DEFINE v == Append(up, r)
    <3>1. up' = v
      BY <2>3, <2>6
    <3>2. PushUp
      BY <1>1, <2>6 DEF IInv, Talk, PushTalk
    <3>3. /\ Dead(up, dev) => Dead(v, dev)
          /\ Dead(v, dev) <=> Dead(up, dev) \/ InPush(up, dev)
          /\ InPush(v, dev)
          /\ NoCommit(up, dev) => NoCommit(v, dev)
          /\ NoSend(up) /\ dev.mode # "send" => Unread(v, dev, call.file)
      BY <1>1, <2>1, AppendPush
    <3>4. CopyAt(v, dev, call.file, 0)
      <4>1. CopyAt(Append(up, r), dev, call.file, Offset(r))
        BY <1>1, <2>1, CopyAtStep
      <4> QED BY <2>2, <4>1
    <3>5. \A i \in 1..Len(v) : v[i].id \in OfPush
      BY <1>1, <2>1, <3>2, AppendOf DEF PushUp, OfPush
    <3> HIDE DEF v
    <3>6. Tainted => Tainted'
      BY <1>1, <2>3, <3>1, <3>3 DEF Tainted
    <3>7. Clean => Clean'
      BY <1>1, <2>3, <3>1, <3>3 DEF Clean
    <3> QED BY <1>1, <2>3, <3>1, <3>2, <3>4, <3>5, <3>6, <3>7 DEF PushUp
  <2>7. net = "cut" => OnlyFails(down)
    BY <1>1 DEF IInv, Talk, PushTalk
  <2>8. pc' \in FilePhases /\ call.op \in OpsAt(pc') /\ at' <= size[call.file]
    BY <1>1, <2>3 DEF FilePhases, OpsAt
  <2> QED BY <1>1, <2>1, <2>2, <2>3, <2>5, <2>6, <2>7, <2>8, PushStep
<1> QED BY <1>2, <1>3 DEF Send

LEMMA LocalOf ==
  ASSUME Typed, NEW f \in File
  PROVE  /\ size[f] \in Nat /\ size[f] <= MaxSize
         /\ Local(f) \in Seq(Bytes) /\ Len(Local(f)) = size[f]
         /\ \A i \in 1..size[f] : Local(f)[i] = <<"local", f, i>>
<1>1. size[f] \in 0..MaxSize /\ MaxSize \in Nat
  BY BoundsAssumption DEF Typed
<1>2. \A i \in 1..size[f] : <<"local", f, i>> \in Bytes
  BY <1>1 DEF Bytes
<1>3. Local(f) \in [1..size[f] -> Bytes]
  BY <1>2 DEF Local
<1>4. \A i \in 1..size[f] : Local(f)[i] = <<"local", f, i>>
  BY DEF Local
<1> HIDE DEF Local
<1>5. Local(f) \in Seq(Bytes) /\ Len(Local(f)) = size[f]
  BY <1>1, <1>3
<1> QED BY <1>1, <1>4, <1>5

\* The part of a local file that PushFile sends next
IsPart(s, f, n, m) ==
  /\ f \in File /\ n \in Nat /\ m \in Nat /\ m >= 1 /\ n + m <= size[f]
  /\ s = SubSeq(Local(f), n + 1, n + m)

LEMMA PartOf ==
  ASSUME Typed, NEW s, NEW f, NEW n, NEW m, IsPart(s, f, n, m)
  PROVE  /\ s \in Seq(Bytes) /\ Len(s) = m /\ s # <<>>
         /\ \A i \in 1..m : s[i] = <<"local", f, n + i>>
         /\ Req("DATA", f, s) \in Requests /\ Offset(Req("DATA", f, s)) = n + m
<1>0. /\ f \in File /\ n \in Nat /\ m \in Nat /\ m >= 1 /\ n + m <= size[f]
      /\ s = SubSeq(Local(f), n + 1, n + m)
  BY DEF IsPart
<1>1. /\ size[f] \in Nat /\ Local(f) \in Seq(Bytes) /\ Len(Local(f)) = size[f]
      /\ \A i \in 1..size[f] : Local(f)[i] = <<"local", f, i>> /\ Local(f)[i] \in Bytes
  BY <1>0, LocalOf, ElementOfSeq
<1>2. s \in Seq(Bytes) /\ Len(s) = m /\ \A i \in 1..m : s[i] = Local(f)[n + i]
  <2>1. PICK a \in Int, b \in Int : a = n + 1 /\ b = n + m
    BY <1>0
  <2>2. \A i \in a..b : Local(f)[i] \in Bytes
    <3>1. n \in Int /\ m \in Int /\ n >= 0 /\ n + m <= size[f] /\ size[f] \in Int
      BY <1>0, <1>1
    <3>2. \A i \in a..b : i \in 1..size[f]
      BY <2>1, <3>1
    <3> QED BY <1>1, <3>2
  <2>3. /\ SubSeq(Local(f), a, b) \in Seq(Bytes)
        /\ Len(SubSeq(Local(f), a, b)) = IF a <= b THEN b - a + 1 ELSE 0
        /\ \A i \in 1 .. b - a + 1 : SubSeq(Local(f), a, b)[i] = Local(f)[a + i - 1]
    BY <2>2, SubSeqProperties
  <2>6. s = SubSeq(Local(f), a, b)
    BY <1>0, <2>1
  <2>4. Len(s) = m
    BY <1>0, <2>1, <2>3, <2>6, SMTT(30)
  <2>5. ASSUME NEW i \in 1..m PROVE s[i] = Local(f)[n + i]
    <3>1. i \in 1 .. b - a + 1 /\ a + i - 1 = n + i
      BY <1>0, <2>1
    <3> QED BY <1>0, <2>3, <2>6, <3>1
  <2> QED BY <1>0, <2>3, <2>4, <2>5, <2>6
<1>3. s # <<>>
  <2>1. Len(s) # 0
    BY <1>0, <1>2
  <2> QED BY <1>2, <2>1, EmptyOf
<1>4. ASSUME NEW i \in 1..m PROVE s[i] = <<"local", f, n + i>>
  <2>1. n + i \in 1..size[f]
    BY <1>0, <1>1
  <2> QED BY <1>0, <1>1, <1>2, <2>1
<1>5. Req("DATA", f, s) \in Requests
  BY <1>0, <1>2 DEF Req, Requests
<1>6. Offset(Req("DATA", f, s)) = n + m
  <2>1. s[m] = <<"local", f, n + m>>
    BY <1>0, <1>4
  <2> QED BY <1>0, <1>2, <2>1 DEF Offset, Req
<1> QED BY <1>0, <1>2, <1>3, <1>4, <1>5, <1>6

LEMMA CopyGoesOn ==
  ASSUME NEW u \in Seq(Requests), NEW d, NEW sz, NEW f, NEW n, CopyAt(u, d, f, n),
         NEW r, Follows(r, f, n, sz[f])
  PROVE  GoesOn(r, u, d, sz)
<1>1. CASE u = <<>>
  <2>1. r.file = f
    BY DEF Follows
  <2>2. Busy(d) /\ d.file = f /\ (d.mode = "send" => Len(d.got) = n)
    BY <1>1 DEF CopyAt
  <2>3. Awaited(r, d, sz)
    BY <2>1, <2>2, Zenon DEF Awaited
  <2> QED BY <1>1, <2>3 DEF GoesOn
<1>2. CASE u # <<>>
  <2>1. u[Len(u)].id \in {"SEND", "DATA"} /\ u[Len(u)].file = f /\ Offset(u[Len(u)]) = n
    BY <1>2 DEF CopyAt
  <2> QED BY <1>2, <2>1 DEF GoesOn
<1> QED BY <1>1, <1>2

\* In the middle of a push that the device has not committed, nothing is committed.
LEMMA NothingCommitted ==
  ASSUME NEW u \in Seq(Requests), NEW d, NEW sz, NEW f,
         Adjacent(u, sz), Ahead(u, d, sz), \A i \in 1..Len(u) : u[i].id \in OfPush,
         InPush(u, d), Unread(u, d, f) \/ NoSend(u)
  PROVE  NoCommit(u, d)
<1> DEFINE n == Len(u)
<1>1. n \in Nat
  BY EmptyOf
<1> SUFFICES ASSUME NEW i \in 1..n, u[i].id = "DONE"
             PROVE  d.mode = "discard" /\ \A k \in 1..i : u[k].id # "SEND"
  BY DEF NoCommit
<1>2. i # n /\ u # <<>>
  <2>1. u # <<>>
    BY <1>1, EmptyOf
  <2> QED BY <2>1 DEF InPush
<1>3. i + 1 \in 2..n /\ i + 1 \in 1..n /\ (i + 1) - 1 = i
  BY <1>1, <1>2
<1>4. u[i + 1].id = "SEND"
  <2>1. u[i + 1].id \notin {"DATA", "DONE"}
    BY <1>3 DEF Adjacent
  <2> QED BY <1>3, <2>1 DEF OfPush
<1>5. Unread(u, d, f)
  BY <1>3, <1>4 DEF NoSend
<1>6. d.mode # "send" /\ \A k \in 1..n : u[k].id = "SEND" => k = i + 1
  BY <1>3, <1>4, <1>5 DEF Unread
<1>7. \A k \in 1..i : u[k].id # "SEND"
  BY <1>1, <1>6
<1>8. u[1].id \in {"DATA", "DONE"}
  <2>1. 1 \in 1..i /\ 1 \in 1..n
    BY <1>1
  <2> QED BY <1>7, <2>1 DEF OfPush
<1>9. Busy(d)
  BY <1>2, <1>8 DEF Ahead, Awaited
<1> QED BY <1>6, <1>7, <1>9 DEF Busy

\* What is known while the local file is copied
LEMMA CopyDef ==
  ASSUME IInv, pc = "copy"
  PROVE  /\ pc \in FilePhases /\ call.op \in PushOps /\ call.file \in File
         /\ size[call.file] \in Nat /\ at \in Nat /\ at <= size[call.file] /\ size[call.file] <= MaxSize
         /\ up \in Seq(Requests) /\ dev \in Devices
         /\ net = "up" => PushUp
         /\ net # "closed" => OnlyFails(down)
<1>1. call.file \in File /\ call.op \in PushOps
  BY DEF IInv, Phases, OpsAt, FilePhases
<1>2. size[call.file] \in Nat /\ size[call.file] <= MaxSize
  BY <1>1, LocalOf DEF IInv
<1>3. at \in Nat /\ at <= size[call.file]
  BY BoundsAssumption DEF IInv, Typed, Phases
<1>4. net = "up" => PushUp
  BY DEF IInv, Talk, PushTalk, FilePhases
<1>5. net # "closed" => OnlyFails(down)
  <2>1. net = "up" \/ net = "cut" \/ net = "closed"
    BY DEF IInv, Typed
  <2>2. down = <<>> \/ OneFail => OnlyFails(down)
    BY DEF OnlyFails, OneFail
  <2>3. net = "cut" => OnlyFails(down)
    BY DEF IInv, Talk, PushTalk, FilePhases
  <2> QED BY <1>4, <2>1, <2>2, <2>3 DEF PushUp, Tainted, Clean
<1> QED BY <1>1, <1>2, <1>3, <1>4, <1>5 DEF IInv, Typed, FilePhases

\* A request of the copy is written.
LEMMA CopyWrites ==
  ASSUME IInv, pc = "copy", NEW r \in Requests, Write(r), call' = call, result' = result,
         r.id \in {"DATA", "DONE"}, Follows(r, call.file, at, size[call.file]),
         r.id = "DATA" => pc' = "copy" /\ at' = Offset(r) /\ at' \in 0..MaxSize /\ at' <= size[call.file],
         r.id = "DONE" => pc' = "status" /\ at' = at /\ call.op # "cmdpush",
         UNCHANGED <<net, down, dev, store, size, disk, toRead, listing, garbled, calls>>
  PROVE  IInv'
<1>1. /\ pc \in FilePhases /\ call.op \in PushOps /\ call.file \in File
      /\ up \in Seq(Requests) /\ dev \in Devices
      /\ net = "up" => PushUp
      /\ net # "closed" => OnlyFails(down)
  BY CopyDef
<1>2. net # "closed" /\ (net = "up" => up' = Append(up, r)) /\ (net # "up" => up' = up)
  BY DEF Write
<1>3. r.file = call.file
  BY DEF Follows
<1>4. net = "up" => GoesOn(r, up, dev, size)
  BY <1>1, CopyGoesOn DEF PushUp
<1>5. up' = up \/ (up' = Append(up, r) /\ GoesOn(r, up, dev, size))
  BY <1>2, <1>4
<1>6. Typed'
  <2>1. up' \in Seq(Requests)
    BY <1>1, <1>5, AppendOf
  <2>2. at' \in 0..MaxSize
    BY DEF IInv, Typed
  <2> QED BY <2>1, <2>2 DEF IInv, Typed
<1>7. ASSUME net = "up" PROVE PushUp'
  <2> DEFINE v == Append(up, r)
  <2>1. up' = v /\ PushUp
    BY <1>1, <1>2, <1>7
  <2>2. /\ Dead(v, dev) <=> Dead(up, dev)
        /\ InPush(v, dev) <=> r.id # "DONE"
        /\ NoCommit(up, dev) /\ (r.id = "DONE" => Dead(up, dev)) => NoCommit(v, dev)
        /\ NoSend(up) => NoSend(v)
        /\ Unread(up, dev, call.file) => Unread(v, dev, call.file)
    BY <1>1, AppendPush
  <2>3. r.id = "DATA" => CopyAt(v, dev, call.file, Offset(r))
    BY <1>1, <1>3, CopyAtStep
  <2>4. /\ \A i \in 1..Len(v) : v[i].id \in OfPush
        /\ v # <<>> /\ v[Len(v)] = r
    BY <1>1, <2>1, AppendOf DEF PushUp, OfPush
  <2> HIDE DEF v
  <2>5. Tainted => Tainted'
    BY <2>1, <2>2 DEF Tainted
  <2>6. Clean => Clean'
    <3>1. ASSUME Clean
          PROVE /\ ~Dead(up, dev) /\ InPush(up, dev)
                /\ \/ down = <<>> /\ (Unread(up, dev, call.file) \/ Taking(up, dev, call.file))
                   \/ OneFail /\ Refused(up, dev)
      BY <3>1 DEF Clean
    <3>2. (Taking(up, dev, call.file) => Taking(v, dev, call.file)) /\ (Refused(up, dev) => Refused(v, dev))
      BY <2>2 DEF Taking, Refused
    <3>3. ASSUME Clean
          PROVE /\ ~Dead(v, dev) /\ (InPush(v, dev) <=> r.id # "DONE")
                /\ \/ down = <<>> /\ (Unread(v, dev, call.file) \/ Taking(v, dev, call.file))
                   \/ OneFail /\ Refused(v, dev)
      BY <2>2, <3>1, <3>2, <3>3
    <3>4. OneFail' = OneFail
      BY DEF OneFail
    <3> QED BY <2>1, <3>3, <3>4 DEF Clean
  <2> QED BY <2>1, <2>3, <2>4, <2>5, <2>6 DEF PushUp
<1>8. pc' \in FilePhases /\ call.op \in OpsAt(pc') /\ pc' # "send" /\ (pc' = "copy" => at' <= size[call.file])
  BY <1>1 DEF FilePhases, OpsAt, PushOps
<1>9. net = "cut" => OnlyFails(down)
  BY <1>1
<1> QED BY <1>1, <1>3, <1>5, <1>6, <1>7, <1>8, <1>9, PushStep

LEMMA CopyChunkInv == IInv /\ CopyChunk => IInv'
<1> SUFFICES ASSUME IInv, CopyChunk PROVE IInv'
  OBVIOUS
<1> DEFINE f == call.file  n == Min({SyncMaxChunkSize, size[f] - at})
           data == SubSeq(Local(f), at + 1, at + n)  r == Req("DATA", f, data)
<1>1. /\ pc = "copy" /\ at < size[f]
      /\ UNCHANGED <<net, down, dev, store, size, disk, toRead, listing, garbled, calls>>
  BY DEF CopyChunk, device
<1>2. /\ pc \in FilePhases /\ call.op \in PushOps /\ f \in File
      /\ size[f] \in Nat /\ at \in Nat /\ size[f] <= MaxSize
      /\ up \in Seq(Requests) /\ dev \in Devices
      /\ net = "up" => PushUp
      /\ net # "closed" => OnlyFails(down)
  BY <1>1, CopyDef
<1>3. n \in Nat /\ n >= 1 /\ at + n <= size[f]
  <2>1. SyncMaxChunkSize \in Int /\ SyncMaxChunkSize >= 1 /\ size[f] - at \in Int /\ size[f] - at >= 1
    BY <1>1, <1>2, ChunkAssumption
  <2>2. PICK t \in Int : t = size[f] - at
    BY <2>1
  <2>3. Min({SyncMaxChunkSize, t}) \in {SyncMaxChunkSize, t} /\ Min({SyncMaxChunkSize, t}) <= t
    BY <2>1, MinOf
  <2>4. n \in {SyncMaxChunkSize, size[f] - at} /\ n <= size[f] - at
    BY <2>2, <2>3
  <2> HIDE DEF n
  <2> QED BY <1>2, <2>1, <2>4
<1>4. CASE WriteFails /\ PushReturn("error") /\ UNCHANGED at
  <2>1. Typed'
    BY <1>1, <1>4 DEF WriteFails, IInv, Typed
  <2> QED BY <1>1, <1>2, <1>4, <2>1, PushFails DEF WriteFails
<1>5. CASE PushReturn("error") /\ UNCHANGED <<up, at>>
  <2>1. Typed'
    BY <1>1, <1>5 DEF IInv, Typed
  <2>2. ASSUME net = "up", pc' = "walk", call'.errs # {} PROVE Tainted' \/ Clean'
    <3>1. PushUp
      BY <1>2, <2>2
    <3>2. NoCommit(up, dev) /\ InPush(up, dev)
      <4>1. CASE Tainted
        BY <1>1, <3>1, <4>1 DEF Tainted, PushUp, CopyAt, InPush
      <4>2. CASE Clean
        <5>1. InPush(up, dev) /\ (Unread(up, dev, f) \/ NoSend(up))
          BY <1>1, <4>2 DEF Clean, Taking, Refused
        <5>2. Adjacent(up, size) /\ Ahead(up, dev, size) /\ \A i \in 1..Len(up) : up[i].id \in OfPush
          BY <3>1 DEF IInv, Stream, PushUp
        <5> QED BY <1>2, <5>1, <5>2, NothingCommitted
      <4> QED BY <3>1, <4>1, <4>2 DEF PushUp
    <3> QED BY <1>1, <1>2, <1>5, <2>2, <3>2 DEF Tainted
  <2> QED BY <1>1, <1>2, <1>5, <2>1, <2>2, PushFails
<1>6. CASE Write(r) /\ at' = at + n /\ Go("copy")
  <2>1. /\ data \in Seq(Bytes) /\ Len(data) = n /\ data # <<>>
        /\ \A i \in 1..n : data[i] = <<"local", f, at + i>>
        /\ r \in Requests /\ Offset(r) = at + n
    <3>1. Typed /\ IsPart(data, f, at, n)
      <4> HIDE DEF n
      <4> QED BY <1>2, <1>3 DEF IInv, IsPart
    <3> HIDE DEF n, data
    <3> QED BY <3>1, PartOf
  <2>2. r.id = "DATA" /\ r.file = f /\ r.data = data
    BY DEF Req
  <2> HIDE DEF data, r
  <2>3. Follows(r, f, at, size[f])
    BY <1>3, <2>1, <2>2 DEF Follows
  <2>4. pc' = "copy" /\ call' = call /\ result' = result /\ at' = Offset(r)
    BY <1>6, <2>1 DEF Go
  <2>5. at' \in 0..MaxSize /\ at' <= size[f]
    <3> HIDE DEF n
    <3> QED BY <1>2, <1>3, <1>6, BoundsAssumption
  <2> QED BY <1>1, <1>6, <2>1, <2>2, <2>3, <2>4, <2>5, CopyWrites
<1> QED BY <1>4, <1>5, <1>6 DEF CopyChunk

LEMMA SendDoneInv == IInv /\ SendDone => IInv'
<1> SUFFICES ASSUME IInv, SendDone PROVE IInv'
  OBVIOUS
<1> DEFINE r == Req("DONE", call.file, <<>>)
<1>1. /\ pc = "copy" /\ at = size[call.file] /\ call.op # "cmdpush"
      /\ UNCHANGED <<net, down, dev, store, size, disk, at, toRead, listing, garbled, calls>>
  BY DEF SendDone, device
<1>2. /\ pc \in FilePhases /\ call.op \in PushOps /\ call.file \in File
      /\ size[call.file] \in Nat /\ up \in Seq(Requests) /\ dev \in Devices
      /\ net = "up" => PushUp
      /\ net # "closed" => OnlyFails(down)
  BY <1>1, CopyDef
<1>3. CASE WriteFails /\ PushReturn("error")
  <2>1. Typed'
    BY <1>1, <1>3 DEF WriteFails, IInv, Typed
  <2> QED BY <1>1, <1>2, <1>3, <2>1, PushFails DEF WriteFails
<1>4. CASE Write(r) /\ Go("status")
  <2>1. r \in Requests /\ r.id = "DONE" /\ r.file = call.file
    <3>1. <<>> \in Seq(Bytes)
      BY EmptySeq
    <3> QED BY <1>2, <3>1 DEF Req, Requests
  <2> HIDE DEF r
  <2>2. Follows(r, call.file, at, size[call.file])
    BY <1>1, <2>1 DEF Follows
  <2>3. pc' = "status" /\ call' = call /\ result' = result
    BY <1>4 DEF Go
  <2> QED BY <1>1, <1>4, <2>1, <2>2, <2>3, CopyWrites
<1>5. CASE PushReturn("error") /\ UNCHANGED up
  <2>1. Typed'
    BY <1>1, <1>5 DEF IInv, Typed
  <2>2. ASSUME net = "up", pc' = "walk", call'.errs # {} PROVE Tainted' \/ Clean'
    <3>1. PushUp
      BY <1>2, <2>2
    <3>2. NoCommit(up, dev) /\ InPush(up, dev)
      <4>1. CASE Tainted
        BY <1>1, <3>1, <4>1 DEF Tainted, PushUp, CopyAt, InPush
      <4>2. CASE Clean
        <5>1. InPush(up, dev) /\ (Unread(up, dev, call.file) \/ NoSend(up))
          BY <1>1, <4>2 DEF Clean, Taking, Refused
        <5>2. Adjacent(up, size) /\ Ahead(up, dev, size) /\ \A i \in 1..Len(up) : up[i].id \in OfPush
          BY <3>1 DEF IInv, Stream, PushUp
        <5> QED BY <1>2, <5>1, <5>2, NothingCommitted
      <4> QED BY <3>1, <4>1, <4>2 DEF PushUp
    <3> QED BY <1>1, <1>2, <1>5, <2>2, <3>2 DEF Tainted
  <2> QED BY <1>1, <1>2, <1>5, <2>1, <2>2, PushFails
<1> QED BY <1>3, <1>4, <1>5 DEF SendDone

LEMMA ReadStatusInv == IInv /\ ReadStatus => IInv'
<1> SUFFICES ASSUME IInv, ReadStatus PROVE IInv'
  OBVIOUS
<1>1. /\ pc = "status" /\ pc \in FilePhases
      /\ UNCHANGED <<net, up, dev, store, size, disk, at, toRead, listing, calls>>
      /\ call.op \in {"push", "pushdir"} /\ call.file \in File /\ garbled = FALSE
      /\ down \in Seq(Items) /\ Len(down) \in Nat
  BY EmptyOf DEF ReadStatus, device, IInv, Typed, Phases, OpsAt, FilePhases
<1>2. net = "up" => PushUp
  BY <1>1 DEF IInv, Talk, PushTalk
<1>3. net = "up" \/ net = "cut" \/ net = "closed"
  BY DEF IInv, Typed
<1>4. CASE ReadFails /\ PushReturn("error") /\ UNCHANGED <<down, garbled>>
  <2>1. net = "closed" \/ (net = "cut" /\ down = <<>>)
    BY <1>1, <1>4 DEF ReadFails
  <2>2. net # "closed" => OnlyFails(down')
    BY <1>4, <2>1 DEF OnlyFails
  <2>3. Typed'
    BY <1>1, <1>4 DEF IInv, Typed
  <2> QED BY <1>1, <1>4, <2>1, <2>2, <2>3, PushFails
<1>5. ASSUME Reads(Head(down)),
             LET n == IF Head(down).id = "DATA" THEN Head(down).n ELSE 0
             IN down' = SubSeq(down, 2 + Min({n, Len(down) - 1}), Len(down)),
             CASE Head(down).id = "OKAY" -> PushReturn("nil") /\ UNCHANGED garbled
               [] Head(down).id \in {"FAIL", "DATA", "DONE"} -> PushReturn("error") /\ UNCHANGED garbled
               [] OTHER -> garbled' = TRUE /\ PushReturn("error")
      PROVE  IInv'
  <2>1. net # "closed" /\ down # <<>>
    BY <1>5 DEF Reads
  <2>2. Head(down) = down[1] /\ Len(down) >= 1
    BY <1>1, <2>1, TailOf
  <2>3. OnlyFails(down) \/ Answered
    <3>1. OneFail => OnlyFails(down)
      BY DEF OneFail, OnlyFails
    <3> QED BY <1>1, <1>2, <1>3, <2>1, <3>1 DEF PushUp, Tainted, Clean, IInv, Talk, PushTalk
  <2>4. down[1].id \in {"OKAY", "FAIL"}
    BY <1>1, <2>2, <2>3 DEF OnlyFails, Answered
  <2>5. down' = SubSeq(down, 1 + 1, Len(down))
    <3>1. PICK L \in Int : L = Len(down) - 1 /\ L >= 0
      BY <1>1, <2>2
    <3>2. 0 \in Int /\ Min({0, L}) \in {0, L} /\ Min({0, L}) <= 0
      BY <3>1, MinOf
    <3>3. Min({0, L}) = 0 /\ 2 + 0 = 1 + 1
      BY <3>1, <3>2
    <3>4. down' = SubSeq(down, 2 + Min({0, L}), Len(down))
      BY <1>5, <2>2, <2>4, <3>1
    <3> QED BY <3>3, <3>4
  <2>6. /\ down' \in Seq(Items) /\ Len(down') = Len(down) - 1
        /\ down' = <<>> <=> Len(down) = 1
        /\ \A i \in 1..Len(down)-1 : down'[i] = down[1 + i]
    <3>1. PICK n \in 0..Len(down) : n = 1
      BY <1>1, <2>2
    <3>2. down' = SubSeq(down, n + 1, Len(down))
      BY <2>5, <3>1
    <3>3. /\ down' \in Seq(Items) /\ Len(down') = Len(down) - n
          /\ down' = <<>> <=> n = Len(down)
          /\ \A i \in 1..Len(down)-n : down'[i] = down[n + i]
      BY <1>1, <3>2, CutOf
    <3> QED BY <1>1, <3>1, <3>3
  <2>7. garbled' = garbled
    BY <1>5, <2>2, <2>4
  <2>8. Typed'
    BY <1>1, <2>6, <2>7 DEF IInv, Typed
  <2>9. CASE down[1].id = "FAIL"
    <3>1. PushReturn("error")
      BY <1>5, <2>2, <2>9
    <3>2. OnlyFails(down)
      BY <2>3, <2>9 DEF Answered
    <3>3. OnlyFails(down')
      BY <1>1, <2>6, <3>2 DEF OnlyFails
    <3>4. ASSUME net = "up", pc' = "walk", call'.errs # {} PROVE Tainted' \/ Clean'
      <4>1. CASE Tainted
        BY <1>1, <3>3, <3>4, <4>1 DEF Tainted
      <4>2. CASE Clean
        <5>1. /\ ~Dead(up, dev) /\ ~InPush(up, dev)
              /\ OneFail /\ (Refused(up, dev) \/ AtRest)
          BY <1>1, <2>1, <2>9, <4>2 DEF Clean, Answered
        <5>2. NoSend(up) /\ dev.mode # "send" /\ down' = <<>>
          BY <2>6, <5>1 DEF Refused, OneFail, AtRest, NoSend, Idle
        <5> QED BY <1>1, <3>4, <5>1, <5>2 DEF Clean
      <4> QED BY <1>2, <3>4, <4>1, <4>2 DEF PushUp
    <3> QED BY <1>1, <2>8, <3>1, <3>3, <3>4, PushFails
  <2>10. CASE down[1].id = "OKAY"
    <3>1. PushReturn("nil")
      BY <1>5, <2>2, <2>10
    <3>2. Answered
      BY <1>1, <2>2, <2>3, <2>10 DEF OnlyFails
    <3>3. down' = <<>> /\ up = <<>> /\ dev = Idle /\ store[call.file] = Local(call.file)
      BY <2>6, <3>2 DEF Answered, AtRest
    <3>4. /\ Phases' /\ Pushing' = Pushing /\ Unreported' = Unreported \ {call.file}
          /\ \/ pc' = "idle" /\ call.op # "pushdir" /\ result'.op = call.op /\ result'.err = "nil"
             \/ /\ pc' = "walk" /\ call.op = "pushdir" /\ result' = result /\ call'.errs = call.errs
      BY <1>1, <3>1, PushReturnPhases DEF IInv
    <3>5. Stream'
      BY <1>1 DEF IInv, Stream
    <3>6. Exposed'
      BY <1>1, <3>3 DEF Exposed, PushesOnly, Busy, Idle
    <3>7. Kept'
      <4>1. \A f : Local(f)' = Local(f)
        BY <1>1 DEF Local
      <4>2. PulledPrefix' /\ ListTrue'
        BY <1>1, <3>4 DEF PulledPrefix, ListTrue, Ended
      <4>3. \A f \in Pushing \ Unreported : store[f] = Local(f)
        BY DEF IInv, Kept
      <4>4. \A f \in Pushing' \ Unreported' : store'[f] = Local(f)'
        BY <1>1, <3>3, <3>4, <4>1, <4>3
      <4> QED BY <4>2, <4>4 DEF Kept
    <3>8. Talk'
      <4>1. CASE pc' = "idle"
        BY <1>1, <3>3, <4>1, IdleTalk DEF AtRest
      <4>2. CASE pc' = "walk"
        <5>1. Clean'
          BY <1>1, <3>3, <4>2 DEF Clean, Dead, NoSend, InPush, Busy, Idle, AtRest
        <5>2. PushUp' /\ OnlyFails(down')
          BY <1>1, <3>3, <4>2, <5>1 DEF PushUp, Idle, OnlyFails
        <5>3. PushTalk'
          BY <3>3, <4>2, <5>2 DEF PushTalk
        <5> QED BY <4>2, <5>3 DEF Talk, QuietTalk, Quiet, LstatTalk, DentsTalk, PullTalk, FilePhases
      <4> QED BY <3>4, <4>1, <4>2
    <3> QED BY <2>8, <3>4, <3>5, <3>6, <3>7, <3>8 DEF IInv
  <2> QED BY <2>4, <2>9, <2>10
<1> QED BY <1>4, <1>5 DEF ReadStatus

LEMMA CmdPushInv == IInv /\ CmdPushReturns => IInv'
<1> SUFFICES ASSUME IInv, CmdPushReturns PROVE IInv'
  OBVIOUS
<1>1. PICK err \in {"nil", "error"} :
      /\ pc = "copy" /\ call.op = "cmdpush" /\ net' = "closed" /\ Return(err)
      /\ UNCHANGED <<up, down, dev, store, size, disk, at, toRead, listing, garbled, calls>>
  BY DEF CmdPushReturns, device
<1>2. Typed'
  BY <1>1 DEF IInv, Typed
<1>3. Phases'
  BY <1>1, ReturnPhases DEF IInv, Errs
<1>4. Pushing' = Pushing /\ Unreported' = Unreported
  BY <1>1, ReturnExposes DEF IInv
<1>5. Stream' /\ Exposed'
  BY <1>1, <1>4 DEF IInv, Stream, Exposed
<1>6. result'.op = "cmdpush"
  BY <1>1 DEF Return
<1>7. Kept'
  BY <1>1, <1>4, <1>6, KeptBy DEF IInv
<1> QED BY <1>1, <1>2, <1>3, <1>5, <1>7 DEF IInv

LEMMA CancelInv == IInv /\ Cancel => IInv'
<1> SUFFICES ASSUME IInv, Cancel PROVE IInv'
  OBVIOUS
<1>1. /\ pc # "idle" /\ net' = "closed"
      /\ UNCHANGED <<up, down, dev, store, size, disk, pc, call, at, toRead, listing, garbled, result, calls>>
  BY DEF Cancel, device, client
<1>2. Typed'
  BY <1>1 DEF IInv, Typed
<1>3. Phases'
  BY <1>1 DEF IInv, Phases
<1>4. Pushing' = Pushing /\ Unreported' = Unreported
  BY <1>1 DEF Pushing, Unreported, Latest
<1>5. Stream' /\ Exposed'
  BY <1>1, <1>4 DEF IInv, Stream, Exposed
<1>6. Kept'
  BY <1>1, <1>4, KeptBy DEF IInv
<1> QED BY <1>1, <1>2, <1>3, <1>5, <1>6 DEF IInv

-----------------------------------------------------------------------------
(***************************************************************************)
(* A call begins.                                                          *)
(***************************************************************************)
LEMMA CallInv ==
  ASSUME IInv, NEW op \in AnyOp \ {"none"}, NEW f \in File \cup {Dir}, NEW todo \in Seq(File), Call(op, f, todo),
         op \in {"stat", "pull", "push", "cmdpush"} => f \in File,
         \A i, j \in DOMAIN todo : todo[i] = todo[j] => i = j
  PROVE  IInv'
<1>1. /\ pc = "idle" /\ result.err \in {"nil", "missing"} /\ result.op # "cmdpush"
      /\ calls < MaxCalls /\ calls' = calls + 1
      /\ call' = [op |-> op, file |-> f, todo |-> todo, pushed |-> {}, errs |-> {}]
      /\ UNCHANGED <<net, up, down, dev, store, size, disk, at, toRead, listing, garbled, result>>
  BY DEF Call, device
<1>2. /\ op \in {"stat", "list", "pull"} => pc' = "stat"
      /\ op = "pushdir" => pc' = "walk"
      /\ op \in {"push", "cmdpush"} => pc' = "open"
  BY DEF Call
<1>3. op \in {"stat", "list", "pull", "pushdir", "push", "cmdpush"}
  BY DEF AnyOp, PushOps
<1>4. Typed'
  BY <1>1, BoundsAssumption DEF IInv, Typed
<1>5. /\ call' \in CallType /\ call'.op = op /\ call'.file = f /\ call'.todo = todo
      /\ call'.pushed = {} /\ call'.errs = {}
  BY <1>1 DEF CallType
<1>6. Phases'
  BY <1>1, <1>2, <1>3, <1>5 DEF IInv, Phases, OpsAt, FilePhases, PushOps
<1>7. Unreported = {}
  <2>1. Latest = result
    BY <1>1 DEF Latest
  <2>2. /\ result.op = "pushdir" => result.errs = {}
        /\ result.op = "push" => result.err = "nil"
    BY <1>1 DEF IInv, Phases
  <2> QED BY <1>1, <2>1, <2>2 DEF Unreported
<1>8. Stream' /\ Exposed'
  BY <1>1, <1>7 DEF IInv, Stream, Exposed, PushesOnly
<1>9. Pushing' \ Unreported' = {}
  <2>1. Latest' = call' /\ pc' \in {"stat", "walk", "open"}
    BY <1>2, <1>3 DEF Latest
  <2> QED BY <1>2, <1>3, <1>5, <2>1 DEF Pushing, Unreported
<1>10. Kept'
  <2>1. pc' # "idle"
    BY <1>2, <1>3
  <2> QED BY <1>1, <1>9, <2>1, KeptBy DEF IInv
<1>11. ASSUME net' # "closed" PROVE Talk'
  <2>1. down = <<>> /\ (net = "up" => up = <<>> /\ dev = Idle)
    BY <1>1, <1>11 DEF IInv, Talk, QuietTalk, Quiet, AtRest
  <2>2. CASE pc' = "stat"
    BY <1>1, <2>1, <2>2
       DEF Talk, QuietTalk, Quiet, LstatTalk, DentsTalk, PullTalk, PushTalk, FilePhases, AtRest
  <2>3. CASE pc' \in {"walk", "open"}
    <3>1. net' = "up" => PushUp'
      <4>1. net = "up" => Clean'
        BY <1>1, <2>1, <2>3 DEF Clean, Dead, NoSend, InPush, Busy, Idle, AtRest
      <4> QED BY <1>1, <2>1, <2>3, <4>1 DEF PushUp, Idle
    <3>2. OnlyFails(down') /\ down' = <<>>
      BY <1>1, <2>1 DEF OnlyFails
    <3>3. PushTalk'
      BY <3>1, <3>2 DEF PushTalk
    <3> QED BY <2>3, <3>3 DEF Talk, QuietTalk, Quiet, LstatTalk, DentsTalk, PullTalk
  <2> QED BY <1>2, <1>3, <2>2, <2>3
<1> QED BY <1>4, <1>6, <1>8, <1>10, <1>11 DEF IInv

LEMMA CallAnyInv == IInv /\ CallAny => IInv'
<1> SUFFICES ASSUME IInv, CallAny PROVE IInv'
  OBVIOUS
<1>1. <<>> \in Seq(File) /\ \A i, j \in DOMAIN <<>> : <<>>[i] = <<>>[j] => i = j
  BY EmptySeq
<1>2. ASSUME NEW op \in {"stat", "pull", "push", "cmdpush"}, NEW f \in File, Call(op, f, <<>>) PROVE IInv'
  BY <1>1, <1>2, CallInv DEF AnyOp, PushOps
<1>3. ASSUME Call("list", Dir, <<>>) PROVE IInv'
  BY <1>1, <1>3, CallInv DEF AnyOp, PushOps
<1>4. ASSUME Call("pushdir", Dir, Names) PROVE IInv'
  BY <1>4, NamesOf, CallInv DEF AnyOp, PushOps
<1> QED BY <1>2, <1>3, <1>4 DEF CallAny

-----------------------------------------------------------------------------
(***************************************************************************)
(* The steps of the device.                                                *)
(***************************************************************************)
\* A step changes no file but the one that is being pushed.
StoresOnly == store' = store \/ (Busy(dev) /\ \A f \in File : f # dev.file => store'[f] = store[f])

LEMMA DeviceKeeps ==
  ASSUME IInv, UNCHANGED client, net' = net \/ (net = "up" /\ net' = "cut"), StoresOnly
  PROVE  /\ Phases' /\ Kept' /\ Unreported' = Unreported
         /\ store' = store \/ (Unreported # {} /\ (pc = "idle" \/ call.op \in PushOps))
<1>1. UNCHANGED <<size, disk, pc, call, at, toRead, listing, garbled, result, calls>>
  BY DEF client
<1>2. Unreported' = Unreported /\ Pushing' = Pushing
  BY <1>1 DEF Unreported, Pushing, Latest
<1>3. Phases'
  BY <1>1 DEF IInv, Phases
<1>4. store' = store \/ (Busy(dev) /\ dev.file \in Unreported)
  BY DEF StoresOnly, IInv, Exposed, PushesOnly
<1>5. Pushing \subseteq File
  <2>1. call \in CallType /\ result \in ResultType
    BY DEF IInv, Phases
  <2>2. /\ call.op = "push" => call.file \in File
        /\ result.op = "push" => result.file \in File
    BY FileOfCall DEF IInv, Phases
  <2> QED BY <2>1, <2>2 DEF Pushing, Latest, CallType, ResultType
<1>6. \A f \in Pushing' \ Unreported' : store'[f] = Local(f)'
  <2>1. \A f : Local(f)' = Local(f)
    BY <1>1 DEF Local
  <2>2. \A f \in Pushing \ Unreported : store[f] = Local(f)
    BY DEF IInv, Kept
  <2> QED BY <1>2, <1>4, <1>5, <2>1, <2>2 DEF StoresOnly
<1>7. store' = store \/ (Unreported # {} /\ (pc = "idle" \/ call.op \in PushOps))
  BY <1>4, NoPush DEF IInv
<1>8. PulledPrefix' /\ ListTrue'
  <2>1. CASE store' = store
    <3>1. Present' = Present
      BY <2>1 DEF Present
    <3> QED BY <1>1, <2>1, <3>1 DEF IInv, Kept, PulledPrefix, ListTrue, Ended
  <2>2. CASE pc # "idle"
    BY <1>1, <2>2 DEF PulledPrefix, ListTrue, Ended
  <2>3. CASE store' # store /\ pc = "idle"
    <3>1. result.op \notin {"pull", "list"}
      BY <1>7, <2>3 DEF Unreported, Latest
    <3> QED BY <1>1, <3>1 DEF PulledPrefix, ListTrue, Ended
  <2> QED BY <2>1, <2>2, <2>3
<1> QED BY <1>2, <1>3, <1>6, <1>7, <1>8 DEF Kept

\* Where the call is when the device has something to do
LEMMA UpCases ==
  ASSUME IInv, net = "up", ~AtRest
  PROVE  \/ pc = "idle" /\ (result.err = "error" \/ result.op = "cmdpush")
         \/ /\ pc = "lstat" /\ dev = Idle /\ down = <<>>
            /\ \E f \in File \cup {Dir} : up = <<Req("STAT", f, <<>>)>>
         \/ /\ pc = "dents" /\ dev = Idle /\ down = <<>> /\ listing = <<>>
            /\ \E f \in File \cup {Dir} : up = <<Req("LIST", f, <<>>)>>
         \/ pc = "pull" /\ call.op = "pull" /\ call.file \in File
         \/ pc \in {"walk"} \cup FilePhases /\ PushUp
<1>1. Talk /\ Phases
  BY DEF IInv
<1>2. ~Quiet
  BY <1>1 DEF Talk, QuietTalk
<1>3. pc = "pull" => call.op = "pull" /\ call.file \in File
  BY <1>1 DEF Phases, OpsAt
<1>4. pc \in {"idle", "stat", "lstat", "list", "dents", "create", "recv", "pull", "walk"} \cup FilePhases
  BY <1>1 DEF Phases
<1>5. pc = "lstat" => /\ dev = Idle /\ down = <<>>
                      /\ \E f \in File \cup {Dir} : up = <<Req("STAT", f, <<>>)>>
  BY <1>1 DEF Talk, LstatTalk, AtRest
<1>6. pc = "dents" => /\ dev = Idle /\ down = <<>> /\ listing = <<>>
                      /\ \E f \in File \cup {Dir} : up = <<Req("LIST", f, <<>>)>>
  BY <1>1 DEF Talk, DentsTalk, AtRest
<1>7. pc \in {"walk"} \cup FilePhases => PushUp
  BY <1>1 DEF Talk, PushTalk
<1> QED BY <1>2, <1>3, <1>4, <1>5, <1>6, <1>7 DEF Quiet

\* The exchange has ended: what the device does is not heard.
LEMMA DeviceUnheard ==
  ASSUME IInv, net # "up", net' = net, down' = down, UNCHANGED client, ~AtRest, StoresOnly,
         Typed', Stream', Exposed'
  PROVE  IInv'
<1>1. /\ Phases' /\ Kept' /\ Unreported' = Unreported
      /\ store' = store \/ (Unreported # {} /\ (pc = "idle" \/ call.op \in PushOps))
  BY DeviceKeeps
<1>2. UNCHANGED <<size, disk, pc, call, at, toRead, listing, garbled, result, calls>>
  BY DEF client
<1>3. ASSUME net' # "closed" PROVE Talk'
  <2>1. Talk /\ Phases
    BY <1>3 DEF IInv
  <2>2. QuietTalk' /\ LstatTalk'
    BY <1>2, <2>1 DEF Talk, QuietTalk, Quiet, LstatTalk
  <2>3. pc \in {"dents", "pull"} => store' = store
    BY <1>1, <2>1 DEF Phases, OpsAt, PushOps
  <2>4. DentsTalk'
    <3>1. pc = "dents" => Present' = Present
      BY <2>3 DEF Present
    <3> QED BY <1>2, <2>1, <3>1 DEF Talk, DentsTalk
  <2>5. PullTalk'
    <3> SUFFICES ASSUME pc' = "pull" PROVE PullTalk'
      BY DEF PullTalk
    <3>1. pc = "pull" /\ store' = store
      BY <1>2, <2>3
    <3>2. PullAbsent => PullAbsent'
      BY <1>2 DEF PullAbsent
    <3>3. PullPresent(store[call.file]) => PullPresent(store[call.file])'
      BY <1>2, <3>1 DEF PullPresent
    <3> QED BY <1>2, <2>1, <3>1, <3>2, <3>3 DEF Talk, PullTalk
  <2>6. PushTalk'
    BY <1>2, <2>1 DEF Talk, PushTalk, Answered
  <2> QED BY <2>2, <2>4, <2>5, <2>6 DEF Talk
<1> QED BY <1>1, <1>3 DEF IInv

\* What the device does is heard, or ends the exchange.
LEMMA DeviceHeard ==
  ASSUME IInv, net = "up", net' \in {"up", "cut"}, UNCHANGED client, StoresOnly,
         Typed', Stream', Exposed',
         pc = "idle" => result.err = "error" \/ result.op = "cmdpush",
         pc # "idle" => Talk'
  PROVE  IInv'
<1>1. Phases' /\ Kept'
  BY DeviceKeeps
<1>2. pc = "idle" => Talk'
  BY IdleTalk DEF client
<1> QED BY <1>1, <1>2 DEF IInv

\* The device takes a request.
LEMMA TakesOne ==
  ASSUME IInv, up # <<>>, up' = Tail(up), UNCHANGED client, net' = net, StoresOnly,
         TakenIn(up[1], dev, dev'), Taken(dev', size), Busy(dev') => dev'.file \in Unreported
  PROVE  Stream' /\ Exposed' /\ up' \in Seq(Requests)
<1>1. up \in Seq(Requests) /\ Adjacent(up, size) /\ PushesOnly(up, dev, Unreported) /\ size' = size
  BY DEF IInv, Typed, Stream, Exposed, client
<1>2. Unreported' = Unreported
  BY DeviceKeeps
<1>3. Adjacent(up', size) /\ Ahead(up', dev', size)
  BY <1>1, TailStream
<1>4. PushesOnly(up', dev', Unreported)
  BY <1>1, TailPushesOnly
<1>5. up' \in Seq(Requests)
  BY <1>1, TailOf
<1> QED BY <1>1, <1>2, <1>3, <1>4, <1>5 DEF Stream, Exposed

LEMMA RequestOf ==
  ASSUME IInv, up # <<>>
  PROVE  /\ Head(up) = up[1] /\ up[1] \in Requests /\ ~AtRest /\ up[1].file \in File \cup {Dir}
         /\ up[1].id \in {"RECV", "SEND", "DATA", "DONE"} => up[1].file \in File
         /\ up[1].id \in OfPush => up[1].file \in Unreported
<1>1. Head(up) = up[1] /\ up[1] \in Requests /\ Len(up) >= 1 /\ Len(up) \in Nat
  BY TailOf DEF IInv, Typed
<1>2. up[1].id \in OfPush => up[1].file \in Unreported
  BY <1>1 DEF IInv, Exposed, PushesOnly
<1>3. /\ up[1].file \in File \cup {Dir}
      /\ up[1].id \in {"RECV", "SEND", "DATA", "DONE"} => up[1].file \in File
  BY <1>1 DEF Requests
<1> QED BY <1>1, <1>2, <1>3 DEF AtRest

LEMMA DeviceStatInv == IInv /\ DeviceStat => IInv'
<1> SUFFICES ASSUME IInv, DeviceStat PROVE IInv'
  OBVIOUS
<1> DEFINE f == Head(up).file
<1>1. /\ dev.mode = "idle" /\ up # <<>> /\ Head(up).id = "STAT" /\ up' = Tail(up)
      /\ UNCHANGED <<net, dev, store, client>>
  BY DEF DeviceStat, Handle, device
<1>2. /\ Head(up) = up[1] /\ up[1] \in Requests /\ ~AtRest /\ f \in File \cup {Dir}
  BY <1>1, RequestOf
<1>3. PICK n \in -1..MaxSize : Reply(<<Header("STAT", n)>>)
  <2>1. 0 \in -1..MaxSize /\ -1 \in -1..MaxSize
    BY BoundsAssumption
  <2>2. CASE f = Dir
    BY <2>1, <2>2 DEF DeviceStat
  <2>3. CASE f # Dir
    <3>1. store[f] = Absent \/ store[f] \in Contents
      BY <1>2, <2>3 DEF IInv, Typed
    <3>2. store[f] # Absent => Len(store[f]) \in -1..MaxSize
      BY <3>1, EmptyOf, BoundsAssumption DEF Contents
    <3> QED BY <2>1, <2>3, <3>2 DEF DeviceStat
  <2> QED BY <2>2, <2>3
<1>4. Header("STAT", n) \in Items /\ Header("STAT", n).id = "STAT"
  BY ItemOf
<1> DEFINE item == Header("STAT", n)
<1> HIDE DEF item
<1>5. /\ net = "up" => down' = down \o <<item>>
      /\ net # "up" => down' = down
  BY <1>3 DEF Reply, item
<1>6. StoresOnly
  BY <1>1 DEF StoresOnly
<1>7. Stream' /\ Exposed' /\ up' \in Seq(Requests)
  <2>1. TakenIn(up[1], dev, dev')
    BY <1>1, <1>2 DEF TakenIn
  <2>2. Taken(dev', size) /\ ~Busy(dev')
    BY <1>1 DEF Taken, Busy
  <2> QED BY <1>1, <1>6, <2>1, <2>2, TakesOne
<1>8. Typed'
  <2>1. down \in Seq(Items) /\ <<item>> \in Seq(Items)
    BY <1>4 DEF IInv, Typed, item
  <2>2. down' \in Seq(Items)
    BY <1>5, <2>1, ConcatProperties
  <2> QED BY <1>1, <1>7, <2>2 DEF IInv, Typed, client
<1>9. CASE net # "up"
  BY <1>1, <1>2, <1>5, <1>6, <1>7, <1>8, <1>9, DeviceUnheard
<1>10. CASE net = "up"
  <2>1. ASSUME pc = "lstat" PROVE Talk'
    <3>1. down = <<>> /\ dev = Idle /\ \E g \in File \cup {Dir} : up = <<Req("STAT", g, <<>>)>>
      BY <1>2, <1>10, <2>1, UpCases DEF FilePhases
    <3>2. up' = <<>> /\ down' = <<item>>
      BY <1>1, <1>5, <1>10, <3>1
    <3>3. Len(down') = 1 /\ down'[1].id = "STAT" /\ down' # <<>>
      BY <1>4, <3>2 DEF item
    <3>4. LstatTalk'
      BY <1>1, <3>1, <3>2, <3>3 DEF LstatTalk
    <3> QED BY <1>1, <2>1, <3>4
            DEF Talk, QuietTalk, Quiet, DentsTalk, PullTalk, PushTalk, FilePhases, client
  <2>2. pc \in {"idle", "lstat"} /\ (pc = "idle" => result.err = "error" \/ result.op = "cmdpush")
    <3>1. up[1].id = "STAT"
      BY <1>1, <1>2
    <3>2. \A g : <<Req("LIST", g, <<>>)>>[1].id = "LIST" /\ <<Req("RECV", g, <<>>)>>[1].id = "RECV"
      BY DEF Req
    <3>3. ~(pc = "pull")
      BY <1>1, <1>10, <3>1, <3>2, PullDef DEF PullAbsent, PullPresent
    <3>4. ~PushUp
      <4>1. 1 \in 1..Len(up)
        BY <1>1, EmptyOf DEF IInv, Typed
      <4> QED BY <3>1, <4>1 DEF PushUp, OfPush
    <3> QED BY <1>2, <1>10, <3>1, <3>2, <3>3, <3>4, UpCases
  <2> QED BY <1>1, <1>6, <1>7, <1>8, <1>10, <2>1, <2>2, DeviceHeard
<1> QED BY <1>9, <1>10

\* The reply to LIST
LEMMA ListingOf ==
  ASSUME NEW all \in Seq(File)
  PROVE  LET s == [i \in DOMAIN all |-> Dent(all[i])] \o <<Header("DONE", 0)>>
         IN s \in Seq(Items) /\ Len(s) = Len(all) + 1 /\ RestOfList(s, 0, all)
<1> DEFINE n == Len(all)  p == [i \in DOMAIN all |-> Dent(all[i])]  e == Header("DONE", 0)  s == p \o <<e>>
<1>1. n \in Nat /\ DOMAIN all = 1..n /\ \A i \in 1..n : all[i] \in File
  BY LenProperties, ElementOfSeq
<1>2. e \in Items /\ \A f \in File : Dent(f) \in Items
  BY ItemOf
<1> HIDE DEF e
<1>3. p \in Seq(Items) /\ Len(p) = n /\ \A i \in 1..n : p[i] = Dent(all[i])
  <2>1. p \in [1..n -> Items]
    BY <1>1, <1>2
  <2>2. \A i \in 1..n : p[i] = Dent(all[i])
    BY <1>1
  <2> HIDE DEF p
  <2> QED BY <1>1, <2>1, <2>2
<1> HIDE DEF p
<1>4. <<e>> \in Seq(Items) /\ Len(<<e>>) = 1 /\ <<e>>[1] = e
  BY <1>2
<1>5. /\ s \in Seq(Items) /\ Len(s) = n + 1
      /\ \A i \in 1..n+1 : s[i] = IF i <= n THEN p[i] ELSE <<e>>[i - n]
  BY <1>3, <1>4, ConcatProperties
<1> HIDE DEF s
<1>6. ASSUME NEW i \in 1..n+1 PROVE s[i] = IF 0 + i <= n THEN Dent(all[0 + i]) ELSE Header("DONE", 0)
  <2>1. CASE i <= n
    <3>1. i \in 1..n /\ 0 + i = i
      BY <1>1, <2>1
    <3> QED BY <1>3, <1>5, <2>1, <3>1
  <2>2. CASE ~(i <= n)
    <3>1. i - n = 1 /\ 0 + i = i
      BY <1>1, <2>2
    <3> QED BY <1>4, <1>5, <2>2, <3>1 DEF e
  <2> QED BY <2>1, <2>2
<1>7. RestOfList(s, 0, all)
  BY <1>1, <1>5, <1>6 DEF RestOfList
<1> QED BY <1>5, <1>7 DEF s, p, e

LEMMA DeviceListInv == IInv /\ DeviceList => IInv'
<1> SUFFICES ASSUME IInv, DeviceList PROVE IInv'
  OBVIOUS
<1> DEFINE all == Present  items == [i \in DOMAIN all |-> Dent(all[i])] \o <<Header("DONE", 0)>>
<1>1. /\ dev.mode = "idle" /\ up # <<>> /\ Head(up).id = "LIST" /\ up' = Tail(up) /\ Reply(items)
      /\ UNCHANGED <<net, dev, store, client>>
  BY DEF DeviceList, Handle, device
<1>2. Head(up) = up[1] /\ ~AtRest
  BY <1>1, RequestOf
<1>3. all \in Seq(File) /\ all' = all /\ Len(all) \in Nat
  BY <1>1, PresentOf, EmptyOf DEF Present
<1> HIDE DEF all
<1>4. items \in Seq(Items) /\ Len(items) = Len(all) + 1 /\ RestOfList(items, 0, all)
  BY <1>3, ListingOf
<1> HIDE DEF items
<1>5. /\ net = "up" => down' = down \o items
      /\ net # "up" => down' = down
  BY <1>1 DEF Reply
<1>6. StoresOnly
  BY <1>1 DEF StoresOnly
<1>7. Stream' /\ Exposed' /\ up' \in Seq(Requests)
  <2>1. TakenIn(up[1], dev, dev')
    BY <1>1, <1>2 DEF TakenIn
  <2>2. Taken(dev', size) /\ ~Busy(dev')
    BY <1>1 DEF Taken, Busy
  <2> QED BY <1>1, <1>6, <2>1, <2>2, TakesOne
<1>8. Typed'
  <2>1. down \in Seq(Items)
    BY DEF IInv, Typed
  <2>2. down' \in Seq(Items)
    BY <1>4, <1>5, <2>1, ConcatProperties
  <2> QED BY <1>1, <1>7, <2>2 DEF IInv, Typed, client
<1>9. CASE net # "up"
  BY <1>1, <1>2, <1>5, <1>6, <1>7, <1>8, <1>9, DeviceUnheard
<1>10. CASE net = "up"
  <2>1. ASSUME pc = "dents" PROVE Talk'
    <3>1. down = <<>> /\ dev = Idle /\ listing = <<>> /\ \E g \in File \cup {Dir} : up = <<Req("LIST", g, <<>>)>>
      BY <1>2, <1>10, <2>1, UpCases DEF FilePhases
    <3>2. up' = <<>>
      BY <1>1, <3>1
    <3>3. down' = items
      BY <1>4, <1>5, <1>10, <3>1
    <3>4. Len(listing) = 0 /\ \A i \in 1..Len(listing) : listing[i] = all[i]
      BY <3>1
    <3>5. DentsTalk'
      BY <1>1, <1>3, <1>4, <3>1, <3>2, <3>3, <3>4 DEF DentsTalk, all, client
    <3> QED BY <1>1, <2>1, <3>5
            DEF Talk, QuietTalk, Quiet, LstatTalk, PullTalk, PushTalk, FilePhases, client
  <2>2. pc \in {"idle", "dents"} /\ (pc = "idle" => result.err = "error" \/ result.op = "cmdpush")
    <3>1. up[1].id = "LIST"
      BY <1>1, <1>2
    <3>2. \A g : <<Req("STAT", g, <<>>)>>[1].id = "STAT" /\ <<Req("RECV", g, <<>>)>>[1].id = "RECV"
      BY DEF Req
    <3>3. ~(pc = "pull")
      BY <1>1, <1>10, <3>1, <3>2, PullDef DEF PullAbsent, PullPresent
    <3>4. ~PushUp
      <4>1. 1 \in 1..Len(up)
        BY <1>1, EmptyOf DEF IInv, Typed
      <4> QED BY <3>1, <4>1 DEF PushUp, OfPush
    <3> QED BY <1>2, <1>10, <3>1, <3>2, <3>3, <3>4, UpCases
  <2> QED BY <1>1, <1>6, <1>7, <1>8, <1>10, <2>1, <2>2, DeviceHeard
<1> QED BY <1>9, <1>10

LEMMA DeviceRecvInv == IInv /\ DeviceRecv => IInv'
<1> SUFFICES ASSUME IInv, DeviceRecv PROVE IInv'
  OBVIOUS
<1> DEFINE F == store[Head(up).file]
<1>1. /\ dev.mode = "idle" /\ up # <<>> /\ Head(up).id = "RECV" /\ up' = Tail(up)
      /\ UNCHANGED <<net, store, client>>
      /\ \/ F = Absent /\ Reply(<<Failed("absent")>>) /\ dev' = dev
         \/ /\ F # Absent /\ down' = down
            /\ dev' = [mode |-> "recv", file |-> Head(up).file, got |-> F]
  BY DEF DeviceRecv, Handle
<1>2. Head(up) = up[1] /\ ~AtRest /\ Head(up).file \in File
  BY <1>1, RequestOf
<1>3. F = Absent \/ F \in Contents
  BY <1>2 DEF IInv, Typed
<1>4. /\ dev' \in Devices /\ ~Busy(dev') /\ dev'.mode # "send"
  BY <1>1, <1>2, <1>3 DEF IInv, Typed, Devices, Busy, Idle
<1>5. StoresOnly
  BY <1>1 DEF StoresOnly
<1>6. Stream' /\ Exposed' /\ up' \in Seq(Requests)
  <2>1. TakenIn(up[1], dev, dev')
    BY <1>1, <1>2 DEF TakenIn
  <2>2. Taken(dev', size)
    BY <1>4 DEF Taken
  <2> QED BY <1>1, <1>4, <1>5, <2>1, <2>2, TakesOne
<1>7. /\ down' = down \/ down' = down \o <<Failed("absent")>>
      /\ net # "up" => down' = down
  BY <1>1 DEF Reply
<1>8. Typed'
  <2>1. down \in Seq(Items) /\ <<Failed("absent")>> \in Seq(Items)
    BY ItemOf DEF IInv, Typed
  <2>2. down' \in Seq(Items)
    BY <1>7, <2>1, ConcatProperties
  <2> QED BY <1>1, <1>4, <1>6, <2>2 DEF IInv, Typed, client
<1>9. CASE net # "up"
  BY <1>1, <1>2, <1>5, <1>6, <1>7, <1>8, <1>9, DeviceUnheard
<1>10. CASE net = "up"
  <2>1. ASSUME pc = "pull" PROVE Talk'
    <3>1. call.file \in File /\ (store[call.file] = Absent => PullAbsent)
          /\ (store[call.file] # Absent => store[call.file] \in Seq(Bytes) /\ PullPresent(store[call.file]))
      BY <1>10, <2>1, PullDef
    <3>2. up = <<Req("RECV", call.file, <<>>)>> /\ dev = Idle /\ down = <<>> /\ toRead = 0
          /\ (store[call.file] # Absent => disk = <<>>)
      BY <1>1, <1>10, <3>1 DEF PullAbsent, PullPresent
    <3>3. up' = <<>> /\ Head(up).file = call.file
      BY <1>1, <3>2 DEF Req
    <3>4. CASE F = Absent
      <4>1. down' = <<Failed("absent")>> /\ dev' = Idle
        BY <1>1, <1>10, <3>2, <3>4 DEF Reply
      <4>2. PullAbsent'
        BY <1>1, <3>2, <3>3, <4>1 DEF PullAbsent, client
      <4>3. PullTalk'
        BY <1>1, <3>3, <3>4, <4>2 DEF PullTalk, client
      <4> QED BY <1>1, <2>1, <4>3
              DEF Talk, QuietTalk, Quiet, LstatTalk, DentsTalk, PushTalk, FilePhases, client
    <3>5. CASE F # Absent
      <4>1. down' = <<>> /\ dev' = [mode |-> "recv", file |-> call.file, got |-> F]
        BY <1>1, <3>2, <3>3, <3>5
      <4>2. F \in Seq(Bytes) /\ Len(F) \in Nat /\ F = store[call.file]
        BY <3>1, <3>3, <3>5, EmptyOf
      <4>3. PICK c \in [0..Len(<<>>) -> 0..Len(F)] : Chunks(F, c, <<>>, 0, 0)
        BY <3>1, <3>2, <3>3, <3>5 DEF PullPresent
      <4> HIDE DEF F
      <4>4. c[0] = 0 /\ Len(<<>>) = 0
        BY <4>3 DEF Chunks
      <4>5. Rest(F, c[Len(<<>>)], F)
        <5>1. \A i \in 1..Len(F) : 0 + i = i
          BY <4>2
        <5> QED BY <4>2, <4>4, <5>1 DEF Rest
      <4>6. ~Terminated(<<>>) /\ Whole(<<>>, 0)
        BY <4>4 DEF Terminated, Whole
      <4>7. disk = <<>> /\ Begins(disk, F)
        BY <3>1, <3>2, <3>5, <4>2 DEF PullPresent
      <4> QED
        <5>1. /\ down' = <<>> /\ disk' = <<>> /\ toRead' = 0 /\ up' = <<>>
              /\ dev'.mode = "recv" /\ dev'.got = F
          BY <1>1, <3>2, <3>3, <4>1, <4>7 DEF client, F
        <5>2. Begins(disk', F) /\ Chunks(F, c, down', toRead', Len(disk'))
          BY <4>3, <4>4, <4>7, <5>1
        <5>3. ~Terminated(down') /\ Whole(down', toRead') /\ Rest(F, c[Len(down')], dev'.got)
          BY <4>5, <4>6, <5>1
        <5>4. store' = store /\ call' = call /\ pc' = "pull" /\ F # Absent /\ F = store[call.file]
          BY <1>1, <2>1, <3>5, <4>2 DEF client
        <5>5. Begins(disk', store[call.file]) /\ Chunks(store[call.file], c, down', toRead', Len(disk'))
          BY <5>2, <5>4
        <5>6. Rest(store[call.file], c[Len(down')], dev'.got) /\ store[call.file] # Absent
          BY <5>3, <5>4
        <5> QED BY <5>1, <5>3, <5>4, <5>5, <5>6, PullTalkAt
    <3> QED BY <3>4, <3>5
  <2>2. pc \in {"idle", "pull"} /\ (pc = "idle" => result.err = "error" \/ result.op = "cmdpush")
    <3>1. up[1].id = "RECV"
      BY <1>1, <1>2
    <3>2. \A g : <<Req("STAT", g, <<>>)>>[1].id = "STAT" /\ <<Req("LIST", g, <<>>)>>[1].id = "LIST"
      BY DEF Req
    <3>4. ~PushUp
      <4>1. 1 \in 1..Len(up)
        BY <1>1, EmptyOf DEF IInv, Typed
      <4> QED BY <3>1, <4>1 DEF PushUp, OfPush
    <3> QED BY <1>2, <1>10, <3>1, <3>2, <3>4, UpCases
  <2> QED BY <1>1, <1>5, <1>6, <1>8, <1>10, <2>1, <2>2, DeviceHeard
<1> QED BY <1>9, <1>10

LEMMA PayloadOf ==
  ASSUME NEW s \in Seq(Bytes), s # <<>>, Len(s) <= MaxSize
  PROVE  /\ Payload(s) \in Seq(Items) /\ Len(Payload(s)) = Len(s) + 1
         /\ Payload(s)[1].id = "DATA" /\ Payload(s)[1].n = Len(s) /\ Len(s) \in 1..MaxSize
         /\ \A i \in 2..Len(s)+1 : Payload(s)[i].id = "byte" /\ Payload(s)[i].byte = s[i-1]
<1> DEFINE h == Header("DATA", Len(s))
           m == [i \in DOMAIN s |-> Byte(s[i])]
<1>1. Len(s) \in Nat /\ Len(s) >= 1 /\ DOMAIN s = 1..Len(s) /\ MaxSize \in Nat
  BY EmptyOf, BoundsAssumption
<1>2. Len(s) \in 1..MaxSize
  BY <1>1
<1>3. \A i \in 1..Len(s) : s[i] \in Bytes
  BY <1>1
<1>4. h \in Items /\ h.id = "DATA" /\ h.n = Len(s)
  BY <1>2, ItemOf
<1>5. /\ m \in Seq(Items) /\ Len(m) = Len(s)
      /\ \A i \in 1..Len(s) : m[i].id = "byte" /\ m[i].byte = s[i]
  BY <1>1, <1>3, ItemOf
<1>6. Payload(s) = <<h>> \o m
  BY DEF Payload
<1> HIDE DEF h, m
<1>7. /\ <<h>> \o m \in Seq(Items) /\ Len(<<h>> \o m) = Len(s) + 1 /\ (<<h>> \o m)[1] = h
      /\ \A i \in 2..Len(s)+1 : (<<h>> \o m)[i] = m[i-1]
  BY <1>1, <1>4, <1>5
<1>8. \A i \in 2..Len(s)+1 : i - 1 \in 1..Len(s)
  BY <1>1
<1> QED BY <1>2, <1>4, <1>5, <1>6, <1>7, <1>8

\* The part t of the file of which got is left, after which the device is as in e
Sends(t, got, f, e) ==
  /\ t \in Seq(Items) /\ t # <<>>
  /\ \/ /\ t[1].id = "DATA" /\ t[1].n \in 1..MaxSize /\ t[1].n <= Len(got) /\ Len(t) = t[1].n + 1
        /\ \A i \in 2..Len(t) : t[i].id = "byte" /\ t[i].byte = got[i-1]
        /\ e.mode = "recv" /\ e.file = f /\ e.got \in Contents
        /\ Len(e.got) = Len(got) - t[1].n /\ \A i \in 1..Len(e.got) : e.got[i] = got[t[1].n + i]
     \/ Len(t) = 1 /\ t[1].id = "DONE" /\ got = <<>> /\ e = Idle
     \/ Len(t) = 1 /\ t[1].id = "FAIL" /\ e = Idle

LEMMA SendsPart ==
  ASSUME IInv, DeviceSends
  PROVE  /\ dev' \in Devices /\ ~Busy(dev') /\ dev'.mode # "send"
         /\ \E t : Sends(t, dev.got, dev.file, dev') /\ down' = IF net = "up" THEN down \o t ELSE down
<1> DEFINE got == dev.got
<1>1. dev \in [mode : {"recv"}, file : File, got : Contents]
  BY DEF DeviceSends, IInv, Typed, Devices, Idle
<1>2. got \in Seq(Bytes) /\ Len(got) \in Nat /\ Len(got) <= MaxSize /\ MaxSize \in Nat
  BY <1>1, EmptyOf, BoundsAssumption DEF Contents
<1>3. CASE \E n \in 1..Min({DeviceChunk, Len(dev.got)}) :
             /\ Reply(Payload(SubSeq(dev.got, 1, n)))
             /\ dev' = [dev EXCEPT !.got = SubSeq(@, n + 1, Len(@))]
  <2>1. DeviceChunk \in Int /\ Len(got) \in Int
    BY <1>2, ChunkAssumption
  <2>2. Min({DeviceChunk, Len(got)}) \in Int /\ Min({DeviceChunk, Len(got)}) <= Len(got)
    BY <2>1, MinOf
  <2>3. PICK n \in 1..Min({DeviceChunk, Len(got)}) :
             /\ Reply(Payload(SubSeq(got, 1, n)))
             /\ dev' = [dev EXCEPT !.got = SubSeq(got, n + 1, Len(got))]
    BY <1>3
  <2> DEFINE s == SubSeq(got, 1, n)
             g == SubSeq(got, n + 1, Len(got))
  <2>4. n \in Nat /\ n >= 1 /\ n <= Len(got) /\ n \in 0..Len(got) /\ n \in 1..MaxSize
    BY <1>2, <2>2, <2>3
  <2> HIDE DEF got
  <2>5. /\ s \in Seq(Bytes) /\ Len(s) = n /\ s # <<>> /\ \A i \in 1..n : s[i] = got[i]
        /\ g \in Seq(Bytes) /\ Len(g) = Len(got) - n /\ \A i \in 1..Len(got)-n : g[i] = got[n+i]
    <3>1. /\ s \in Seq(Bytes) /\ Len(s) = n /\ \A i \in 1..n : s[i] = got[i]
          /\ g \in Seq(Bytes) /\ Len(g) = Len(got) - n /\ \A i \in 1..Len(got)-n : g[i] = got[n+i]
      BY <1>2, <2>4, CutOf
    <3> HIDE DEF s, g
    <3>2. s # <<>>
      BY <2>4, <3>1, EmptyOf
    <3> QED BY <3>1, <3>2
  <2>6. g \in Contents
    BY <1>2, <2>4, <2>5 DEF Contents
  <2> HIDE DEF s, g
  <2>7. dev' = [mode |-> "recv", file |-> dev.file, got |-> g]
    BY <1>1, <2>3 DEF g
  <2>8. Len(s) <= MaxSize
    BY <2>4, <2>5
  <2> DEFINE t == Payload(s)
  <2>9. /\ t \in Seq(Items) /\ Len(t) = n + 1 /\ t[1].id = "DATA" /\ t[1].n = n
        /\ \A i \in 2..n+1 : t[i].id = "byte" /\ t[i].byte = s[i-1]
    BY <2>5, <2>8, PayloadOf
  <2> HIDE DEF t
  <2>10. t # <<>>
    BY <2>4, <2>9, EmptyOf
  <2>11. \A i \in 2..n+1 : i - 1 \in 1..n
    BY <2>4
  <2>12. \A i \in 2..n+1 : t[i].id = "byte" /\ t[i].byte = got[i-1]
    BY <2>5, <2>9, <2>11
  <2>13. Sends(t, got, dev.file, dev')
    BY <2>4, <2>5, <2>6, <2>7, <2>9, <2>10, <2>12 DEF Sends
  <2>14. down' = IF net = "up" THEN down \o t ELSE down
    BY <2>3 DEF Reply, t, s
  <2> QED BY <1>1, <2>6, <2>7, <2>13, <2>14 DEF Devices, Busy, got
<1>4. CASE dev' = Idle /\ \/ dev.got = <<>> /\ Reply(<<Header("DONE", 0)>>)
                          \/ Reply(<<Failed("read")>>)
  <2>1. /\ <<Header("DONE", 0)>> \in Seq(Items) /\ <<Header("DONE", 0)>>[1].id = "DONE"
        /\ <<Failed("read")>> \in Seq(Items) /\ <<Failed("read")>>[1].id = "FAIL"
    BY ItemOf
  <2>2. Idle \in Devices /\ ~Busy(Idle) /\ Idle.mode # "send"
    BY DEF Devices, Busy, Idle
  <2>3. Len(<<Header("DONE", 0)>>) = 1 /\ Len(<<Failed("read")>>) = 1
        /\ <<Header("DONE", 0)>> # <<>> /\ <<Failed("read")>> # <<>>
    OBVIOUS
  <2>4. CASE dev.got = <<>> /\ Reply(<<Header("DONE", 0)>>)
    <3>1. Sends(<<Header("DONE", 0)>>, dev.got, dev.file, dev')
      BY <1>4, <2>1, <2>3, <2>4 DEF Sends
    <3> QED BY <1>4, <2>2, <2>4, <3>1 DEF Reply
  <2>5. CASE Reply(<<Failed("read")>>)
    <3>1. Sends(<<Failed("read")>>, dev.got, dev.file, dev')
      BY <1>4, <2>1, <2>3 DEF Sends
    <3> QED BY <1>4, <2>2, <2>5, <3>1 DEF Reply
  <2> QED BY <1>4, <2>4, <2>5
<1> QED BY <1>3, <1>4 DEF DeviceSends

LEMMA DeviceSendsInv == IInv /\ DeviceSends => IInv'
<1> SUFFICES ASSUME IInv, DeviceSends PROVE IInv'
  OBVIOUS
<1>1. dev.mode = "recv" /\ UNCHANGED <<net, up, store, client>> /\ ~AtRest /\ StoresOnly
  BY DEF DeviceSends, AtRest, Idle, StoresOnly
<1>2. PICK t : Sends(t, dev.got, dev.file, dev') /\ down' = IF net = "up" THEN down \o t ELSE down
  BY SendsPart
<1>3. dev' \in Devices /\ ~Busy(dev') /\ dev'.mode # "send"
  BY SendsPart
<1>4. Stream' /\ Exposed'
  <2>1. Adjacent(up, size) /\ Ahead(up, dev, size) /\ PushesOnly(up, dev, Unreported) /\ size' = size
    BY <1>1 DEF IInv, Stream, Exposed, client
  <2>2. Unreported' = Unreported
    BY <1>1, DeviceKeeps
  <2>3. ~Busy(dev)
    BY <1>1 DEF Busy
  <2>4. Ahead(up, dev', size) /\ PushesOnly(up, dev', Unreported) /\ Taken(dev', size)
    BY <1>3, <2>1, <2>3 DEF Ahead, Awaited, PushesOnly, Taken
  <2> QED BY <1>1, <2>1, <2>2, <2>4 DEF Stream, Exposed
<1>5. Typed'
  <2>1. down \in Seq(Items) /\ t \in Seq(Items)
    BY <1>2 DEF IInv, Typed, Sends
  <2>2. down' \in Seq(Items)
    BY <1>2, <2>1, ConcatProperties
  <2> QED BY <1>1, <1>3, <2>2 DEF IInv, Typed, client
<1>6. CASE net # "up"
  BY <1>1, <1>2, <1>4, <1>5, <1>6, DeviceUnheard
<1>7. CASE net = "up"
  <2>1. pc \in {"idle", "pull"} /\ (pc = "idle" => result.err = "error" \/ result.op = "cmdpush")
    <3>1. dev # Idle /\ ~PushUp
      BY <1>1 DEF Idle, PushUp
    <3> QED BY <1>1, <1>7, <3>1, UpCases
  <2>2. ASSUME pc = "pull" PROVE Talk'
    <3> DEFINE F == store[call.file]
    <3>1. F # Absent /\ F \in Seq(Bytes) /\ PullPresent(F)
      BY <1>1, <1>7, <2>2, PullDef DEF PullAbsent, Idle
    <3> HIDE DEF F
    <3>2. PICK c : /\ Chunks(F, c, down, toRead, Len(disk)) /\ up = <<>> /\ ~Terminated(down)
                   /\ Whole(down, toRead) /\ Rest(F, c[Len(down)], dev.got)
      BY <1>1, <1>7, <3>1 DEF PullPresent, Idle
    <3>3. /\ down \in Seq(Items) /\ t \in Seq(Items) /\ t # <<>> /\ toRead \in Nat /\ disk \in Seq(Bytes)
          /\ Len(disk) \in Nat /\ Len(down) \in Nat /\ Len(F) \in Nat /\ Len(t) \in Nat
      BY <1>2, <3>1, EmptyOf DEF IInv, Typed, Sends
    <3> DEFINE p == c[Len(down)]
               b == More(c, down, t)
    <3>4. p \in 0..Len(F)
      BY <3>2, <3>3 DEF Chunks
    <3>5. dev.got \in Seq(Bytes) /\ Len(dev.got) \in Nat /\ Len(dev.got) = Len(F) - p
          /\ \A i \in 1..Len(dev.got) : dev.got[i] = F[p + i]
      <4>1. dev.got \in Seq(Bytes)
        BY <1>1 DEF IInv, Typed, Devices, Contents, Idle
      <4> QED BY <3>2, <4>1, EmptyOf DEF Rest
    <3> HIDE DEF p
    <3>6. /\ p + (Len(t) - 1) <= Len(F)
          /\ \/ /\ t[1].id = "DATA" /\ t[1].n \in 1..MaxSize /\ Len(t) = t[1].n + 1
                /\ \A i \in 2..Len(t) : t[i].id = "byte" /\ t[i].byte = F[p + i - 1]
             \/ Len(t) = 1 /\ t[1].id = "DONE" /\ p = Len(F)
             \/ Len(t) = 1 /\ t[1].id = "FAIL"
      <4>1. CASE t[1].id = "DATA"
        <5>1. /\ t[1].n \in 1..MaxSize /\ t[1].n <= Len(dev.got) /\ Len(t) = t[1].n + 1
              /\ \A i \in 2..Len(t) : t[i].id = "byte" /\ t[i].byte = dev.got[i-1]
          BY <1>2, <4>1 DEF Sends
        <5>2. PICK n \in Nat : n = t[1].n
          BY <5>1
        <5>3. n <= Len(dev.got) /\ Len(t) = n + 1 /\ p \in Nat
          BY <3>3, <3>4, <5>1, <5>2
        <5>4. \A i \in 2..Len(t) : i - 1 \in 1..Len(dev.got) /\ p + (i - 1) = p + i - 1
          <6>1. PICK k \in Nat : k = Len(t)
            BY <3>3
          <6>2. \A i \in 2..k : i - 1 \in 1..Len(dev.got) /\ p + (i - 1) = p + i - 1
            BY <3>5, <5>3, <6>1
          <6> QED BY <6>1, <6>2
        <5>5. \A i \in 2..Len(t) : t[i].id = "byte" /\ t[i].byte = F[p + i - 1]
          BY <3>5, <5>1, <5>4
        <5>6. p + (Len(t) - 1) <= Len(F)
          BY <3>3, <3>5, <5>2, <5>3
        <5> QED BY <4>1, <5>1, <5>5, <5>6
      <4>2. CASE t[1].id # "DATA"
        <5>1. Len(t) = 1 /\ (t[1].id = "FAIL" \/ (t[1].id = "DONE" /\ dev.got = <<>>))
          BY <1>2, <4>2 DEF Sends
        <5>2. dev.got = <<>> => p = Len(F)
          BY <3>3, <3>4, <3>5, EmptyOf
        <5> QED BY <3>3, <3>4, <5>1, <5>2
      <4> QED BY <4>1, <4>2
    <3>7. LET v == down \o t
          IN /\ Chunks(F, b, v, toRead, Len(disk)) /\ Whole(v, toRead) /\ b[Len(v)] = p + Len(t) - 1
             /\ Terminated(v) <=> t[1].id # "DATA"
      BY <3>1, <3>2, <3>3, <3>6, MoreChunks DEF p
    <3> HIDE DEF b
    <3>8. down' = down \o t /\ toRead' = toRead /\ disk' = disk /\ call' = call /\ pc' = "pull"
      BY <1>1, <1>2, <1>7, <2>2 DEF client
    <3>9. /\ Chunks(F, b, down', toRead', Len(disk')) /\ Whole(down', toRead')
          /\ b[Len(down')] = p + Len(t) - 1 /\ (Terminated(down') <=> t[1].id # "DATA")
      BY <3>7, <3>8
    <3>10. Begins(disk', F)
      BY <3>1, <3>8 DEF PullPresent
    <3>11. t[1].id # "DATA" => dev' = Idle
      BY <1>2 DEF Sends
    <3>12. t[1].id = "DATA" => dev'.mode = "recv" /\ Rest(F, b[Len(down')], dev'.got)
      <4> SUFFICES ASSUME t[1].id = "DATA" PROVE dev'.mode = "recv" /\ Rest(F, b[Len(down')], dev'.got)
        OBVIOUS
      <4>1. PICK n \in Nat : n = t[1].n
        BY <1>2 DEF Sends
      <4>2. /\ n <= Len(dev.got) /\ Len(t) = n + 1 /\ dev'.mode = "recv"
            /\ Len(dev'.got) = Len(dev.got) - n /\ \A i \in 1..Len(dev'.got) : dev'.got[i] = dev.got[n + i]
        BY <1>2, <4>1 DEF Sends
      <4>3. b[Len(down')] = p + n
        BY <3>3, <3>4, <3>9, <4>2
      <4>4. \A i \in 1..Len(dev'.got) : n + i \in 1..Len(dev.got) /\ p + (n + i) = (p + n) + i
        <5>1. PICK k \in Int : k = Len(dev'.got)
          BY <3>5, <4>2
        <5>2. k = Len(dev.got) - n /\ p \in Nat
          BY <3>3, <3>4, <4>2, <5>1
        <5>3. \A i \in 1..k : n + i \in 1..Len(dev.got) /\ p + (n + i) = (p + n) + i
          BY <3>5, <4>2, <5>2
        <5> QED BY <5>1, <5>3
      <4>5. \A i \in 1..Len(dev'.got) : dev'.got[i] = F[(p + n) + i]
        BY <3>5, <4>2, <4>4
      <4>6. Len(dev'.got) = Len(F) - (p + n)
        BY <3>3, <3>4, <3>5, <4>1, <4>2
      <4> QED BY <4>2, <4>3, <4>5, <4>6 DEF Rest
    <3>13. store' = store /\ up' = <<>>
      BY <1>1, <3>2
    <3> QED BY <3>1, <3>8, <3>9, <3>10, <3>11, <3>12, <3>13, PullTalkAt DEF F
  <2> QED BY <1>1, <1>4, <1>5, <1>7, <2>1, <2>2, DeviceHeard
<1> QED BY <1>6, <1>7

\* The device takes a request of a push.
LEMMA TakesPush ==
  ASSUME IInv, net = "up", pc \in {"walk"} \cup FilePhases, PushUp, up # <<>>, up' = Tail(up),
         UNCHANGED client, net' = net, dev' \in Devices, dev'.mode # "recv",
         TakenIn(up[1], dev, dev'), ~Broken(up, dev, 1),
         pc = "walk" /\ call.errs = {} => down' = <<>>,
         Tainted => OnlyFails(down'),
         Clean => Clean'
  PROVE  Talk'
<1>1. UNCHANGED <<size, disk, pc, call, at, toRead, listing, garbled, result, calls>>
  BY DEF client
<1>2. up \in Seq(Requests) /\ dev \in Devices /\ Adjacent(up, size) /\ \A i \in 1..Len(up) : up[i].id \in OfPush
  BY DEF IInv, Typed, Stream, PushUp
<1>3. /\ Dead(up, dev) <=> Dead(up', dev')
      /\ InPush(up, dev) <=> InPush(up', dev')
      /\ NoCommit(up, dev) => NoCommit(up', dev')
  BY <1>2, TailPush
<1>4. /\ Len(up) \in Nat /\ Len(up) >= 1 /\ Len(up') = Len(up) - 1 /\ up' \in Seq(Requests)
      /\ \A i \in 1..Len(up)-1 : up'[i] = up[i+1]
  BY <1>2, TailOf
<1>5. \A i \in 1..Len(up') : up'[i] = up[i+1] /\ i + 1 \in 1..Len(up) /\ up'[i].id \in OfPush
  BY <1>2, <1>4
<1>6. up' # <<>> => up'[Len(up')] = up[Len(up)]
  <2> SUFFICES ASSUME up' # <<>> PROVE up'[Len(up')] = up[Len(up)]
    OBVIOUS
  <2>1. Len(up') \in 1..Len(up') /\ Len(up') + 1 = Len(up)
    BY <1>4, EmptyOf
  <2> QED BY <1>5, <2>1
<1>7. pc' = "copy" => CopyAt(up', dev', call'.file, at')
  <2> SUFFICES ASSUME pc' = "copy" PROVE CopyAt(up', dev', call'.file, at')
    OBVIOUS
  <2>1. CopyAt(up, dev, call.file, at)
    BY <1>1 DEF PushUp
  <2>2. CopyAt(Tail(up), dev', call.file, at)
    BY <1>2, <2>1, CopyAtStep
  <2> QED BY <1>1, <2>2
<1>8. pc' = "status" /\ up' # <<>> => up'[Len(up')].id = "DONE"
  BY <1>1, <1>6 DEF PushUp
<1>9. Tainted => Tainted'
  BY <1>1, <1>3 DEF Tainted
<1>10. PushUp'
  BY <1>5, <1>7, <1>8, <1>9 DEF PushUp
<1>11. PushTalk'
  BY <1>1, <1>10 DEF PushTalk
<1> QED BY <1>1, <1>11 DEF Talk, QuietTalk, Quiet, LstatTalk, DentsTalk, PullTalk, FilePhases

\* Only a push has more than one request on its way, or a device that is busy with one.
LEMMA PushCases ==
  ASSUME IInv, net = "up", up # <<>>, up[1].id \in OfPush
  PROVE  \/ pc = "idle" /\ (result.err = "error" \/ result.op = "cmdpush")
         \/ pc \in {"walk"} \cup FilePhases /\ PushUp
<1>1. ~AtRest
  BY DEF AtRest
<1>2. \A g : /\ <<Req("STAT", g, <<>>)>>[1].id = "STAT" /\ <<Req("LIST", g, <<>>)>>[1].id = "LIST"
             /\ <<Req("RECV", g, <<>>)>>[1].id = "RECV"
  BY DEF Req
<1>3. ~(pc = "pull")
  BY <1>2, PullDef DEF PullAbsent, PullPresent, OfPush
<1> QED BY <1>1, <1>2, <1>3, UpCases DEF OfPush

LEMMA DeviceSendInv == IInv /\ DeviceSend => IInv'
<1> SUFFICES ASSUME IInv, DeviceSend PROVE IInv'
  OBVIOUS
<1> DEFINE f == Head(up).file
<1>1. /\ dev.mode = "idle" /\ up # <<>> /\ Head(up).id = "SEND" /\ up' = Tail(up)
      /\ UNCHANGED <<net, store, client>>
      /\ \/ dev' = [mode |-> "send", file |-> f, got |-> <<>>] /\ down' = down
         \/ dev' = [mode |-> "discard", file |-> f, got |-> <<>>] /\ Reply(<<Failed("open")>>)
  BY DEF DeviceSend, Handle
<1>2. Head(up) = up[1] /\ ~AtRest /\ f \in File /\ up[1].id = "SEND" /\ f = up[1].file /\ f \in Unreported
  BY <1>1, RequestOf DEF OfPush
<1> HIDE DEF f
<1>3. /\ dev' \in Devices /\ Busy(dev') /\ dev'.file = f /\ dev'.got = <<>> /\ dev'.mode # "recv"
  <2>1. <<>> \in Seq(Bytes)
    OBVIOUS
  <2>2. PICK m \in {"send", "discard"} : dev' = [mode |-> m, file |-> f, got |-> <<>>]
    BY <1>1
  <2>3. dev' \in [mode : {"send", "discard"}, file : File, got : Seq(Bytes)]
    BY <1>2, <2>1, <2>2
  <2> QED BY <2>2, <2>3 DEF Devices, Busy
<1>4. StoresOnly
  BY <1>1 DEF StoresOnly
<1>5. TakenIn(up[1], dev, dev')
  BY <1>2, <1>3 DEF TakenIn, Offset
<1>6. Stream' /\ Exposed' /\ up' \in Seq(Requests)
  <2>1. size[f] \in Nat
    BY <1>2, LocalOf DEF IInv
  <2>2. Taken(dev', size)
    BY <1>3, <2>1 DEF Taken
  <2> QED BY <1>1, <1>2, <1>3, <1>4, <1>5, <2>2, TakesOne
<1>7. Typed'
  <2>1. down \in Seq(Items) /\ <<Failed("open")>> \in Seq(Items)
    BY ItemOf DEF IInv, Typed
  <2>2. down' = down \/ down' = down \o <<Failed("open")>>
    BY <1>1 DEF Reply
  <2>3. down' \in Seq(Items)
    BY <2>1, <2>2, ConcatProperties
  <2> QED BY <1>1, <1>3, <1>6, <2>3 DEF IInv, Typed, client
<1>8. CASE net # "up"
  <2>1. down' = down
    BY <1>1, <1>8 DEF Reply
  <2> QED BY <1>1, <1>2, <1>4, <1>6, <1>7, <1>8, <2>1, DeviceUnheard
<1>9. CASE net = "up"
  <2>1. \/ pc = "idle" /\ (result.err = "error" \/ result.op = "cmdpush")
        \/ pc \in {"walk"} \cup FilePhases /\ PushUp
    BY <1>1, <1>2, <1>9, PushCases DEF OfPush
  <2>2. ASSUME pc \in {"walk"} \cup FilePhases, PushUp PROVE Talk'
    <3>1. ~Broken(up, dev, 1)
      BY <1>1 DEF Broken, Busy
    <3>2. /\ up \in Seq(Requests) /\ dev \in Devices /\ Adjacent(up, size)
          /\ \A i \in 1..Len(up) : up[i].id \in OfPush
      BY <2>2 DEF IInv, Typed, Stream, PushUp
    <3>3. /\ Dead(up, dev) <=> Dead(up', dev')
          /\ InPush(up, dev) <=> InPush(up', dev')
          /\ \A g : Unread(up, dev, g) => f = g /\ NoSend(up')
      BY <1>1, <1>2, <1>3, <1>5, <3>1, <3>2, TailPush
    <3>4. down' = down \/ (dev'.mode = "discard" /\ down' = down \o <<Failed("open")>>)
      BY <1>1, <1>9 DEF Reply
    <3>5. OnlyFails(down) => OnlyFails(down')
      <4>1. down \in Seq(Items)
        BY DEF IInv, Typed
      <4>2. OnlyFails(down) => OnlyFails(down \o <<Failed("open")>>)
        BY <4>1 DEF OnlyFails, Failed
      <4> QED BY <3>4, <4>2
    <3>6. ~NoSend(up) /\ ~Taking(up, dev, call.file) /\ ~Refused(up, dev)
      <4>1. 1 \in 1..Len(up)
        BY <1>1, <3>2, EmptyOf
      <4> QED BY <1>1, <1>2, <4>1 DEF NoSend, Taking, Refused
    <3>7. UNCHANGED <<pc, call>>
      BY <1>1 DEF client
    <3>8. down = <<>> => (down' = <<>> /\ dev'.mode = "send") \/ (OneFail' /\ dev'.mode = "discard")
      BY <1>1, <1>9 DEF Reply, OneFail, Failed
    <3>9. Clean => Clean' /\ pc \in {"copy", "status"}
      <4> SUFFICES ASSUME Clean PROVE Clean' /\ pc \in {"copy", "status"}
        OBVIOUS
      <4>1. pc \in {"copy", "status"}
        BY <2>2, <3>6 DEF Clean, FilePhases
      <4>2. down = <<>> /\ Unread(up, dev, call.file)
        BY <1>2, <3>6, <4>1 DEF Clean, Answered
      <4>3. f = call.file /\ NoSend(up')
        BY <3>3, <4>2
      <4>4. \/ down' = <<>> /\ Taking(up', dev', call.file)
            \/ OneFail' /\ Refused(up', dev')
        BY <1>3, <3>8, <4>2, <4>3 DEF Taking, Refused
      <4> QED BY <3>3, <3>7, <4>1, <4>4 DEF Clean
    <3>10. Tainted => call.errs # {} /\ OnlyFails(down')
      BY <3>5 DEF Tainted
    <3>11. pc = "walk" => ~(call.errs = {})
      BY <2>2, <3>9, <3>10 DEF PushUp
    <3> QED BY <1>1, <1>3, <1>5, <1>9, <2>2, <3>1, <3>9, <3>10, <3>11, TakesPush
  <2> QED BY <1>1, <1>4, <1>6, <1>7, <1>9, <2>1, <2>2, DeviceHeard DEF FilePhases
<1> QED BY <1>8, <1>9

\* What the device takes is the next part of the file it is at.
LEMMA DataOf ==
  ASSUME IInv, up # <<>>, up[1].id = "DATA"
  PROVE  LET s == dev.got \o up[1].data
         IN /\ Busy(dev) /\ up[1].file = dev.file /\ dev.file \in File /\ s \in Seq(Bytes)
            /\ dev \in [mode : {"send", "discard"}, file : File, got : Seq(Bytes)]
            /\ dev.mode = "send" =>
                 /\ Len(s) = Offset(up[1]) /\ Len(s) <= size[dev.file]
                 /\ \A i \in 1..Len(s) : s[i] = <<"local", dev.file, i>>
<1> DEFINE g == dev.got
           d == up[1].data
           f == dev.file
<1>1. up[1] \in Requests /\ Awaited(up[1], dev, size) /\ Taken(dev, size)
  BY RequestOf DEF IInv, Stream, Ahead
<1>2. Busy(dev) /\ up[1].file = dev.file /\ (dev.mode = "send" => Follows(up[1], f, Len(g), size[f]))
  BY <1>1 DEF Awaited
<1>3. dev \in [mode : {"send", "discard"}, file : File, got : Seq(Bytes)]
  BY <1>2 DEF IInv, Typed, Devices, Busy, Idle
<1>4. g \in Seq(Bytes) /\ d \in Seq(Bytes) /\ f \in File
  BY <1>1, <1>3 DEF Requests
<1>5. ASSUME dev.mode = "send"
      PROVE  /\ d # <<>> /\ Len(g) + Len(d) <= size[f] /\ Offset(up[1]) = d[Len(d)][3]
             /\ \A i \in 1..Len(d) : d[i] = <<"local", f, Len(g) + i>>
             /\ \A i \in 1..Len(g) : g[i] = <<"local", f, i>>
  BY <1>1, <1>2, <1>5 DEF Follows, Taken, Offset
<1> HIDE DEF g, d, f
<1>6. /\ Len(g) \in Nat /\ Len(d) \in Nat /\ (d # <<>> => Len(d) \in 1..Len(d))
      /\ g \o d \in Seq(Bytes) /\ Len(g \o d) = Len(g) + Len(d)
      /\ \A i \in 1..Len(g)+Len(d) : (g \o d)[i] = IF i <= Len(g) THEN g[i] ELSE d[i - Len(g)]
  BY <1>4, EmptyOf, ConcatProperties
<1>7. ASSUME dev.mode = "send"
      PROVE  /\ Len(g \o d) = Offset(up[1]) /\ Len(g \o d) <= size[f]
             /\ \A i \in 1..Len(g \o d) : (g \o d)[i] = <<"local", f, i>>
  <2>1. d[Len(d)] = <<"local", f, Len(g) + Len(d)>>
    BY <1>5, <1>6, <1>7
  <2>2. \A i \in 1..Len(g)+Len(d) : (g \o d)[i] = <<"local", f, i>>
    <3> TAKE i \in 1..Len(g)+Len(d)
    <3>1. CASE i <= Len(g)
      BY <1>5, <1>6, <1>7, <3>1
    <3>2. CASE i > Len(g)
      <4>1. i - Len(g) \in 1..Len(d) /\ Len(g) + (i - Len(g)) = i
        BY <1>6, <3>2
      <4>2. (g \o d)[i] = d[i - Len(g)]
        BY <1>6, <3>2
      <4> QED BY <1>5, <1>7, <4>1, <4>2
    <3> QED BY <1>6, <3>1, <3>2
  <2>3. Offset(up[1]) = Len(g) + Len(d) /\ Len(g) + Len(d) <= size[f]
    BY <1>5, <1>7, <2>1
  <2>4. Len(g \o d) = Len(g) + Len(d)
    BY <1>6
  <2> QED BY <2>2, <2>3, <2>4
<1> QED BY <1>2, <1>3, <1>4, <1>6, <1>7 DEF g, d, f

\* A reply of the device that says no
LEMMA RefusalOf ==
  ASSUME NEW s \in Seq(Items), NEW why \in {"absent", "open", "write", "read", "request"}
  PROVE  s \o <<Failed(why)>> \in Seq(Items) /\ (OnlyFails(s) => OnlyFails(s \o <<Failed(why)>>))
<1>1. Failed(why) \in Items /\ Failed(why).id = "FAIL"
  BY ItemOf
<1> QED BY <1>1 DEF OnlyFails

LEMMA DeviceDataInv == IInv /\ DeviceData => IInv'
<1> SUFFICES ASSUME IInv, DeviceData PROVE IInv'
  OBVIOUS
<1> DEFINE f == dev.file
           s == dev.got \o up[1].data
           takes == dev' = [dev EXCEPT !.got = s] /\ down' = down /\ store' = store
           full == /\ dev.mode = "send" /\ dev' = [dev EXCEPT !.mode = "discard"]
                   /\ Reply(<<Failed("write")>>) /\ store' = [store EXCEPT ![f] = Absent]
<1>1. up # <<>> /\ Head(up).id = "DATA" /\ Head(up) = up[1]
  BY RequestOf DEF DeviceData
<1>2. up' = Tail(up) /\ UNCHANGED <<net, client>> /\ (takes \/ full)
  BY <1>1 DEF DeviceData
<1>3. up[1].id = "DATA" /\ ~AtRest /\ up[1].file \in Unreported
  BY <1>1, RequestOf DEF OfPush
<1>4. /\ Busy(dev) /\ up[1].file = f /\ f \in File /\ s \in Seq(Bytes)
      /\ dev \in [mode : {"send", "discard"}, file : File, got : Seq(Bytes)]
      /\ dev.mode = "send" =>
           /\ Len(s) = Offset(up[1]) /\ Len(s) <= size[f]
           /\ \A i \in 1..Len(s) : s[i] = <<"local", f, i>>
  BY <1>1, <1>3, DataOf
<1> HIDE DEF s
<1>5. /\ takes => dev' = [mode |-> dev.mode, file |-> f, got |-> s]
      /\ full => dev' = [mode |-> "discard", file |-> f, got |-> dev.got]
  BY <1>4
<1>6. /\ dev' \in Devices /\ Busy(dev') /\ dev'.file = f /\ dev'.mode # "recv"
      /\ dev.mode = "discard" => dev'.mode = "discard"
      /\ dev'.mode = "send" => dev.mode = "send" /\ dev'.got = s
  <2>1. CASE takes
    <3>1. dev' \in [mode : {"send", "discard"}, file : File, got : Seq(Bytes)]
      BY <1>4, <1>5, <2>1
    <3> QED BY <1>4, <1>5, <2>1, <3>1 DEF Devices, Busy
  <2>2. CASE full
    <3>1. dev' \in [mode : {"send", "discard"}, file : File, got : Seq(Bytes)]
      BY <1>4, <1>5, <2>2
    <3> QED BY <1>4, <1>5, <2>2, <3>1 DEF Devices, Busy
  <2> QED BY <1>2, <2>1, <2>2
<1>7. StoresOnly /\ store' \in [File -> {Absent} \cup Contents]
  <2>1. store \in [File -> {Absent} \cup Contents]
    BY DEF IInv, Typed
  <2> QED BY <1>2, <1>4, <2>1 DEF StoresOnly
<1>8. TakenIn(up[1], dev, dev')
  BY <1>3, <1>4, <1>6 DEF TakenIn
<1>9. Stream' /\ Exposed' /\ up' \in Seq(Requests)
  <2>1. Taken(dev', size)
    BY <1>4, <1>6 DEF Taken
  <2> QED BY <1>1, <1>2, <1>3, <1>4, <1>6, <1>7, <1>8, <2>1, TakesOne
<1>10. down' = down \/ (net = "up" /\ full /\ down' = down \o <<Failed("write")>>)
  BY <1>2 DEF Reply
<1>11. Typed'
  <2>1. down \in Seq(Items)
    BY DEF IInv, Typed
  <2>2. down' \in Seq(Items)
    BY <1>10, <2>1, RefusalOf
  <2> QED BY <1>2, <1>6, <1>7, <1>9, <2>2 DEF IInv, Typed, client
<1>12. CASE net # "up"
  BY <1>2, <1>3, <1>7, <1>9, <1>10, <1>11, <1>12, DeviceUnheard
<1>13. CASE net = "up"
  <2>1. \/ pc = "idle" /\ (result.err = "error" \/ result.op = "cmdpush")
        \/ pc \in {"walk"} \cup FilePhases /\ PushUp
    BY <1>1, <1>3, <1>13, PushCases DEF OfPush
  <2>2. ASSUME pc \in {"walk"} \cup FilePhases, PushUp PROVE Talk'
    <3>1. ~Broken(up, dev, 1)
      BY <1>3 DEF Broken
    <3>2. /\ up \in Seq(Requests) /\ dev \in Devices /\ Adjacent(up, size) /\ down \in Seq(Items)
          /\ \A i \in 1..Len(up) : up[i].id \in OfPush
      BY <2>2 DEF IInv, Typed, Stream, PushUp
    <3>3. /\ Dead(up, dev) <=> Dead(up', dev')
          /\ InPush(up, dev) <=> InPush(up', dev')
          /\ NoSend(up) => NoSend(up')
          /\ \A g : dev'.mode # "send" /\ Unread(up, dev, g) => Unread(up', dev', g)
      BY <1>1, <1>2, <1>3, <1>6, <1>8, <3>1, <3>2, TailPush
    <3>4. OnlyFails(down) => OnlyFails(down')
      BY <1>10, <3>2, RefusalOf
    <3>5. UNCHANGED <<pc, call>>
      BY <1>2 DEF client
    <3>6. dev.mode = "discard" => down' = down
      BY <1>2
    <3>7. dev.mode = "send" /\ down = <<>> =>
            (down' = <<>> /\ dev'.mode = "send") \/ (OneFail' /\ dev'.mode = "discard")
      BY <1>2, <1>5, <1>13 DEF Reply, OneFail, Failed
    <3>8. dev.mode \in {"send", "discard"}
      BY <1>4
    <3>9. Clean => Clean' /\ (pc = "walk" => call.errs # {})
      <4> SUFFICES ASSUME Clean PROVE Clean' /\ (pc = "walk" => call.errs # {})
        OBVIOUS
      <4>1. ASSUME pc \in {"copy", "status"}
            PROVE  \/ down' = <<>> /\ (Unread(up', dev', call.file) \/ Taking(up', dev', call.file))
                   \/ OneFail' /\ Refused(up', dev')
        <5>1. \/ down = <<>> /\ Unread(up, dev, call.file)
              \/ down = <<>> /\ Taking(up, dev, call.file)
              \/ OneFail /\ Refused(up, dev)
          BY <1>3, <4>1 DEF Clean, Answered
        <5>2. CASE down = <<>> /\ Unread(up, dev, call.file)
          <6>1. dev.mode = "discard"
            BY <3>8, <5>2 DEF Unread
          <6> QED BY <1>6, <3>3, <3>6, <5>2, <6>1
        <5>3. CASE down = <<>> /\ Taking(up, dev, call.file)
          BY <1>6, <3>3, <3>7, <5>3 DEF Taking, Refused
        <5>4. CASE OneFail /\ Refused(up, dev)
          BY <1>6, <3>3, <3>6, <5>4 DEF Refused, OneFail
        <5> QED BY <5>1, <5>2, <5>3, <5>4
      <4>2. ASSUME pc \in {"walk", "open", "send"}
            PROVE  /\ down' = <<>> /\ NoSend(up') /\ dev'.mode # "send" /\ ~InPush(up', dev')
                   /\ call.errs # {}
        <5>1. down = <<>> /\ NoSend(up) /\ dev.mode = "discard" /\ ~InPush(up, dev) /\ call.errs # {}
          BY <1>3, <3>8, <4>2 DEF Clean
        <5> QED BY <1>6, <3>3, <3>6, <5>1
      <4> QED BY <3>3, <3>5, <4>1, <4>2 DEF Clean
    <3>10. Tainted => call.errs # {} /\ OnlyFails(down')
      BY <3>4 DEF Tainted
    <3>11. pc = "walk" => ~(call.errs = {})
      BY <2>2, <3>9, <3>10 DEF PushUp
    <3> QED BY <1>1, <1>2, <1>6, <1>8, <1>13, <2>2, <3>1, <3>9, <3>10, <3>11, TakesPush
  <2> QED BY <1>2, <1>7, <1>9, <1>11, <1>13, <2>1, <2>2, DeviceHeard DEF FilePhases
<1> QED BY <1>12, <1>13

\* The device commits the whole of the file it has taken.
LEMMA DoneOf ==
  ASSUME IInv, up # <<>>, up[1].id = "DONE"
  PROVE  /\ Busy(dev) /\ up[1].file = dev.file /\ dev.file \in File
         /\ dev.mode \in {"send", "discard"}
         /\ dev.mode = "send" => dev.got = Local(dev.file) /\ dev.got \in Contents
<1> DEFINE g == dev.got
           f == dev.file
<1>1. up[1] \in Requests /\ Awaited(up[1], dev, size) /\ Taken(dev, size)
  BY RequestOf DEF IInv, Stream, Ahead
<1>2. Busy(dev) /\ up[1].file = f /\ (dev.mode = "send" => Len(g) = size[f])
  BY <1>1 DEF Awaited, Follows
<1>3. dev \in [mode : {"send", "discard"}, file : File, got : Seq(Bytes)]
  BY <1>2 DEF IInv, Typed, Devices, Busy, Idle
<1>4. g \in Seq(Bytes) /\ f \in File
  BY <1>3
<1>5. dev.mode = "send" => \A i \in 1..Len(g) : g[i] = <<"local", f, i>>
  BY <1>1 DEF Taken
<1>6. /\ size[f] \in Nat /\ size[f] <= MaxSize
      /\ Local(f) \in Seq(Bytes) /\ Len(Local(f)) = size[f]
      /\ \A i \in 1..size[f] : Local(f)[i] = <<"local", f, i>>
  BY <1>4, LocalOf DEF IInv
<1> HIDE DEF g, f
<1>7. dev.mode = "send" => g = Local(f)
  <2> SUFFICES ASSUME dev.mode = "send" PROVE g = Local(f)
    OBVIOUS
  <2>1. Len(g) = Len(Local(f)) /\ \A i \in 1..Len(g) : g[i] = Local(f)[i]
    BY <1>2, <1>5, <1>6
  <2> QED BY <1>4, <1>6, <2>1, SeqEqual
<1>8. dev.mode = "send" => g \in Contents
  BY <1>2, <1>4, <1>6 DEF Contents
<1> QED BY <1>2, <1>3, <1>4, <1>7, <1>8 DEF g, f

LEMMA DeviceDoneInv == IInv /\ DeviceDone => IInv'
<1> SUFFICES ASSUME IInv, DeviceDone PROVE IInv'
  OBVIOUS
<1> DEFINE f == dev.file
<1>1. up # <<>> /\ Head(up).id = "DONE" /\ Head(up) = up[1]
  BY RequestOf DEF DeviceDone
<1>2. /\ up' = Tail(up) /\ dev' = Idle /\ UNCHANGED <<net, client>>
      /\ \/ /\ dev.mode = "send" /\ store' = [store EXCEPT ![f] = dev.got]
            /\ Reply(<<Header("OKAY", 0)>>)
         \/ dev.mode # "send" /\ store' = store /\ down' = down
  BY DEF DeviceDone
<1>3. up[1].id = "DONE" /\ ~AtRest
  BY <1>1, RequestOf
<1>4. /\ Busy(dev) /\ up[1].file = f /\ f \in File /\ dev.mode \in {"send", "discard"}
      /\ dev.mode = "send" => dev.got = Local(f) /\ dev.got \in Contents
  BY <1>1, <1>3, DoneOf
<1>5. dev' \in Devices /\ ~Busy(dev') /\ dev'.mode = "idle"
  BY <1>2 DEF Devices, Busy, Idle
<1>6. StoresOnly /\ store' \in [File -> {Absent} \cup Contents]
  <2>1. store \in [File -> {Absent} \cup Contents]
    BY DEF IInv, Typed
  <2> QED BY <1>2, <1>4, <2>1 DEF StoresOnly
<1>7. TakenIn(up[1], dev, dev')
  BY <1>3, <1>5 DEF TakenIn
<1>8. Stream' /\ Exposed' /\ up' \in Seq(Requests)
  <2>1. Taken(dev', size)
    BY <1>5 DEF Taken
  <2> QED BY <1>1, <1>2, <1>5, <1>6, <1>7, <2>1, TakesOne
<1>9. /\ down' = down \/ (net = "up" /\ dev.mode = "send" /\ down' = down \o <<Header("OKAY", 0)>>)
      /\ dev.mode = "discard" => down' = down
  BY <1>2, <1>4 DEF Reply
<1>10. Typed'
  <2>1. down \in Seq(Items) /\ <<Header("OKAY", 0)>> \in Seq(Items)
    BY ItemOf DEF IInv, Typed
  <2>2. down' \in Seq(Items)
    BY <1>9, <2>1, ConcatProperties
  <2> QED BY <1>2, <1>5, <1>6, <1>8, <2>2 DEF IInv, Typed, client
<1>11. CASE net # "up"
  BY <1>2, <1>3, <1>6, <1>8, <1>9, <1>10, <1>11, DeviceUnheard
<1>12. CASE net = "up"
  <2>1. \/ pc = "idle" /\ (result.err = "error" \/ result.op = "cmdpush")
        \/ pc \in {"walk"} \cup FilePhases /\ PushUp
    BY <1>1, <1>3, <1>12, PushCases DEF OfPush
  <2>2. ASSUME pc \in {"walk"} \cup FilePhases, PushUp PROVE Talk'
    <3>1. ~Broken(up, dev, 1)
      BY <1>3 DEF Broken
    <3>2. /\ up \in Seq(Requests) /\ dev \in Devices /\ Adjacent(up, size)
          /\ \A i \in 1..Len(up) : up[i].id \in OfPush
      BY <2>2 DEF IInv, Typed, Stream, PushUp
    <3>3. /\ Dead(up, dev) <=> Dead(up', dev')
          /\ InPush(up, dev) <=> InPush(up', dev')
          /\ NoSend(up) => NoSend(up') /\ up' = <<>>
          /\ \A g : Unread(up, dev, g) => Unread(up', dev', g)
      BY <1>1, <1>2, <1>3, <1>5, <1>7, <3>1, <3>2, TailPush
    <3>4. Tainted => dev.mode = "discard"
      <4> SUFFICES ASSUME Tainted PROVE dev.mode = "discard"
        OBVIOUS
      <4>1. 1 \in 1..Len(up)
        BY <1>1, <3>2, EmptyOf
      <4>2. \/ \E k \in 1..1 : Broken(up, dev, k)
            \/ dev.mode = "discard"
        BY <1>3, <4>1 DEF Tainted, NoCommit
      <4> QED BY <3>1, <4>2
    <3>5. UNCHANGED <<pc, call, size>>
      BY <1>2 DEF client
    <3>6. up' = <<>> => AtRest'
      BY <1>2 DEF AtRest
    <3>7. NoSend(up) => ~InPush(up, dev)
      BY <1>5, <3>3 DEF InPush
    <3>8. Clean => Clean' /\ (pc = "walk" => call.errs # {})
      <4> SUFFICES ASSUME Clean PROVE Clean' /\ (pc = "walk" => call.errs # {})
        OBVIOUS
      <4>1. ASSUME pc \in {"walk", "open", "send"}
            PROVE  /\ down' = <<>> /\ NoSend(up') /\ dev'.mode # "send" /\ ~InPush(up', dev')
                   /\ call.errs # {}
        <5>1. down = <<>> /\ NoSend(up) /\ dev.mode = "discard" /\ ~InPush(up, dev) /\ call.errs # {}
          BY <1>3, <1>4, <4>1 DEF Clean
        <5> QED BY <1>5, <1>9, <3>3, <5>1
      <4>2. ASSUME pc \in {"copy", "status"}
            PROVE  \/ down = <<>> /\ dev.mode = "discard" /\ Unread(up, dev, call.file)
                   \/ pc = "status" /\ down = <<>> /\ Taking(up, dev, call.file)
                   \/ pc = "status" /\ OneFail /\ Refused(up, dev)
        <5>1. Unread(up, dev, call.file) => dev.mode = "discard"
          BY <1>4 DEF Unread
        <5>2. InPush(up, dev) => ~Taking(up, dev, call.file) /\ ~Refused(up, dev)
          BY <3>7 DEF Taking, Refused
        <5> QED BY <1>3, <4>2, <5>1, <5>2 DEF Clean, Answered
      <4>3. CASE pc \in {"copy", "status"} /\ down = <<>> /\ dev.mode = "discard" /\ Unread(up, dev, call.file)
        <5>1. down' = <<>> /\ Unread(up', dev', call'.file)
          BY <1>9, <3>3, <3>5, <4>3
        <5> QED BY <3>3, <3>5, <4>3, <5>1 DEF Clean
      <4>4. CASE pc = "status" /\ down = <<>> /\ Taking(up, dev, call.file)
        <5>1. call.file = f /\ dev.mode = "send" /\ AtRest'
          BY <3>3, <3>6, <4>4 DEF Taking
        <5>2. store'[f] = Local(f) /\ down' = <<Header("OKAY", 0)>>
          <6>1. store \in [File -> {Absent} \cup Contents]
            BY DEF IInv, Typed
          <6> QED BY <1>2, <1>4, <1>12, <4>4, <5>1, <6>1 DEF Reply
        <5>3. Len(down') = 1 /\ down'[1].id = "OKAY"
          BY <5>2 DEF Header
        <5>4. store'[call'.file] = Local(call.file)'
          BY <3>5, <5>1, <5>2 DEF Local
        <5>5. Answered'
          BY <3>5, <5>1, <5>3, <5>4 DEF Answered
        <5> QED BY <3>3, <3>5, <4>4, <5>5 DEF Clean
      <4>5. CASE pc = "status" /\ OneFail /\ Refused(up, dev)
        <5>1. AtRest' /\ OneFail'
          BY <1>9, <3>3, <3>6, <4>5 DEF Refused, OneFail
        <5> QED BY <3>3, <3>5, <4>5, <5>1 DEF Clean
      <4> QED
        <5>1. CASE pc \in {"walk", "open", "send"}
          BY <3>3, <3>5, <4>1, <5>1 DEF Clean
        <5>2. CASE pc \in {"copy", "status"}
          BY <4>2, <4>3, <4>4, <4>5, <5>2
        <5> QED BY <2>2, <5>1, <5>2 DEF FilePhases
    <3>9. Tainted => call.errs # {} /\ OnlyFails(down')
      BY <1>9, <3>4 DEF Tainted
    <3>10. pc = "walk" => ~(call.errs = {})
      BY <2>2, <3>8, <3>9 DEF PushUp
    <3> QED BY <1>1, <1>2, <1>5, <1>7, <1>12, <2>2, <3>1, <3>8, <3>9, <3>10, TakesPush
  <2> QED BY <1>2, <1>6, <1>8, <1>10, <1>12, <2>1, <2>2, DeviceHeard DEF FilePhases
<1> QED BY <1>11, <1>12

\* The device gives up the push it is in.
LEMMA Drops ==
  ASSUME IInv, Busy(dev), dev' = Idle,
         store' = IF dev.mode = "send" THEN [store EXCEPT ![dev.file] = Absent] ELSE store
  PROVE  /\ StoresOnly /\ store' \in [File -> {Absent} \cup Contents]
         /\ dev' \in Devices /\ ~Busy(dev') /\ dev'.mode # "send"
<1>1. store \in [File -> {Absent} \cup Contents]
  BY DEF IInv, Typed
<1>2. StoresOnly /\ store' \in [File -> {Absent} \cup Contents]
  BY <1>1 DEF StoresOnly
<1> QED BY <1>2 DEF Devices, Busy, Idle

LEMMA DeviceRefusesInv == IInv /\ DeviceRefuses => IInv'
<1> SUFFICES ASSUME IInv, DeviceRefuses PROVE IInv'
  OBVIOUS
<1>1. /\ up # <<>> /\ up' = <<>> /\ dev' = Idle /\ UNCHANGED client
      /\ net' = IF net = "up" THEN "cut" ELSE net
      /\ store' = IF dev.mode = "send" THEN [store EXCEPT ![dev.file] = Absent] ELSE store
      /\ down' = IF net = "up" THEN down \o <<Failed("request")>> ELSE down
      /\ IF dev.mode = "idle" THEN up[1].id \in {"DATA", "DONE"}
         ELSE dev.mode \in {"send", "discard"} /\ up[1].id \notin {"DATA", "DONE"}
  BY RequestOf DEF DeviceRefuses, Reply
<1>2. Busy(dev) /\ up[1].id \notin {"DATA", "DONE"} /\ ~AtRest
  BY <1>1 DEF IInv, Stream, Ahead, Awaited, Busy, AtRest
<1>3. /\ StoresOnly /\ store' \in [File -> {Absent} \cup Contents]
      /\ dev' \in Devices /\ ~Busy(dev') /\ dev'.mode # "send"
  BY <1>1, <1>2, Drops
<1>4. Stream' /\ Exposed'
  <2>1. Adjacent(<<>>, size') /\ Ahead(<<>>, dev', size') /\ Taken(dev', size')
    BY <1>3 DEF Adjacent, Ahead, Taken
  <2>2. PushesOnly(<<>>, dev', Unreported')
    BY <1>3 DEF PushesOnly
  <2> QED BY <1>1, <2>1, <2>2 DEF Stream, Exposed
<1>5. Typed'
  <2>1. down \in Seq(Items) /\ net \in {"up", "cut", "closed"}
    BY DEF IInv, Typed
  <2>2. down' \in Seq(Items) /\ net' \in {"up", "cut", "closed"}
    BY <1>1, <2>1, RefusalOf
  <2>3. up' \in Seq(Requests)
    BY <1>1
  <2> QED BY <1>1, <1>3, <2>2, <2>3 DEF IInv, Typed, client
<1>6. CASE net # "up"
  BY <1>1, <1>2, <1>3, <1>4, <1>5, <1>6, DeviceUnheard
<1>7. CASE net = "up"
  <2>1. dev # Idle
    BY <1>2 DEF Idle, Busy
  <2>2. ~(pc = "pull")
    <3>1. dev.mode # "recv"
      BY <1>2 DEF Busy
    <3> QED BY <1>7, <2>1, <3>1, PullDef DEF PullAbsent, PullPresent
  <2>3. \/ pc = "idle" /\ (result.err = "error" \/ result.op = "cmdpush")
        \/ pc \in {"walk"} \cup FilePhases /\ PushUp
    BY <1>2, <1>7, <2>1, <2>2, UpCases
  <2>4. ASSUME pc \in {"walk"} \cup FilePhases, PushUp PROVE Talk'
    <3>1. 1 \in 1..Len(up)
      BY <1>1, EmptyOf DEF IInv, Typed
    <3>2. Broken(up, dev, 1)
      BY <1>2, <2>4, <3>1 DEF PushUp, Broken, OfPush
    <3>3. Tainted
      BY <2>4, <3>1, <3>2 DEF PushUp, Clean, Dead
    <3>4. OnlyFails(down') /\ call.errs # {}
      BY <1>1, <1>7, <3>3, RefusalOf DEF Tainted, IInv, Typed
    <3>5. UNCHANGED <<pc, call, result>> /\ net' = "cut"
      BY <1>1, <1>7 DEF client
    <3>6. PushTalk'
      BY <3>4, <3>5 DEF PushTalk
    <3> QED BY <2>4, <3>5, <3>6 DEF Talk, QuietTalk, Quiet, LstatTalk, DentsTalk, PullTalk, FilePhases
  <2>5. net' \in {"up", "cut"}
    BY <1>1, <1>7
  <2> QED BY <1>1, <1>3, <1>4, <1>5, <1>7, <2>3, <2>4, <2>5, DeviceHeard DEF FilePhases
<1> QED BY <1>6, <1>7

LEMMA DeviceAbortsInv == IInv /\ DeviceAborts => IInv'
<1> SUFFICES ASSUME IInv, DeviceAborts PROVE IInv'
  OBVIOUS
<1>1. /\ net # "up" /\ up = <<>> /\ Busy(dev) /\ dev' = Idle
      /\ store' = IF dev.mode = "send" THEN [store EXCEPT ![dev.file] = Absent] ELSE store
      /\ UNCHANGED <<net, up, down, client>>
  BY DEF DeviceAborts, Busy
<1>2. ~AtRest
  BY <1>1 DEF AtRest, Busy, Idle
<1>3. /\ StoresOnly /\ store' \in [File -> {Absent} \cup Contents]
      /\ dev' \in Devices /\ ~Busy(dev') /\ dev'.mode # "send"
  BY <1>1, Drops
<1>4. Stream' /\ Exposed'
  <2>1. Adjacent(<<>>, size') /\ Ahead(<<>>, dev', size') /\ Taken(dev', size')
    BY <1>3 DEF Adjacent, Ahead, Taken
  <2>2. PushesOnly(<<>>, dev', Unreported')
    BY <1>3 DEF PushesOnly
  <2> QED BY <1>1, <2>1, <2>2 DEF Stream, Exposed
<1>5. Typed'
  BY <1>1, <1>3 DEF IInv, Typed, client
<1> QED BY <1>1, <1>2, <1>3, <1>4, <1>5, DeviceUnheard

-----------------------------------------------------------------------------
(***************************************************************************)
(* The loss of the connection, and the steps taken together.               *)
(***************************************************************************)
\* A beginning of s
Cut(s, t) == /\ Len(t) <= Len(s) /\ \A i \in 1..Len(t) : t[i] = s[i]
             /\ s = <<>> => t = <<>>
             /\ Len(t) = Len(s) => t = s

LEMMA CutSeq ==
  ASSUME NEW S, NEW s \in Seq(S), NEW n \in 0..Len(s)
  PROVE  SubSeq(s, 1, n) \in Seq(S) /\ Cut(s, SubSeq(s, 1, n))
<1> DEFINE t == SubSeq(s, 1, n)
<1>1. Len(s) \in Nat /\ t \in Seq(S) /\ Len(t) = n /\ \A i \in 1..n : t[i] = s[i]
  BY CutOf
<1> HIDE DEF t
<1>2. s = <<>> => t = <<>>
  BY <1>1, EmptyOf
<1>3. Len(t) = Len(s) => t = s
  BY <1>1, SeqEqual
<1> QED BY <1>1, <1>2, <1>3 DEF Cut, t

LEMMA LoseInv == IInv /\ Lose => IInv'
<1> SUFFICES ASSUME IInv, Lose PROVE IInv'
  OBVIOUS
<1>1. /\ net = "up" /\ net' = "cut" /\ UNCHANGED <<dev, store, client>>
      /\ \E i \in 0..Len(up) : up' = SubSeq(up, 1, i)
      /\ \E i \in 0..Len(down) : down' = SubSeq(down, 1, i)
  BY DEF Lose, device
<1>2. UNCHANGED <<size, disk, pc, call, at, toRead, listing, garbled, result, calls>>
  BY <1>1 DEF client
<1>3. /\ up \in Seq(Requests) /\ down \in Seq(Items) /\ Talk /\ Phases /\ Len(down) \in Nat
  BY <1>1, EmptyOf DEF IInv, Typed
<1>4. /\ up' \in Seq(Requests) /\ Cut(up, up')
      /\ down' \in Seq(Items) /\ Cut(down, down')
  BY <1>1, <1>3, CutSeq
<1>5. Len(down') \in Nat /\ Len(down') <= Len(down) /\ (down' = <<>> <=> Len(down') = 0)
      /\ (down = <<>> <=> Len(down) = 0)
  BY <1>3, <1>4, EmptyOf DEF Cut
<1>6. /\ Phases' /\ Kept' /\ Unreported' = Unreported
  BY <1>1, DeviceKeeps DEF StoresOnly
<1>7. Typed' /\ (Len(down) = 1 /\ down' # <<>> => Len(down') = 1)
  <2>1. Typed'
    BY <1>1, <1>2, <1>4 DEF IInv, Typed
  <2>2. PICK m \in Nat : m = Len(down')
    BY <1>5
  <2>3. Len(down) = 1 => m <= 1
    BY <1>5, <2>2
  <2>4. down' # <<>> => m # 0
    BY <1>5, <2>2
  <2>5. Len(down) = 1 /\ down' # <<>> => m = 1
    BY <2>3, <2>4
  <2> QED BY <2>1, <2>2, <2>5
<1>8. Stream' /\ Exposed'
  <2>1. PICK n \in 0..Len(up) : up' = SubSeq(up, 1, n)
    BY <1>1
  <2>2. Adjacent(up, size) /\ Ahead(up, dev, size) /\ PushesOnly(up, dev, Unreported)
    BY DEF IInv, Stream, Exposed
  <2>3. Adjacent(up', size) /\ Ahead(up', dev, size) /\ PushesOnly(up', dev, Unreported)
    BY <1>3, <2>1, <2>2, CutStream
  <2> QED BY <1>1, <1>2, <1>6, <2>3 DEF IInv, Stream, Exposed
<1>9. QuietTalk'
  BY <1>1, <1>2, <1>3, <1>4 DEF Talk, QuietTalk, Quiet, Cut
<1>10. LstatTalk'
  <2>1. SUFFICES ASSUME pc = "lstat", down' # <<>> PROVE Len(down') = 1 /\ down'[1].id = "STAT"
    BY <1>1, <1>2 DEF LstatTalk
  <2>2. down # <<>>
    BY <1>4, <2>1 DEF Cut
  <2>3. Len(down) = 1 /\ down[1].id = "STAT"
    BY <1>3, <2>1, <2>2 DEF Talk, LstatTalk
  <2>4. Len(down') = Len(down)
    BY <1>7, <2>1, <2>3
  <2> QED BY <1>4, <2>3, <2>4 DEF Cut
<1>11. DentsTalk'
  <2>1. Present' = Present
    BY <1>1 DEF Present
  <2> SUFFICES ASSUME pc = "dents" PROVE DentsTalk'
    BY <1>2 DEF DentsTalk
  <2>2. /\ Len(listing) <= Len(Present) /\ \A i \in 1..Len(listing) : listing[i] = Present[i]
        /\ RestOfList(down, Len(listing), Present)
    BY <1>3 DEF Talk, DentsTalk
  <2>3. Len(listing) \in Nat /\ Len(Present) \in Nat
    BY PresentOf, EmptyOf DEF IInv, Typed
  <2>4. RestOfList(down', Len(listing), Present)
    <3>1. Len(listing) + Len(down') <= Len(Present) + 1
      BY <1>3, <1>5, <2>2, <2>3 DEF RestOfList
    <3>2. \A i \in 1..Len(down') : i \in 1..Len(down) /\ down'[i] = down[i]
      BY <1>3, <1>4, <1>5 DEF Cut
    <3> QED BY <2>2, <3>1, <3>2 DEF RestOfList
  <2> QED BY <1>1, <1>2, <2>1, <2>2, <2>4 DEF DentsTalk
<1>12. PushTalk'
  <2> SUFFICES ASSUME pc \in {"walk"} \cup FilePhases PROVE PushTalk'
    BY <1>2 DEF PushTalk
  <2>1. PushUp /\ (pc = "walk" /\ call.errs = {} => down = <<>>)
    BY <1>1, <1>3 DEF Talk, PushTalk
  <2>2. OnlyFails(down) => OnlyFails(down')
    BY <1>4, <1>5 DEF OnlyFails, Cut
  <2>3. OnlyFails(down) \/ (pc = "status" /\ Answered)
    <3>1. OnlyFails(<<>>) /\ (OneFail => OnlyFails(down))
      BY DEF OnlyFails, OneFail
    <3>2. Tainted => OnlyFails(down)
      BY DEF Tainted
    <3> QED BY <2>1, <3>1, <3>2 DEF PushUp, Clean, FilePhases
  <2>4. Answered => OnlyFails(down') \/ Answered'
    <3> SUFFICES ASSUME Answered PROVE OnlyFails(down') \/ Answered'
      OBVIOUS
    <3>1. Len(down) = 1 /\ down[1].id = "OKAY" /\ AtRest /\ store[call.file] = Local(call.file)
      BY DEF Answered
    <3>2. CASE down' = <<>>
      BY <3>2 DEF OnlyFails
    <3>3. CASE down' # <<>>
      <4>1. Len(down') = 1 /\ Len(down') = Len(down)
        BY <1>7, <3>1, <3>3
      <4>2. down' = down /\ AtRest'
        <5>1. down' = down
          BY <1>4, <4>1 DEF Cut
        <5>2. up' = <<>>
          BY <1>4, <3>1 DEF Cut, AtRest
        <5> QED BY <1>1, <3>1, <5>1, <5>2 DEF AtRest
      <4>3. Local(call.file)' = Local(call.file)
        BY <1>2 DEF Local
      <4> QED BY <1>1, <1>2, <3>1, <4>2, <4>3 DEF Answered
    <3> QED BY <3>2, <3>3
  <2>5. pc' = "walk" /\ call'.errs = {} => down' = <<>>
    BY <1>2, <1>4, <2>1 DEF Cut
  <2> QED BY <1>1, <1>2, <2>2, <2>3, <2>4, <2>5 DEF PushTalk
<1>13. CASE pc # "pull"
  BY <1>2, <1>6, <1>7, <1>8, <1>9, <1>10, <1>11, <1>12, <1>13 DEF IInv, Talk, PullTalk
<1>14. CASE pc = "pull" /\ store[call.file] = Absent
  <2>1. PullAbsent
    BY <1>1, <1>14, PullDef
  <2>2. toRead' = 0 /\ (down' = <<>> \/ down' = <<Failed("absent")>>)
    <3>1. CASE down = <<>>
      BY <1>2, <1>4, <2>1, <3>1 DEF PullAbsent, Cut
    <3>2. CASE down = <<Failed("absent")>> /\ down' # <<>>
      <4>1. Len(down) = 1 /\ Len(down') = Len(down)
        BY <1>5, <3>2
      <4> QED BY <1>2, <1>4, <2>1, <3>2, <4>1 DEF PullAbsent, Cut
    <3> QED BY <1>2, <2>1, <3>1, <3>2 DEF PullAbsent
  <2>3. PullAbsent'
    BY <1>1, <2>2 DEF PullAbsent
  <2>4. PullTalk'
    BY <1>1, <1>2, <1>14, <2>3 DEF PullTalk
  <2> QED BY <1>6, <1>7, <1>8, <1>9, <1>10, <1>11, <1>12, <2>4 DEF IInv, Talk
<1>15. CASE pc = "pull" /\ store[call.file] # Absent
  <2> DEFINE F == store[call.file]
  <2>1. F \in Seq(Bytes) /\ PullPresent(F)
    BY <1>1, <1>15, PullDef
  <2> HIDE DEF F
  <2>2. PICK c : Chunks(F, c, down, toRead, Len(disk))
    BY <2>1 DEF PullPresent
  <2>3. PICK w \in 0..Len(down) : down' = SubSeq(down, 1, w)
    BY <1>1
  <2>4. toRead \in Nat /\ Len(disk) \in Nat
    BY EmptyOf DEF IInv, Typed
  <2>5. Chunks(F, [k \in 0..w |-> c[k]], down', toRead, Len(disk))
    BY <1>3, <2>1, <2>2, <2>3, <2>4, CutChunks
  <2>6. Begins(disk, F)
    BY <2>1 DEF PullPresent
  <2>7. PICK b : Chunks(F, b, down', toRead', Len(disk')) /\ Begins(disk', F)
    BY <1>2, <2>5, <2>6
  <2>8. Talk'
    <3>1. store' = store /\ call' = call /\ pc' = "pull" /\ net' # "up" /\ store[call.file] # Absent
      BY <1>1, <1>2, <1>15
    <3> QED BY <2>7, <3>1, PullTalkAt DEF F
  <2> QED BY <1>6, <1>7, <1>8, <2>8 DEF IInv
<1> QED BY <1>13, <1>14, <1>15

LEMMA InitInv == Init => IInv
<1> SUFFICES ASSUME Init PROVE IInv
  OBVIOUS
<1>1. /\ net = "up" /\ up = <<>> /\ down = <<>> /\ dev = Idle
      /\ size \in [File -> 0..MaxSize]
      /\ disk = <<>> /\ pc = "idle" /\ call = NoCall
      /\ at = 0 /\ toRead = 0 /\ listing = <<>> /\ garbled = FALSE
      /\ result = NoResult /\ calls = 0
  BY DEF Init
<1>2. MaxSize \in Nat /\ MaxCalls \in Nat
  BY BoundsAssumption
<1>3. store \in [File -> {Absent} \cup Contents]
  <2>1. <<>> \in Contents
    <3>1. <<>> \in Seq(Bytes) /\ Len(<<>>) = 0
      OBVIOUS
    <3> QED BY <1>2, <3>1 DEF Contents
  <2>2. CASE store \in [File -> {Absent} \cup {<<>>}]
    BY <2>1, <2>2
  <2>3. CASE \E n \in [File -> 1..MaxSize] : store = [f \in File |-> Remote(f, n[f])]
    <3>1. PICK n \in [File -> 1..MaxSize] : store = [f \in File |-> Remote(f, n[f])]
      BY <2>3
    <3>2. \A f \in File, k \in 1..MaxSize : Remote(f, k) \in Contents
      <4> SUFFICES ASSUME NEW f \in File, NEW k \in 1..MaxSize PROVE Remote(f, k) \in Contents
        OBVIOUS
      <4>1. k \in Nat /\ k <= MaxSize
        BY <1>2
      <4>2. \A i \in 1..k : <<"remote", f, i>> \in Bytes
        BY <1>2, <4>1 DEF Bytes
      <4>3. Remote(f, k) \in Seq(Bytes) /\ Len(Remote(f, k)) = k
        BY <4>1, <4>2 DEF Remote
      <4> QED BY <4>1, <4>3 DEF Contents
    <3> QED BY <3>1, <3>2
  <2> QED BY <2>2, <2>3 DEF Init
<1>4. Typed
  <2>1. <<>> \in Seq(Requests) /\ <<>> \in Seq(Items) /\ <<>> \in Seq(Bytes) /\ <<>> \in Seq(File)
    OBVIOUS
  <2> QED BY <1>1, <1>2, <1>3, <2>1 DEF Typed, Devices
<1>5. Phases
  <2>1. call \in CallType /\ result \in ResultType
    <3>1. <<>> \in Seq(File)
      OBVIOUS
    <3> QED BY <1>1, <3>1 DEF NoCall, NoResult, CallType, ResultType, AnyOp, Errs
  <2>2. DOMAIN call.todo = {} /\ call.errs = {} /\ call.op = "none"
    BY <1>1 DEF NoCall
  <2>3. result.op = "none"
    BY <1>1 DEF NoResult
  <2> QED BY <1>1, <2>1, <2>2, <2>3 DEF Phases, OpsAt, FilePhases, PushOps
<1>6. Stream /\ Exposed
  <2>1. Adjacent(<<>>, size) /\ Ahead(<<>>, Idle, size) /\ Taken(Idle, size) /\ PushesOnly(<<>>, Idle, Unreported)
    BY DEF Adjacent, Ahead, Taken, PushesOnly, Idle, Busy
  <2> QED BY <1>1, <2>1 DEF Stream, Exposed
<1>7. Kept
  <2>1. result.op = "none" /\ pc = "idle"
    BY <1>1 DEF NoResult
  <2> QED BY <2>1 DEF Kept, Pushing, Latest, PulledPrefix, ListTrue, Ended
<1>8. Talk
  BY <1>1 DEF Talk, QuietTalk, LstatTalk, DentsTalk, PullTalk, PushTalk, FilePhases, AtRest
<1> QED BY <1>4, <1>5, <1>6, <1>7, <1>8 DEF IInv

LEMMA NextInv == IInv /\ [Next]_vars => IInv'
<1> SUFFICES ASSUME IInv, [Next]_vars PROVE IInv'
  OBVIOUS
<1>1. CASE CallAny
  BY <1>1, CallAnyInv
<1>2. CASE Client
  BY <1>2, StatInv, LstatInv, SendListInv, ReadDentInv, CreateInv, RecvInv, NextChunkInv, PayloadInv,
     WalkInv, OpenLocalInv, SendInv, CopyChunkInv, SendDoneInv, ReadStatusInv, CmdPushInv DEF Client
<1>3. CASE Device
  BY <1>3, DeviceStatInv, DeviceListInv, DeviceRecvInv, DeviceSendsInv, DeviceSendInv, DeviceDataInv,
     DeviceDoneInv, DeviceRefusesInv, DeviceAbortsInv DEF Device
<1>4. CASE Cancel
  BY <1>4, CancelInv
<1>5. CASE Lose
  BY <1>5, LoseInv
<1>6. CASE UNCHANGED vars
  <2>1. UNCHANGED <<net, up, down, dev, store, size, disk, pc, call, at, toRead, listing, garbled, result, calls>>
    BY <1>6 DEF vars, device, client
  <2>2. Typed' /\ Phases'
    BY <2>1 DEF IInv, Typed, Phases
  <2>3. Stream' /\ Exposed'
    BY <2>1 DEF IInv, Stream, Exposed, Unreported, Latest
  <2>4. Kept'
    BY <2>1 DEF IInv, Kept, Pushing, Unreported, Latest, Local, PulledPrefix, ListTrue, Present, Ended
  <2>5. net' # "closed" => Talk'
    <3> SUFFICES ASSUME net # "closed" PROVE Talk'
      BY <2>1
    <3>1. QuietTalk' /\ LstatTalk' /\ DentsTalk'
      BY <2>1 DEF IInv, Talk, QuietTalk, Quiet, LstatTalk, DentsTalk, Present, AtRest
    <3>2. PullTalk'
      BY <2>1 DEF IInv, Talk, PullTalk, PullAbsent, PullPresent
    <3>3. PushTalk'
      BY <2>1 DEF IInv, Talk, PushTalk, PushUp, Tainted, Clean, Answered, OneFail, AtRest, Local
    <3> QED BY <3>1, <3>2, <3>3 DEF Talk
  <2> QED BY <2>2, <2>3, <2>4, <2>5 DEF IInv
<1> QED BY <1>1, <1>2, <1>3, <1>4, <1>5, <1>6 DEF Next

\* Every state a connection reaches is one of IInv: whose turn it is, what is on
\* its way and what the device holds are those of the current call
\* (wire/sync_conn.go, sync_file.go, sync_dir.go).
THEOREM Invariance == Spec => []IInv
<1> QED BY InitInv, NextInv, PTL DEF Spec

\* The types of the state, which record what a header read at the wrong point of the
\* stream would break (wire/sync_conn.go).
THEOREM TypeCorrect == Spec => []TypeOK
<1>1. IInv => TypeOK
  <2> SUFFICES ASSUME IInv PROVE TypeOK
    OBVIOUS
  <2>1. Typed /\ Phases
    BY DEF IInv
  <2>2. dev.mode \in {"idle", "recv", "send", "discard"}
    BY <2>1 DEF Typed, Devices, Idle
  <2>3. \A f \in File : store[f] = Absent \/ store[f] \in Seq(Bytes)
    BY <2>1 DEF Typed, Contents
  <2>4. call.errs \subseteq call.pushed /\ call.pushed \subseteq File /\ result.err \in Errs
    BY <2>1 DEF Phases, CallType, ResultType
  <2>5. pc \in {"idle", "stat", "lstat", "list", "dents", "create", "recv", "pull",
                "walk", "open", "send", "copy", "status"}
    BY <2>1 DEF Phases, FilePhases
  <2> QED BY <2>1, <2>2, <2>3, <2>4, <2>5 DEF TypeOK, Typed
<1> QED BY <1>1, Invariance, PTL

\* A pull that ends without an error has written a beginning of the file, all of it
\* unless the connection was lost (PullFile, SyncFileReader.Read).
THEOREM PulledIsPrefix == Spec => []PulledPrefix
<1>1. IInv => PulledPrefix
  BY DEF IInv, Kept
<1> QED BY <1>1, Invariance, PTL

\* A listing that ends with io.EOF is the whole directory (ReadDir, readDentV1).
THEOREM ListIsTrue == Spec => []ListTrue
<1>1. IInv => ListTrue
  BY DEF IInv, Kept
<1> QED BY <1>1, Invariance, PTL

\* A push that is reported as done has been done, each file of a PushDir too
\* (PushFile, PushDir, CopyDone).
THEOREM PushIsTrue == Spec => []PushTrue
<1>1. IInv => PushTrue
  <2> SUFFICES ASSUME IInv PROVE PushTrue
    OBVIOUS
  <2>1. \A f \in Pushing \ Unreported : store[f] = Local(f)
    BY DEF IInv, Kept
  <2>2. ASSUME Ended({"push"}, "nil") PROVE store[result.file] = Local(result.file)
    <3>1. Pushing = {result.file} /\ Unreported = {}
      BY <2>2 DEF Ended, Pushing, Unreported, Latest
    <3> QED BY <2>1, <3>1
  <2>3. ASSUME pc = "idle", result.op = "pushdir"
        PROVE  \A f \in result.pushed \ result.errs : store[f] = Local(f)
    <3>1. Pushing = result.pushed /\ Unreported = result.errs
      BY <2>3 DEF Pushing, Unreported, Latest
    <3> QED BY <2>1, <3>1
  <2> QED BY <2>2, <2>3 DEF PushTrue
<1> QED BY <1>1, Invariance, PTL

\* A call that ends without an error leaves nothing behind for the next one to read
\* (wire/sync_conn.go: the replies carry no name of what they answer).
THEOREM StaysInStep == Spec => []InStep
<1>1. IInv => InStep
  <2> SUFFICES ASSUME IInv, pc = "idle", result.err \in {"nil", "missing"}, net = "up"
               PROVE  up = <<>> /\ down = <<>> /\ dev = Idle
    BY DEF InStep
  <2>1. result.op # "cmdpush"
    BY DEF IInv, Phases
  <2> QED BY <2>1 DEF IInv, Talk, QuietTalk, Quiet, AtRest
<1> QED BY <1>1, Invariance, PTL

-----------------------------------------------------------------------------
(***************************************************************************)
(* SyncConn implements SyncService.                                        *)
(***************************************************************************)
LEMMA ServiceSame ==
  ASSUME UNCHANGED <<store, size>>, Unreported' = Unreported, Pushing' = Pushing
  PROVE  UNCHANGED Service!vars
BY DEF Service!vars

\* At rest the connection owes nothing: a call may begin.
LEMMA CallService ==
  ASSUME IInv, NEW op \in AnyOp \ {"none"}, NEW f, NEW todo, Call(op, f, todo),
         op \in {"push", "cmdpush"} => f \in File
  PROVE  Service!Next
<1>1. /\ pc = "idle" /\ result.err \in {"nil", "missing"} /\ result.op # "cmdpush"
      /\ pc' # "idle" /\ call' = [op |-> op, file |-> f, todo |-> todo, pushed |-> {}, errs |-> {}]
      /\ op = "pushdir" => pc' = "walk"
      /\ UNCHANGED <<store, size>>
  BY DEF Call, device
<1>2. Unreported = {}
  <2>1. Latest = result
    BY <1>1 DEF Latest
  <2>2. /\ result.op = "pushdir" => result.errs = {}
        /\ result.op = "push" => result.err = "nil"
    BY <1>1 DEF IInv, Phases
  <2>3. CASE result.op = "pushdir"
    BY <1>1, <2>1, <2>2, <2>3 DEF Unreported
  <2>4. CASE result.op = "push"
    BY <1>1, <2>1, <2>2, <2>4 DEF Unreported
  <2>5. CASE result.op \notin {"push", "pushdir"}
    BY <1>1, <2>1, <2>5 DEF Unreported
  <2> QED BY <2>3, <2>4, <2>5
<1>3. /\ Latest' = call' /\ call'.op = op /\ call'.file = f /\ call'.pushed = {} /\ call'.errs = {}
  BY <1>1 DEF Latest
<1>4. CASE op \in {"push", "cmdpush"}
  <2>1. Unreported' = {f}
    BY <1>1, <1>3, <1>4 DEF Unreported
  <2>2. Pushing' \ {f} = {}
    BY <1>3, <1>4 DEF Pushing
  <2>3. Service!Begin({f})
    BY <1>1, <1>2, <2>1, <2>2 DEF Service!Begin
  <2> QED BY <1>4, <2>3 DEF Service!Next
<1>5. CASE op \notin {"push", "cmdpush"}
  <2>1. Unreported' = {}
    <3>1. CASE op = "pushdir"
      BY <1>1, <1>3, <3>1 DEF Unreported
    <3>2. CASE op # "pushdir"
      BY <1>3, <1>5, <3>2 DEF Unreported
    <3> QED BY <3>1, <3>2
  <2>2. Pushing' = {}
    BY <1>3, <1>5 DEF Pushing
  <2>3. Service!Begin({})
    BY <1>1, <1>2, <2>1, <2>2 DEF Service!Begin
  <2> QED BY <2>3 DEF Service!Next
<1> QED BY <1>4, <1>5

\* A call that is no push is not seen.
LEMMA ReadService ==
  ASSUME IInv, pc # "idle", call.op \notin PushOps, UNCHANGED <<store, size>>,
         (\E err : Return(err)) \/ (call' = call /\ pc' # "idle")
  PROVE  UNCHANGED Service!vars
<1>1. Phases
  BY DEF IInv
<1>2. Unreported = {} /\ Pushing = {}
  BY <1>1, NoPush
<1>3. CASE \E err : Return(err)
  BY <1>1, <1>2, <1>3, ReturnExposes, ServiceSame
<1>4. CASE call' = call /\ pc' # "idle"
  <2>1. Unreported' = {} /\ Pushing' = {}
    BY <1>4, Zenon DEF Unreported, Pushing, Latest, PushOps
  <2> QED BY <1>2, <2>1, ServiceSame
<1> QED BY <1>3, <1>4

LEMMA WalkService ==
  ASSUME IInv, Walk
  PROVE  Service!Next \/ UNCHANGED Service!vars
<1>1. /\ pc = "walk" /\ UNCHANGED <<store, size>> /\ Phases /\ call \in CallType /\ call.op = "pushdir"
  BY DEF Walk, device, IInv, Phases, OpsAt
<1>2. Unreported = call.errs /\ Pushing = call.pushed
  <2>1. Latest = call
    BY <1>1 DEF Latest
  <2>2. {f \in {call.file} : FALSE} = {}
    OBVIOUS
  <2>3. Unreported = call.errs \cup {f \in {call.file} : FALSE}
    BY <1>1, <2>1 DEF Unreported
  <2> QED BY <1>1, <2>1, <2>2, <2>3 DEF Pushing
<1>3. CASE \E err : Return(err)
  BY <1>1, <1>3, ReturnExposes, ServiceSame
<1>4. CASE /\ call.todo # <<>> /\ pc' = "open"
           /\ call' = [call EXCEPT !.todo = Tail(@), !.file = Head(call.todo),
                                   !.pushed = @ \cup {Head(call.todo)}]
  <2> DEFINE h == Head(call.todo)
  <2>1. h \in File
    <3>1. call.todo \in Seq(File)
      BY <1>1 DEF CallType
    <3> QED BY <1>4, <3>1, TailOf
  <2>2. /\ call'.op = "pushdir" /\ call'.file = h /\ call'.pushed = call.pushed \cup {h} /\ call'.errs = call.errs
    BY <1>1, <1>4 DEF CallType
  <2> HIDE DEF h
  <2>3. Latest' = call' /\ pc' = "open"
    BY <1>4 DEF Latest
  <2>4. Unreported' = call.errs \cup {h}
    BY <2>2, <2>3 DEF Unreported
  <2>5. Pushing' = call.pushed \cup {h}
    BY <2>2, <2>3 DEF Pushing
  <2>6. Service!Expose(h)
    BY <1>1, <1>2, <2>4, <2>5 DEF Service!Expose
  <2> QED BY <2>1, <2>6 DEF Service!Next
<1>5. CASE pc' = pc /\ call' = [call EXCEPT !.todo = Tail(@)]
  <2>1. call'.op = call.op /\ call'.file = call.file /\ call'.pushed = call.pushed /\ call'.errs = call.errs
    BY <1>1, <1>5 DEF CallType
  <2>2. Latest = call /\ Latest' = call'
    BY <1>1, <1>5 DEF Latest
  <2>3. Unreported' = call.errs /\ Pushing' = call.pushed
    <3>1. Unreported' = call.errs \cup {f \in {call.file} : FALSE}
      BY <1>1, <1>5, <2>1, <2>2 DEF Unreported
    <3>2. {f \in {call.file} : FALSE} = {}
      OBVIOUS
    <3> QED BY <1>1, <2>1, <2>2, <3>1, <3>2 DEF Pushing
  <2> QED BY <1>1, <1>2, <2>3, ServiceSame
<1> QED BY <1>3, <1>4, <1>5 DEF Walk

\* A push goes on, or ends; it is reported when the device has the file.
LEMMA PushService ==
  ASSUME IInv, IInv', pc \in FilePhases, UNCHANGED <<net, store, size>>,
         \/ PushReturn("error")
         \/ pc = "status" /\ PushReturn("nil")
         \/ call' = call /\ pc' \in FilePhases
  PROVE  Service!Next \/ UNCHANGED Service!vars
<1>1. Phases /\ call.file \in File
  BY DEF IInv, Phases, FilePhases
<1>2. CASE PushReturn("error")
  <2>1. Pushing' = Pushing /\ Unreported' = Unreported
    BY <1>1, <1>2, PushReturnPhases
  <2> QED BY <2>1, ServiceSame
<1>3. CASE pc = "status" /\ PushReturn("nil")
  <2>1. call.op \in {"push", "pushdir"}
    BY <1>1, <1>3 DEF Phases, OpsAt
  <2>2. Pushing' = Pushing /\ Unreported' = Unreported \ {call.file}
    BY <1>1, <1>3, <2>1, PushReturnPhases
  <2>3. call.file \in Unreported /\ call.file \in Pushing
    <3>1. Latest = call /\ pc # "idle"
      BY <1>3 DEF Latest
    <3>2. CASE call.op = "push"
      BY <1>3, <3>1, <3>2 DEF Unreported, Pushing
    <3>3. CASE call.op = "pushdir"
      <4>1. call.file \in call.pushed
        BY <1>1, <1>3, <3>3 DEF Phases, FilePhases
      <4> QED BY <1>3, <3>1, <3>3, <4>1 DEF Unreported, Pushing
    <3> QED BY <2>1, <3>2, <3>3
  <2>4. store[call.file] = Local(call.file)
    <3>1. \A f \in Pushing' \ Unreported' : store'[f] = Local(f)'
      BY DEF IInv, Kept
    <3>2. call.file \in Pushing' \ Unreported'
      BY <2>2, <2>3
    <3>3. \A f : Local(f)' = Local(f)
      BY DEF Local
    <3> QED BY <3>1, <3>2, <3>3
  <2>5. Service!Report(call.file)
    <3>1. Service!Local(call.file) = Local(call.file)
      BY DEF Service!Local, Local
    <3>2. Pushing' \ Unreported' = (Pushing \ Unreported) \cup {call.file}
      BY <2>2, <2>3
    <3> QED BY <2>2, <2>3, <2>4, <3>1, <3>2 DEF Service!Report
  <2> QED BY <1>1, <2>5 DEF Service!Next
<1>4. CASE call' = call /\ pc' \in FilePhases
  <2>1. Latest' = call /\ Latest = call /\ pc # "idle" /\ pc' # "idle"
    BY <1>4 DEF Latest, FilePhases
  <2>2. Pushing' = Pushing
    BY <2>1, Zenon DEF Pushing
  <2>3. Unreported' = Unreported
    <3>1. CASE call.op = "pushdir"
      BY <1>4, <2>1, <3>1 DEF Unreported, FilePhases
    <3>2. CASE call.op = "push"
      BY <2>1, <3>2 DEF Unreported
    <3>3. CASE call.op \notin {"push", "pushdir"}
      BY <2>1, <3>3, Zenon DEF Unreported
    <3> QED BY <3>1, <3>2, <3>3
  <2> QED BY <2>2, <2>3, ServiceSame
<1> QED BY <1>2, <1>3, <1>4

\* A file of the device changes only while its push is open or has failed.
LEMMA DeviceService ==
  ASSUME IInv, UNCHANGED client,
         \/ store' = store
         \/ Busy(dev) /\ store' = [store EXCEPT ![dev.file] = Absent]
         \/ Busy(dev) /\ store' = [store EXCEPT ![dev.file] = Local(dev.file)]
  PROVE  Service!Next \/ UNCHANGED Service!vars
<1>1. UNCHANGED <<size, pc, call, result>>
  BY DEF client
<1>2. Unreported' = Unreported /\ Pushing' = Pushing
  BY <1>1 DEF Unreported, Pushing, Latest
<1>3. CASE store' = store
  BY <1>1, <1>2, <1>3, ServiceSame
<1>4. ASSUME Busy(dev) PROVE dev.file \in File /\ dev.file \in Unreported
  <2>1. dev.file \in File
    BY <1>4 DEF IInv, Typed, Devices, Busy, Idle
  <2> QED BY <1>4, <2>1 DEF IInv, Exposed, PushesOnly
<1>5. CASE Busy(dev) /\ store' = [store EXCEPT ![dev.file] = Absent]
  <2>1. Service!Drop(dev.file)
    BY <1>1, <1>2, <1>4, <1>5 DEF Service!Drop
  <2> QED BY <1>4, <1>5, <2>1 DEF Service!Next
<1>6. CASE Busy(dev) /\ store' = [store EXCEPT ![dev.file] = Local(dev.file)]
  <2>1. Service!Local(dev.file) = Local(dev.file)
    BY DEF Service!Local, Local
  <2>2. Service!Commit(dev.file)
    BY <1>1, <1>2, <1>4, <1>6, <2>1 DEF Service!Commit
  <2> QED BY <1>4, <1>6, <2>2 DEF Service!Next
<1> QED BY <1>3, <1>5, <1>6

\* ImplementsService: the calls of a connection, whatever the device does and
\* wherever the connection is lost, change the files of the device and report
\* their pushes as SyncService says (wire/sync_conn.go).
THEOREM Refinement == Spec => ImplementsService
<1>1. Init => Service!Init
  <2> SUFFICES ASSUME Init PROVE Service!Init
    OBVIOUS
  <2>1. Latest.op = "none"
    BY DEF Init, Latest, NoResult
  <2>2. Unreported = {} /\ Pushing = {}
    BY <2>1 DEF Unreported, Pushing
  <2> QED BY <2>2 DEF Service!Init
<1>2. IInv /\ IInv' /\ [Next]_vars => [Service!Next]_(Service!vars)
  <2> SUFFICES ASSUME IInv, IInv', [Next]_vars PROVE Service!Next \/ UNCHANGED Service!vars
    OBVIOUS
  <2>1. CASE CallAny
    <3>1. CASE \E op \in Ops \cap {"stat", "pull", "push", "cmdpush"}, f \in File : Call(op, f, <<>>)
      <4>1. PICK op \in {"stat", "pull", "push", "cmdpush"}, f \in File : Call(op, f, <<>>)
        BY <3>1
      <4>2. op \in AnyOp \ {"none"}
        BY DEF AnyOp, PushOps
      <4> QED BY <4>1, <4>2, CallService
    <3>2. CASE Call("list", Dir, <<>>)
      <4>1. "list" \in AnyOp \ {"none"}
        BY DEF AnyOp
      <4> QED BY <3>2, <4>1, CallService
    <3>3. CASE Call("pushdir", Dir, Names)
      <4>1. "pushdir" \in AnyOp \ {"none"}
        BY DEF AnyOp, PushOps
      <4> QED BY <3>3, <4>1, CallService
    <3> QED BY <2>1, <3>1, <3>2, <3>3 DEF CallAny
  <2>2. CASE Stat \/ finishLstatV1 \/ SendList \/ ReadDent \/ Create \/ Recv \/ ReadNextChunkSize \/ ReadPayload
    <3>1. UNCHANGED <<store, size>>
      BY <2>2 DEF device, Stat, finishLstatV1, SendList, ReadDent, Create, Recv, ReadNextChunkSize, ReadPayload
    <3>2. pc \in {"stat", "lstat", "list", "dents", "create", "recv", "pull"}
      BY <2>2 DEF Stat, finishLstatV1, SendList, ReadDent, Create, Recv, ReadNextChunkSize, ReadPayload
    <3>3. pc # "idle" /\ call.op \notin PushOps
      BY <3>2 DEF IInv, Phases, OpsAt, PushOps
    <3>4. (\E err : Return(err)) \/ (call' = call /\ pc' # "idle")
      <4>1. CASE Stat \/ SendList \/ Create \/ Recv
        BY <4>1 DEF Stat, SendList, Create, Recv, Go
      <4>2. CASE finishLstatV1
        <5>1. call.op \in {"stat", "list", "pull"}
          BY <4>2 DEF finishLstatV1, IInv, Phases, OpsAt
        <5> QED BY <4>2, <5>1 DEF finishLstatV1, Garble, Go
      <4>3. CASE ReadDent
        BY <4>3 DEF ReadDent, Listed, Garble, Go
      <4>4. CASE ReadNextChunkSize
        BY <4>4 DEF ReadNextChunkSize, Garble, Go
      <4>5. CASE ReadPayload
        BY <4>5 DEF ReadPayload, Go
      <4> QED BY <2>2, <4>1, <4>2, <4>3, <4>4, <4>5
    <3> QED BY <3>1, <3>3, <3>4, ReadService
  <2>3. CASE Walk
    BY <2>3, WalkService
  <2>4. CASE OpenLocal \/ Send \/ CopyChunk \/ SendDone \/ ReadStatus
    <3>1. pc \in FilePhases /\ UNCHANGED <<net, store, size>>
      BY <2>4 DEF device, FilePhases, OpenLocal, Send, CopyChunk, SendDone, ReadStatus
    <3>2. \/ PushReturn("error")
          \/ pc = "status" /\ PushReturn("nil")
          \/ call' = call /\ pc' \in FilePhases
      BY <2>4 DEF FilePhases, OpenLocal, Send, CopyChunk, SendDone, ReadStatus, Go
    <3> QED BY <3>1, <3>2, PushService
  <2>5. CASE CmdPushReturns
    <3>1. PICK err \in {"nil", "error"} :
          Return(err) /\ call.op = "cmdpush" /\ pc # "idle" /\ UNCHANGED <<store, size>> /\ Phases
      BY <2>5 DEF CmdPushReturns, device, IInv
    <3> QED BY <3>1, ReturnExposes, ServiceSame
  <2>6. CASE Device
    <3>1. UNCHANGED client
      BY <2>6 DEF Device, DeviceStat, DeviceList, DeviceRecv, DeviceSends, DeviceSend, DeviceData,
                  DeviceDone, DeviceRefuses, DeviceAborts
    <3>2. \/ store' = store
          \/ Busy(dev) /\ store' = [store EXCEPT ![dev.file] = Absent]
          \/ Busy(dev) /\ store' = [store EXCEPT ![dev.file] = Local(dev.file)]
      <4>1. CASE DeviceStat \/ DeviceList \/ DeviceRecv \/ DeviceSends \/ DeviceSend
        BY <4>1 DEF device, DeviceStat, DeviceList, DeviceRecv, DeviceSends, DeviceSend
      <4>2. CASE DeviceData
        BY <4>2 DEF DeviceData, Busy
      <4>3. CASE DeviceDone
        <5>1. up # <<>> /\ up[1].id = "DONE"
          BY <4>3, RequestOf DEF DeviceDone
        <5>2. dev.mode = "send" => dev.got = Local(dev.file)
          BY <5>1, DoneOf
        <5> QED BY <4>3, <5>2 DEF DeviceDone, Busy
      <4>4. CASE DeviceRefuses
        BY <4>4 DEF DeviceRefuses, Busy
      <4>5. CASE DeviceAborts
        BY <4>5 DEF DeviceAborts, Busy
      <4> QED BY <2>6, <4>1, <4>2, <4>3, <4>4, <4>5 DEF Device
    <3> QED BY <3>1, <3>2, DeviceService
  <2>7. CASE Cancel \/ Lose
    <3>1. UNCHANGED client /\ store' = store
      BY <2>7 DEF Cancel, Lose, device
    <3> QED BY <3>1, DeviceService
  <2>8. CASE UNCHANGED vars
    <3>1. UNCHANGED client /\ store' = store
      BY <2>8 DEF vars, device
    <3> QED BY <3>1, DeviceService
  <2> QED BY <2>1, <2>2, <2>3, <2>4, <2>5, <2>6, <2>7, <2>8 DEF Next, Client
<1> QED BY <1>1, <1>2, Invariance, PTL DEF Spec, ImplementsService, Service!Spec
=============================================================================
