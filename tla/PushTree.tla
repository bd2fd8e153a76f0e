------------------------------ MODULE PushTree ------------------------------
(***************************************************************************)
(* Device.PushFileCtx and Device.PushDirCtx (sync.go), with MakeDirs, the  *)
(* walks over the local tree, the goroutine that pushes and the handler it *)
(* calls (PushDir of wire/sync_conn.go).  The local tree may change while  *)
(* it is walked, three times over; the context may end at any time.        *)
(*                                                                         *)
(* What the parts promise is taken from their own modules: MkdirsWithParent*)
(* from Batching, one PushFile from SyncService: a file is reported only   *)
(* if the device has it whole.                                             *)
(***************************************************************************)
EXTENDS Integers, FiniteSets, FileMode

CONSTANTS SubDirs, Files,   \* what may be in the local directory
          Root,             \* the local directory itself
          In,               \* the directory each is in
          Rank,             \* the order in which WalkDir visits them, that of their names
          Forms,            \* how the local directory is named: "plain", "dot" (.), "dotdot" (..)
          Sizes,            \* the lengths a file may have at first, in chunks of 64 KB
          MaxSize,          \* bound: length of a file
          LargeSize,        \* the length PushDir takes for large, 10 MB in the code
          MaxInt,           \* what converting an infinite float to int yields, on some machines
          MaxChanges        \* bound: changes of the local tree

Entries == SubDirs \cup Files

ASSUME TreeAssumption ==
  /\ SubDirs \cap Files = {} /\ Root \notin Entries
  /\ In \in [Entries -> SubDirs \cup {Root}] /\ Rank \in [Entries -> Nat]
\* every entry is somewhere in the local directory
ASSUME DepthAssumption ==
  \A S \in SUBSET Entries : (\A e \in Entries : In[e] \in S \cup {Root} => e \in S) => S = Entries
ASSUME FinitenessAssumption == IsFiniteSet(Entries)
ASSUME FormsAssumption == "plain" \in Forms /\ Forms \subseteq {"plain", "dot", "dotdot"}
ASSUME SizeAssumption ==
  /\ MaxSize \in Nat /\ Sizes \in [Files -> SUBSET (0..MaxSize)]
  /\ LargeSize \in Nat /\ MaxChanges \in Nat /\ MaxInt \in Nat

VARIABLES
  op, srcDir, form, \* the call: "file" or "dir", withSrcDir, and how local is named
  kind,           \* what was at the remote path when the call was made
  local, size,    \* the entries that exist, and the length of each file
  steady,         \* those that have existed since the call, unchanged
  changes,        \* changes of the local tree so far
  remote,         \* external: what is at each place of the device
  blind,          \* why mkdir left out directories and nobody was told: "no", "lost" (its
                  \* output was cut short with its connection), "halted" (at what exists)
  pc, out,        \* where the caller is, and what the call returned
  ctx, conn,
  gpc,            \* where the goroutine is
  todo,           \* entries of directories that were read and are not visited yet
  dirs,           \* ListAllSubDirs: the directories found
  total, sent,    \* PushDir: totalFiles and sentFiles
  cur,            \* the file in hand: its length when it was looked at, and what was sent
  errs,           \* files whose PushFile failed
  reports,        \* progress reported to the handler: the file and the percentage
  late            \* how many of them after the call had returned

config == <<op, srcDir, form, kind>>
tree == <<local, size, steady, changes>>
walk == <<todo, dirs, total, sent>>
goroutine == <<gpc, cur, errs, reports, late>>
caller == <<pc, out, ctx, conn>>
vars == <<config, tree, remote, blind, walk, goroutine, caller>>

Hand(f, p, length) == [file |-> f, place |-> p, total |-> length, at |-> 0, percent |-> 0]
NoFile == Hand(Root, <<"to", Root>>, 0)

(***************************************************************************)
(* Places on the device: "to" is the remote path of the call, "src" the    *)
(* directory in it named as the local one, "above" what holds the remote   *)
(* path.  MakeDirs takes the name from the absolute local path, PushDir    *)
(* from the path as given.                                                 *)
(***************************************************************************)
Bases == {"to", "src", "above"}
Places == Bases \X (Entries \cup {Root})

DirBase == IF srcDir THEN "src" ELSE "to"
FileBase ==
  IF ~srcDir THEN "to"
  ELSE CASE form = "plain" -> "src" [] form = "dot" -> "to" [] form = "dotdot" -> "above"

\* the place a place is in; what holds the remote path is taken to be there
Holder(p) == CASE p[2] # Root -> <<p[1], In[p[2]]>>
               [] p = <<"src", Root>> -> <<"to", Root>>
               [] OTHER -> <<"above", Root>>

\* what is there at first: k at the remote path, and nothing beside it
Bare(k) == [p \in Places |-> IF p = <<"to", Root>> THEN k
                             ELSE IF p = <<"above", Root>> THEN "dir" ELSE "none"]

\* ... or k where one of the entries of the local directory goes
Occupied(e, k) == [p \in Places |-> IF p = <<DirBase, e>> THEN k
                                    ELSE IF p = <<DirBase, Root>> THEN "dir" ELSE Bare("dir")[p]]

RemoteInit ==
  \/ \E k \in Kinds \cup {"none"} :
       remote = Bare(k) /\ (op = "dir" => k \in {"none", "dir", "regular"})
  \/ \E e \in Entries, k \in {"regular", "dir"} :
       op = "dir" /\ In[e] = Root /\ remote = Occupied(e, k)

Init ==
  /\ op \in {"file", "dir"} /\ form \in Forms
  /\ srcDir \in BOOLEAN /\ (op = "file" => ~srcDir) /\ (~srcDir => form = "plain")
  /\ local \in {L \in SUBSET Entries : \A e \in L : In[e] \in L \cup {Root}}
  /\ op = "file" => \E f \in Files : f \in local /\ In[f] = Root
  /\ size \in [Files -> 0..MaxSize] /\ \A f \in Files : size[f] \in Sizes[f]
  /\ steady = local /\ changes = 0
  /\ RemoteInit /\ kind = remote[<<"to", Root>>] /\ blind = "no"
  /\ pc = "lstat" /\ out = "none" /\ ctx = "live" /\ conn = "none"
  /\ gpc = "none" /\ todo = {} /\ dirs = {} /\ total = 0 /\ sent = 0
  /\ cur = NoFile /\ errs = {} /\ reports = {} /\ late = 0

Children(d) == {e \in local : In[e] = d}

Visits(e) == e \in todo /\ \A x \in todo : Rank[e] <= Rank[x]

(***************************************************************************)
(* The caller.  A deferred Close runs with every return that follows       *)
(* NewSyncConn.                                                            *)
(***************************************************************************)
\* the mutant: the connection is not closed
Return_NoClose(result) == pc' = "returned" /\ out' = result /\ UNCHANGED conn

Return(result) ==
  /\ pc' = "returned" /\ out' = result
  /\ conn' = IF conn = "none" THEN "none" ELSE "closed"

\* PushFileCtx and MakeDirs: Lstat, and the file must be regular or a directory
Lstat ==
  /\ pc = "lstat"
  /\ \/ /\ op = "dir" /\ pc' = "list" /\ todo' = Children(Root)
        /\ UNCHANGED <<out, conn, cur>>
     \/ \E f \in Files \cap Children(Root) :
          /\ op = "file" /\ pc' = "connect"
          /\ cur' = Hand(f, <<"to", Root>>, size[f])
          /\ UNCHANGED <<out, conn, todo>>
     \/ Return("error") /\ UNCHANGED <<todo, cur>>
  /\ UNCHANGED <<config, tree, remote, blind, ctx, dirs, total, sent, gpc, errs, reports, late>>

\* ListAllSubDirs
ListEntry(e) ==
  /\ pc = "list" /\ Visits(e)
  /\ \/ e \in Files /\ todo' = todo \ {e} /\ UNCHANGED <<dirs, pc, out, conn>>
     \/ /\ e \in SubDirs \cap local
        /\ todo' = (todo \ {e}) \cup Children(e) /\ dirs' = dirs \cup {e}
        /\ UNCHANGED <<pc, out, conn>>
     \/ e \in SubDirs /\ Return("error") /\ UNCHANGED <<todo, dirs>>   \* it cannot be read
  /\ UNCHANGED <<config, tree, remote, blind, ctx, total, sent, goroutine>>

Listed ==
  /\ pc = "list" /\ todo = {} /\ pc' = "mkdir"
  /\ UNCHANGED <<config, tree, remote, blind, out, ctx, conn, walk, goroutine>>

\* the places the command names
Named == {<<DirBase, d>> : d \in dirs \cup {Root}}

\* those it has to make, and the remote path, which -p makes with them
Missing == {p \in Named \cup {<<"to", Root>>} : remote[p] = "none"}

\* what mkdir -p can make of these: each in a directory that is there or is made
Makeable(M) == \A p \in M : Holder(p) \in M \/ remote[Holder(p)] = "dir"

\* the mutant: what mkdir says is not looked at
Mkdirs_OutputDropped ==
  /\ pc = "mkdir" /\ pc' = "connect"
  /\ \E made \in SUBSET Missing :
       Makeable(made) /\ remote' = [p \in Places |-> IF p \in made THEN "dir" ELSE remote[p]]
  /\ UNCHANGED <<config, tree, blind, out, ctx, conn, walk, goroutine>>

\* MkdirsWithParent: "File exists" is no error, whatever it is that exists, and though the
\* mkdir of Android 5.1 goes no further after it (sync.go:61-66); a connection that is lost
\* ends the output of mkdir as its end does
Mkdirs ==
  /\ pc = "mkdir"
  /\ \E made \in SUBSET Missing :
       /\ Makeable(made)
       /\ remote' = [p \in Places |-> IF p \in made THEN "dir" ELSE remote[p]]
       /\ \/ made = Missing /\ pc' = "connect" /\ UNCHANGED <<out, conn, blind>>
          \/ made # Missing /\ blind' = "lost" /\ pc' = "connect" /\ UNCHANGED <<out, conn>>
          \/ /\ made # Missing /\ \E p \in Named : remote[p] # "none"
             /\ blind' = "halted" /\ pc' = "connect" /\ UNCHANGED <<out, conn>>
          \/ Return("error") /\ UNCHANGED blind
  /\ UNCHANGED <<config, tree, ctx, walk, goroutine>>

NewSyncConn ==
  /\ pc = "connect"
  /\ \/ conn' = "open" /\ UNCHANGED out
        /\ IF op = "file" THEN pc' = "stat" /\ UNCHANGED gpc
           ELSE pc' = "select" /\ gpc' = "lstat"
     \/ Return("error") /\ UNCHANGED gpc
  /\ dirs' = {}                              \* MakeDirs has returned
  /\ UNCHANGED <<config, tree, remote, blind, ctx, todo, total, sent, cur, errs, reports, late>>

\* the mutant: the name of the file is always appended
RemotePath_Always(inside) ==
  /\ pc' = "select" /\ gpc' = "begin"
  /\ cur' = [cur EXCEPT !.place = <<"to", cur.file>>]

\* the remote path is a directory: the name of the file is appended
RemotePath(inside) ==
  /\ pc' = "select" /\ gpc' = "begin"
  /\ cur' = [cur EXCEPT !.place = IF inside THEN <<"to", cur.file>> ELSE <<"to", Root>>]

\* fconn.Stat of PushFileCtx, which no context ends; an error is not told from
\* a file that is not there
Stat ==
  /\ pc = "stat"
  /\ \/ kind # "none" /\ conn = "open" /\ RemotePath(IsDir(kind)) /\ UNCHANGED conn
     \/ kind = "none" /\ RemotePath(FALSE) /\ UNCHANGED conn
     \/ RemotePath(FALSE) /\ conn' = "cut"
  /\ UNCHANGED <<config, tree, remote, blind, out, ctx, walk, errs, reports, late>>

\* the mutant: a push whose context has ended waits for its goroutine
CtxDone_Waits ==
  /\ pc = "select" /\ ctx = "done" /\ gpc \in {"done", "failed"} /\ Return("ctx")
  /\ UNCHANGED <<config, tree, remote, blind, ctx, walk, goroutine>>

\* the two cases of the select, either of which may be taken when both are ready
CtxDone ==
  /\ pc = "select" /\ ctx = "done" /\ Return("ctx")
  /\ UNCHANGED <<config, tree, remote, blind, ctx, walk, goroutine>>

\* the mutant: the errors of single files are dropped
Outcome_ErrsDropped == IF gpc = "done" THEN "nil" ELSE "error"

\* what the goroutine sends on the channel
Outcome == IF gpc = "done" /\ errs = {} THEN "nil" ELSE "error"

Finished ==
  /\ pc = "select" /\ gpc \in {"done", "failed"} /\ Return(Outcome)
  /\ UNCHANGED <<config, tree, remote, blind, ctx, walk, goroutine>>

(***************************************************************************)
(* The goroutine: PushDir, which counts the regular files, then walks      *)
(* again to push them.                                                     *)
(***************************************************************************)
Start ==
  /\ gpc = "lstat"
  /\ \/ gpc' = "count" /\ todo' = Children(Root)
     \/ gpc' = "failed" /\ UNCHANGED todo
  /\ UNCHANGED <<config, tree, remote, blind, caller, dirs, total, sent, cur, errs, reports, late>>

\* the mutant: the first walk does not enter directories
Count_TopOnly(e) ==
  /\ gpc = "count" /\ Visits(e) /\ todo' = todo \ {e} /\ UNCHANGED gpc
  /\ total' = IF e \in Files THEN total + 1 ELSE total
  /\ UNCHANGED <<config, tree, remote, blind, caller, dirs, sent, cur, errs, reports, late>>

Count(e) ==
  /\ gpc = "count" /\ Visits(e)
  /\ \/ e \in Files /\ todo' = todo \ {e} /\ total' = total + 1 /\ UNCHANGED gpc
     \/ e \in SubDirs \cap local /\ todo' = (todo \ {e}) \cup Children(e) /\ UNCHANGED <<total, gpc>>
     \/ e \in SubDirs /\ gpc' = "failed" /\ UNCHANGED <<todo, total>>
  /\ UNCHANGED <<config, tree, remote, blind, caller, dirs, sent, cur, errs, reports, late>>

Counted ==
  /\ gpc = "count" /\ todo = {}
  /\ \/ gpc' = "files" /\ todo' = Children(Root)
     \/ gpc' = "failed" /\ UNCHANGED todo       \* the second walk cannot read the directory
  /\ UNCHANGED <<config, tree, remote, blind, caller, dirs, total, sent, cur, errs, reports, late>>

EnterDir(d) ==
  /\ gpc = "files" /\ d \in SubDirs /\ Visits(d)
  /\ \/ d \in local /\ todo' = (todo \ {d}) \cup Children(d) /\ UNCHANGED gpc
     \/ gpc' = "failed" /\ UNCHANGED todo
  /\ UNCHANGED <<config, tree, remote, blind, caller, dirs, total, sent, cur, errs, reports, late>>

\* a file that is gone since its directory was read is passed over in silence
NextFile(f) ==
  /\ gpc = "files" /\ Visits(f)
  /\ todo' = todo \ {f}
  /\ \/ /\ f \in local /\ gpc' = "begin" /\ sent' = sent + 1
        /\ cur' = Hand(f, <<FileBase, f>>, size[f])
     \/ f \notin local /\ UNCHANGED <<gpc, sent, cur>>
  /\ UNCHANGED <<config, tree, remote, blind, caller, dirs, total, errs, reports, late>>

Walked ==
  /\ gpc = "files" /\ todo = {} /\ gpc' = "done"
  /\ UNCHANGED <<config, tree, remote, blind, caller, walk, cur, errs, reports, late>>

(***************************************************************************)
(* One PushFile.  It ends in a report or in an error; PushDir keeps the    *)
(* error, tells the handler, and goes on.                                  *)
(***************************************************************************)
FileEnds(failed) ==
  /\ gpc' = IF op = "file" THEN "done" ELSE "files"
  /\ errs' = IF failed THEN errs \cup {cur.file} ELSE errs
  /\ UNCHANGED <<cur, reports, late>>

Drops(p) == remote' = IF remote[p] \in {"none", "dir"} THEN remote ELSE [remote EXCEPT ![p] = "none"]

\* Lstat, Open and Send, any of which may fail
OpenSend ==
  /\ gpc = "begin"
  /\ \/ cur.file \in local /\ conn # "closed" /\ gpc' = "copy" /\ UNCHANGED <<cur, errs, reports, late>>
     \/ FileEnds(TRUE)
  /\ UNCHANGED <<config, tree, remote, blind, caller, walk>>

Copy ==
  /\ gpc = "copy" /\ cur.at < size[cur.file] /\ conn # "closed"
  /\ gpc' = "progress" /\ cur' = [cur EXCEPT !.at = @ + 1]
  /\ UNCHANGED <<config, tree, remote, blind, caller, walk, errs, reports, late>>

\* a Write fails; the device drops what it has of the file
CopyBroken ==
  /\ gpc = "copy" /\ conn # "open" /\ FileEnds(TRUE)
  /\ \/ Drops(cur.place) \/ UNCHANGED remote
  /\ UNCHANGED <<config, tree, blind, caller, walk>>

\* a Read of the local file fails, in the middle of a SEND: the device hangs up
\* on the request that follows
ReadLocalFails ==
  /\ gpc = "copy" /\ conn = "open"
  /\ FileEnds(TRUE) /\ Drops(cur.place) /\ conn' = "cut"
  /\ UNCHANGED <<config, tree, blind, pc, out, ctx, walk>>

\* int(sent / total * 100): of an infinite float, whatever the machine makes of it
Percents == IF cur.total > 0 THEN {(cur.at * 100) \div cur.total} ELSE {-MaxInt, MaxInt}

\* the mutant: a small file is not reported before it is passed
Reported_SmallSilent(p) ==
  IF op = "file" THEN p > cur.percent
  ELSE ~(cur.total < LargeSize /\ p <= 100) /\ p - cur.percent >= 5

Reported(p) ==
  IF op = "file" THEN p > cur.percent
  ELSE \/ p = 100
       \/ ~(cur.total < LargeSize /\ p < 100) /\ p - cur.percent >= 5

\* the handler of PushFile, which calls that of the user for some of the chunks
Progress ==
  /\ gpc = "progress" /\ gpc' = "copy"
  /\ \E p \in Percents :
       IF Reported(p)
       THEN /\ reports' = reports \cup {<<cur.file, p>>}
            /\ late' = IF pc = "returned" THEN late + 1 ELSE late
            /\ cur' = [cur EXCEPT !.percent = p]
       ELSE /\ UNCHANGED <<reports, late>>
            /\ cur' = IF op = "file" THEN [cur EXCEPT !.percent = p] ELSE cur
  /\ UNCHANGED <<config, tree, remote, blind, caller, walk, errs>>

SendDone ==
  /\ gpc = "copy" /\ cur.at >= size[cur.file] /\ conn # "closed"
  /\ gpc' = "status"
  /\ UNCHANGED <<config, tree, remote, blind, caller, walk, cur, errs, reports, late>>

\* external: the directories the device has to make to put a file in a place
Ancestors(p, M) ==
  /\ Holder(p) \in M \/ remote[Holder(p)] = "dir"
  /\ \A d \in M : /\ remote[d] = "none"
                  /\ d = Holder(p) \/ \E q \in M : Holder(q) = d
                  /\ Holder(d) \in M \/ remote[Holder(d)] = "dir"

Put(p) ==
  /\ remote[p] # "dir"
  /\ \E M \in SUBSET {d \in Places : d[2] \notin Files} :
       /\ Ancestors(p, M)
       /\ remote' = [q \in Places |-> IF q = p THEN "new" ELSE IF q \in M THEN "dir" ELSE remote[q]]

\* the device has the whole file, and says so
StatusOkay ==
  /\ gpc = "status" /\ conn = "open"
  /\ Put(cur.place) /\ FileEnds(FALSE)
  /\ UNCHANGED <<config, tree, blind, caller, walk>>

StatusFail ==
  /\ gpc = "status" /\ conn = "open"
  /\ FileEnds(TRUE) /\ (Drops(cur.place) \/ UNCHANGED remote)
  /\ UNCHANGED <<config, tree, blind, caller, walk>>

\* no status can be read; the device may have committed the file or not
StatusLost ==
  /\ gpc = "status" /\ conn # "open" /\ FileEnds(TRUE)
  /\ Put(cur.place) \/ Drops(cur.place) \/ UNCHANGED remote
  /\ UNCHANGED <<config, tree, blind, caller, walk>>

(***************************************************************************)
(* What others do: the context ends, the connection is lost, the local     *)
(* tree changes.                                                           *)
(***************************************************************************)
CtxEnds ==
  /\ ctx = "live" /\ ctx' = "done" /\ pc # "returned"
  /\ UNCHANGED <<config, tree, remote, blind, pc, out, conn, walk, goroutine>>

Lose ==
  /\ conn = "open" /\ conn' = "cut"
  /\ UNCHANGED <<config, tree, remote, blind, pc, out, ctx, walk, goroutine>>

Changes ==
  /\ changes < MaxChanges /\ changes' = changes + 1
  /\ pc # "returned" \/ gpc \notin {"none", "done", "failed"}
  /\ UNCHANGED <<config, remote, blind, walk, goroutine, caller>>

Remove(e) ==
  /\ Changes /\ e \in local /\ Children(e) = {}
  /\ local' = local \ {e} /\ steady' = steady \ {e}
  /\ UNCHANGED size

Add(e) ==
  /\ Changes /\ e \notin local /\ In[e] \in local \cup {Root}
  /\ local' = local \cup {e}
  /\ UNCHANGED <<size, steady>>

Grow(f) ==
  /\ Changes /\ f \in local /\ size[f] < MaxSize
  /\ size' = [size EXCEPT ![f] = @ + 1] /\ steady' = steady \ {f}
  /\ UNCHANGED local

Caller ==
  \/ Lstat \/ Listed \/ Mkdirs \/ NewSyncConn \/ CtxDone \/ Finished
  \/ \E e \in Entries : ListEntry(e)

Goroutine ==
  \/ Start \/ Counted \/ Walked \/ OpenSend \/ Copy \/ CopyBroken \/ Progress \/ SendDone \/ StatusLost
  \/ \E e \in Entries : Count(e)
  \/ \E d \in SubDirs : EnterDir(d)
  \/ \E f \in Files : NextFile(f)

Device == Stat \/ StatusOkay \/ StatusFail

Others ==
  \/ CtxEnds \/ Lose \/ ReadLocalFails
  \/ \E e \in Entries : Remove(e) \/ Add(e)
  \/ \E f \in Files : Grow(f)

Next == Caller \/ Goroutine \/ Device \/ Others

(***************************************************************************)
(* The caller and the goroutine run; the device need not answer.  What the *)
(* caller waits for before the select has a deadline of its own, save Stat.*)
(***************************************************************************)
Spec == Init /\ [][Next]_vars /\ WF_vars(Caller) /\ WF_vars(Goroutine)

-----------------------------------------------------------------------------
Contents == Kinds \cup {"none", "new"}

Hands == [file : Files \cup {Root}, place : Places, total : 0..MaxSize, at : 0..MaxSize, percent : Int]

TypeOK ==
  /\ op \in {"file", "dir"} /\ srcDir \in BOOLEAN /\ form \in Forms
  /\ local \subseteq Entries /\ steady \subseteq local
  /\ size \in [Files -> 0..MaxSize] /\ changes \in 0..MaxChanges
  /\ remote \in [Places -> Contents] /\ blind \in {"no", "lost", "halted"}
  /\ pc \in {"lstat", "list", "mkdir", "connect", "stat", "select", "returned"}
  /\ out \in {"none", "nil", "ctx", "error"} /\ (out = "none" <=> pc # "returned")
  /\ conn \in {"none", "open", "cut", "closed"} /\ ctx \in {"live", "done"}
  /\ gpc \in {"none", "lstat", "count", "files", "begin", "copy", "progress", "status", "done", "failed"}
  /\ todo \subseteq Entries /\ dirs \subseteq SubDirs
  /\ total \in Nat /\ sent \in Nat /\ late \in Nat
  /\ cur \in Hands
  /\ errs \subseteq Files

\* When PushDirCtx returns nil for a directory called by its name, every file that was
\* there all along is in the directory that MakeDirs made for it: two functions work out
\* where that is, and no failure of a file is forgotten (sync.go:255, 319;
\* wire/sync_conn.go:492, 557).  Of "." and ".." it is not true: there the files land
\* beside the directory, against the comment of PushDir (sync.go:255-257).
AllPushed ==
  out = "nil" /\ op = "dir" /\ form = "plain" =>
     \A f \in steady \cap Files : remote[<<DirBase, f>>] = "new"

\* ... and every directory is there, unless something else stood in its place, mkdir
\* halted at what exists, which is dropped either way ("File exists"), or its output was
\* lost (sync.go:61, 79, 266).
DirsMade ==
  out = "nil" /\ op = "dir" =>
     \A d \in steady \cap SubDirs : remote[<<DirBase, d>>] \in {"dir", "regular"} \/ blind # "no"

\* The counts given to the handler agree with each other and with the tree, as
\* long as the tree does not change between the two walks (wire/sync_conn.go:480, 517).
CountsAgree ==
  op = "dir" /\ changes = 0 =>
     /\ gpc = "files" => sent <= total
     /\ out = "nil" => sent = total /\ total = Cardinality(local \cap Files)

\* A file that is pushed whole and does not change is reported at 100 %, and
\* never beyond, however the chunks fall (sync.go:221, wire/sync_conn.go:531).
ProgressTrue ==
  /\ out = "nil" => \A f \in steady \cap Files :
        op = "dir" /\ size[f] > 0 => <<f, 100>> \in reports
  /\ \A r \in reports : r[2] > 100 => r[1] \notin steady

\* Once the call has returned the handler hears of one more chunk at the most, that
\* which was being written (sync.go:224, 284): the deferred Close stops the rest.
\* Of the files that are left it is told the errors.
LateReports == late <= 1

\* PushFileCtx puts the file at the remote path, or in the directory that is
\* there, and the remote path is not taken for a directory when it is none (sync.go:209).
PushedWhere ==
  out = "nil" /\ op = "file" =>
     remote[<<"to", IF kind = "dir" THEN cur.file ELSE Root>>] = "new"

\* Stat tells the type of every file but a socket and a block device, which it
\* takes for directories (wire/filemode.go:18-29).
KindTrue ==
  pc = "stat" /\ kind # "none" =>
     \/ ParseFileModeFromAdb(StatType[kind]) = kind
     \/ kind \in {"socket", "block"} /\ IsDir(kind)

\* When its context ends a push returns, unless PushFileCtx waits for the answer to
\* Stat, which nothing ends (sync.go:210).
CancelReturns == ctx = "done" ~> pc \in {"returned", "stat"}

\* The goroutine does not outlive a push that has returned for long (sync.go:207, 275).
RoutineEnds == pc = "returned" ~> gpc \in {"none", "done", "failed"}
=============================================================================
