--------------------------- MODULE PushTreeProofs ---------------------------
(***************************************************************************)
(* Theorems about PushTree, for every local tree and every bound:          *)
(* its invariants.                                                         *)
(***************************************************************************)
EXTENDS PushTree, FiniteSetTheorems, TLAPS

InFile == {"begin", "copy", "progress", "status"}

\* From Lstat on a push of a file has a file in hand, and so has the goroutine
\* while it is in the middle of one.
FileInHand ==
  /\ pc = "stat" => op = "file"
  /\ op = "file" /\ pc # "lstat" /\ out = "none" => cur.file \in Files
  /\ gpc \in InFile => cur.file \in Files

LEMMA KindFacts ==
  \A kd \in Kinds : /\ IsDir(kd) <=> kd \in {"dir", "socket", "block"}
                    /\ kd \notin {"socket", "block"} => ParseFileModeFromAdb(StatType[kd]) = kd
BY DEF Kinds, IsDir, ParseFileModeFromAdb, StatType, ModeDir, ModeSymlink, ModeSocket, ModeFifo, ModeCharDevice

LEMMA PlaceFacts ==
  ASSUME TypeOK
  PROVE  /\ <<"to", Root>> \in Places /\ DirBase \in Bases /\ FileBase \in Bases
         /\ \A f \in Files : <<"to", f>> \in Places /\ <<FileBase, f>> \in Places
         /\ \A d \in Entries : Children(d) \subseteq Entries
         /\ Children(Root) \subseteq Entries
BY FormsAssumption DEF TypeOK, Places, Bases, DirBase, FileBase, Entries, Children

LEMMA HandFacts ==
  /\ NoFile \in Hands
  /\ \A f \in Files : \A p \in Places : \A t \in 0..MaxSize :
        Hand(f, p, t) \in Hands /\ Hand(f, p, t).file = f
  /\ \A c \in Hands : \A p \in Places :
        [c EXCEPT !.place = p] \in Hands /\ [c EXCEPT !.place = p].file = c.file /\ [c EXCEPT !.place = p].place = p
<1>1. <<"to", Root>> \in Places
  BY DEF Places, Bases
<1> HIDE DEF Places
<1>2. NoFile \in Hands
  BY <1>1, SizeAssumption DEF Hands, Hand, NoFile
<1>3. \A f \in Files : \A p \in Places : \A t \in 0..MaxSize :
         Hand(f, p, t) \in Hands /\ Hand(f, p, t).file = f
  BY SizeAssumption DEF Hands, Hand
<1>4. \A c \in Hands : \A p \in Places :
         [c EXCEPT !.place = p] \in Hands /\ [c EXCEPT !.place = p].file = c.file /\ [c EXCEPT !.place = p].place = p
  BY DEF Hands
<1>. QED BY <1>2, <1>3, <1>4

\* What a push does to the device leaves a tree there.
LEMMA RemoteFacts ==
  ASSUME remote \in [Places -> Contents]
  PROVE  /\ \A p \in Places : Put(p) \/ Drops(p) => remote' \in [Places -> Contents]
         /\ Mkdirs => remote' \in [Places -> Contents]
<1>1. "new" \in Contents /\ "dir" \in Contents /\ "none" \in Contents
  BY DEF Contents, Kinds
<1> HIDE DEF Places, Contents
<1>2. ASSUME NEW p \in Places, Put(p) PROVE remote' \in [Places -> Contents]
  BY <1>1, <1>2 DEF Put
<1>3. ASSUME NEW p \in Places, Drops(p) PROVE remote' \in [Places -> Contents]
  BY <1>1, <1>3 DEF Drops
<1>4. ASSUME Mkdirs PROVE remote' \in [Places -> Contents]
  BY <1>1, <1>4 DEF Mkdirs
<1>. QED BY <1>2, <1>3, <1>4

-----------------------------------------------------------------------------
LEMMA InitType == Init => TypeOK /\ FileInHand
<1> SUFFICES ASSUME Init PROVE TypeOK /\ FileInHand
  OBVIOUS
<1>0. op \in {"file", "dir"} /\ srcDir \in BOOLEAN /\ form \in Forms
  BY DEF Init
<1>1. remote \in [Places -> Contents]
  <2>1. \A k \in Kinds \cup {"none"} : Bare(k) \in [Places -> Contents]
    BY DEF Bare, Contents, Kinds
  <2>2. \A e \in Entries : \A k \in {"regular", "dir"} : Occupied(e, k) \in [Places -> Contents]
    BY <2>1 DEF Occupied, Contents, Kinds
  <2>. QED BY <2>1, <2>2 DEF Init, RemoteInit
<1>2. cur \in Hands
  BY HandFacts DEF Init
<1>3. size \in [Files -> 0..MaxSize] /\ changes \in 0..MaxChanges
  BY SizeAssumption DEF Init
<1>4. local \subseteq Entries /\ steady \subseteq local /\ todo \subseteq Entries /\ dirs \subseteq SubDirs /\ errs \subseteq Files
  BY DEF Init
<1>5. total \in Nat /\ sent \in Nat /\ late \in Nat
  BY DEF Init
<1>6. pc = "lstat" /\ out = "none" /\ conn = "none" /\ ctx = "live" /\ gpc = "none" /\ blind = "no"
  BY DEF Init
<1>. QED BY <1>0, <1>1, <1>2, <1>3, <1>4, <1>5, <1>6 DEF TypeOK, FileInHand, InFile

LEMMA StepType == TypeOK /\ FileInHand /\ [Next]_vars => TypeOK' /\ FileInHand'
<1> SUFFICES ASSUME TypeOK, FileInHand, [Next]_vars PROVE TypeOK' /\ FileInHand'
  OBVIOUS
<1> USE DEF TypeOK, FileInHand, InFile, vars, config, tree, walk, goroutine, caller
<1>0. /\ <<"to", Root>> \in Places /\ \A f \in Files : <<"to", f>> \in Places /\ <<FileBase, f>> \in Places
      /\ \A d \in Entries : Children(d) \subseteq Entries
      /\ Children(Root) \subseteq Entries
  BY PlaceFacts
<1> HIDE DEF Places
<1>1. CASE Lstat
  <2>1. CASE op = "dir" /\ pc' = "list" /\ todo' = Children(Root) /\ UNCHANGED <<out, conn, cur>>
    BY <1>0, <1>1, <2>1 DEF Lstat
  <2>2. ASSUME NEW f \in Files, op = "file", pc' = "connect",
               cur' = Hand(f, <<"to", Root>>, size[f]), UNCHANGED <<out, conn, todo>>
        PROVE  TypeOK' /\ FileInHand'
    <3>1. cur' \in Hands /\ cur'.file = f
      BY <1>0, <2>2, HandFacts
    <3>. QED BY <1>1, <2>2, <3>1 DEF Lstat
  <2>3. CASE Return("error") /\ UNCHANGED <<todo, cur>>
    BY <1>1, <2>3 DEF Lstat, Return
  <2>. QED BY <1>1, <2>1, <2>2, <2>3 DEF Lstat
<1>2. CASE Listed
  BY <1>0, <1>2, SizeAssumption DEF Listed, Entries
<1>3. CASE Mkdirs
  <2>1. remote' \in [Places -> Contents]
    BY <1>3, RemoteFacts
  <2>2. /\ UNCHANGED <<op, srcDir, form, local, size, steady, changes, ctx, gpc, todo, dirs, total, sent,
                      cur, errs, late>>
        /\ pc = "mkdir" /\ blind' \in {"no", "lost", "halted"}
    BY <1>3 DEF Mkdirs
  <2>3. \/ pc' = "connect" /\ UNCHANGED <<out, conn>>
        \/ pc' = "returned" /\ out' = "error" /\ conn' \in {"none", "closed"}
    BY <1>3 DEF Mkdirs, Return
  <2>. QED BY <2>1, <2>2, <2>3
<1>4. CASE NewSyncConn
  BY <1>0, <1>4, SizeAssumption DEF NewSyncConn, Return, Entries
<1>5. CASE CtxDone
  BY <1>0, <1>5, SizeAssumption DEF CtxDone, Return, Entries
<1>6. CASE Finished
  BY <1>0, <1>6, SizeAssumption DEF Finished, Return, Outcome, Entries
<1>7. ASSUME NEW e \in Entries, ListEntry(e) PROVE TypeOK' /\ FileInHand'
  BY <1>0, <1>7, SizeAssumption DEF ListEntry, Visits, Return, Children, Entries
<1>8. CASE Start
  BY <1>0, <1>8, SizeAssumption DEF Start, Children, Entries
<1>9. CASE Counted
  BY <1>0, <1>9, SizeAssumption DEF Counted, Children, Entries
<1>10. CASE Walked
  BY <1>0, <1>10, SizeAssumption DEF Walked, Entries
<1>11. CASE OpenSend
  BY <1>0, <1>11, SizeAssumption DEF OpenSend, FileEnds, Entries
<1>12. CASE Copy
  BY <1>0, <1>12, SizeAssumption DEF Copy, Hands, Entries
<1>13. CASE CopyBroken
  BY <1>0, <1>13, SizeAssumption DEF CopyBroken, FileEnds, Drops, Contents, Entries
<1>14. CASE Progress
  BY <1>0, <1>14, SizeAssumption DEF Progress, Hands, Percents, Reported, Entries
<1>15. CASE SendDone
  BY <1>0, <1>15, SizeAssumption DEF SendDone, Entries
<1>16. CASE StatusLost
  <2>1. remote' \in [Places -> Contents]
    BY <1>16, RemoteFacts DEF StatusLost, Hands
  <2>. QED BY <1>16, <2>1 DEF StatusLost, FileEnds
<1>17. ASSUME NEW e \in Entries, Count(e) PROVE TypeOK' /\ FileInHand'
  BY <1>0, <1>17, SizeAssumption DEF Count, Visits, Children, Entries
<1>18. ASSUME NEW e \in SubDirs, EnterDir(e) PROVE TypeOK' /\ FileInHand'
  BY <1>0, <1>18, SizeAssumption DEF EnterDir, Visits, Children, Entries
<1>19. ASSUME NEW e \in Files, NextFile(e) PROVE TypeOK' /\ FileInHand'
  <2>1. CASE e \in local /\ gpc' = "begin" /\ sent' = sent + 1
             /\ cur' = Hand(e, <<FileBase, e>>, size[e])
    <3>1. size[e] \in 0..MaxSize /\ <<FileBase, e>> \in Places
      BY <1>0
    <3>2. cur' \in Hands /\ cur'.file = e
      <4> DEFINE t == size[e]  place == <<FileBase, e>>
      <4>1. t \in 0..MaxSize /\ place \in Places /\ cur' = Hand(e, place, t)
        BY <2>1, <3>1
      <4> HIDE DEF t, place
      <4>. QED BY <4>1, HandFacts
    <3>. QED BY <1>19, <2>1, <3>2 DEF NextFile
  <2>2. CASE e \notin local /\ UNCHANGED <<gpc, sent, cur>>
    BY <1>19, <2>2 DEF NextFile
  <2>. QED BY <1>19, <2>1, <2>2 DEF NextFile
<1>20. CASE Stat
  <2>1. ASSUME NEW inside \in BOOLEAN, RemotePath(inside) PROVE cur' \in Hands /\ cur'.file = cur.file
    <3>1. cur.file \in Files
      BY <1>20 DEF Stat
    <3>2. PICK p \in Places : cur' = [cur EXCEPT !.place = p]
      BY <1>0, <2>1, <3>1 DEF RemotePath
    <3>. QED BY <3>2, HandFacts
  <2>2. PICK inside \in BOOLEAN : RemotePath(inside)
    BY <1>20 DEF Stat, IsDir
  <2>3. cur' \in Hands /\ cur'.file = cur.file /\ pc' = "select" /\ gpc' = "begin" /\ cur.file \in Files
    BY <1>20, <2>1, <2>2 DEF Stat, RemotePath
  <2>. QED BY <1>20, <2>3 DEF Stat
<1>21. CASE StatusOkay
  <2>1. remote' \in [Places -> Contents]
    BY <1>21, RemoteFacts DEF StatusOkay, Hands
  <2>. QED BY <1>21, <2>1 DEF StatusOkay, FileEnds
<1>22. CASE StatusFail
  BY <1>0, <1>22, SizeAssumption DEF StatusFail, FileEnds, Drops, Contents, Entries
<1>23. CASE CtxEnds
  BY <1>0, <1>23, SizeAssumption DEF CtxEnds, Entries
<1>24. CASE Lose
  BY <1>0, <1>24, SizeAssumption DEF Lose, Entries
<1>25. CASE ReadLocalFails
  BY <1>0, <1>25, SizeAssumption DEF ReadLocalFails, FileEnds, Drops, Contents, Entries
<1>26. ASSUME NEW e \in Entries, Remove(e) PROVE TypeOK' /\ FileInHand'
  BY <1>0, <1>26, SizeAssumption DEF Remove, Changes, Entries
<1>27. ASSUME NEW e \in Entries, Add(e) PROVE TypeOK' /\ FileInHand'
  BY <1>0, <1>27, SizeAssumption DEF Add, Changes, Entries
<1>28. ASSUME NEW e \in Files, Grow(e) PROVE TypeOK' /\ FileInHand'
  BY <1>0, <1>28, SizeAssumption DEF Grow, Changes, Entries
<1>29. CASE UNCHANGED vars
  BY <1>29
<1>. QED
  BY <1>1, <1>2, <1>3, <1>4, <1>5, <1>6, <1>7, <1>8, <1>9, <1>10, <1>11, <1>12, <1>13,
     <1>14, <1>15, <1>16, <1>17, <1>18, <1>19, <1>20, <1>21, <1>22, <1>23, <1>24, <1>25,
     <1>26, <1>27, <1>28, <1>29 DEF Next, Caller, Goroutine, Device, Others

\* Every variable stays in its range (sync.go, wire/sync_conn.go:463-561).
THEOREM TypeCorrect == Spec => []TypeOK
<1>1. Spec => [](TypeOK /\ FileInHand)
  BY InitType, StepType, PTL DEF Spec
<1>. QED BY <1>1, PTL

-----------------------------------------------------------------------------
(* Nothing is sent on a connection that is closed, and a call that has    *)
(* returned has closed its own: one chunk may be between Write and its    *)
(* handler at that moment, and no other follows.                          *)

Closes ==
  /\ pc \in {"lstat", "list", "mkdir", "connect"} => gpc = "none" /\ conn = "none"
  /\ pc = "stat" => gpc = "none"
  /\ pc \in {"stat", "select"} => conn \in {"open", "cut"}
  /\ pc = "returned" => conn = "closed" \/ (conn = "none" /\ gpc = "none")
  /\ pc # "returned" => late = 0
  /\ late <= 1
  /\ late = 1 => gpc # "progress"

LEMMA InitCloses == Init => Closes
BY DEF Init, Closes

LEMMA StepCloses == TypeOK /\ Closes /\ [Next]_vars => Closes'
<1> SUFFICES ASSUME TypeOK, Closes, [Next]_vars PROVE Closes'
  OBVIOUS
<1>0. late \in Nat
  BY DEF TypeOK
<1> USE DEF Closes, vars, config, tree, walk, goroutine, caller
<1>1. CASE Lstat
  BY <1>0, <1>1 DEF Lstat, Return
<1>2. CASE Listed
  BY <1>0, <1>2 DEF Listed
<1>3. CASE Mkdirs
  BY <1>0, <1>3 DEF Mkdirs, Return
<1>4. CASE NewSyncConn
  BY <1>0, <1>4 DEF NewSyncConn, Return
<1>5. CASE CtxDone
  BY <1>0, <1>5 DEF CtxDone, Return
<1>6. CASE Finished
  BY <1>0, <1>6 DEF Finished, Return
<1>7. ASSUME NEW e \in Entries, ListEntry(e) PROVE Closes'
  BY <1>0, <1>7 DEF ListEntry, Return
<1>8. CASE Start
  BY <1>0, <1>8 DEF Start
<1>9. CASE Counted
  BY <1>0, <1>9 DEF Counted
<1>10. CASE Walked
  BY <1>0, <1>10 DEF Walked
<1>11. CASE OpenSend
  BY <1>0, <1>11 DEF OpenSend, FileEnds
<1>12. CASE Copy
  BY <1>0, <1>12 DEF Copy
<1>13. CASE CopyBroken
  BY <1>0, <1>13 DEF CopyBroken, FileEnds
<1>14. CASE Progress
  BY <1>0, <1>14 DEF Progress
<1>15. CASE SendDone
  BY <1>0, <1>15 DEF SendDone
<1>16. CASE StatusLost
  BY <1>0, <1>16 DEF StatusLost, FileEnds
<1>17. ASSUME NEW e \in Entries, Count(e) PROVE Closes'
  BY <1>0, <1>17 DEF Count
<1>18. ASSUME NEW e \in SubDirs, EnterDir(e) PROVE Closes'
  BY <1>0, <1>18 DEF EnterDir
<1>19. ASSUME NEW e \in Files, NextFile(e) PROVE Closes'
  BY <1>0, <1>19 DEF NextFile
<1>20. CASE Stat
  BY <1>0, <1>20 DEF Stat, RemotePath
<1>21. CASE StatusOkay
  BY <1>0, <1>21 DEF StatusOkay, FileEnds
<1>22. CASE StatusFail
  BY <1>0, <1>22 DEF StatusFail, FileEnds
<1>23. CASE CtxEnds
  BY <1>0, <1>23 DEF CtxEnds
<1>24. CASE Lose
  BY <1>0, <1>24 DEF Lose
<1>25. CASE ReadLocalFails
  BY <1>0, <1>25 DEF ReadLocalFails, FileEnds
<1>26. ASSUME NEW e \in Entries, Remove(e) PROVE Closes'
  BY <1>0, <1>26 DEF Remove, Changes
<1>27. ASSUME NEW e \in Entries, Add(e) PROVE Closes'
  BY <1>0, <1>27 DEF Add, Changes
<1>28. ASSUME NEW e \in Files, Grow(e) PROVE Closes'
  BY <1>0, <1>28 DEF Grow, Changes
<1>29. CASE UNCHANGED vars
  BY <1>29
<1>. QED BY <1>1, <1>2, <1>3, <1>4, <1>5, <1>6, <1>7, <1>8, <1>9, <1>10, <1>11,
           <1>12, <1>13, <1>14, <1>15, <1>16, <1>17, <1>18, <1>19, <1>20,
           <1>21, <1>22, <1>23, <1>24, <1>25, <1>26, <1>27, <1>28, <1>29
         DEF Next, Caller, Goroutine, Device, Others

\* The handler hears of one more chunk at the most (sync.go:221-230, 275, 283).
THEOREM FewLateReports == Spec => []LateReports
<1>1. Closes => LateReports
  BY DEF Closes, LateReports
<1>2. Spec => [](TypeOK /\ FileInHand)
  BY InitType, StepType, PTL DEF Spec
<1>3. Spec => []Closes
  BY <1>2, InitCloses, StepCloses, PTL DEF Spec
<1>. QED BY <1>1, <1>3, PTL

-----------------------------------------------------------------------------
(* A push of one file.  Until it is done the remote path is as it was, and *)
(* on a connection that still works the file goes where Stat says.         *)

Taken == <<"to", IF kind \in {"dir", "socket", "block"} THEN cur.file ELSE Root>>
Wanted == <<"to", IF kind = "dir" THEN cur.file ELSE Root>>

OneFile ==
  /\ kind \in Kinds \cup {"none"}
  /\ pc \notin {"list", "mkdir"} /\ gpc \notin {"lstat", "count", "files", "failed"}
  /\ gpc # "none" \/ (pc # "lstat" /\ out = "none") => cur.file \in Files /\ In[cur.file] = Root
  /\ gpc # "done" => remote[<<"to", Root>>] = kind
  /\ conn = "open" /\ gpc \in InFile => cur.place = Taken
  /\ gpc = "done" /\ errs = {} => remote[Wanted] = "new"

Where ==
  /\ op = "file" => OneFile
  /\ out = "nil" => gpc = "done" /\ errs = {}

LEMMA InitWhere == Init => Where
<1> SUFFICES ASSUME Init PROVE Where
  OBVIOUS
<1>1. ASSUME op = "file" PROVE kind \in Kinds \cup {"none"}
  <2>1. PICK k \in Kinds \cup {"none"} : remote = Bare(k)
    BY <1>1 DEF Init, RemoteInit
  <2>2. remote[<<"to", Root>>] = k
    BY <2>1 DEF Bare, Places, Bases
  <2>. QED BY <2>2 DEF Init
<1>. QED BY <1>1 DEF Init, Where, OneFile, InFile

\* A file committed where Stat said is where it is wanted: what is no directory
\* holds no file.
LEMMA PutWanted ==
  ASSUME TypeOK, cur.file \in Files, In[cur.file] = Root, kind \in Kinds \cup {"none"},
         remote[<<"to", Root>>] = kind, cur.place = Taken, Put(cur.place)
  PROVE  remote'[Wanted] = "new"
<1>1. <<"to", Root>> \in Places /\ <<"to", cur.file>> \in Places
  BY PlaceFacts
<1>2. CASE kind \in {"socket", "block"}
  <2>1. cur.place = <<"to", cur.file>>
    BY <1>2 DEF Taken
  <2>2. Holder(cur.place) = <<"to", Root>>
    BY <2>1, TreeAssumption DEF Holder, Entries
  <2>3. PICK M \in SUBSET {d \in Places : d[2] \notin Files} : Ancestors(cur.place, M)
    BY DEF Put
  <2>4. <<"to", Root>> \in M
    BY <1>2, <2>2, <2>3 DEF Ancestors
  <2>. QED BY <1>2, <2>3, <2>4 DEF Ancestors
<1>3. CASE kind \notin {"socket", "block"}
  <2>1. cur.place = Wanted /\ Wanted \in Places
    BY <1>1, <1>3 DEF Taken, Wanted
  <2>. QED BY <2>1 DEF Put
<1>. QED BY <1>2, <1>3

LEMMA StepWhere == TypeOK /\ FileInHand /\ Closes /\ Where /\ [Next]_vars => Where'
<1> SUFFICES ASSUME TypeOK, FileInHand, Closes, Where, [Next]_vars PROVE Where'
  OBVIOUS
<1>0. /\ op \in {"file", "dir"} /\ (out = "none" <=> pc # "returned")
      /\ cur \in Hands
  BY DEF TypeOK
<1> USE DEF Where, OneFile, InFile, Closes, Taken, Wanted, vars, config, tree, walk, goroutine, caller
<1>1. CASE Lstat
  <2>1. ASSUME NEW f \in Files \cap Children(Root), op = "file", pc' = "connect",
               cur' = Hand(f, <<"to", Root>>, size[f]), UNCHANGED <<out, conn, todo>>
        PROVE  Where'
    <3>1. cur'.file = f /\ f \in Files /\ In[f] = Root
      BY <2>1 DEF Hand, Children
    <3>. QED BY <1>0, <1>1, <2>1, <3>1 DEF Lstat
  <2>2. CASE op = "dir" /\ UNCHANGED out
    BY <1>0, <1>1, <2>2 DEF Lstat
  <2>3. CASE Return("error") /\ UNCHANGED <<todo, cur>>
    BY <1>0, <1>1, <2>3 DEF Lstat, Return
  <2>. QED BY <1>1, <2>1, <2>2, <2>3 DEF Lstat
<1>2. CASE Listed
  BY <1>0, <1>2 DEF Listed
<1>3. CASE Mkdirs
  BY <1>0, <1>3 DEF Mkdirs, Return
<1>4. CASE NewSyncConn
  BY <1>0, <1>4 DEF NewSyncConn, Return
<1>5. CASE CtxDone
  BY <1>0, <1>5 DEF CtxDone, Return
<1>6. CASE Finished
  BY <1>0, <1>6 DEF Finished, Return, Outcome
<1>7. ASSUME NEW e \in Entries, ListEntry(e) PROVE Where'
  BY <1>0, <1>7 DEF ListEntry, Return
<1>8. CASE Start
  BY <1>0, <1>8 DEF Start
<1>9. CASE Counted
  BY <1>0, <1>9 DEF Counted
<1>10. CASE Walked
  BY <1>0, <1>10 DEF Walked
<1>11. CASE OpenSend
  BY <1>0, <1>11 DEF OpenSend, FileEnds
<1>12. CASE Copy
  BY <1>0, <1>12 DEF Copy
<1>13. CASE CopyBroken
  BY <1>0, <1>13 DEF CopyBroken, FileEnds
<1>14. CASE Progress
  <2>1. cur'.file = cur.file /\ cur'.place = cur.place
    BY <1>0, <1>14 DEF Progress, Hands
  <2>2. gpc = "progress" /\ gpc' = "copy" /\ UNCHANGED <<op, kind, out, pc, conn, remote>>
    BY <1>14 DEF Progress
  <2>. QED BY <1>0, <2>1, <2>2
<1>15. CASE SendDone
  BY <1>0, <1>15 DEF SendDone
<1>16. CASE StatusLost
  BY <1>0, <1>16 DEF StatusLost, FileEnds
<1>17. ASSUME NEW e \in Entries, Count(e) PROVE Where'
  BY <1>0, <1>17 DEF Count
<1>18. ASSUME NEW e \in SubDirs, EnterDir(e) PROVE Where'
  BY <1>0, <1>18 DEF EnterDir
<1>19. ASSUME NEW e \in Files, NextFile(e) PROVE Where'
  BY <1>0, <1>19 DEF NextFile
<1>20. CASE Stat
  <2>1. op = "file" /\ cur.file \in Files /\ In[cur.file] = Root
    BY <1>0, <1>20 DEF Stat, FileInHand
  <2>2. ASSUME NEW inside \in BOOLEAN, RemotePath(inside)
        PROVE  /\ cur'.file = cur.file /\ pc' = "select" /\ gpc' = "begin"
               /\ cur'.place = IF inside THEN <<"to", cur.file>> ELSE <<"to", Root>>
    BY <1>0, <2>2 DEF RemotePath, Hands
  <2>3. CASE kind # "none" /\ conn = "open" /\ RemotePath(IsDir(kind)) /\ UNCHANGED conn
    <3>1. IsDir(kind) \in BOOLEAN /\ (IsDir(kind) <=> kind \in {"dir", "socket", "block"})
      BY <2>1, <2>3, KindFacts DEF IsDir
    <3>. QED BY <1>0, <1>20, <2>1, <2>2, <2>3, <3>1 DEF Stat
  <2>4. CASE kind = "none" /\ RemotePath(FALSE) /\ UNCHANGED conn
    BY <1>0, <1>20, <2>1, <2>2, <2>4 DEF Stat
  <2>5. CASE RemotePath(FALSE) /\ conn' = "cut"
    BY <1>0, <1>20, <2>1, <2>2, <2>5 DEF Stat
  <2>. QED BY <1>20, <2>3, <2>4, <2>5 DEF Stat
<1>21. CASE StatusOkay
  <2>1. ASSUME op = "file" PROVE remote'[Wanted] = "new" /\ Wanted' = Wanted
    BY <1>21, <2>1, PutWanted DEF StatusOkay, FileEnds
  <2>. QED BY <1>0, <1>21, <2>1 DEF StatusOkay, FileEnds
<1>22. CASE StatusFail
  BY <1>0, <1>22 DEF StatusFail, FileEnds
<1>23. CASE CtxEnds
  BY <1>0, <1>23 DEF CtxEnds
<1>24. CASE Lose
  BY <1>0, <1>24 DEF Lose
<1>25. CASE ReadLocalFails
  BY <1>0, <1>25 DEF ReadLocalFails, FileEnds
<1>26. ASSUME NEW e \in Entries, Remove(e) PROVE Where'
  BY <1>0, <1>26 DEF Remove, Changes
<1>27. ASSUME NEW e \in Entries, Add(e) PROVE Where'
  BY <1>0, <1>27 DEF Add, Changes
<1>28. ASSUME NEW e \in Files, Grow(e) PROVE Where'
  BY <1>0, <1>28 DEF Grow, Changes
<1>29. CASE UNCHANGED vars
  BY <1>29
<1>. QED BY <1>1, <1>2, <1>3, <1>4, <1>5, <1>6, <1>7, <1>8, <1>9, <1>10, <1>11,
           <1>12, <1>13, <1>14, <1>15, <1>16, <1>17, <1>18, <1>19, <1>20,
           <1>21, <1>22, <1>23, <1>24, <1>25, <1>26, <1>27, <1>28, <1>29
         DEF Next, Caller, Goroutine, Device, Others

LEMMA AlwaysWhere == Spec => [](FileInHand /\ Where)
<1>1. Spec => [](TypeOK /\ FileInHand)
  BY InitType, StepType, PTL DEF Spec
<1>2. Spec => []Closes
  BY <1>1, InitCloses, StepCloses, PTL DEF Spec
<1>3. Spec => []Where
  BY <1>1, <1>2, InitWhere, StepWhere, PTL DEF Spec
<1>. QED BY <1>1, <1>3, PTL

\* A push of a file that returns nil put it where it is wanted (sync.go:209-213).
THEOREM FileIsWhereWanted == Spec => []PushedWhere
<1>1. Where => PushedWhere
  BY DEF Where, OneFile, Wanted, PushedWhere
<1>. QED BY <1>1, AlwaysWhere, PTL

\* Stat tells every type of file but two (wire/filemode.go:18-29).
THEOREM KindIsTrue == Spec => []KindTrue
<1>1. FileInHand /\ Where => KindTrue
  BY KindFacts DEF FileInHand, Where, OneFile, KindTrue
<1>. QED BY <1>1, AlwaysWhere, PTL

-----------------------------------------------------------------------------
(* A push of a directory.  Of what is there all along, whatever has not    *)
(* been seen is in the list of what is still to visit, or under a          *)
(* directory that is; and what has been seen is on the device, in hand, or *)
(* among the errors.                                                       *)

Rooted ==
  /\ \A e \in local : In[e] \in local \cup {Root}
  /\ \A e \in steady : In[e] \in steady \cup {Root}

Pushed(f) == f \in errs \/ remote[<<FileBase, f>>] = "new"

WalkFrom(seen) ==
  /\ \A e \in steady : In[e] \in seen \cup {Root} => e \in seen \cup todo
  /\ \A f \in seen \cap steady \cap Files : Pushed(f) \/ (gpc \in InFile /\ cur.file = f)

Walking ==
  /\ gpc \in InFile => cur.place = <<FileBase, cur.file>>
  /\ gpc \in {"files"} \cup InFile => \E seen \in SUBSET Entries : WalkFrom(seen)
  /\ gpc = "done" => \A f \in steady \cap Files : Pushed(f)

Directory == Rooted /\ (op = "dir" => pc # "stat" /\ Walking)

LEMMA InitDirectory == Init => Directory
<1> SUFFICES ASSUME Init PROVE Directory
  OBVIOUS
<1>1. Rooted
  BY DEF Init, Rooted
<1>. QED BY <1>1 DEF Init, Directory, Walking, InFile

\* A file that was committed stays, and the one in hand joins it.
LEMMA PutKeeps ==
  ASSUME TypeOK, cur.file \in Files, cur.place = <<FileBase, cur.file>>, Put(cur.place)
  PROVE  /\ remote'[<<FileBase, cur.file>>] = "new"
         /\ \A f \in Files : remote[<<FileBase, f>>] = "new" => remote'[<<FileBase, f>>] = "new"
<1>1. \A f \in Files : <<FileBase, f>> \in Places
  BY PlaceFacts
<1>2. PICK M \in SUBSET {d \in Places : d[2] \notin Files} :
         remote' = [q \in Places |-> IF q = cur.place THEN "new" ELSE IF q \in M THEN "dir" ELSE remote[q]]
  BY DEF Put
<1>3. \A f \in Files : <<FileBase, f>> \notin M
  BY <1>2
<1>. QED BY <1>1, <1>2, <1>3

LEMMA DropKeeps ==
  ASSUME TypeOK, cur.place = <<FileBase, cur.file>>, Drops(cur.place)
  PROVE  \A f \in Files \ {cur.file} : remote'[<<FileBase, f>>] = remote[<<FileBase, f>>]
<1>1. remote \in [Places -> Contents]
  BY DEF TypeOK
<1>2. \A f \in Files \ {cur.file} : <<FileBase, f>> # cur.place
  OBVIOUS
<1> HIDE DEF FileBase
<1>. QED BY <1>1, <1>2 DEF Drops

\* What does not touch the walk leaves it where it is.
LEMMA SameWalk ==
  ASSUME Walking, UNCHANGED <<srcDir, form, todo, errs, remote>>, steady' \subseteq steady,
         cur'.file = cur.file, cur'.place = cur.place,
         gpc' = gpc \/ {gpc, gpc'} \subseteq InFile
  PROVE  Walking'
<1>1. FileBase' = FileBase
  BY DEF FileBase
<1>2. \A f : Pushed(f)' <=> Pushed(f)
  BY <1>1 DEF Pushed
<1>3. \A seen \in SUBSET Entries : WalkFrom(seen) => WalkFrom(seen)'
  BY <1>2 DEF WalkFrom
<1>. QED BY <1>1, <1>2, <1>3 DEF Walking, InFile

\* One PushFile ends: its file is on the device or among the errors.
LEMMA FileEndsWalk ==
  ASSUME TypeOK, FileInHand, Walking, op = "dir", gpc \in InFile,
         NEW failed \in BOOLEAN, FileEnds(failed), UNCHANGED <<op, srcDir, form, todo, steady>>,
         \/ failed /\ (remote' = remote \/ Drops(cur.place) \/ Put(cur.place))
         \/ ~failed /\ Put(cur.place)
  PROVE  Walking'
<1>0. cur.file \in Files /\ cur.place = <<FileBase, cur.file>>
  BY DEF FileInHand, Walking
<1>1. cur.file \in Files /\ cur.place = <<FileBase, cur.file>> /\ FileBase' = FileBase
  BY <1>0 DEF FileBase
<1>2. gpc' = "files" /\ cur' = cur /\ errs \subseteq errs' /\ (failed => cur.file \in errs')
  BY DEF FileEnds
<1>3. Pushed(cur.file)'
  BY <1>1, <1>2, PutKeeps DEF Pushed
<1>4. \A f \in Files \ {cur.file} : Pushed(f) => Pushed(f)'
  BY <1>1, <1>2, PutKeeps, DropKeeps DEF Pushed
<1>5. PICK seen \in SUBSET Entries : WalkFrom(seen)
  BY DEF Walking
<1>6. WalkFrom(seen)'
  BY <1>2, <1>3, <1>4, <1>5 DEF WalkFrom, InFile
<1>. QED BY <1>2, <1>6 DEF Walking, InFile

LEMMA StepRooted == TypeOK /\ Rooted /\ [Next]_vars => Rooted'
<1> SUFFICES ASSUME TypeOK, Rooted, [Next]_vars PROVE Rooted'
  OBVIOUS
<1>1. CASE UNCHANGED <<local, steady>>
  BY <1>1 DEF Rooted
<1>2. ASSUME NEW e \in Entries, Remove(e) PROVE Rooted'
  BY <1>2 DEF Remove, Rooted, Children, TypeOK
<1>3. ASSUME NEW e \in Entries, Add(e) PROVE Rooted'
  BY <1>3 DEF Add, Rooted
<1>4. ASSUME NEW f \in Files, Grow(f) PROVE Rooted'
  BY <1>4, TreeAssumption DEF Grow, Rooted, TypeOK, Entries
<1>5. UNCHANGED tree \/ (\E e \in Entries : Remove(e) \/ Add(e)) \/ \E f \in Files : Grow(f)
  BY DEF Next, Caller, Goroutine, Device, Others, vars, config, Lstat, Listed, Mkdirs, NewSyncConn, CtxDone,
         Finished, ListEntry, Start, Counted, Walked, OpenSend, Copy, CopyBroken, Progress, SendDone,
         StatusLost, Count, EnterDir, NextFile, Stat, StatusOkay, StatusFail, CtxEnds, Lose, ReadLocalFails
<1>. QED BY <1>1, <1>2, <1>3, <1>4, <1>5 DEF tree

LEMMA StepWalking ==
  TypeOK /\ FileInHand /\ Closes /\ Directory /\ [Next]_vars => (op = "dir" => pc' # "stat" /\ Walking')
<1> SUFFICES ASSUME TypeOK, FileInHand, Closes, Directory, [Next]_vars, op = "dir"
             PROVE  pc' # "stat" /\ Walking'
  OBVIOUS
<1>0. /\ pc # "stat" /\ Walking /\ Rooted
      /\ local \subseteq Entries /\ steady \subseteq local /\ todo \subseteq Entries
  BY DEF Directory, TypeOK
<1> USE DEF vars, config, tree, walk, goroutine, caller
<1>1. CASE Lstat
  <2>1. gpc' \in {"none", "lstat"} /\ pc' # "stat"
    BY <1>0, <1>1 DEF Lstat, Return, Closes
  <2>. QED BY <2>1 DEF Walking, InFile
<1>2. CASE Listed
  BY <1>0, <1>2, SameWalk DEF Listed, InFile
<1>3. CASE Mkdirs
  <2>1. gpc' \in {"none", "lstat"} /\ pc' # "stat"
    BY <1>0, <1>3 DEF Mkdirs, Return, Closes
  <2>. QED BY <2>1 DEF Walking, InFile
<1>4. CASE NewSyncConn
  <2>1. gpc' \in {"none", "lstat"} /\ pc' # "stat"
    BY <1>0, <1>4 DEF NewSyncConn, Return, Closes
  <2>. QED BY <2>1 DEF Walking, InFile
<1>5. CASE CtxDone
  BY <1>0, <1>5, SameWalk DEF CtxDone, Return, InFile
<1>6. CASE Finished
  BY <1>0, <1>6, SameWalk DEF Finished, Return, InFile
<1>7. ASSUME NEW e \in Entries, ListEntry(e) PROVE pc' # "stat" /\ Walking'
  <2>1. gpc' = "none" /\ pc' # "stat"
    BY <1>0, <1>7 DEF ListEntry, Return, Closes
  <2>. QED BY <2>1 DEF Walking, InFile
<1>8. CASE Start
  <2>1. gpc' \in {"count", "failed"} /\ pc' # "stat"
    BY <1>0, <1>8 DEF Start
  <2>. QED BY <2>1 DEF Walking, InFile
<1>9. CASE Counted
  <2>1. gpc' \in {"files", "failed"} /\ pc' # "stat"
    BY <1>0, <1>9 DEF Counted
  <2>2. gpc' = "files" => WalkFrom({})'
    BY <1>0, <1>9 DEF Counted, WalkFrom, Children
  <2>. QED BY <2>1, <2>2 DEF Walking, InFile
<1>10. CASE Walked
  <2>1. PICK seen \in SUBSET Entries : WalkFrom(seen)
    BY <1>0, <1>10 DEF Walked, Walking
  <2> DEFINE all == seen \cup (Entries \ steady)
  <2>2. \A e \in Entries : In[e] \in all \cup {Root} => e \in all
    BY <1>0, <2>1, <1>10, TreeAssumption DEF Walked, WalkFrom, Rooted
  <2>3. all = Entries
    BY <2>2, DepthAssumption
  <2>4. \A f \in steady \cap Files : Pushed(f)
    BY <1>0, <2>1, <2>3, <1>10 DEF Walked, WalkFrom, InFile
  <2>5. gpc' = "done" /\ pc' # "stat"
    BY <1>0, <1>10 DEF Walked
  <2>6. (\A f \in steady \cap Files : Pushed(f))'
    BY <2>4, <1>10 DEF Walked, Pushed, FileBase
  <2>. QED BY <2>5, <2>6 DEF Walking, InFile
<1>11. CASE OpenSend
  <2>1. CASE gpc' = "copy" /\ UNCHANGED <<cur, errs, remote>>
    BY <1>0, <1>11, <2>1, SameWalk DEF OpenSend, InFile
  <2>2. CASE FileEnds(TRUE)
    BY <1>0, <1>11, <2>2, FileEndsWalk DEF OpenSend, InFile
  <2>. QED BY <1>11, <2>1, <2>2 DEF OpenSend
<1>12. CASE Copy
  BY <1>0, <1>12, SameWalk DEF Copy, InFile, TypeOK, Hands
<1>13. CASE CopyBroken
  BY <1>0, <1>13, FileEndsWalk DEF CopyBroken, InFile
<1>14. CASE Progress
  <2>1. cur'.file = cur.file /\ cur'.place = cur.place
    BY <1>14 DEF Progress, TypeOK, Hands
  <2>. QED BY <1>0, <1>14, <2>1, SameWalk DEF Progress, InFile
<1>15. CASE SendDone
  BY <1>0, <1>15, SameWalk DEF SendDone, InFile
<1>16. CASE StatusLost
  BY <1>0, <1>16, FileEndsWalk DEF StatusLost, InFile
<1>17. ASSUME NEW e \in Entries, Count(e) PROVE pc' # "stat" /\ Walking'
  <2>1. gpc' \in {"count", "failed"} /\ pc' # "stat"
    BY <1>0, <1>17 DEF Count
  <2>. QED BY <2>1 DEF Walking, InFile
<1>18. ASSUME NEW e \in SubDirs, EnterDir(e) PROVE pc' # "stat" /\ Walking'
  <2>1. CASE e \in local /\ todo' = (todo \ {e}) \cup Children(e) /\ UNCHANGED gpc
    <3>1. PICK seen \in SUBSET Entries : WalkFrom(seen)
      BY <1>0, <1>18 DEF EnterDir, Walking
    <3>2. WalkFrom(seen \cup {e})'
      <4>1. /\ e \in local /\ todo' = (todo \ {e}) \cup Children(e) /\ e \notin Files
            /\ gpc = "files" /\ gpc' = "files" /\ UNCHANGED <<local, steady, errs, remote, cur>>
            /\ FileBase' = FileBase
        BY <1>18, <2>1, TreeAssumption DEF EnterDir, FileBase
      <4>2. \A x \in steady : In[x] = e => x \in Children(e)
        BY <1>0 DEF Children
      <4>3. (\A x \in steady : In[x] \in seen \cup {e} \cup {Root} => x \in seen \cup {e} \cup todo)'
        BY <3>1, <4>1, <4>2 DEF WalkFrom
      <4>4. (\A f \in (seen \cup {e}) \cap steady \cap Files : Pushed(f) \/ (gpc \in InFile /\ cur.file = f))'
        BY <3>1, <4>1 DEF WalkFrom, Pushed, InFile
      <4>. QED BY <4>3, <4>4 DEF WalkFrom
    <3>3. seen \cup {e} \in SUBSET Entries /\ gpc' = "files" /\ pc' # "stat"
      BY <1>0, <1>18, <2>1 DEF EnterDir, Entries
    <3>. QED BY <3>2, <3>3 DEF Walking, InFile
  <2>2. CASE gpc' = "failed"
    BY <1>0, <1>18, <2>2 DEF EnterDir, Walking, InFile
  <2>. QED BY <1>18, <2>1, <2>2 DEF EnterDir
<1>19. ASSUME NEW e \in Files, NextFile(e) PROVE pc' # "stat" /\ Walking'
  <2>1. PICK seen \in SUBSET Entries : WalkFrom(seen)
    BY <1>0, <1>19 DEF NextFile, Walking
  <2>2. gpc = "files" /\ todo' = todo \ {e} /\ pc' # "stat"
        /\ UNCHANGED <<srcDir, form, steady, errs, remote>> /\ FileBase' = FileBase
    BY <1>0, <1>19 DEF NextFile, FileBase
  <2>3. \A x \in steady : In[x] # e
    BY <1>0, TreeAssumption DEF Entries
  <2>4. seen \cup {e} \in SUBSET Entries
    BY DEF Entries
  <2>5. CASE e \in local /\ gpc' = "begin" /\ cur' = Hand(e, <<FileBase, e>>, size[e])
    <3>1. cur'.file = e /\ cur'.place = <<FileBase, e>>
      BY <2>5 DEF Hand
    <3>2. WalkFrom(seen \cup {e})'
      BY <2>1, <2>2, <2>3, <2>5, <3>1 DEF WalkFrom, Pushed, InFile
    <3>. QED BY <2>2, <2>4, <2>5, <3>1, <3>2 DEF Walking, InFile
  <2>6. CASE e \notin local /\ UNCHANGED <<gpc, sent, cur>>
    <3>1. WalkFrom(seen \cup {e})'
      BY <1>0, <2>1, <2>2, <2>3, <2>6 DEF WalkFrom, Pushed, InFile
    <3>. QED BY <2>2, <2>4, <2>6, <3>1 DEF Walking, InFile
  <2>. QED BY <1>19, <2>5, <2>6 DEF NextFile
<1>20. CASE Stat
  BY <1>0, <1>20 DEF Stat
<1>21. CASE StatusOkay
  BY <1>0, <1>21, FileEndsWalk DEF StatusOkay, InFile
<1>22. CASE StatusFail
  BY <1>0, <1>22, FileEndsWalk DEF StatusFail, InFile
<1>23. CASE CtxEnds
  BY <1>0, <1>23, SameWalk DEF CtxEnds, InFile
<1>24. CASE Lose
  BY <1>0, <1>24, SameWalk DEF Lose, InFile
<1>25. CASE ReadLocalFails
  BY <1>0, <1>25, FileEndsWalk DEF ReadLocalFails, InFile
<1>26. ASSUME NEW e \in Entries, Remove(e) PROVE pc' # "stat" /\ Walking'
  BY <1>0, <1>26, SameWalk DEF Remove, Changes
<1>27. ASSUME NEW e \in Entries, Add(e) PROVE pc' # "stat" /\ Walking'
  BY <1>0, <1>27, SameWalk DEF Add, Changes
<1>28. ASSUME NEW e \in Files, Grow(e) PROVE pc' # "stat" /\ Walking'
  BY <1>0, <1>28, SameWalk DEF Grow, Changes
<1>29. CASE UNCHANGED vars
  BY <1>0, <1>29, SameWalk
<1>. QED BY <1>1, <1>2, <1>3, <1>4, <1>5, <1>6, <1>7, <1>8, <1>9, <1>10, <1>11,
           <1>12, <1>13, <1>14, <1>15, <1>16, <1>17, <1>18, <1>19, <1>20,
           <1>21, <1>22, <1>23, <1>24, <1>25, <1>26, <1>27, <1>28, <1>29
         DEF Next, Caller, Goroutine, Device, Others

LEMMA SameCall == [Next]_vars => op' = op
BY DEF Next, Caller, Goroutine, Device, Others, vars, config, Lstat, Listed, Mkdirs, NewSyncConn, CtxDone,
       Finished, ListEntry, Start, Counted, Walked, OpenSend, Copy, CopyBroken, Progress, SendDone,
       StatusLost, Count, EnterDir, NextFile, Stat, StatusOkay, StatusFail, CtxEnds, Lose, ReadLocalFails,
       Changes, Remove, Add, Grow

LEMMA StepDirectory == TypeOK /\ FileInHand /\ Closes /\ Directory /\ [Next]_vars => Directory'
BY SameCall, StepRooted, StepWalking DEF Directory

\* When PushDirCtx returns nil for a directory called by its name, every file that was
\* there all along is in the directory MakeDirs made for it, which the doc of PushDir
\* promises (sync.go:255-257); PushDir works out the place by itself.
THEOREM EverythingIsPushed == Spec => []AllPushed
<1>1. Spec => [](TypeOK /\ FileInHand)
  BY InitType, StepType, PTL DEF Spec
<1>2. Spec => []Closes
  BY <1>1, InitCloses, StepCloses, PTL DEF Spec
<1>4. Spec => []Directory
  BY <1>1, <1>2, InitDirectory, StepDirectory, PTL DEF Spec
<1>5. form = "plain" => FileBase = DirBase
  BY DEF FileBase, DirBase
<1>6. Where /\ Directory => AllPushed
  BY <1>5 DEF Where, Directory, Walking, Pushed, AllPushed
<1>. QED BY <1>4, <1>6, AlwaysWhere, PTL

-----------------------------------------------------------------------------
(* The directories: whatever has been there all along is found by the      *)
(* first walk, and then made.                                              *)

Stands(d) == remote[<<DirBase, d>>] # "none"

Found ==
  /\ \A d \in SubDirs : remote[<<DirBase, d>>] \in {"none", "dir", "regular"}
  /\ pc = "lstat" => dirs = {}
  /\ pc = "list" => \A e \in steady : In[e] \in dirs \cup {Root} => e \in dirs \cup todo \cup Files
  /\ pc = "mkdir" => steady \cap SubDirs \subseteq dirs
  /\ pc \in {"connect", "select"} \/ out = "nil" => blind # "no" \/ \A d \in steady \cap SubDirs : Stands(d)

LEMMA DirPlaces == TypeOK => \A d \in SubDirs : <<DirBase, d>> \in Places /\ <<DirBase, d>> # <<"to", Root>>
BY TreeAssumption DEF TypeOK, DirBase, Places, Bases, Entries

LEMMA InitFound == Init /\ op = "dir" => Found
<1> SUFFICES ASSUME Init, op = "dir" PROVE Found
  OBVIOUS
<1>0. TypeOK
  BY InitType
<1>1. \A d \in SubDirs : Bare("dir")[<<DirBase, d>>] = "none"
  BY <1>0, DirPlaces, TreeAssumption DEF Bare, Entries
<1>2. \A d \in SubDirs : remote[<<DirBase, d>>] \in {"none", "dir", "regular"}
  <2>1. ASSUME NEW k \in Kinds \cup {"none"}, remote = Bare(k), NEW d \in SubDirs
        PROVE  remote[<<DirBase, d>>] = "none"
    BY <1>0, <2>1, DirPlaces, TreeAssumption DEF Bare, Entries
  <2>2. ASSUME NEW e \in Entries, NEW k \in {"regular", "dir"}, remote = Occupied(e, k), NEW d \in SubDirs
        PROVE  remote[<<DirBase, d>>] \in {"none", "dir", "regular"}
    <3>1. <<DirBase, d>> \in Places
      BY <1>0, DirPlaces
    <3>. QED BY <1>1, <2>2, <3>1 DEF Occupied
  <2>. QED BY <2>1, <2>2 DEF Init, RemoteInit
<1>. QED BY <1>2 DEF Init, Found

\* No push takes away a directory, or what stands in its place.
LEMMA SameFound ==
  ASSUME TypeOK, Found, UNCHANGED <<srcDir, pc, out, blind, todo, dirs>>, steady' \subseteq steady,
         \/ remote' = remote
         \/ cur.place[2] \in Files /\ (Put(cur.place) \/ Drops(cur.place))
  PROVE  Found'
<1>1. DirBase' = DirBase
  BY DEF DirBase
<1>2. \A d \in SubDirs : /\ Stands(d) => Stands(d)'
                         /\ remote'[<<DirBase, d>>] \in {"none", "dir", "regular"}
  <2>1. CASE remote' = remote
    BY <1>1, <2>1 DEF Found, Stands
  <2>2. ASSUME cur.place[2] \in Files PROVE \A d \in SubDirs : <<DirBase, d>> # cur.place
    BY <2>2, TreeAssumption
  <2>3. CASE cur.place[2] \in Files /\ Put(cur.place)
    <3>1. PICK M \in SUBSET {d \in Places : d[2] \notin Files} :
             remote' = [q \in Places |-> IF q = cur.place THEN "new" ELSE IF q \in M THEN "dir" ELSE remote[q]]
      BY <2>3 DEF Put
    <3>2. \A d \in SubDirs : remote'[<<DirBase, d>>] \in {"dir", remote[<<DirBase, d>>]}
      BY <2>2, <2>3, <3>1, DirPlaces
    <3>. QED BY <1>1, <3>2 DEF Found, Stands
  <2>4. CASE cur.place[2] \in Files /\ Drops(cur.place)
    <3>1. remote \in [Places -> Contents]
      BY DEF TypeOK
    <3>2. \A d \in SubDirs : remote'[<<DirBase, d>>] = remote[<<DirBase, d>>]
      BY <2>2, <2>4, <3>1, DirPlaces DEF Drops
    <3>. QED BY <1>1, <3>2 DEF Found, Stands
  <2>. QED BY <2>1, <2>3, <2>4
<1>. QED BY <1>1, <1>2 DEF Found, Stands

LEMMA StepFound ==
  TypeOK /\ FileInHand /\ Closes /\ Directory /\ Where /\ Found /\ op = "dir" /\ [Next]_vars => Found'
<1> SUFFICES ASSUME TypeOK, FileInHand, Closes, Directory, Where, Found, op = "dir", [Next]_vars
             PROVE  Found'
  OBVIOUS
<1>0. /\ pc # "stat" /\ Walking /\ Rooted
      /\ local \subseteq Entries /\ steady \subseteq local /\ todo \subseteq Entries /\ dirs \subseteq SubDirs
      /\ (out = "none" <=> pc # "returned")
  BY DEF Directory, TypeOK
<1>I. gpc \in InFile => cur.place[2] \in Files
  BY <1>0 DEF FileInHand, Walking
<1>E. ASSUME pc' = "returned", out' # "nil", UNCHANGED <<srcDir, remote>> PROVE Found'
  BY <1>E DEF Found, DirBase, Stands
<1>T. gpc \in {"lstat", "count", "files"} => pc \notin {"list", "mkdir"}
  BY DEF Closes
<1> USE DEF vars, config, tree, walk, goroutine, caller
<1>1. CASE Lstat
  <2>1. CASE Return("error")
    BY <1>E, <1>1, <2>1 DEF Lstat, Return
  <2>2. CASE pc' = "list" /\ todo' = Children(Root) /\ UNCHANGED out
    BY <1>0, <1>1, <2>2 DEF Lstat, Found, Children, Stands, DirBase
  <2>. QED BY <1>1, <2>1, <2>2 DEF Lstat
<1>2. CASE Listed
  <2> DEFINE all == dirs \cup (Entries \ (steady \cap SubDirs))
  <2>1. \A e \in Entries : In[e] \in all \cup {Root} => e \in all
    <3>1. ASSUME NEW e \in steady \cap SubDirs, In[e] \in all \cup {Root} PROVE e \in dirs
      <4>1. In[e] \in steady \cup {Root} /\ In[e] \in SubDirs \cup {Root}
        BY <1>0, TreeAssumption DEF Rooted, Entries
      <4>2. In[e] \in dirs \cup {Root}
        BY <3>1, <4>1
      <4>. QED BY <1>0, <1>2, <4>2, TreeAssumption DEF Listed, Found
    <3>. QED BY <3>1
  <2>2. all = Entries
    BY <1>0, <2>1, DepthAssumption DEF Entries
  <2>3. steady \cap SubDirs \subseteq dirs
    BY <2>2 DEF Entries
  <2>. QED BY <1>0, <1>2, <2>3 DEF Listed, Found, Stands, DirBase
<1>3. CASE Mkdirs
  <2>1. PICK made \in SUBSET Missing :
           /\ remote' = [q \in Places |-> IF q \in made THEN "dir" ELSE remote[q]]
           /\ \/ made = Missing /\ pc' = "connect" /\ UNCHANGED <<out, conn, blind>>
              \/ made # Missing /\ blind' # "no" /\ pc' = "connect" /\ UNCHANGED <<out, conn>>
              \/ Return("error") /\ UNCHANGED blind
    BY <1>3 DEF Mkdirs
  <2>2. \A d \in SubDirs : remote'[<<DirBase, d>>] \in {"none", "dir", "regular"}
    BY <2>1, DirPlaces DEF Found
  <2>3. made = Missing => \A d \in dirs : remote'[<<DirBase, d>>] # "none"
    <3>1. \A d \in dirs : <<DirBase, d>> \in Places
      BY <1>0, DirPlaces
    <3>. QED BY <2>1, <3>1 DEF Missing, Named
  <2>4. pc = "mkdir" /\ DirBase' = DirBase /\ UNCHANGED <<steady, dirs>>
    BY <1>3 DEF Mkdirs, DirBase
  <2>5. pc' \in {"connect", "returned"} /\ (pc' = "returned" => out' # "nil") /\ (pc' = "connect" => out' # "nil")
    BY <1>0, <2>1, <2>4 DEF Return
  <2>6. pc' = "connect" => blind' # "no" \/ made = Missing
    BY <2>1 DEF Return
  <2>. QED BY <2>2, <2>3, <2>4, <2>5, <2>6 DEF Found, Stands
<1>4. CASE NewSyncConn
  BY <1>0, <1>4 DEF NewSyncConn, Return, Found, Stands, DirBase
<1>5. CASE CtxDone
  BY <1>E, <1>5 DEF CtxDone, Return
<1>6. CASE Finished
  <2>1. pc = "select" /\ pc' = "returned" /\ UNCHANGED <<srcDir, steady, blind, remote>>
    BY <1>6 DEF Finished, Return
  <2>. QED BY <2>1 DEF Found, Stands, DirBase
<1>7. ASSUME NEW e \in Entries, ListEntry(e) PROVE Found'
  <2>1. CASE Return("error")
    BY <1>E, <1>7, <2>1 DEF ListEntry, Return
  <2>2. CASE e \in Files /\ todo' = todo \ {e} /\ UNCHANGED <<dirs, pc, out, conn>>
    BY <1>0, <1>7, <2>2 DEF ListEntry, Found, Stands, DirBase
  <2>3. CASE /\ e \in SubDirs \cap local
             /\ todo' = (todo \ {e}) \cup Children(e) /\ dirs' = dirs \cup {e}
             /\ UNCHANGED <<pc, out, conn>>
    BY <1>0, <1>7, <2>3 DEF ListEntry, Found, Children, Stands, DirBase
  <2>. QED BY <1>7, <2>1, <2>2, <2>3 DEF ListEntry
<1>8. CASE Start
  BY <1>0, <1>T, <1>8 DEF Start, Found, Stands, DirBase
<1>9. CASE Counted
  BY <1>0, <1>T, <1>9 DEF Counted, Found, Stands, DirBase
<1>10. CASE Walked
  BY <1>0, <1>10, SameFound DEF Walked
<1>11. CASE OpenSend
  BY <1>0, <1>11, SameFound DEF OpenSend
<1>12. CASE Copy
  BY <1>0, <1>12, SameFound DEF Copy
<1>13. CASE CopyBroken
  BY <1>0, <1>I, <1>13, SameFound DEF CopyBroken, InFile
<1>14. CASE Progress
  BY <1>0, <1>14, SameFound DEF Progress
<1>15. CASE SendDone
  BY <1>0, <1>15, SameFound DEF SendDone
<1>16. CASE StatusLost
  BY <1>0, <1>I, <1>16, SameFound DEF StatusLost, InFile
<1>17. ASSUME NEW e \in Entries, Count(e) PROVE Found'
  BY <1>0, <1>T, <1>17 DEF Count, Found, Stands, DirBase
<1>18. ASSUME NEW e \in SubDirs, EnterDir(e) PROVE Found'
  BY <1>0, <1>T, <1>18 DEF EnterDir, Found, Stands, DirBase
<1>19. ASSUME NEW e \in Files, NextFile(e) PROVE Found'
  BY <1>0, <1>T, <1>19 DEF NextFile, Found, Stands, DirBase
<1>20. CASE Stat
  BY <1>0, <1>20 DEF Stat
<1>21. CASE StatusOkay
  BY <1>0, <1>I, <1>21, SameFound DEF StatusOkay, InFile
<1>22. CASE StatusFail
  BY <1>0, <1>I, <1>22, SameFound DEF StatusFail, InFile
<1>23. CASE CtxEnds
  BY <1>0, <1>23, SameFound DEF CtxEnds
<1>24. CASE Lose
  BY <1>0, <1>24, SameFound DEF Lose
<1>25. CASE ReadLocalFails
  BY <1>0, <1>I, <1>25, SameFound DEF ReadLocalFails, InFile
<1>26. ASSUME NEW e \in Entries, Remove(e) PROVE Found'
  BY <1>0, <1>26, SameFound DEF Remove, Changes
<1>27. ASSUME NEW e \in Entries, Add(e) PROVE Found'
  BY <1>0, <1>27, SameFound DEF Add, Changes
<1>28. ASSUME NEW e \in Files, Grow(e) PROVE Found'
  BY <1>0, <1>28, SameFound DEF Grow, Changes
<1>29. CASE UNCHANGED vars
  BY <1>0, <1>29, SameFound
<1>. QED BY <1>1, <1>2, <1>3, <1>4, <1>5, <1>6, <1>7, <1>8, <1>9, <1>10, <1>11,
           <1>12, <1>13, <1>14, <1>15, <1>16, <1>17, <1>18, <1>19, <1>20,
           <1>21, <1>22, <1>23, <1>24, <1>25, <1>26, <1>27, <1>28, <1>29
         DEF Next, Caller, Goroutine, Device, Others

\* ... and every directory is there, or something in its place, or mkdir was not
\* heard to its end, or halted at something that existed (sync.go:61-88, 294-342).
THEOREM DirectoriesAreMade == Spec => []DirsMade
<1>1. Spec => [](TypeOK /\ FileInHand)
  BY InitType, StepType, PTL DEF Spec
<1>2. Spec => []Closes
  BY <1>1, InitCloses, StepCloses, PTL DEF Spec
<1>3. Spec => []Directory
  BY <1>1, <1>2, InitDirectory, StepDirectory, PTL DEF Spec
<1> DEFINE DFound == op = "dir" => Found
<1>4. Init => DFound
  BY InitFound
<1>5. TypeOK /\ FileInHand /\ Closes /\ Directory /\ Where /\ DFound /\ [Next]_vars => DFound'
  BY StepFound, SameCall
<1>6. DFound => DirsMade
  BY DEF Found, Stands, DirsMade
<1> HIDE DEF DFound
<1>7. Spec => []DFound
  BY <1>1, <1>2, <1>3, <1>4, <1>5, AlwaysWhere, PTL DEF Spec
<1>. QED BY <1>6, <1>7, PTL

-----------------------------------------------------------------------------
(* The counts.  As long as the tree does not change each walk knows exactly *)
(* what it has seen: what is under it, or at the top, is seen or to be      *)
(* visited, and nothing else is.                                            *)

Exactly(seen) ==
  /\ seen \cup todo \subseteq local /\ seen \cap todo = {}
  /\ \A e \in local : (In[e] \in seen \cup {Root}) <=> (e \in seen \cup todo)

\* n files have been met by the walk in progress
Passed(n) == \E seen \in SUBSET Entries : Exactly(seen) /\ n = Cardinality(seen \cap Files)

Counts ==
  /\ gpc \in {"none", "lstat"} => total = 0
  /\ gpc \in {"none", "lstat", "count"} => sent = 0
  /\ gpc = "count" => Passed(total)
  /\ gpc \in {"files", "done"} \cup InFile => total = Cardinality(local \cap Files)
  /\ gpc \in {"files"} \cup InFile => Passed(sent)
  /\ gpc = "done" => sent = total

CountsInv == op = "dir" /\ changes = 0 => Counts

LEMMA Countable ==
  ASSUME NEW S \in SUBSET Entries
  PROVE  /\ IsFiniteSet(S \cap Files) /\ Cardinality(S \cap Files) \in Nat
         /\ \A T \in SUBSET S : Cardinality(T \cap Files) <= Cardinality(S \cap Files)
         /\ \A f \in Files \ S : Cardinality((S \cup {f}) \cap Files) = Cardinality(S \cap Files) + 1
         /\ \A d \in SubDirs : (S \cup {d}) \cap Files = S \cap Files
<1>1. S \cap Files \in SUBSET Entries
  BY DEF Entries
<1>2. IsFiniteSet(S \cap Files)
  BY <1>1, FinitenessAssumption, FS_Subset
<1>3. Cardinality(S \cap Files) \in Nat
  BY <1>2, FS_CardinalityType
<1>4. ASSUME NEW T \in SUBSET S PROVE Cardinality(T \cap Files) <= Cardinality(S \cap Files)
  <2>1. T \cap Files \in SUBSET (S \cap Files)
    OBVIOUS
  <2>. QED BY <1>2, <2>1, FS_Subset
<1>5. ASSUME NEW f \in Files \ S PROVE Cardinality((S \cup {f}) \cap Files) = Cardinality(S \cap Files) + 1
  <2>1. (S \cup {f}) \cap Files = (S \cap Files) \cup {f} /\ f \notin S \cap Files
    OBVIOUS
  <2>. QED BY <1>2, <2>1, FS_AddElement
<1>6. \A d \in SubDirs : (S \cup {d}) \cap Files = S \cap Files
  BY TreeAssumption
<1>. QED BY <1>2, <1>3, <1>4, <1>5, <1>6

\* A walk begins with nothing seen.
LEMMA WalkBegins ==
  ASSUME TypeOK, local' = local, todo' = Children(Root)
  PROVE  Passed(0)'
<1>1. Exactly({})'
  BY TreeAssumption DEF Exactly, Children, TypeOK
<1>2. {} \in SUBSET Entries /\ {} \cap Files = {} /\ Cardinality({}) = 0
  BY FS_EmptySet
<1>. QED BY <1>1, <1>2 DEF Passed

\* A file of the list is visited: one more has been met.
LEMMA WalkFile ==
  ASSUME TypeOK, NEW n \in Nat, Passed(n), NEW f \in Files, f \in todo, local' = local, todo' = todo \ {f}
  PROVE  f \in local /\ Passed(n + 1)'
<1>1. PICK seen \in SUBSET Entries : Exactly(seen) /\ n = Cardinality(seen \cap Files)
  BY DEF Passed
<1>2. f \in local /\ f \notin seen
  BY <1>1 DEF Exactly
<1>3. \A e \in local : In[e] # f
  BY TreeAssumption DEF TypeOK, Entries
<1>4. seen \cup {f} \in SUBSET Entries /\ n + 1 = Cardinality((seen \cup {f}) \cap Files)
  BY <1>1, <1>2, Countable DEF Entries
<1>5. Exactly(seen \cup {f})'
  BY <1>1, <1>2, <1>3 DEF Exactly
<1>. QED BY <1>2, <1>4, <1>5 DEF Passed

\* A directory is visited: what is in it joins the list.
LEMMA WalkDir ==
  ASSUME TypeOK, NEW n \in Nat, Passed(n), NEW d \in SubDirs, d \in todo,
         local' = local, todo' = (todo \ {d}) \cup Children(d)
  PROVE  Passed(n)'
<1>1. PICK seen \in SUBSET Entries : Exactly(seen) /\ n = Cardinality(seen \cap Files)
  BY DEF Passed
<1>2. d \in local /\ d \notin seen /\ d # Root
  BY <1>1, TreeAssumption DEF Exactly, Entries
<1>3. Children(d) \subseteq local /\ Children(d) \cap (seen \cup todo) = {}
  BY <1>1, <1>2 DEF Exactly, Children
<1>4. seen \cup {d} \in SUBSET Entries /\ n = Cardinality((seen \cup {d}) \cap Files)
  BY <1>1, Countable DEF Entries
<1>5. /\ ((seen \cup {d}) \cup todo') \subseteq local' /\ (seen \cup {d}) \cap todo' = {}
  BY <1>1, <1>2, <1>3 DEF Exactly
<1>6. ASSUME NEW e \in local PROVE (In[e] \in (seen \cup {d}) \cup {Root}) <=> (e \in (seen \cup {d}) \cup todo')
  <2>1. e \in Children(d) <=> In[e] = d
    BY DEF Children
  <2>2. (In[e] \in seen \cup {Root}) <=> (e \in seen \cup todo)
    BY <1>1 DEF Exactly
  <2>3. d \in seen \cup todo
    OBVIOUS
  <2>. QED BY <2>1, <2>2, <2>3
<1>7. Exactly(seen \cup {d})'
  BY <1>5, <1>6 DEF Exactly
<1>. QED BY <1>4, <1>7 DEF Passed

\* A walk that has nothing left to visit has met every file.
LEMMA WalkEnds ==
  ASSUME TypeOK, Rooted, NEW n, Passed(n), todo = {}
  PROVE  n = Cardinality(local \cap Files)
<1>1. PICK seen \in SUBSET Entries : Exactly(seen) /\ n = Cardinality(seen \cap Files)
  BY DEF Passed
<1> DEFINE all == seen \cup (Entries \ local)
<1>2. \A e \in Entries : In[e] \in all \cup {Root} => e \in all
  <2>1. ASSUME NEW e \in local, In[e] \in all \cup {Root} PROVE e \in seen
    <3>1. In[e] \in local \cup {Root}
      BY DEF Rooted
    <3>2. In[e] \in seen \cup {Root}
      BY <2>1, <3>1
    <3>. QED BY <1>1, <3>2 DEF Exactly
  <2>. QED BY <2>1
<1>3. all = Entries
  BY <1>2, DepthAssumption
<1>4. seen = local
  BY <1>1, <1>3 DEF Exactly, TypeOK
<1>. QED BY <1>1, <1>4

\* A walk has met some of the files.
LEMMA WalkBound ==
  ASSUME TypeOK, NEW n, Passed(n)
  PROVE  n \in Nat /\ n <= Cardinality(local \cap Files)
<1>1. PICK seen \in SUBSET Entries : Exactly(seen) /\ n = Cardinality(seen \cap Files)
  BY DEF Passed
<1>2. seen \in SUBSET local /\ local \in SUBSET Entries
  BY <1>1 DEF Exactly, TypeOK
<1>3. Cardinality(seen \cap Files) \in Nat
  BY <1>1, Countable
<1>. QED BY <1>1, <1>2, <1>3, Countable

\* What does not touch the walk of the goroutine leaves its counts as they are.
LEMMA SameCounts ==
  ASSUME Counts, UNCHANGED <<local, total, sent>>,
         \/ todo' = todo /\ (gpc' = gpc \/ (gpc \in {"files"} \cup InFile /\ gpc' \in {"files"} \cup InFile))
         \/ {gpc, gpc'} \subseteq {"none", "lstat"}
         \/ gpc' = "failed"
  PROVE  Counts'
<1>1. CASE todo' = todo
  <2>1. Passed(total)' <=> Passed(total)
    BY <1>1 DEF Passed, Exactly
  <2>2. Passed(sent)' <=> Passed(sent)
    BY <1>1 DEF Passed, Exactly
  <2>. QED BY <1>1, <2>1, <2>2 DEF Counts, InFile
<1>2. CASE {gpc, gpc'} \subseteq {"none", "lstat"}
  BY <1>2 DEF Counts, InFile
<1>3. CASE gpc' = "failed"
  BY <1>3 DEF Counts, InFile
<1>. QED BY <1>1, <1>2, <1>3

LEMMA InitCounts == Init => CountsInv
BY DEF Init, CountsInv, Counts, InFile

LEMMA StepCounts ==
  TypeOK /\ Closes /\ Directory /\ CountsInv /\ [Next]_vars => CountsInv'
<1> SUFFICES ASSUME TypeOK, Closes, Directory, CountsInv, [Next]_vars, op' = "dir", changes' = 0
             PROVE  Counts'
  BY DEF CountsInv
<1>0. /\ op = "dir" /\ pc # "stat" /\ Rooted
      /\ total \in Nat /\ sent \in Nat /\ changes \in Nat
  BY SameCall DEF Directory, TypeOK
<1>C. changes = 0 => Counts
  BY <1>0 DEF CountsInv
<1> USE DEF vars, config, tree, walk, goroutine, caller
<1>1. CASE Lstat
  BY <1>0, <1>C, <1>1, SameCounts DEF Lstat, Closes
<1>2. CASE Listed
  BY <1>0, <1>C, <1>2, SameCounts DEF Listed
<1>3. CASE Mkdirs
  BY <1>0, <1>C, <1>3, SameCounts DEF Mkdirs
<1>4. CASE NewSyncConn
  BY <1>0, <1>C, <1>4, SameCounts DEF NewSyncConn, Closes
<1>5. CASE CtxDone
  BY <1>0, <1>C, <1>5, SameCounts DEF CtxDone
<1>6. CASE Finished
  BY <1>0, <1>C, <1>6, SameCounts DEF Finished
<1>7. ASSUME NEW e \in Entries, ListEntry(e) PROVE Counts'
  BY <1>0, <1>C, <1>7, SameCounts DEF ListEntry, Closes
<1>8. CASE Start
  <2>1. CASE gpc' = "count" /\ todo' = Children(Root)
    <3>1. total' = 0 /\ sent' = 0 /\ local' = local
      BY <1>0, <1>C, <1>8 DEF Start, Counts
    <3>2. Passed(0)'
      BY <2>1, <3>1, WalkBegins
    <3>3. Passed(total)'
      BY <3>1, <3>2 DEF Passed
    <3>. QED BY <2>1, <3>1, <3>3 DEF Counts, InFile
  <2>2. CASE gpc' = "failed"
    BY <1>0, <1>C, <1>8, <2>2, SameCounts DEF Start
  <2>. QED BY <1>8, <2>1, <2>2 DEF Start
<1>9. CASE Counted
  <2>1. CASE gpc' = "files" /\ todo' = Children(Root)
    <3>1. gpc = "count" /\ todo = {} /\ Counts /\ UNCHANGED <<local, total, sent>>
      BY <1>0, <1>C, <1>9 DEF Counted
    <3>2. PICK n \in Nat : n = total
      BY <1>0
    <3>3. total = Cardinality(local \cap Files)
      BY <1>0, <3>1, <3>2, WalkEnds DEF Counts
    <3>4. Passed(0)'
      BY <2>1, <3>1, WalkBegins
    <3>5. sent' = 0
      BY <3>1 DEF Counts
    <3>6. Passed(sent)'
      BY <3>4, <3>5 DEF Passed
    <3>. QED BY <2>1, <3>1, <3>3, <3>6 DEF Counts, InFile
  <2>2. CASE gpc' = "failed"
    BY <1>0, <1>C, <1>9, <2>2, SameCounts DEF Counted
  <2>. QED BY <1>9, <2>1, <2>2 DEF Counted
<1>10. CASE Walked
  <2>1. gpc = "files" /\ todo = {} /\ gpc' = "done" /\ Counts /\ UNCHANGED <<local, total, sent>>
    BY <1>0, <1>C, <1>10 DEF Walked
  <2>2. sent = Cardinality(local \cap Files)
    BY <1>0, <2>1, WalkEnds DEF Counts, InFile
  <2>. QED BY <2>1, <2>2 DEF Counts, InFile
<1>11. CASE OpenSend
  BY <1>0, <1>C, <1>11, SameCounts DEF OpenSend, FileEnds, InFile
<1>12. CASE Copy
  BY <1>0, <1>C, <1>12, SameCounts DEF Copy, InFile
<1>13. CASE CopyBroken
  BY <1>0, <1>C, <1>13, SameCounts DEF CopyBroken, FileEnds, InFile
<1>14. CASE Progress
  BY <1>0, <1>C, <1>14, SameCounts DEF Progress, InFile
<1>15. CASE SendDone
  BY <1>0, <1>C, <1>15, SameCounts DEF SendDone, InFile
<1>16. CASE StatusLost
  BY <1>0, <1>C, <1>16, SameCounts DEF StatusLost, FileEnds, InFile
<1>17. ASSUME NEW e \in Entries, Count(e) PROVE Counts'
  <2>1. gpc = "count" /\ e \in todo /\ Counts /\ UNCHANGED <<local, sent>>
    BY <1>0, <1>C, <1>17 DEF Count, Visits
  <2>2. PICK n \in Nat : n = total
    BY <1>0
  <2>3. Passed(n) /\ sent = 0
    BY <2>1, <2>2 DEF Counts
  <2>4. CASE e \in Files /\ todo' = todo \ {e} /\ total' = total + 1 /\ UNCHANGED gpc
    <3>1. Passed(n + 1)' /\ total' = n + 1
      BY <2>1, <2>2, <2>3, <2>4, WalkFile
    <3>2. Passed(total)'
      BY <3>1 DEF Passed
    <3>. QED BY <2>1, <2>3, <2>4, <3>2 DEF Counts, InFile
  <2>5. CASE e \in SubDirs \cap local /\ todo' = (todo \ {e}) \cup Children(e) /\ UNCHANGED <<total, gpc>>
    <3>1. Passed(n)' /\ total' = n
      BY <2>1, <2>2, <2>3, <2>5, WalkDir
    <3>2. Passed(total)'
      BY <3>1 DEF Passed
    <3>. QED BY <2>1, <2>3, <2>5, <3>2 DEF Counts, InFile
  <2>6. CASE gpc' = "failed" /\ UNCHANGED <<todo, total>>
    BY <2>1, <2>6, SameCounts
  <2>. QED BY <1>17, <2>4, <2>5, <2>6 DEF Count
<1>18. ASSUME NEW e \in SubDirs, EnterDir(e) PROVE Counts'
  <2>1. gpc = "files" /\ e \in todo /\ Counts /\ UNCHANGED <<local, total, sent>>
    BY <1>0, <1>C, <1>18 DEF EnterDir, Visits
  <2>2. PICK n \in Nat : n = sent
    BY <1>0
  <2>3. CASE todo' = (todo \ {e}) \cup Children(e) /\ UNCHANGED gpc
    <3>1. Passed(n)' /\ sent' = n
      BY <2>1, <2>2, <2>3, WalkDir DEF Counts, InFile
    <3>2. Passed(sent)'
      BY <3>1 DEF Passed
    <3>. QED BY <2>1, <2>3, <3>2 DEF Counts, InFile
  <2>4. CASE gpc' = "failed"
    BY <2>1, <2>4, SameCounts
  <2>. QED BY <1>18, <2>3, <2>4 DEF EnterDir
<1>19. ASSUME NEW e \in Files, NextFile(e) PROVE Counts'
  <2>1. gpc = "files" /\ e \in todo /\ todo' = todo \ {e} /\ Counts /\ UNCHANGED <<local, total>>
    BY <1>0, <1>C, <1>19 DEF NextFile, Visits
  <2>2. PICK n \in Nat : n = sent
    BY <1>0
  <2>3. e \in local /\ Passed(n + 1)'
    BY <2>1, <2>2, WalkFile DEF Counts, InFile
  <2>4. gpc' = "begin" /\ sent' = n + 1
    BY <1>19, <2>2, <2>3 DEF NextFile
  <2>5. Passed(sent)'
    BY <2>3, <2>4 DEF Passed
  <2>. QED BY <2>1, <2>4, <2>5 DEF Counts, InFile
<1>20. CASE Stat
  BY <1>0, <1>20 DEF Stat
<1>21. CASE StatusOkay
  BY <1>0, <1>C, <1>21, SameCounts DEF StatusOkay, FileEnds, InFile
<1>22. CASE StatusFail
  BY <1>0, <1>C, <1>22, SameCounts DEF StatusFail, FileEnds, InFile
<1>23. CASE CtxEnds
  BY <1>0, <1>C, <1>23, SameCounts DEF CtxEnds
<1>24. CASE Lose
  BY <1>0, <1>C, <1>24, SameCounts DEF Lose
<1>25. CASE ReadLocalFails
  BY <1>0, <1>C, <1>25, SameCounts DEF ReadLocalFails, FileEnds, InFile
<1>26. ASSUME NEW e \in Entries, Remove(e) \/ Add(e) PROVE Counts'
  BY <1>0, <1>26 DEF Remove, Add, Changes
<1>27. ASSUME NEW e \in Files, Grow(e) PROVE Counts'
  BY <1>0, <1>27 DEF Grow, Changes
<1>28. CASE UNCHANGED vars
  BY <1>0, <1>C, <1>28, SameCounts
<1>. QED BY <1>1, <1>2, <1>3, <1>4, <1>5, <1>6, <1>7, <1>8, <1>9, <1>10, <1>11,
           <1>12, <1>13, <1>14, <1>15, <1>16, <1>17, <1>18, <1>19, <1>20,
           <1>21, <1>22, <1>23, <1>24, <1>25, <1>26, <1>27, <1>28
         DEF Next, Caller, Goroutine, Device, Others

\* The counts given to the handler agree with each other and with the tree, as
\* long as it does not change (wire/sync_conn.go:472-517).
THEOREM CountsAreTrue == Spec => []CountsAgree
<1>1. Spec => [](TypeOK /\ FileInHand)
  BY InitType, StepType, PTL DEF Spec
<1>2. Spec => []Closes
  BY <1>1, InitCloses, StepCloses, PTL DEF Spec
<1>3. Spec => []Directory
  BY <1>1, <1>2, InitDirectory, StepDirectory, PTL DEF Spec
<1>4. Spec => []CountsInv
  BY <1>1, <1>2, <1>3, InitCounts, StepCounts, PTL DEF Spec
<1>5. TypeOK /\ Where /\ CountsInv => CountsAgree
  <2> SUFFICES ASSUME TypeOK, Where, Counts, op = "dir"
               PROVE  /\ gpc = "files" => sent <= total
                      /\ out = "nil" => sent = total /\ total = Cardinality(local \cap Files)
    BY DEF CountsInv, CountsAgree
  <2>1. gpc = "files" => sent <= total
    BY WalkBound DEF Counts, InFile
  <2>2. out = "nil" => sent = total /\ total = Cardinality(local \cap Files)
    BY DEF Where, Counts, InFile
  <2>. QED BY <2>1, <2>2
<1>. QED BY <1>1, <1>4, <1>5, AlwaysWhere, PTL

-----------------------------------------------------------------------------
(* The percentages.  What is sent of a file that does not change is no more *)
(* than was found when it was looked at; its last chunk is reported, and    *)
(* the device has no file whose last chunk was not.                         *)

Measured == cur.file \in steady => cur.total = size[cur.file] /\ cur.at <= size[cur.file]

NeverBeyond ==
  /\ gpc = "progress" => cur.at > 0
  /\ \A r \in reports : r[2] > 100 => r[1] \notin steady

Whole(f) == size[f] > 0 => <<f, 100>> \in reports

Sending ==
  /\ gpc = "begin" => cur.at = 0
  /\ cur.file \in steady /\ gpc \in {"copy", "status"} /\ cur.at = size[cur.file] => Whole(cur.file)
  /\ cur.file \in steady /\ gpc = "status" => cur.at = size[cur.file]

Committed == \A f \in steady \cap Files : remote[<<FileBase, f>>] = "new" => Whole(f)

ProgressInv == Measured /\ NeverBeyond /\ (op = "dir" => Sending /\ Committed)

\* The percentages a file of t chunks is reported at.
LEMMA Percentage ==
  ASSUME NEW a \in Nat, NEW t \in Nat, 0 < a, a <= t
  PROVE  /\ (a * 100) \div t \in Int /\ (a * 100) \div t <= 100
         /\ a = t => (a * 100) \div t = 100
<1>1. t > 0
  OBVIOUS
<1>2. \A x, y \in Nat : y > 0 /\ x <= y => (x * 100) \div y <= 100
  OBVIOUS
<1>3. \A y \in Nat : y > 0 => (y * 100) \div y = 100
  OBVIOUS
<1>4. \A x, y \in Nat : y > 0 => (x * 100) \div y \in Int
  OBVIOUS
<1>. QED BY <1>1, <1>2, <1>3, <1>4

\* The chunk that ends a file is reported in the push of a directory, whatever
\* was reported before it.
LEMMA ProgressStep ==
  ASSUME TypeOK, FileInHand, Measured, NeverBeyond, Progress, cur.file \in steady
  PROVE  /\ \A r \in reports' : r \in reports \/ (r[1] = cur.file /\ ~(r[2] > 100))
         /\ op = "dir" /\ cur.at = size[cur.file] => <<cur.file, 100>> \in reports'
<1>1. cur.file \in Files /\ cur.at \in Nat /\ cur.total \in Nat /\ size[cur.file] \in Nat
  BY SizeAssumption DEF TypeOK, FileInHand, Progress, InFile, Hands
<1>2. 0 < cur.at /\ cur.at <= cur.total /\ cur.total = size[cur.file]
  BY <1>1 DEF Measured, NeverBeyond, Progress
<1>3. PICK p \in Percents :
         IF Reported(p) THEN reports' = reports \cup {<<cur.file, p>>} ELSE UNCHANGED reports
  BY DEF Progress
<1>4. p = (cur.at * 100) \div cur.total
  BY <1>1, <1>2, <1>3 DEF Percents
<1>5. p \in Int /\ p <= 100 /\ (cur.at = cur.total => p = 100)
  BY <1>1, <1>2, <1>4, Percentage
<1>6. ~(p > 100)
  BY <1>5
<1>7. op = "dir" /\ cur.at = size[cur.file] => Reported(p) /\ p = 100
  BY <1>2, <1>5 DEF Reported
<1>. QED BY <1>3, <1>6, <1>7

LEMMA InitProgress == Init => ProgressInv
<1> SUFFICES ASSUME Init PROVE ProgressInv
  OBVIOUS
<1>1. cur.file = Root /\ Root \notin steady
  BY TreeAssumption DEF Init, NoFile, Hand
<1>2. \A p \in Places : remote[p] # "new"
  <2>1. \A k \in Kinds \cup {"none"} : \A p \in Places : Bare(k)[p] # "new"
    BY DEF Bare, Kinds
  <2>2. \A e \in Entries : \A k \in {"regular", "dir"} : \A p \in Places : Occupied(e, k)[p] # "new"
    BY <2>1 DEF Occupied, Kinds
  <2>. QED BY <2>1, <2>2 DEF Init, RemoteInit
<1>3. \A f \in Files : <<FileBase, f>> \in Places
  BY InitType, PlaceFacts
<1>. QED BY <1>1, <1>2, <1>3 DEF Init, ProgressInv, Measured, NeverBeyond, Sending, Committed

\* What is there all along keeps its length.
LEMMA SteadyKept ==
  TypeOK /\ [Next]_vars => steady' \subseteq steady /\ \A f \in steady' \cap Files : size'[f] = size[f]
<1> SUFFICES ASSUME TypeOK, [Next]_vars
             PROVE  steady' \subseteq steady /\ \A f \in steady' \cap Files : size'[f] = size[f]
  OBVIOUS
<1>1. ASSUME NEW f \in Files, Grow(f) PROVE \A x \in steady' \cap Files : size'[x] = size[x]
  BY <1>1 DEF Grow, TypeOK
<1>2. UNCHANGED tree \/ (\E e \in Entries : Remove(e) \/ Add(e)) \/ \E f \in Files : Grow(f)
  BY DEF Next, Caller, Goroutine, Device, Others, vars, config, Lstat, Listed, Mkdirs, NewSyncConn, CtxDone,
         Finished, ListEntry, Start, Counted, Walked, OpenSend, Copy, CopyBroken, Progress, SendDone,
         StatusLost, Count, EnterDir, NextFile, Stat, StatusOkay, StatusFail, CtxEnds, Lose, ReadLocalFails
<1>. QED BY <1>1, <1>2 DEF tree, Remove, Add, Grow

\* A file is taken in hand with the length it has, and its chunks are sent one by one.
LEMMA HandSteps ==
  TypeOK /\ [Next]_vars =>
    \/ cur'.file = cur.file /\ cur'.total = cur.total /\ cur'.at = cur.at
    \/ Copy /\ cur'.file = cur.file /\ cur'.total = cur.total /\ cur'.at = cur.at + 1
    \/ /\ Lstat \/ gpc' = "begin"
       /\ cur'.file \in Files /\ cur'.total = size[cur'.file] /\ cur'.at = 0 /\ size' = size
<1> SUFFICES ASSUME TypeOK, [Next]_vars
             PROVE  \/ cur'.file = cur.file /\ cur'.total = cur.total /\ cur'.at = cur.at
                    \/ Copy /\ cur'.file = cur.file /\ cur'.total = cur.total /\ cur'.at = cur.at + 1
                    \/ /\ Lstat \/ gpc' = "begin"
                       /\ cur'.file \in Files /\ cur'.total = size[cur'.file] /\ cur'.at = 0 /\ size' = size
  OBVIOUS
<1>1. CASE cur' = cur
  BY <1>1
<1>2. CASE Lstat
  BY <1>2 DEF Lstat, Hand, tree
<1>3. CASE Stat
  BY <1>3 DEF Stat, RemotePath, TypeOK, Hands
<1>4. CASE Copy
  BY <1>4 DEF Copy, TypeOK, Hands
<1>5. CASE Progress
  BY <1>5 DEF Progress, TypeOK, Hands
<1>6. ASSUME NEW f \in Files, NextFile(f)
      PROVE  \/ cur' = cur
             \/ /\ gpc' = "begin" /\ size' = size
                /\ cur'.file \in Files /\ cur'.total = size[cur'.file] /\ cur'.at = 0
  BY <1>6 DEF NextFile, Hand, tree
<1>7. cur' = cur \/ Lstat \/ Stat \/ Copy \/ Progress \/ \E f \in Files : NextFile(f)
  BY DEF Next, Caller, Goroutine, Device, Others, vars, goroutine, Listed, Mkdirs, NewSyncConn, CtxDone,
         Finished, ListEntry, Start, Counted, Walked, OpenSend, CopyBroken, SendDone, FileEnds, StatusLost,
         Count, EnterDir, StatusOkay, StatusFail, CtxEnds, Lose, ReadLocalFails, Changes, Remove, Add, Grow
<1>. QED BY <1>1, <1>2, <1>3, <1>4, <1>5, <1>6, <1>7

LEMMA StepMeasured == TypeOK /\ FileInHand /\ Measured /\ [Next]_vars => Measured'
<1> SUFFICES ASSUME TypeOK, FileInHand, Measured, [Next]_vars, cur'.file \in steady'
             PROVE  cur'.total = size'[cur'.file] /\ cur'.at <= size'[cur'.file]
  BY DEF Measured
<1>1. steady' \subseteq steady /\ \A f \in steady' \cap Files : size'[f] = size[f]
  BY SteadyKept
<1>2. Root \notin steady /\ cur.file \in Files \cup {Root} /\ \A f \in Files : size[f] \in Nat
  BY TreeAssumption, SizeAssumption DEF TypeOK, Hands
<1>3. CASE cur'.file = cur.file /\ cur'.total = cur.total /\ cur'.at = cur.at
  BY <1>1, <1>2, <1>3 DEF Measured
<1>4. CASE Copy /\ cur'.file = cur.file /\ cur'.total = cur.total /\ cur'.at = cur.at + 1
  <2>1. cur.file \in Files /\ cur.at \in Nat /\ cur.at < size[cur.file] /\ size' = size
    BY <1>1, <1>2, <1>4, SizeAssumption DEF Copy, tree, TypeOK, Hands
  <2>. QED BY <1>1, <1>2, <1>4, <2>1 DEF Measured
<1>5. CASE cur'.file \in Files /\ cur'.total = size[cur'.file] /\ cur'.at = 0 /\ size' = size
  BY <1>2, <1>5
<1>. QED BY <1>3, <1>4, <1>5, HandSteps

LEMMA StepNeverBeyond ==
  TypeOK /\ FileInHand /\ Closes /\ Measured /\ NeverBeyond /\ [Next]_vars => NeverBeyond'
<1> SUFFICES ASSUME TypeOK, FileInHand, Closes, Measured, NeverBeyond, [Next]_vars PROVE NeverBeyond'
  OBVIOUS
<1>1. steady' \subseteq steady
  BY SteadyKept
<1>2. gpc' = "progress" => cur'.at > 0
  <2>1. CASE Copy
    BY <2>1, SizeAssumption DEF Copy, TypeOK, Hands
  <2>2. CASE Lstat
    BY <2>2 DEF Lstat, Closes
  <2>3. gpc' = "progress" => gpc = "progress" \/ Copy
    BY DEF Next, Caller, Goroutine, Device, Others, vars, goroutine, Lstat, Listed, Mkdirs, NewSyncConn, CtxDone,
           Finished, ListEntry, Start, Counted, Walked, OpenSend, Progress, CopyBroken, SendDone, FileEnds,
           StatusLost, Count, EnterDir, NextFile, Stat, RemotePath, StatusOkay, StatusFail, CtxEnds, Lose,
           ReadLocalFails, Changes, Remove, Add, Grow
  <2>. QED BY <2>1, <2>2, <2>3, HandSteps DEF NeverBeyond
<1>3. \A r \in reports' : r[2] > 100 => r[1] \notin steady'
  <2>1. CASE reports' = reports
    BY <1>1, <2>1 DEF NeverBeyond
  <2>2. CASE Progress /\ cur.file \in steady
    <3>1. \A r \in reports' : r \in reports \/ ~(r[2] > 100)
      BY <2>2, ProgressStep
    <3>. QED BY <1>1, <3>1 DEF NeverBeyond
  <2>3. CASE Progress /\ cur.file \notin steady
    <3>1. \A r \in reports' : r \in reports \/ r[1] = cur.file
      BY <2>3 DEF Progress
    <3>. QED BY <1>1, <2>3, <3>1 DEF NeverBeyond
  <2>4. reports' = reports \/ Progress
    BY DEF Next, Caller, Goroutine, Device, Others, vars, goroutine, Lstat, Listed, Mkdirs, NewSyncConn, CtxDone,
           Finished, ListEntry, Start, Counted, Walked, OpenSend, Copy, CopyBroken, SendDone, FileEnds,
           StatusLost, Count, EnterDir, NextFile, Stat, RemotePath, StatusOkay, StatusFail, CtxEnds, Lose,
           ReadLocalFails, Changes, Remove, Add, Grow
  <2>. QED BY <2>1, <2>2, <2>3, <2>4
<1>. QED BY <1>2, <1>3 DEF NeverBeyond

\* A file that the device did not have is the one in hand.
LEMMA NewFiles ==
  ASSUME TypeOK, cur.place = <<FileBase, cur.file>>, UNCHANGED <<srcDir, form>>,
         NEW f \in Files, remote'[<<FileBase', f>>] = "new"
  PROVE  /\ remote' = remote \/ Drops(cur.place) => remote[<<FileBase, f>>] = "new"
         /\ Put(cur.place) => remote[<<FileBase, f>>] = "new" \/ f = cur.file
<1>0. FileBase' = FileBase
  BY DEF FileBase
<1>1. <<FileBase, f>> \in Places /\ remote \in [Places -> Contents]
  BY PlaceFacts DEF TypeOK
<1> HIDE DEF FileBase
<1>2. ASSUME remote' = remote \/ Drops(cur.place) PROVE remote[<<FileBase, f>>] = "new"
  BY <1>0, <1>1, <1>2 DEF Drops
<1>3. ASSUME Put(cur.place) PROVE remote[<<FileBase, f>>] = "new" \/ f = cur.file
  <2>1. PICK M \in SUBSET {d \in Places : d[2] \notin Files} :
           remote' = [q \in Places |-> IF q = cur.place THEN "new" ELSE IF q \in M THEN "dir" ELSE remote[q]]
    BY <1>3 DEF Put
  <2>2. PICK p : p = <<FileBase, f>>
    OBVIOUS
  <2>3. p \in Places /\ remote'[p] = "new" /\ (p = cur.place => f = cur.file)
    BY <1>0, <1>1, <2>2
  <2>4. p # cur.place => remote[p] = "new"
    BY <2>1, <2>3
  <2>. QED BY <2>2, <2>3, <2>4
<1>. QED BY <1>2, <1>3

LEMMA KeepsCommitted ==
  ASSUME TypeOK, Committed, UNCHANGED <<srcDir, form>>,
         reports \subseteq reports', steady' \subseteq steady, \A f \in steady' \cap Files : size'[f] = size[f],
         \/ remote' = remote
         \/ Mkdirs
         \/ Drops(cur.place) /\ cur.place = <<FileBase, cur.file>>
         \/ Put(cur.place) /\ cur.place = <<FileBase, cur.file>> /\ (cur.file \in steady => Whole(cur.file))
  PROVE  Committed'
<1> SUFFICES ASSUME NEW f \in steady' \cap Files, remote'[<<FileBase', f>>] = "new"
             PROVE  Whole(f)'
  BY DEF Committed
<1>1. Whole(f) => Whole(f)'
  BY DEF Whole
<1>2. remote[<<FileBase, f>>] = "new" => Whole(f)
  BY DEF Committed
<1>3. CASE remote' = remote
  BY <1>1, <1>2, <1>3 DEF FileBase
<1>4. CASE Mkdirs
  <2>0. FileBase' = FileBase
    BY DEF FileBase
  <2>1. <<FileBase, f>> \in Places
    BY PlaceFacts
  <2>2. PICK made : remote' = [q \in Places |-> IF q \in made THEN "dir" ELSE remote[q]]
    BY <1>4 DEF Mkdirs
  <2>3. PICK p : p = <<FileBase, f>>
    OBVIOUS
  <2>4. p \in Places /\ remote'[p] = "new"
    BY <2>0, <2>1, <2>3
  <2>5. remote[p] = "new"
    BY <2>2, <2>4
  <2>. QED BY <1>1, <1>2, <2>3, <2>5
<1>5. CASE Drops(cur.place) /\ cur.place = <<FileBase, cur.file>>
  <2>1. remote[<<FileBase, f>>] = "new"
    BY <1>5, NewFiles
  <2>. QED BY <1>1, <1>2, <2>1
<1>6. CASE Put(cur.place) /\ cur.place = <<FileBase, cur.file>> /\ (cur.file \in steady => Whole(cur.file))
  <2>1. remote[<<FileBase, f>>] = "new" \/ f = cur.file
    BY <1>6, NewFiles
  <2>. QED BY <1>1, <1>2, <1>6, <2>1
<1>. QED BY <1>3, <1>4, <1>5, <1>6

LEMMA StepSending ==
  TypeOK /\ FileInHand /\ Closes /\ Directory /\ Measured /\ NeverBeyond /\ Sending /\ op = "dir" /\ [Next]_vars
    => Sending'
<1> SUFFICES ASSUME TypeOK, FileInHand, Closes, Directory, Measured, NeverBeyond, Sending, op = "dir",
                    [Next]_vars
             PROVE  Sending'
  OBVIOUS
<1>1. steady' \subseteq steady /\ \A f \in steady' \cap Files : size'[f] = size[f]
  BY SteadyKept
<1>2. cur.file \in steady => cur.file \in Files /\ size[cur.file] \in Nat
  BY TreeAssumption, SizeAssumption DEF TypeOK, Hands
<1>3. CASE cur' = cur /\ reports' = reports /\ (gpc' = gpc \/ gpc' \notin {"begin", "copy", "status"})
  BY <1>1, <1>2, <1>3 DEF Sending, Whole
<1>4. CASE OpenSend /\ gpc' = "copy"
  <2>1. cur' = cur /\ cur.at = 0 /\ gpc' = "copy"
    BY <1>4 DEF OpenSend, FileEnds, Sending
  <2>. QED BY <1>1, <1>2, <2>1 DEF Sending, Whole
<1>5. CASE Copy
  <2>1. gpc' = "progress"
    BY <1>5 DEF Copy
  <2>. QED BY <2>1 DEF Sending
<1>6. CASE Progress
  <2>1. /\ gpc' = "copy" /\ cur'.file = cur.file /\ cur'.at = cur.at
    BY <1>6 DEF Progress, TypeOK, Hands
  <2>2. cur.file \in steady /\ cur.at = size[cur.file] => <<cur.file, 100>> \in reports'
    BY <1>6, ProgressStep
  <2>. QED BY <1>1, <1>2, <2>1, <2>2 DEF Sending, Whole
<1>7. CASE SendDone
  <2>1. gpc = "copy" /\ cur' = cur /\ reports' = reports /\ cur.at >= size[cur.file] /\ cur.at \in Nat
    BY <1>7, SizeAssumption DEF SendDone, TypeOK, Hands
  <2>2. cur.file \in steady => cur.at = size[cur.file]
    BY <1>2, <2>1 DEF Measured
  <2>. QED BY <1>1, <1>2, <1>7, <2>1, <2>2 DEF SendDone, Sending, Whole
<1>8. ASSUME NEW f \in Files, NextFile(f)
      PROVE  (gpc' = "begin" /\ cur'.at = 0) \/ (cur' = cur /\ reports' = reports /\ gpc' = gpc)
  <2>1. CASE gpc' = "begin" /\ cur' = Hand(f, <<FileBase, f>>, size[f])
    BY <2>1 DEF Hand
  <2>2. CASE UNCHANGED <<gpc, sent, cur>>
    BY <1>8, <2>2 DEF NextFile
  <2>. QED BY <1>8, <2>1, <2>2 DEF NextFile
<1>9. CASE gpc' = "begin" /\ cur'.at = 0
  BY <1>9 DEF Sending
<1>10. pc # "stat"
  BY DEF Directory
<1>11. \/ cur' = cur /\ reports' = reports /\ (gpc' = gpc \/ gpc' \notin {"begin", "copy", "status"})
       \/ (OpenSend /\ gpc' = "copy") \/ Copy \/ Progress \/ SendDone \/ \E f \in Files : NextFile(f)
  BY <1>10 DEF Next, Caller, Goroutine, Device, Others, vars, goroutine, Lstat, Listed, Mkdirs, NewSyncConn, CtxDone,
         Finished, ListEntry, Start, Counted, Walked, OpenSend, CopyBroken, FileEnds,
         StatusLost, Count, EnterDir, Stat, StatusOkay, StatusFail, CtxEnds, Lose,
         ReadLocalFails, Changes, Remove, Add, Grow
<1>. QED BY <1>3, <1>4, <1>5, <1>6, <1>7, <1>8, <1>9, <1>11

LEMMA StepCommitted ==
  TypeOK /\ FileInHand /\ Directory /\ Measured /\ Sending /\ Committed /\ op = "dir" /\ [Next]_vars
    => Committed'
<1> SUFFICES ASSUME TypeOK, FileInHand, Directory, Measured, Sending, Committed, op = "dir", [Next]_vars
             PROVE  Committed'
  OBVIOUS
<1>1. steady' \subseteq steady /\ \A f \in steady' \cap Files : size'[f] = size[f]
  BY SteadyKept
<1>2. UNCHANGED <<srcDir, form>> /\ reports \subseteq reports'
  BY DEF Next, Caller, Goroutine, Device, Others, vars, config, goroutine, Lstat, Listed, Mkdirs, NewSyncConn, CtxDone,
         Finished, ListEntry, Start, Counted, Walked, OpenSend, Copy, CopyBroken, Progress, SendDone, FileEnds,
         StatusLost, Count, EnterDir, NextFile, Stat, RemotePath, StatusOkay, StatusFail, CtxEnds, Lose,
         ReadLocalFails, Changes, Remove, Add, Grow
<1>3. gpc \in InFile => cur.place = <<FileBase, cur.file>>
  BY DEF Directory, Walking
<1>4. gpc = "status" /\ cur.file \in steady => Whole(cur.file)
  BY DEF Sending
<1>5. \/ remote' = remote \/ Mkdirs
      \/ gpc \in InFile /\ Drops(cur.place)
      \/ gpc = "status" /\ Put(cur.place)
  BY DEF Next, Caller, Goroutine, Device, Others, vars, Lstat, Listed, NewSyncConn, CtxDone,
         Finished, ListEntry, Start, Counted, Walked, OpenSend, Copy, CopyBroken, Progress, SendDone,
         StatusLost, Count, EnterDir, NextFile, Stat, StatusOkay, StatusFail, CtxEnds, Lose,
         ReadLocalFails, Changes, Remove, Add, Grow, InFile
<1>6. gpc = "status" => gpc \in InFile
  BY DEF InFile
<1>. QED BY <1>1, <1>2, <1>3, <1>4, <1>5, <1>6, KeepsCommitted

\* A file that is pushed whole and does not change is reported at 100 %, and none
\* that does not change beyond (sync.go:221, wire/sync_conn.go:531).
THEOREM ProgressIsTrue == Spec => []ProgressTrue
<1>1. Spec => [](TypeOK /\ FileInHand)
  BY InitType, StepType, PTL DEF Spec
<1>2. Spec => []Closes
  BY <1>1, InitCloses, StepCloses, PTL DEF Spec
<1>3. Spec => []Directory
  BY <1>1, <1>2, InitDirectory, StepDirectory, PTL DEF Spec
<1>4. TypeOK /\ FileInHand /\ Closes /\ Directory /\ ProgressInv /\ [Next]_vars => ProgressInv'
  BY StepMeasured, StepNeverBeyond, StepSending, StepCommitted, SameCall DEF ProgressInv
<1>5. Spec => []ProgressInv
  BY <1>1, <1>2, <1>3, <1>4, InitProgress, PTL DEF Spec
<1>6. Where /\ Directory /\ ProgressInv => ProgressTrue
  <2> SUFFICES ASSUME Where, Directory, ProgressInv PROVE ProgressTrue
    OBVIOUS
  <2>1. ASSUME out = "nil", op = "dir", NEW f \in steady \cap Files, size[f] > 0
        PROVE  <<f, 100>> \in reports
    <3>1. remote[<<FileBase, f>>] = "new"
      BY <2>1 DEF Where, Directory, Walking, Pushed
    <3>. QED BY <2>1, <3>1 DEF ProgressInv, Committed, Whole
  <2>2. \A r \in reports : r[2] > 100 => r[1] \notin steady
    BY DEF ProgressInv, NeverBeyond
  <2>. QED BY <2>1, <2>2 DEF ProgressTrue
<1>. QED BY <1>3, <1>5, <1>6, AlwaysWhere, PTL
=============================================================================
