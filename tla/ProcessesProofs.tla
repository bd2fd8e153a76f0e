--------------------------- MODULE ProcessesProofs ---------------------------
(***************************************************************************)
(* Processes: what is listed, what is killed and when killing is over, for *)
(* every number of pids and of processes.                                  *)
(***************************************************************************)
EXTENDS Processes, TLAPS

\* A process keeps its id and its pid, and neither is another's while it runs.
Identity ==
  /\ \A p \in procs \cup snapshot : p.id <= started
  /\ \A p \in procs, q \in snapshot : p.id = q.id => p.pid = q.pid
  /\ \A p, q \in snapshot : p.pid = q.pid => p = q

\* A list that was not cut is what ps saw.
Looked ==
  /\ pc = "ps" /\ modern => cut
  /\ ~cut => list = snapshot
  /\ ListTrue

\* Nothing is killed before kill runs, and then only pids of the group.
Aimed ==
  /\ op = "list" \/ pc \in {"psAll", "ps", "kill"} => Over /\ victims = {}
  /\ ~cut => \A pid \in Pid : todo[pid] > 0 => pid \in PidsOf(Group)
  /\ OnlyGroup

\* As long as kill has not complained, everyone of the group is dead or still
\* before it.
Hunted ==
  /\ pc \in {"kill", "killing"} => op = "kill"
  /\ out = "nil" /\ ~lost => Over
  /\ ~cut /\ ((pc = "killing" /\ ~grumbled) \/ (op = "kill" /\ out = "nil" /\ ~lost)) =>
        /\ Group # {}
        /\ \A g \in Group : todo[g.pid] > 0 \/ g.id \notin IdsOf(procs)

IInv == TypeOK /\ Identity /\ Looked /\ Aimed /\ Hunted

-----------------------------------------------------------------------------
LEMMA GroupMember ==
  ASSUME NEW g
  PROVE  g \in Group <=>
           g \in snapshot /\ (g.named \/ \E n \in snapshot : n.named /\ g.ppid = n.pid)
BY DEF Group, Named, PidsOf

\* kill is given the pids of the group, each at least once.
LEMMA Targets ==
  ASSUME list = snapshot, NEW pid \in Pid
  PROVE  /\ KillPidGroupOf[pid] \in Nat
         /\ KillPidGroupOf[pid] > 0 <=> pid \in PidsOf(Group)
<1> DEFINE key == pid \in PidsOf(Named(list))
           child == \E k \in Named(list) : pid \in PidsOf(ListProcessGroup(k))
<1>1. KillPidGroupOf[pid] = Once(key) + Once(child)
  BY DEF KillPidGroupOf
<1>2. KillPidGroupOf[pid] \in Nat /\ (KillPidGroupOf[pid] > 0 <=> key \/ child)
  <2> HIDE DEF key, child
  <2> QED BY <1>1 DEF Once
<1>3. key \/ child <=> pid \in PidsOf(Group)
  <2>1. key => pid \in PidsOf(Group)
    BY GroupMember DEF PidsOf, Named
  <2>2. child => pid \in PidsOf(Group)
    BY GroupMember DEF PidsOf, Named, ListProcessGroup
  <2>3. ASSUME pid \in PidsOf(Group) PROVE key \/ child
    <3>1. PICK g \in Group : g.pid = pid
      BY <2>3 DEF PidsOf
    <3>2. CASE g.named
      BY <3>1, <3>2, GroupMember DEF PidsOf, Named
    <3>3. CASE \E n \in snapshot : n.named /\ g.ppid = n.pid
      BY <3>1, <3>3, GroupMember DEF PidsOf, Named, ListProcessGroup
    <3> QED BY <3>1, <3>2, <3>3, GroupMember
  <2> QED BY <2>1, <2>2, <2>3
<1> QED BY <1>2, <1>3

\* Who is left when p has ended.
LEMMA Leaving ==
  ASSUME TypeOK, NEW p \in procs
  PROVE  /\ Without(p) \subseteq Process
         /\ \A r \in Without(p) : \E q \in procs : q # p /\ r.id = q.id /\ r.pid = q.pid
         /\ \A r, s \in Without(p) : r.id = s.id \/ r.pid = s.pid => r = s
<1> DEFINE New(q) == IF q.ppid = p.pid THEN [q EXCEPT !.ppid = 0] ELSE q
<1>1. \A q \in procs : New(q) \in Process /\ New(q).id = q.id /\ New(q).pid = q.pid
  <2> SUFFICES ASSUME NEW q \in procs
               PROVE  New(q) \in Process /\ New(q).id = q.id /\ New(q).pid = q.pid
    OBVIOUS
  <2>1. q \in Process /\ 0 \in 0..MaxPid
    BY BoundsAssumption DEF TypeOK
  <2> QED BY <2>1 DEF Process
<1>2. Without(p) = {New(q) : q \in procs \ {p}}
  BY DEF Without
<1> HIDE DEF New
<1>3. Without(p) \subseteq Process
  BY <1>1, <1>2
<1>4. \A r \in Without(p) : \E q \in procs : q # p /\ r = New(q)
  BY <1>2
<1>5. \A r, s \in Without(p) : r.id = s.id \/ r.pid = s.pid => r = s
  <2> SUFFICES ASSUME NEW r \in Without(p), NEW s \in Without(p),
                      r.id = s.id \/ r.pid = s.pid
               PROVE  r = s
    OBVIOUS
  <2>1. PICK a \in procs : r = New(a) BY <1>4
  <2>2. PICK b \in procs : s = New(b) BY <1>4
  <2>3. a.id = b.id \/ a.pid = b.pid BY <1>1, <2>1, <2>2
  <2>4. a = b BY <2>3 DEF TypeOK
  <2> QED BY <2>1, <2>2, <2>4
<1> QED BY <1>1, <1>3, <1>4, <1>5

-----------------------------------------------------------------------------
LEMMA InitInv == Init => IInv
<1> SUFFICES ASSUME Init PROVE IInv
  OBVIOUS
<1>1. PICK pid \in [1..StartProcs -> Pid], ppid \in [1..StartProcs -> 0..MaxPid], named \in [1..StartProcs -> BOOLEAN] :
        /\ \A i, j \in 1..StartProcs : pid[i] = pid[j] => i = j
        /\ procs = {[id |-> i, pid |-> pid[i], ppid |-> ppid[i], named |-> named[i]] : i \in 1..StartProcs}
  BY DEF Init
<1>2. /\ procs \subseteq Process
      /\ \A p, q \in procs : p.id = q.id \/ p.pid = q.pid => p = q
      /\ \A p \in procs : p.id <= StartProcs
  <2> DEFINE rec(i) == [id |-> i, pid |-> pid[i], ppid |-> ppid[i], named |-> named[i]]
  <2>1. \A i \in 1..StartProcs : i \in 1..MaxProcs /\ i <= StartProcs
    BY BoundsAssumption
  <2>2. \A i \in 1..StartProcs : rec(i) \in Process /\ rec(i).id = i /\ rec(i).pid = pid[i]
    BY <2>1 DEF Process
  <2>3. procs = {rec(i) : i \in 1..StartProcs}
    BY <1>1
  <2> HIDE DEF rec
  <2>4. \A p \in procs : \E i \in 1..StartProcs : p = rec(i)
    BY <2>3
  <2>5. procs \subseteq Process /\ \A p \in procs : p.id <= StartProcs
    BY <2>1, <2>2, <2>4
  <2>6. ASSUME NEW p \in procs, NEW q \in procs, p.id = q.id \/ p.pid = q.pid PROVE p = q
    <3>1. PICK i \in 1..StartProcs : p = rec(i) BY <2>4
    <3>2. PICK j \in 1..StartProcs : q = rec(j) BY <2>4
    <3>3. i = j BY <1>1, <2>2, <2>6, <3>1, <3>2
    <3> QED BY <3>1, <3>2, <3>3
  <2> QED BY <2>5, <2>6
<1>3. TypeOK
  <2>1. started \in StartProcs..MaxProcs /\ todo \in [Pid -> Nat]
    BY BoundsAssumption DEF Init
  <2> QED BY <1>2, <2>1 DEF Init, TypeOK
<1>4. Identity
  BY <1>2 DEF Init, Identity
<1>5. Looked
  BY DEF Init, Looked, ListTrue
<1>6. Aimed
  BY DEF Init, Aimed, Over, OnlyGroup
<1>7. Hunted
  BY DEF Init, Hunted
<1> QED BY <1>3, <1>4, <1>5, <1>6, <1>7 DEF IInv

-----------------------------------------------------------------------------
(* The caller. *)

LEMMA CutLines == ASSUME TypeOK, NEW lines \in Cuts(procs) PROVE lines \subseteq Process
<1>1. CASE \E k \in Pid : lines = {p \in procs : p.pid < k}
  BY <1>1 DEF TypeOK
<1>2. CASE \E last \in procs : lines = {p \in procs : p.pid < last.pid} \cup {[last EXCEPT !.named = ~@]}
  <2>1. PICK last \in procs : lines = {p \in procs : p.pid < last.pid} \cup {[last EXCEPT !.named = ~@]}
    BY <1>2
  <2>2. last \in Process
    BY DEF TypeOK
  <2>3. [last EXCEPT !.named = ~@] \in Process
    BY <2>2 DEF Process
  <2> QED BY <2>1, <2>3 DEF TypeOK
<1> QED BY <1>1, <1>2 DEF Cuts

LEMMA FailedInv ==
  ASSUME IInv, pc # "returned", Failed, UNCHANGED <<device, op, modern, killing, lost>>
  PROVE  IInv'
<1> USE DEF Failed, Return, device, killing
<1>1. TypeOK' BY DEF IInv, TypeOK
<1>2. Identity' BY DEF IInv, Identity
<1>3. Looked' BY DEF IInv, Looked, ListTrue
<1>4. Aimed' BY DEF IInv, Aimed, Over, OnlyGroup, Group
<1>5. Hunted' BY DEF IInv, Hunted
<1> QED BY <1>1, <1>2, <1>3, <1>4, <1>5 DEF IInv

LEMMA AgainInv ==
  ASSUME IInv, pc = "psAll", pc' = "ps", cut' \in BOOLEAN, cut => cut', modern => cut',
         UNCHANGED <<device, op, modern, killing, lost, out, list, snapshot>>
  PROVE  IInv'
<1> USE DEF device, killing
<1>1. TypeOK' BY DEF IInv, TypeOK
<1>2. Identity' BY DEF IInv, Identity
<1>3. Looked' BY DEF IInv, Looked, ListTrue, TypeOK
<1>4. Aimed' BY DEF IInv, Aimed, Over, OnlyGroup, Group
<1>5. Hunted' BY DEF IInv, Hunted, TypeOK
<1> QED BY <1>1, <1>2, <1>3, <1>4, <1>5 DEF IInv

LEMMA ListedInv ==
  ASSUME IInv, pc \in {"psAll", "ps"}, NEW lines, lines \subseteq Process, Listed(lines),
         cut' \in BOOLEAN, cut' \/ (lines = procs /\ cut' = cut),
         UNCHANGED <<device, op, modern, killing, lost>>
  PROVE  IInv'
<1> USE DEF device, killing
<1>1. /\ list' = lines /\ snapshot' = procs /\ out = "none"
      /\ \/ op = "list" /\ pc' = "returned" /\ out' = "nil"
         \/ op = "kill" /\ pc' = "kill" /\ out' = out
  BY DEF Listed, Return, IInv, TypeOK
<1>2. TypeOK' BY <1>1 DEF IInv, TypeOK
<1>3. Identity' BY <1>1 DEF IInv, Identity, TypeOK
<1>4. Looked'
  <2>1. ListTrue' BY <1>1 DEF ListTrue, IdsOf
  <2> QED BY <1>1, <2>1 DEF Looked
<1>5. Over /\ victims = {} BY DEF IInv, Aimed
<1>6. Over' /\ victims' = {} BY <1>5 DEF Over
<1>7. \A pid \in Pid : ~(todo'[pid] > 0)
  BY <1>6 DEF Over
<1>8. Aimed' BY <1>6, <1>7 DEF Aimed, OnlyGroup
<1>9. Hunted' BY <1>1, <1>6 DEF Hunted
<1> QED BY <1>2, <1>3, <1>4, <1>8, <1>9 DEF IInv

LEMMA PsAllInv == ASSUME IInv, PsAll PROVE IInv'
<1>1. CASE Failed
  BY <1>1, FailedInv DEF PsAll
<1>2. CASE ~modern /\ pc' = "ps" /\ UNCHANGED <<out, list, snapshot, cut>>
  BY <1>2, AgainInv DEF PsAll, IInv, TypeOK
<1>3. CASE modern /\ ~Failed
  <2>1. PICK lines \in {procs} \cup Cuts(procs) :
          /\ Whole(lines) \/ Cut(lines)
          /\ IF cut' /\ Cardinality(lines) <= ShortLines
             THEN pc' = "ps" /\ UNCHANGED <<out, list, snapshot>>
             ELSE Listed(lines)
    BY <1>3 DEF PsAll
  <2>2. /\ lines \subseteq Process /\ cut' \in BOOLEAN /\ (cut => cut')
        /\ cut' \/ (lines = procs /\ cut' = cut)
    <3>1. TypeOK BY DEF IInv
    <3>2. procs \subseteq Process /\ cut \in BOOLEAN BY <3>1 DEF TypeOK
    <3>3. lines \subseteq Process BY <3>1, <3>2, CutLines
    <3>4. (lines = procs /\ cut' = cut) \/ cut' = TRUE BY <2>1 DEF Whole, Cut
    <3> QED BY <3>2, <3>3, <3>4
  <2>3. CASE Listed(lines)
    <3>1. pc \in {"psAll", "ps"} /\ UNCHANGED <<device, op, modern, killing, lost>>
      BY DEF PsAll
    <3> QED BY <2>2, <2>3, <3>1, ListedInv
  <2>4. CASE cut' /\ pc' = "ps" /\ UNCHANGED <<out, list, snapshot>>
    BY <2>2, <2>4, AgainInv DEF PsAll
  <2> QED BY <2>1, <2>3, <2>4
<1> QED BY <1>1, <1>2, <1>3 DEF PsAll

LEMMA PsInv == ASSUME IInv, Ps PROVE IInv'
<1>1. CASE Failed
  BY <1>1, FailedInv DEF Ps
<1>2. CASE modern /\ UNCHANGED cut /\ Listed({})
  <2>1. cut /\ cut' = cut /\ cut \in BOOLEAN
    BY <1>2 DEF Ps, IInv, Looked, TypeOK
  <2> QED BY <1>2, <2>1, ListedInv DEF Ps
<1>3. CASE \E lines \in {procs} \cup Cuts(procs) :
             /\ Whole(lines) \/ Cut(lines)
             /\ IF lines = {} THEN Return("error") /\ UNCHANGED <<list, snapshot>> ELSE Listed(lines)
  <2>1. PICK lines \in {procs} \cup Cuts(procs) :
          /\ Whole(lines) \/ Cut(lines)
          /\ IF lines = {} THEN Return("error") /\ UNCHANGED <<list, snapshot>> ELSE Listed(lines)
    BY <1>3
  <2>2. /\ lines \subseteq Process /\ cut' \in BOOLEAN /\ (cut => cut')
        /\ cut' \/ (lines = procs /\ cut' = cut)
    <3>1. TypeOK BY DEF IInv
    <3>2. procs \subseteq Process /\ cut \in BOOLEAN BY <3>1 DEF TypeOK
    <3>3. lines \subseteq Process BY <3>1, <3>2, CutLines
    <3>4. (lines = procs /\ cut' = cut) \/ cut' = TRUE BY <2>1 DEF Whole, Cut
    <3> QED BY <3>2, <3>3, <3>4
  <2>3. CASE Listed(lines)
    <3>1. pc \in {"psAll", "ps"} /\ UNCHANGED <<device, op, modern, killing, lost>>
      BY DEF Ps
    <3> QED BY <2>2, <2>3, <3>1, ListedInv
  <2>4. CASE Return("error") /\ UNCHANGED <<list, snapshot>>
    <3> USE <2>2, <2>4 DEF Ps, Return, device, killing
    <3>1. TypeOK' BY DEF IInv, TypeOK
    <3>2. Identity' BY DEF IInv, Identity
    <3>3. Looked' BY DEF IInv, Looked, ListTrue
    <3>4. Over' /\ victims' = {} BY DEF IInv, Aimed, Over
    <3>5. Aimed' BY <3>4 DEF Aimed, Over, OnlyGroup
    <3>6. Hunted' BY DEF Hunted
    <3> QED BY <3>1, <3>2, <3>3, <3>5, <3>6 DEF IInv
  <2> QED BY <2>1, <2>3, <2>4
<1> QED BY <1>1, <1>2, <1>3 DEF Ps

LEMMA KillPidsInv == ASSUME IInv, KillPids PROVE IInv'
<1>1. /\ pc = "kill" /\ out = "none" /\ op = "kill" /\ Over /\ victims = {}
      /\ UNCHANGED <<procs, started, op, modern, list, snapshot, cut, lost, victims>>
  BY DEF KillPids, device, IInv, TypeOK, Aimed, Hunted
<1>2. CASE Return("error") /\ UNCHANGED <<todo, grumbled>>
  <2> USE <1>1, <1>2 DEF Return
  <2>1. TypeOK' BY DEF IInv, TypeOK
  <2>2. Identity' BY DEF IInv, Identity
  <2>3. Looked' BY DEF IInv, Looked, ListTrue
  <2>4. Aimed' BY DEF Aimed, Over, OnlyGroup
  <2>5. Hunted' BY DEF Hunted
  <2> QED BY <2>1, <2>2, <2>3, <2>4, <2>5 DEF IInv
<1>3. CASE /\ todo' = KillPidGroupOf
           /\ grumbled' = (Named(list) = {})
           /\ pc' = "killing" /\ UNCHANGED out
  <2>1. todo' \in [Pid -> Nat]
    <3> DEFINE key(pid) == pid \in PidsOf(Named(list))
               child(pid) == \E k \in Named(list) : pid \in PidsOf(ListProcessGroup(k))
    <3>1. KillPidGroupOf = [pid \in Pid |-> Once(key(pid)) + Once(child(pid))]
      BY DEF KillPidGroupOf
    <3> HIDE DEF key, child
    <3>2. \A pid \in Pid : Once(key(pid)) + Once(child(pid)) \in Nat
      BY DEF Once
    <3> QED BY <1>3, <3>1, <3>2
  <2>2. TypeOK' BY <1>1, <1>3, <2>1 DEF IInv, TypeOK
  <2>3. Identity' BY <1>1 DEF IInv, Identity
  <2>4. Looked' BY <1>1, <1>3 DEF IInv, Looked, ListTrue
  <2>5. ~cut => \A pid \in Pid : todo'[pid] > 0 <=> pid \in PidsOf(Group)
    <3> SUFFICES ASSUME ~cut, NEW pid \in Pid PROVE todo'[pid] > 0 <=> pid \in PidsOf(Group)
      OBVIOUS
    <3>1. list = snapshot BY DEF IInv, Looked
    <3> QED BY <1>3, <3>1, Targets
  <2>6. Group' = Group BY <1>1 DEF Group
  <2>7. Aimed' BY <1>1, <1>3, <2>5, <2>6 DEF Aimed, OnlyGroup
  <2>8. Hunted'
    <3>1. ASSUME ~cut, ~grumbled' PROVE Group # {} /\ \A g \in Group : todo'[g.pid] > 0
      <4>1. list = snapshot /\ Named(list) # {}
        BY <1>3, <3>1 DEF IInv, Looked
      <4>2. Group # {}
        BY <4>1 DEF Group
      <4>3. \A g \in Group : g.pid \in Pid /\ g.pid \in PidsOf(Group)
        BY GroupMember DEF IInv, TypeOK, Process, PidsOf
      <4> QED BY <2>5, <3>1, <4>2, <4>3
    <3> QED BY <1>1, <1>3, <2>6, <3>1 DEF Hunted
  <2> QED BY <2>2, <2>3, <2>4, <2>7, <2>8 DEF IInv
<1> QED BY <1>2, <1>3 DEF KillPids

LEMMA KillAnswerInv == ASSUME IInv, KillAnswer PROVE IInv'
<1>1. /\ pc = "killing" /\ pc' = "returned" /\ op = "kill" /\ out = "none"
      /\ UNCHANGED <<procs, started, op, modern, list, snapshot, cut, todo, grumbled, victims>>
      /\ \/ Over /\ out' = (IF grumbled THEN "error" ELSE "nil") /\ lost' = lost
         \/ out' = "error" /\ lost' = lost
         \/ out' \in {"nil", "error"} /\ lost' = TRUE
  BY DEF KillAnswer, Return, device, killing, IInv, TypeOK, Hunted
<1>2. TypeOK' BY <1>1 DEF IInv, TypeOK
<1>3. Identity' BY <1>1 DEF IInv, Identity
<1>4. Looked' BY <1>1 DEF IInv, Looked, ListTrue
<1>5. Group' = Group BY <1>1 DEF Group
<1>6. Aimed' BY <1>1, <1>5 DEF IInv, Aimed, OnlyGroup
<1>7. Hunted'
  <2>1. out' = "nil" /\ ~lost' => Over /\ ~grumbled
    BY <1>1 DEF IInv, TypeOK
  <2> QED BY <1>1, <1>5, <2>1 DEF IInv, Hunted, Over
<1> QED BY <1>2, <1>3, <1>4, <1>6, <1>7 DEF IInv

-----------------------------------------------------------------------------
(* The device. *)

LEMMA ForkInv == ASSUME IInv, Fork PROVE IInv'
<1>1. /\ pc # "returned" /\ started < MaxProcs /\ started' = started + 1
      /\ UNCHANGED <<op, modern, pc, out, list, snapshot, cut, todo, grumbled, victims, lost>>
  BY DEF Fork, killing
<1>2. PICK pid \in Pid \ PidsOf(procs), ppid \in {0} \cup PidsOf(procs), named \in BOOLEAN :
        procs' = procs \cup {[id |-> started + 1, pid |-> pid, ppid |-> ppid, named |-> named]}
  BY DEF Fork
<1> DEFINE child == [id |-> started + 1, pid |-> pid, ppid |-> ppid, named |-> named]
<1>3. started \in Nat /\ StartProcs <= started /\ started + 1 \in StartProcs..MaxProcs
      /\ started + 1 \in 1..MaxProcs
  BY <1>1, BoundsAssumption DEF IInv, TypeOK
<1>4. child \in Process
  <2>1. ppid \in 0..MaxPid
    BY BoundsAssumption DEF PidsOf, IInv, TypeOK, Process, Pid
  <2> QED BY <1>3, <2>1 DEF Process
<1>5. child.id = started + 1 /\ child.pid = pid
  OBVIOUS
<1> HIDE DEF child
<1>6. procs' = procs \cup {child}
  BY <1>2 DEF child
<1>7. \A p \in procs \cup snapshot : p.id \in Nat /\ p.id <= started
  BY DEF IInv, Identity, TypeOK, Process
<1>8. \A p \in procs \cup snapshot : p.id # child.id
  BY <1>3, <1>5, <1>7
<1>9. \A p \in procs : p.pid # child.pid
  BY <1>5 DEF PidsOf
<1>10. TypeOK'
  <2>1. procs' \subseteq Process BY <1>4, <1>6 DEF IInv, TypeOK
  <2>2. \A p, q \in procs' : p.id = q.id \/ p.pid = q.pid => p = q
    BY <1>6, <1>8, <1>9 DEF IInv, TypeOK
  <2> QED BY <1>1, <1>3, <2>1, <2>2 DEF IInv, TypeOK
<1>11. Identity'
  <2>1. \A p \in procs' \cup snapshot : p.id <= started'
    BY <1>1, <1>3, <1>5, <1>6, <1>7
  <2>2. \A p \in procs', q \in snapshot : p.id = q.id => p.pid = q.pid
    BY <1>6, <1>8 DEF IInv, Identity
  <2> QED BY <1>1, <2>1, <2>2 DEF IInv, Identity
<1>12. out = "none" BY <1>1 DEF IInv, TypeOK
<1>13. Looked' BY <1>1, <1>12 DEF IInv, Looked, ListTrue
<1>14. Group' = Group BY <1>1 DEF Group
<1>15. Aimed' BY <1>1, <1>14 DEF IInv, Aimed, Over, OnlyGroup
<1>16. Hunted'
  <2>1. \A g \in Group : g.id \notin IdsOf(procs) => g.id \notin IdsOf(procs')
    BY <1>6, <1>8, GroupMember DEF IdsOf
  <2> QED BY <1>1, <1>12, <1>14, <2>1 DEF IInv, Hunted
<1> QED BY <1>10, <1>11, <1>13, <1>15, <1>16 DEF IInv

\* A process ends, whoever ended it: all but what is to be killed still holds.
LEMMA Ending ==
  ASSUME IInv, NEW p \in procs, procs' = Without(p),
         UNCHANGED <<started, op, modern, pc, out, list, snapshot, cut, lost>>
  PROVE  /\ procs' \subseteq Process /\ \A r, s \in procs' : r.id = s.id \/ r.pid = s.pid => r = s
         /\ Identity' /\ Looked' /\ Group' = Group
         /\ IdsOf(procs') \subseteq IdsOf(procs) /\ p.id \notin IdsOf(procs')
<1>1. /\ procs' \subseteq Process
      /\ \A r \in procs' : \E q \in procs : q # p /\ r.id = q.id /\ r.pid = q.pid
      /\ \A r, s \in procs' : r.id = s.id \/ r.pid = s.pid => r = s
  BY Leaving DEF IInv
<1>2. \A q \in procs : q # p => q.id # p.id
  BY DEF IInv, TypeOK
<1>3. IdsOf(procs') \subseteq IdsOf(procs) /\ p.id \notin IdsOf(procs')
  BY <1>1, <1>2 DEF IdsOf
<1>4. Identity'
  <2>1. \A r \in procs' \cup snapshot : r.id <= started
    BY <1>1 DEF IInv, Identity
  <2>2. \A r \in procs', q \in snapshot : r.id = q.id => r.pid = q.pid
    BY <1>1 DEF IInv, Identity
  <2> QED BY <2>1, <2>2 DEF IInv, Identity
<1>5. Looked'
  <2>1. ListTrue'
    BY <1>1 DEF IInv, Looked, ListTrue
  <2> QED BY <2>1 DEF IInv, Looked
<1>6. Group' = Group BY DEF Group
<1> QED BY <1>1, <1>3, <1>4, <1>5, <1>6

LEMMA ExitInv == ASSUME IInv, Exit PROVE IInv'
<1>1. UNCHANGED <<started, op, modern, pc, out, list, snapshot, cut, todo, grumbled, victims, lost>>
  BY DEF Exit, killing
<1>2. PICK p \in procs : procs' = Without(p)
  BY DEF Exit
<1>3. /\ procs' \subseteq Process /\ \A r, s \in procs' : r.id = s.id \/ r.pid = s.pid => r = s
      /\ Identity' /\ Looked' /\ Group' = Group
      /\ IdsOf(procs') \subseteq IdsOf(procs)
  BY <1>1, <1>2, Ending
<1>4. TypeOK' BY <1>1, <1>3 DEF IInv, TypeOK
<1>5. Aimed' BY <1>1, <1>3 DEF IInv, Aimed, Over, OnlyGroup
<1>6. Hunted' BY <1>1, <1>3 DEF IInv, Hunted, Over
<1> QED BY <1>3, <1>4, <1>5, <1>6 DEF IInv

LEMMA SignalInv == ASSUME IInv, Signal PROVE IInv'
<1>1. UNCHANGED <<started, op, modern, pc, out, list, snapshot, cut, lost>>
  BY DEF Signal
<1>2. PICK pid \in Pid :
        /\ todo[pid] > 0 /\ todo' = [todo EXCEPT ![pid] = @ - 1]
        /\ \/ \E p \in procs :
                /\ p.pid = pid /\ procs' = Without(p) /\ victims' = victims \cup {p}
                /\ UNCHANGED grumbled
           \/ pid \in PidsOf(procs) /\ grumbled' = TRUE /\ UNCHANGED <<procs, victims>>
           \/ /\ pid \notin PidsOf(procs)
              /\ grumbled' \in {TRUE} \cup IF pid \in PidsOf(victims) THEN {grumbled} ELSE {}
              /\ UNCHANGED <<procs, victims>>
  BY DEF Signal
<1>3. todo \in [Pid -> Nat] /\ grumbled \in BOOLEAN
  BY DEF IInv, TypeOK
<1>4. /\ todo' \in [Pid -> Nat]
      /\ \A q \in Pid : todo'[q] > 0 => todo[q] > 0
      /\ \A q \in Pid : q # pid => todo'[q] = todo[q]
  BY <1>2, <1>3
<1>5. ~Over BY <1>2, <1>3 DEF Over
<1>6. op = "kill" /\ pc \in {"killing", "returned"} /\ ~(out = "nil" /\ ~lost)
  BY <1>5 DEF IInv, Aimed, Hunted, TypeOK
<1>7. ~cut => pid \in PidsOf(Group)
  BY <1>2 DEF IInv, Aimed
<1>8. grumbled' \in BOOLEAN /\ (grumbled => grumbled')
  BY <1>2, <1>3
<1>9. /\ procs' \subseteq Process /\ \A r, s \in procs' : r.id = s.id \/ r.pid = s.pid => r = s
      /\ Identity' /\ Looked' /\ Group' = Group
      /\ IdsOf(procs') \subseteq IdsOf(procs)
  <2>1. CASE \E p \in procs : procs' = Without(p)
    BY <1>1, <2>1, Ending
  <2>2. CASE procs' = procs
    <3>1. Identity' BY <1>1, <2>2 DEF IInv, Identity
    <3>2. Looked' BY <1>1, <2>2 DEF IInv, Looked, ListTrue
    <3>3. Group' = Group BY <1>1 DEF Group
    <3> QED BY <2>2, <3>1, <3>2, <3>3 DEF IInv, TypeOK
  <2> QED BY <1>2, <2>1, <2>2
<1>10. TypeOK'
  <2>1. victims' \subseteq Process BY <1>2 DEF IInv, TypeOK
  <2> QED BY <1>1, <1>4, <1>8, <1>9, <2>1 DEF IInv, TypeOK
<1>11. OnlyGroup'
  <2> SUFFICES ASSUME ~cut, NEW v \in victims'
               PROVE  v.pid \in PidsOf(Group) /\ (v.id \in IdsOf(snapshot) => v.id \in IdsOf(Group))
    BY <1>1, <1>9 DEF OnlyGroup
  <2>1. CASE v \in victims
    BY <2>1 DEF IInv, Aimed, OnlyGroup
  <2>2. CASE v \in procs /\ v.pid = pid
    <3>1. PICK g \in Group : g.pid = pid
      BY <1>7 DEF PidsOf
    <3>2. ASSUME NEW q \in snapshot, q.id = v.id PROVE v.id \in IdsOf(Group)
      <4>1. q.pid = pid BY <2>2, <3>2 DEF IInv, Identity
      <4>2. q = g BY <3>1, <4>1, GroupMember DEF IInv, Identity
      <4> QED BY <3>1, <3>2, <4>2 DEF IdsOf
    <3>3. v.id \in IdsOf(snapshot) => v.id \in IdsOf(Group)
      BY <3>2 DEF IdsOf
    <3> QED BY <1>7, <2>2, <3>3
  <2> QED BY <1>2, <2>1, <2>2
<1>12. Aimed'
  BY <1>1, <1>4, <1>6, <1>9, <1>11 DEF IInv, Aimed, TypeOK
<1>13. Hunted'
  <2> SUFFICES ASSUME ~cut, pc = "killing", ~grumbled'
               PROVE  Group # {} /\ \A g \in Group : todo'[g.pid] > 0 \/ g.id \notin IdsOf(procs')
    BY <1>1, <1>6, <1>9 DEF Hunted
  <2>1. Group # {} /\ \A g \in Group : todo[g.pid] > 0 \/ g.id \notin IdsOf(procs)
    BY <1>8 DEF IInv, Hunted
  <2>2. ASSUME NEW g \in Group PROVE todo'[g.pid] > 0 \/ g.id \notin IdsOf(procs')
    <3>1. g \in snapshot /\ g.pid \in Pid
      BY GroupMember DEF IInv, TypeOK, Process
    <3>2. CASE g.id \notin IdsOf(procs)
      BY <1>9, <3>2
    <3>3. CASE g.pid # pid
      BY <1>4, <1>9, <2>1, <3>1, <3>3
    <3>4. CASE g.pid = pid /\ g.id \in IdsOf(procs)
      <4>1. PICK q \in procs : q.id = g.id
        BY <3>4 DEF IdsOf
      <4>2. q.pid = pid
        BY <3>1, <3>4, <4>1 DEF IInv, Identity
      <4>3. pid \in PidsOf(procs)
        BY <4>2 DEF PidsOf
      <4>4. PICK p \in procs : p.pid = pid /\ procs' = Without(p)
        BY <1>2, <4>3
      <4>5. p = q
        BY <4>2, <4>4 DEF IInv, TypeOK
      <4>6. p.id \notin IdsOf(procs')
        BY <1>1, <4>4, Ending
      <4> QED BY <4>1, <4>5, <4>6
    <3> QED BY <3>2, <3>3, <3>4
  <2> QED BY <2>1, <2>2
<1> QED BY <1>9, <1>10, <1>12, <1>13 DEF IInv

LEMMA NextInv == IInv /\ [Next]_vars => IInv'
<1> SUFFICES ASSUME IInv, [Next]_vars PROVE IInv'
  OBVIOUS
<1>1. CASE PsAll BY <1>1, PsAllInv
<1>2. CASE Ps BY <1>2, PsInv
<1>3. CASE KillPids BY <1>3, KillPidsInv
<1>4. CASE KillAnswer BY <1>4, KillAnswerInv
<1>5. CASE Fork BY <1>5, ForkInv
<1>6. CASE Exit BY <1>6, ExitInv
<1>7. CASE Signal BY <1>7, SignalInv
<1>8. CASE UNCHANGED vars
  <2> USE <1>8 DEF vars
  <2>1. TypeOK' BY DEF IInv, TypeOK
  <2>2. Identity' BY DEF IInv, Identity
  <2>3. Looked' BY DEF IInv, Looked, ListTrue
  <2>4. Group' = Group BY DEF Group
  <2>5. Aimed' BY <2>4 DEF IInv, Aimed, Over, OnlyGroup
  <2>6. Hunted' BY <2>4 DEF IInv, Hunted, Over
  <2> QED BY <2>1, <2>2, <2>3, <2>5, <2>6 DEF IInv
<1> QED BY <1>1, <1>2, <1>3, <1>4, <1>5, <1>6, <1>7, <1>8 DEF Next, Caller

LEMMA SpecInv == Spec => []IInv
BY InitInv, NextInv, PTL DEF Spec

\* The processes of the device and the variables of the call stay in their ranges.
THEOREM TypeCorrect == Spec => []TypeOK
<1>1. IInv => TypeOK BY DEF IInv
<1> QED BY SpecInv, <1>1, PTL

\* A list without an error is complete, whichever ps made it, unless it was cut.
THEOREM ListIsTrue == Spec => []ListTrue
<1>1. IInv => ListTrue BY DEF IInv, Looked
<1> QED BY SpecInv, <1>1, PTL

\* A group reported killed is dead, though pids are taken again meanwhile.
THEOREM GroupIsKilled == Spec => []KilledTrue
<1>1. IInv => KilledTrue
  <2> SUFFICES ASSUME IInv, op = "kill", out = "nil", ~cut, ~lost
               PROVE  Group # {} /\ IdsOf(Group) \cap IdsOf(procs) = {}
    BY DEF KilledTrue
  <2>1. Over /\ Group # {} /\ \A g \in Group : todo[g.pid] > 0 \/ g.id \notin IdsOf(procs)
    BY DEF IInv, Hunted
  <2>2. \A g \in Group : g.pid \in Pid
    BY GroupMember DEF IInv, TypeOK, Process
  <2>3. \A g \in Group : g.id \notin IdsOf(procs)
    BY <2>1, <2>2 DEF Over
  <2> QED BY <2>1, <2>3 DEF IdsOf
<1> QED BY SpecInv, <1>1, PTL

\* Nobody else who ran when the group was listed is killed.
THEOREM OnlyTheGroup == Spec => []OnlyGroup
<1>1. IInv => OnlyGroup BY DEF IInv, Aimed
<1> QED BY SpecInv, <1>1, PTL

\* After the report nothing is killed any more.
THEOREM KillingIsOver == Spec => KillIsOver
<1>1. IInv /\ [Next]_vars => [out = "nil" /\ ~lost => victims' = victims]_vars
  <2> SUFFICES ASSUME IInv, [Next]_vars, out = "nil", ~lost PROVE victims' = victims
    OBVIOUS
  <2>1. Over BY DEF IInv, Hunted
  <2>2. ~Signal
    <3>1. \A pid \in Pid : ~(todo[pid] > 0)
      BY <2>1 DEF Over
    <3>2. Signal => \E pid \in Pid : todo[pid] > 0
      BY Zenon DEF Signal
    <3> QED BY <3>1, <3>2
  <2>3. PsAll \/ Ps => victims' = victims BY DEF PsAll, Ps, killing
  <2>4. KillPids \/ KillAnswer => victims' = victims BY DEF KillPids, KillAnswer, killing
  <2>5. Fork \/ Exit \/ UNCHANGED vars => victims' = victims BY DEF Fork, Exit, killing, vars
  <2> QED BY <2>2, <2>3, <2>4, <2>5 DEF Next, Caller
<1> QED BY SpecInv, <1>1, PTL DEF Spec, KillIsOver
=============================================================================
