------------------------------ MODULE Processes ------------------------------
(***************************************************************************)
(* ListProcesses, ListProcessGroup, KillPids and KillPidGroupOf            *)
(* (cmd_process.go): two commands of a shell, ps and kill, and the         *)
(* processes of the device that start and end between them.                *)
(*                                                                         *)
(* The processes are external.  A pid is taken again once its process has  *)
(* ended, and the children of a process that ends go to init (0 here).     *)
(* The shell protocol does not tell the end of a command from the end of   *)
(* its connection: what was read of ps or kill passes for all there is     *)
(* (shell.go:101).  A line of ps that is cut in its last field is a line   *)
(* with another name.                                                      *)
(***************************************************************************)
EXTENDS Naturals, FiniteSets

CONSTANTS
  MaxPid,       \* pids are 1..MaxPid
  StartProcs,   \* how many processes run when the call is made
  MaxProcs,     \* bound: how many processes there ever are
  ShortLines    \* how many lines of ps fit in less than 256 bytes

ASSUME BoundsAssumption ==
  /\ MaxPid \in Nat /\ StartProcs \in Nat /\ MaxProcs \in Nat /\ ShortLines \in Nat
  /\ StartProcs <= MaxPid /\ StartProcs <= MaxProcs

Pid == 1..MaxPid
\* a Process; id tells the processes that had one pid apart, named is what the filter says
Process == [id: 1..MaxProcs, pid: Pid, ppid: 0..MaxPid, named: BOOLEAN]

VARIABLES
  procs,      \* external: the processes that run
  started,    \* external: how many have ever run
  op,         \* "list" (ListProcesses), "kill" (KillPidGroupOf)
  modern,     \* Android 8 and later: ps knows -A, and without it shows one session
  pc, out,
  list,       \* names, the result of ListProcesses
  snapshot,   \* procs, when the ps ran whose output was used
  cut,        \* a ps lost its connection
  todo,       \* external: how many times kill has each pid still before it
  grumbled,   \* external: kill has printed something
  lost,       \* kill lost its connection
  victims     \* the processes kill has ended

device == <<procs, started>>
killing == <<todo, grumbled, victims>>
vars == <<procs, started, op, modern, pc, out, list, snapshot, cut, todo, grumbled, lost, victims>>

Named(ps) == {p \in ps : p.named}
PidsOf(ps) == {p.pid : p \in ps}
IdsOf(ps) == {p.id : p \in ps}

Init ==
  /\ \E pid \in [1..StartProcs -> Pid], ppid \in [1..StartProcs -> 0..MaxPid], named \in [1..StartProcs -> BOOLEAN] :
       /\ \A i, j \in 1..StartProcs : pid[i] = pid[j] => i = j
       /\ \A i \in 1..StartProcs : ppid[i] \in {0} \cup {pid[j] : j \in 1..(i - 1)}
       /\ procs = {[id |-> i, pid |-> pid[i], ppid |-> ppid[i], named |-> named[i]] : i \in 1..StartProcs}
  /\ started = StartProcs
  /\ op \in {"list", "kill"} /\ modern \in BOOLEAN
  /\ pc = "psAll" /\ out = "none"
  /\ list = {} /\ snapshot = {} /\ cut = FALSE
  /\ todo = [pid \in Pid |-> 0] /\ grumbled = FALSE /\ lost = FALSE /\ victims = {}

Return(result) == pc' = "returned" /\ out' = result

(***************************************************************************)
(* ListProcesses.  What RunCommand may return of a ps that prints ps: all  *)
(* of it, or its lines up to some pid, the last one cut in its name.       *)
(***************************************************************************)
Cuts(ps) ==
  {{p \in ps : p.pid < k} : k \in Pid} \cup
  {{p \in ps : p.pid < last.pid} \cup {[last EXCEPT !.named = ~@]} : last \in ps}

Whole(lines) == lines = procs /\ UNCHANGED cut
Cut(lines) == lines \in Cuts(procs) /\ cut' = TRUE

\* unpackProcess, and what the caller of ListProcesses does next
Listed(lines) ==
  /\ list' = lines /\ snapshot' = procs
  /\ IF op = "list" THEN Return("nil") ELSE pc' = "kill" /\ UNCHANGED out

Failed == Return("error") /\ UNCHANGED <<list, snapshot, cut>>

\* the mutant: the threshold is forgotten, and the complaint of an old ps is parsed
PsAll_NoFallback ==
  /\ pc = "psAll"
  /\ \/ Failed
     \/ ~modern /\ UNCHANGED cut /\ Listed({})
     \/ /\ modern
        /\ \E lines \in {procs} \cup Cuts(procs) : (Whole(lines) \/ Cut(lines)) /\ Listed(lines)
  /\ UNCHANGED <<device, op, modern, killing, lost>>

\* a whole answer below 256 bytes is that of a ps without -A
PsAll ==
  /\ pc = "psAll"
  /\ \/ Failed
     \/ ~modern /\ pc' = "ps" /\ UNCHANGED <<out, list, snapshot, cut>>
     \/ /\ modern
        /\ \E lines \in {procs} \cup Cuts(procs) :
             /\ Whole(lines) \/ Cut(lines)
             /\ IF cut' /\ Cardinality(lines) <= ShortLines
                THEN pc' = "ps" /\ UNCHANGED <<out, list, snapshot>>
                ELSE Listed(lines)
  /\ UNCHANGED <<device, op, modern, killing, lost>>

\* the second try; a modern one lists the shell and ps itself, of which none is in procs
Ps ==
  /\ pc = "ps"
  /\ \/ Failed
     \/ modern /\ UNCHANGED cut /\ Listed({})
     \/ /\ ~modern
        /\ \E lines \in {procs} \cup Cuts(procs) :
             /\ Whole(lines) \/ Cut(lines)
             /\ IF lines = {} THEN Return("error") /\ UNCHANGED <<list, snapshot>> ELSE Listed(lines)
  /\ UNCHANGED <<device, op, modern, killing, lost>>

(***************************************************************************)
(* KillPidGroupOf: the pids of the group, one that is both of the name and *)
(* a child of the name twice; then KillPids.                               *)
(***************************************************************************)
\* the mutant: the parents of the name and not its children
ListProcessGroup_Parents(key) == {p \in list : p.pid = key.ppid}

\* the mutant: the children are left out
ListProcessGroup_Keys(key) == {}

\* the value of one key of the map
ListProcessGroup(key) == {p \in list : p.ppid = key.pid}

\* how often a pid is given to kill: as a key, and as a child of one
Once(given) == IF given THEN 1 ELSE 0
KillPidGroupOf ==
  [pid \in Pid |->
     Once(pid \in PidsOf(Named(list))) +
     Once(\E key \in Named(list) : pid \in PidsOf(ListProcessGroup(key)))]

\* a kill that is not started, or one with no pid, which prints its usage
KillPids ==
  /\ pc = "kill"
  /\ \/ Return("error") /\ UNCHANGED <<todo, grumbled>>
     \/ /\ todo' = KillPidGroupOf
        /\ grumbled' = (Named(list) = {})
        /\ pc' = "killing" /\ UNCHANGED out
  /\ UNCHANGED <<device, op, modern, list, snapshot, cut, lost, victims>>

Over == \A pid \in Pid : todo[pid] = 0

\* io.ReadAll has come to the end, the deadline or an end of the connection;
\* whatever was printed makes an error
KillAnswer ==
  /\ pc = "killing"
  /\ \/ Over /\ Return(IF grumbled THEN "error" ELSE "nil") /\ UNCHANGED lost
     \/ Return("error") /\ UNCHANGED lost
     \/ lost' = TRUE /\ (Return("nil") \/ (grumbled /\ Return("error")))
  /\ UNCHANGED <<device, op, modern, list, snapshot, cut, killing>>

(***************************************************************************)
(* External: the processes of the device, and the command kill, which goes *)
(* on or ends with its connection.                                         *)
(***************************************************************************)
Without(p) == {IF q.ppid = p.pid THEN [q EXCEPT !.ppid = 0] ELSE q : q \in procs \ {p}}

Fork ==
  /\ pc # "returned" /\ started < MaxProcs
  /\ \E pid \in Pid \ PidsOf(procs), ppid \in {0} \cup PidsOf(procs), named \in BOOLEAN :
       procs' = procs \cup {[id |-> started + 1, pid |-> pid, ppid |-> ppid, named |-> named]}
  /\ started' = started + 1
  /\ UNCHANGED <<op, modern, pc, out, list, snapshot, cut, killing, lost>>

Exit ==
  /\ pc # "returned"
  /\ \E p \in procs : procs' = Without(p)
  /\ UNCHANGED <<started, op, modern, pc, out, list, snapshot, cut, killing, lost>>

\* kill -9 pid: ends the process that has the pid now, is not permitted to, or
\* finds none; one that was killed before may still be there, as a zombie
Signal ==
  /\ \E pid \in Pid :
       /\ todo[pid] > 0 /\ todo' = [todo EXCEPT ![pid] = @ - 1]
       /\ \/ \E p \in procs :
               /\ p.pid = pid /\ procs' = Without(p) /\ victims' = victims \cup {p}
               /\ UNCHANGED grumbled
          \/ pid \in PidsOf(procs) /\ grumbled' = TRUE /\ UNCHANGED <<procs, victims>>
          \/ /\ pid \notin PidsOf(procs)
             /\ grumbled' \in {TRUE} \cup IF pid \in PidsOf(victims) THEN {grumbled} ELSE {}
             /\ UNCHANGED <<procs, victims>>
  /\ UNCHANGED <<started, op, modern, pc, out, list, snapshot, cut, lost>>

Caller == PsAll \/ Ps \/ KillPids \/ KillAnswer

Next == Caller \/ Fork \/ Exit \/ Signal

Spec == Init /\ [][Next]_vars

-----------------------------------------------------------------------------
TypeOK ==
  /\ procs \subseteq Process /\ list \subseteq Process
  /\ snapshot \subseteq Process /\ victims \subseteq Process
  /\ \A p, q \in procs : p.id = q.id \/ p.pid = q.pid => p = q
  /\ started \in StartProcs..MaxProcs
  /\ op \in {"list", "kill"} /\ modern \in BOOLEAN
  /\ pc \in {"psAll", "ps", "kill", "killing", "returned"}
  /\ out \in {"none", "nil", "error"} /\ (out = "none" <=> pc # "returned")
  /\ cut \in BOOLEAN /\ grumbled \in BOOLEAN /\ lost \in BOOLEAN
  /\ todo \in [Pid -> Nat]

\* the processes of the name and their children, when ps ran
Group ==
  LET named == Named(snapshot)
  IN named \cup {p \in snapshot : p.ppid \in PidsOf(named)}

\* A list that is returned without an error names every process that ran from
\* the call to its return, whichever ps the device knows, unless a ps lost its
\* connection (cmd_process.go:108-131).
ListTrue ==
  op = "list" /\ out = "nil" /\ ~cut =>
    \A p \in procs : p.id <= StartProcs => p.id \in IdsOf(list)

\* A group that is reported killed was not empty, and nobody it had when it was
\* listed is left, unless one of the commands lost its connection: neither a
\* process that ended and whose pid was taken, nor one killed twice, hides another
\* that was not killed (cmd_process.go:191-230).
KilledTrue ==
  op = "kill" /\ out = "nil" /\ ~cut /\ ~lost =>
    Group # {} /\ IdsOf(Group) \cap IdsOf(procs) = {}

\* Of the processes that ran when the group was listed, no other is ever killed,
\* and one that came later only if it has the pid of one of the group
\* (cmd_process.go:139-152, 221-227).
OnlyGroup ==
  ~cut => \A v \in victims :
            /\ v.pid \in PidsOf(Group)
            /\ v.id \in IdsOf(snapshot) => v.id \in IdsOf(Group)

\* Once a group is reported killed, nothing is killed any more, unless kill lost
\* its connection (shell.go:101, cmd_process.go:200).
KillIsOver == [][out = "nil" /\ ~lost => victims' = victims]_vars
=============================================================================
