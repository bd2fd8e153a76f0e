--------------------------- MODULE BatchingProofs ---------------------------
(***************************************************************************)
(* The safety of Batching for every set of paths, every length and every   *)
(* budget.                                                                 *)
(***************************************************************************)
EXTENDS Batching, SequenceTheorems, TLAPS

\* The types that the steps need, without the bound on the list.
Types ==
  /\ op \in Ops /\ list \in Seq(Path) /\ rest \in Seq(Path)
  /\ commands \in Seq(Path) /\ ran \in Seq(Path)
  /\ commandsLen \in Nat /\ requestLen \in Nat

Reported ==
  /\ failures \subseteq Path \cup {"usage"} /\ exists \subseteq Path
  /\ lost \in BOOLEAN /\ behind \subseteq Path \X Path /\ outcome \in Outcomes

\* commandsLen tells whether there is anything to run.
CountedWhenAny == commandsLen = 0 => commands = <<>>

Odd(p) == p \in Spaced \/ Length[p] > Budget[op]
Plain == \A p \in ToSet(commands) : ~Odd(p)

\* What commandsLen promises about the message: the length of a command without
\* odd paths, and its last path was within the budget.
Counted ==
  Plain => requestLen = Overhead[op] + commandsLen /\ commandsLen <= Budget[op] + 1

Finished == outcome \in {"nil", "errs"} => rest = <<>> /\ commands = <<>>

Refused == outcome = "toolong" => requestLen > MaxPayload

IInv == Types /\ Reported /\ Conserved /\ CountedWhenAny /\ Counted /\ Finished /\ Refused

-----------------------------------------------------------------------------
\* A path taken from the list belongs to Path, and what remains is a list.
LEMMA Taken ==
  ASSUME Types, rest # <<>>
  PROVE  /\ Head(rest) \in Path /\ Tail(rest) \in Seq(Path)
         /\ <<Head(rest)>> \o Tail(rest) = rest
  BY HeadTailProperties, SMT DEF Types

\* The paths of a command to which one is appended.
LEMMA ToSetAppend ==
  ASSUME NEW s \in Seq(Path), NEW p \in Path
  PROVE  ToSet(Append(s, p)) = ToSet(s) \cup {p}
  <1>1. Len(Append(s, p)) = Len(s) + 1 /\ Append(s, p)[Len(s) + 1] = p
        /\ \A i \in 1..Len(s) : Append(s, p)[i] = s[i]
    BY AppendProperties
  <1>2. DOMAIN s = 1..Len(s) /\ DOMAIN Append(s, p) = 1..(Len(s) + 1)
    BY <1>1, AppendProperties, LenProperties
  <1>3. Len(s) \in Nat
    BY LenProperties
  <1> QED BY <1>1, <1>2, <1>3 DEF ToSet

\* The paths of a command of one path, and of none.
LEMMA ToSetOne ==
  ASSUME NEW p \in Path
  PROVE  ToSet(<<p>>) = {p} /\ ToSet(<< >>) = {}
  BY SMT DEF ToSet

\* What a path adds to a message, when it has no whitespace.
LEMMA NeedsPlain ==
  ASSUME NEW p \in Path
  PROVE  /\ Needs(p) \in Nat /\ Length[p] \in Nat /\ Length[p] > 0
         /\ p \notin Spaced => Needs(p) = Length[p] + 1
  BY LengthAssumption DEF Needs

\* Init is a state of the invariant.
LEMMA InitIInv == Init => IInv
<1> SUFFICES ASSUME Init PROVE IInv
    OBVIOUS
<1>1. list \in Seq(Path)
  <2>0. list \in UNION {[1..m -> Path] : m \in 0..MaxList}
      BY DEF Init, BoundedSeq, SeqOf
  <2>1. PICK m \in 0..MaxList : list \in [1..m -> Path]
      BY <2>0
  <2>2. m \in Nat
      BY NumberAssumption
  <2> QED BY <2>1, <2>2, SeqDef
<1>2. Types /\ Reported
  <2>1. op \in Ops /\ rest = list /\ commands = <<>> /\ commandsLen = 0 /\ ran = <<>>
        /\ requestLen = Overhead[op]
      BY DEF Init
  <2>2. requestLen \in Nat
      BY <2>1, NumberAssumption
  <2>3. Types
      BY <1>1, <2>1, <2>2, EmptySeq DEF Types
  <2>4. failures = {} /\ lost = FALSE /\ behind = {} /\ exists \in SUBSET Path /\ outcome = "running"
      BY DEF Init
  <2>5. Reported
      BY <2>4 DEF Reported, Outcomes
  <2> QED BY <2>3, <2>5
<1>3. Conserved
    BY <1>1, ConcatEmptySeq, EmptySeq DEF Init, Conserved
<1>4. Counted
    BY NumberAssumption DEF Init, Counted, Ops
<1> QED BY <1>2, <1>3, <1>4 DEF Init, IInv, CountedWhenAny, Finished, Refused

\* Running a command keeps the types of what it reports.
LEMMA AnswerReported ==
  ASSUME Types, Reported, Answer
  PROVE  /\ failures' \subseteq Path \cup {"usage"} /\ exists' \subseteq Path /\ lost' \in BOOLEAN
         /\ behind' \subseteq Path \X Path
         /\ ran' = ran \o commands /\ ran' \in Seq(Path)
<1>1. ToSet(commands) \subseteq Path
    BY SMT DEF Types, ToSet
<1>2. ran' = ran \o commands /\ ran' \in Seq(Path)
    BY ConcatProperties DEF Answer, Types
<1>3. ASSUME NEW bad \in SUBSET ToSet(commands) PROVE Printed(bad) \subseteq Path \cup {"usage"}
    BY <1>1, <1>3 DEF Printed
<1>4. ASSUME NEW done \in SUBSET ToSet(commands), NEW bad, Effect(done, bad)
      PROVE  exists' \subseteq Path
    BY <1>1, <1>4 DEF Effect, Reported
<1>5. ToSet(commands) \in SUBSET ToSet(commands)
    OBVIOUS
<1>6. CASE WentOn
    BY <1>2, <1>3, <1>4, <1>5, <1>6 DEF WentOn, Reported
<1>7. ASSUME NEW n \in 1..Len(commands), StoppedAt(n)
      PROVE  /\ failures' \subseteq Path \cup {"usage"} /\ exists' \subseteq Path
             /\ lost' \in BOOLEAN /\ behind' \subseteq Path \X Path
  <2> DEFINE made == {commands[i] : i \in 1..(n - 1)}
             left == {commands[i] : i \in (n + 1)..Len(commands)}
  <2>1. made \subseteq ToSet(commands) /\ left \subseteq Path /\ commands[n] \in ToSet(commands)
      BY <1>7 DEF Types, ToSet
  <2>2. /\ failures' = failures \cup (Printed({commands[n]}) \ made)
        /\ Effect(made, {}) /\ lost' = lost
        /\ behind' = behind \cup ({commands[n]} \X left)
      BY <1>7 DEF StoppedAt
  <2> HIDE DEF made, left
  <2>3. failures' \subseteq Path \cup {"usage"}
    <3>1. {commands[n]} \in SUBSET ToSet(commands)
        BY <2>1
    <3>2. Printed({commands[n]}) \subseteq Path \cup {"usage"}
        BY <1>3, <3>1
    <3> QED BY <2>2, <3>2 DEF Reported
  <2>4. exists' \subseteq Path
      BY <1>4, <2>1, <2>2
  <2>5. behind' \subseteq Path \X Path
      BY <1>1, <2>1, <2>2 DEF Reported
  <2> QED BY <2>2, <2>3, <2>4, <2>5 DEF Reported
<1>8. CASE CutShort
    BY <1>2, <1>4, <1>8 DEF CutShort, Reported
<1> QED BY <1>2, <1>6, <1>7, <1>8 DEF Answer

\* A path moves from the list to the command.
LEMMA MovesOne ==
  ASSUME Types
  PROVE  /\ rest # <<>> => ran \o Append(commands, Head(rest)) \o Tail(rest) = ran \o commands \o rest
         /\ rest # <<>> => (ran \o commands) \o <<Head(rest)>> \o Tail(rest) = ran \o commands \o rest
<1> SUFFICES ASSUME rest # <<>>
             PROVE  /\ ran \o Append(commands, Head(rest)) \o Tail(rest) = ran \o commands \o rest
                    /\ (ran \o commands) \o <<Head(rest)>> \o Tail(rest) = ran \o commands \o rest
    OBVIOUS
<1> DEFINE h == Head(rest)
           t == Tail(rest)
<1>1. h \in Path /\ t \in Seq(Path) /\ <<h>> \o t = rest
    BY Taken
<1>2. <<h>> \in Seq(Path) /\ ran \o commands \in Seq(Path)
    BY <1>1, ConcatProperties DEF Types
<1>3. Append(commands, h) = commands \o <<h>>
    BY <1>1, AppendIsConcat DEF Types
<1> HIDE DEF h, t
<1>4. (ran \o commands) \o <<h>> \o t = (ran \o commands) \o (<<h>> \o t)
  <2> DEFINE done == ran \o commands
             one == <<h>>
  <2>1. done \in Seq(Path) /\ one \in Seq(Path) /\ t \in Seq(Path)
      BY <1>1, <1>2
  <2> HIDE DEF done, one
  <2>2. (done \o one) \o t = done \o (one \o t)
      BY <2>1, ConcatAssociative
  <2> QED BY <2>2 DEF done, one
<1>5. ran \o (commands \o <<h>>) = (ran \o commands) \o <<h>>
    BY <1>2, ConcatAssociative DEF Types
<1>6. ran \o Append(commands, h) = (ran \o commands) \o <<h>>
    BY <1>3, <1>5, Zenon
<1>7. (ran \o commands) \o <<h>> \o t = ran \o commands \o rest
    BY <1>1, <1>4, Zenon
<1>8. ran \o Append(commands, h) \o t = ran \o commands \o rest
    BY <1>6, <1>7, Zenon
<1> QED BY <1>7, <1>8 DEF h, t

\* The types after a step that takes a path.
LEMMA TakeStep ==
  ASSUME IInv, Take
  PROVE  IInv'
<1> DEFINE h == Head(rest)
<1>1. h \in Path /\ Tail(rest) \in Seq(Path)
    BY Taken DEF Take, IInv
<1>2. Needs(h) \in Nat /\ Length[h] \in Nat /\ Length[h] > 0
      /\ (h \notin Spaced => Needs(h) = Length[h] + 1)
    BY <1>1, NeedsPlain
<1>3. Types'
  <2>1. commands' \in Seq(Path)
      BY <1>1, AppendProperties DEF Take, IInv, Types
  <2> HIDE DEF h
  <2>2. commandsLen' = commandsLen + Length[h] + 1 /\ requestLen' = requestLen + Needs(h)
      BY DEF Take, h
  <2>3. commandsLen' \in Nat /\ requestLen' \in Nat
      BY <1>2, <2>2 DEF IInv, Types
  <2>4. rest' \in Seq(Path) /\ UNCHANGED <<op, list, ran>>
      BY <1>1 DEF Take
  <2> QED BY <2>1, <2>3, <2>4 DEF IInv, Types
<1>4. Reported'
    BY DEF Take, IInv, Reported
<1>5. Conserved'
    BY MovesOne DEF Take, IInv, Conserved
<1>6. CountedWhenAny'
    BY <1>2 DEF Take, CountedWhenAny, IInv, Types
<1>7. Counted'
  <2> SUFFICES ASSUME Plain'
               PROVE  requestLen' = Overhead[op] + commandsLen' /\ commandsLen' <= Budget[op] + 1
      BY DEF Counted, Take
  <2>1. ToSet(commands') = ToSet(commands) \cup {h}
      BY <1>1, ToSetAppend DEF Take, IInv, Types
  <2>2. Plain /\ h \notin Spaced
      BY <2>1 DEF Plain, Odd, Take
  <2>3. requestLen = Overhead[op] + commandsLen /\ Needs(h) = Length[h] + 1
      BY <1>2, <2>2 DEF IInv, Counted
  <2>4. commandsLen + Length[h] <= Budget[op]
      BY DEF Take, Fits
  <2>5. commandsLen' = commandsLen + Length[h] + 1 /\ requestLen' = requestLen + Needs(h)
      BY DEF Take
  <2>6. Overhead[op] \in Nat /\ Budget[op] \in Nat /\ commandsLen \in Nat
      BY NumberAssumption DEF IInv, Types
  <2> HIDE DEF h
  <2> QED BY <1>2, <2>3, <2>4, <2>5, <2>6
<1>8. Finished' /\ Refused'
    BY DEF Take, Finished, Refused
<1> QED BY <1>3, <1>4, <1>5, <1>6, <1>7, <1>8 DEF IInv

\* A command is run, and the next one begins with the path that did not fit.
LEMMA FlushStep ==
  ASSUME IInv, Flush
  PROVE  IInv'
<1> DEFINE h == Head(rest)
<1>1. h \in Path /\ Tail(rest) \in Seq(Path)
    BY Taken DEF Flush, IInv
<1>2. Needs(h) \in Nat /\ Length[h] \in Nat /\ Length[h] > 0
      /\ (h \notin Spaced => Needs(h) = Length[h] + 1)
    BY <1>1, NeedsPlain
<1>3. /\ failures' \subseteq Path \cup {"usage"} /\ exists' \subseteq Path /\ lost' \in BOOLEAN
         /\ behind' \subseteq Path \X Path
      /\ ran' = ran \o commands /\ ran' \in Seq(Path)
    BY AnswerReported DEF Flush, IInv
<1>4. commandsLen' = Length[h] + 1 /\ requestLen' = Overhead[op] + Needs(h) /\ commands' = <<h>>
      /\ rest' = Tail(rest) /\ op' = op /\ list' = list /\ outcome' = outcome /\ outcome = "running"
    BY DEF Flush
<1>5. Overhead[op] \in Nat /\ Budget[op] \in Nat
    BY NumberAssumption DEF IInv, Types
<1>6. Conserved'
    BY <1>3, <1>4, MovesOne DEF Flush, IInv, Conserved
<1> HIDE DEF h
<1>7. Types'
  <2>1. commands' \in Seq(Path)
      BY <1>1, <1>4
  <2>2. commandsLen' \in Nat /\ requestLen' \in Nat
      BY <1>2, <1>4, <1>5
  <2> QED BY <1>1, <1>3, <1>4, <2>1, <2>2 DEF IInv, Types
<1>8. Reported'
    BY <1>3, <1>4 DEF IInv, Reported
<1>9. CountedWhenAny'
    BY <1>2, <1>4 DEF CountedWhenAny
<1>10. Counted'
  <2> SUFFICES ASSUME Plain'
               PROVE  requestLen' = Overhead[op] + commandsLen' /\ commandsLen' <= Budget[op] + 1
      BY <1>4 DEF Counted
  <2>1. h \notin Spaced /\ ~(Length[h] > Budget[op])
      BY <1>1, <1>4, ToSetOne DEF Plain, Odd
  <2> QED BY <1>2, <1>4, <1>5, <2>1
<1>11. Finished' /\ Refused'
    BY <1>4 DEF Finished, Refused
<1> QED BY <1>6, <1>7, <1>8, <1>9, <1>10, <1>11 DEF IInv

\* A command that cannot be run changes only the device and the outcome.
LEMMA AbandonStep ==
  ASSUME IInv, Abandon
  PROVE  IInv'
<1>1. UNCHANGED <<op, list, rest, commands, commandsLen, requestLen, ran, failures, lost, behind>>
      /\ outcome' \in {"quote", "toolong", "failed"}
      /\ (outcome' = "toolong" => requestLen > MaxPayload)
    BY DEF Abandon, Refuse, Fail, Stop, LengthRefused
<1>2. exists' \subseteq Path
  <2>1. ToSet(commands) \subseteq Path
      BY SMT DEF IInv, Types, ToSet
  <2> QED BY <2>1 DEF Abandon, Refuse, Fail, Effect, IInv, Reported
<1>3. Types'
    BY <1>1 DEF IInv, Types
<1>4. Reported'
    BY <1>1, <1>2 DEF IInv, Reported, Outcomes
<1>5. Conserved' /\ CountedWhenAny' /\ Counted'
    BY <1>1 DEF IInv, Conserved, CountedWhenAny, Counted, Plain, Odd
<1>6. Finished' /\ Refused'
    BY <1>1 DEF Finished, Refused
<1> QED BY <1>3, <1>4, <1>5, <1>6 DEF IInv

\* The last command.
LEMMA FinishStep ==
  ASSUME IInv, Finish
  PROVE  IInv'
<1>1. commands' = <<>> /\ commandsLen' = 0 /\ requestLen' = Overhead[op]
      /\ op' = op /\ list' = list /\ rest' = rest /\ rest = <<>> /\ outcome' \in {"nil", "errs"}
    BY DEF Finish
<1>2. /\ failures' \subseteq Path \cup {"usage"} /\ exists' \subseteq Path /\ lost' \in BOOLEAN
         /\ behind' \subseteq Path \X Path
      /\ ran' = ran \o commands /\ ran' \in Seq(Path)
  <2>1. CASE commandsLen > 0
      BY <2>1, AnswerReported DEF Finish, IInv
  <2>2. CASE ~(commandsLen > 0)
    <3>1. commands = <<>>
        BY <2>2 DEF IInv, Types, CountedWhenAny
    <3>2. ran' = ran /\ failures' = failures /\ exists' = exists /\ lost' = lost /\ behind' = behind
        BY <2>2 DEF Finish
    <3> QED BY <3>1, <3>2, ConcatEmptySeq DEF IInv, Types, Reported
  <2> QED BY <2>1, <2>2
<1>3. Types'
    BY <1>1, <1>2, NumberAssumption DEF IInv, Types
<1>4. Reported'
    BY <1>1, <1>2 DEF Reported, Outcomes
<1>5. Conserved'
  <2>1. ran \o commands \in Seq(Path)
      BY ConcatProperties DEF IInv, Types
  <2> QED BY <1>1, <1>2, <2>1, ConcatEmptySeq DEF IInv, Conserved
<1>6. CountedWhenAny' /\ Finished' /\ Refused'
    BY <1>1 DEF CountedWhenAny, Finished, Refused
<1>7. Counted'
    BY <1>1, NumberAssumption DEF Counted, IInv, Types
<1> QED BY <1>3, <1>4, <1>5, <1>6, <1>7 DEF IInv

\* Every step keeps the invariant.
LEMMA NextIInv == IInv /\ [Next]_vars => IInv'
<1> SUFFICES ASSUME IInv, [Next]_vars PROVE IInv'
    OBVIOUS
<1>1. CASE Take
    BY <1>1, TakeStep
<1>2. CASE Flush
    BY <1>2, FlushStep
<1>3. CASE Abandon
    BY <1>3, AbandonStep
<1>4. CASE Finish
    BY <1>4, FinishStep
<1>5. CASE UNCHANGED vars
    BY <1>5 DEF vars, IInv, Types, Reported, Conserved, CountedWhenAny, Counted, Plain, Odd,
              Finished, Refused
<1> QED BY <1>1, <1>2, <1>3, <1>4, <1>5 DEF Next

\* The invariant holds at all times.
LEMMA Inductive == Spec => []IInv
BY InitIInv, NextIInv, PTL DEF Spec

-----------------------------------------------------------------------------
\* The variables of a call of MkdirsWithParent or Rm stay in their ranges.
THEOREM TypeCorrect == Spec => []TypeOK
<1>1. IInv => TypeOK
    BY DEF IInv, Types, Reported, TypeOK
<1> QED BY <1>1, Inductive, PTL

\* Cutting the list into commands loses, repeats and moves no path, whatever the
\* lengths.
THEOREM NothingLost == Spec => []Conserved
<1>1. IInv => Conserved
    BY DEF IInv
<1> QED BY <1>1, Inductive, PTL

\* A call that gets to its end has run the whole list.
LEMMA EndsRun == IInv => AllRun
<1> SUFFICES ASSUME IInv, outcome \in {"nil", "errs"} PROVE ran = list
    BY DEF AllRun
<1>1. Conserved
    BY DEF IInv
<1> QED BY <1>1, ConcatEmptySeq, EmptySeq DEF IInv, Finished, Types, Conserved

\* MkdirsWithParent and Rm return without an early error only when every path was
\* in a command that was run, the last one, after the loop, included.
THEOREM EverythingRun == Spec => []AllRun
BY EndsRun, Inductive, PTL

-----------------------------------------------------------------------------
\* Every path of a command that was answered, with nothing to report, is settled,
\* and no later command changes that.
Done ==
  /\ failures = {} /\ ~lost => \A p \in ToSet(ran) : Settled(p)
  /\ outcome = "nil" => failures = {}

LEMMA ToSetConcat ==
  ASSUME NEW s \in Seq(Path), NEW t \in Seq(Path)
  PROVE  ToSet(s \o t) = ToSet(s) \cup ToSet(t)
<1>1. /\ Len(s \o t) = Len(s) + Len(t) /\ Len(s) \in Nat /\ Len(t) \in Nat
      /\ \A i \in 1..Len(s) + Len(t) : (s \o t)[i] = IF i <= Len(s) THEN s[i] ELSE t[i - Len(s)]
    BY ConcatProperties, LenProperties
<1>2. DOMAIN s = 1..Len(s) /\ DOMAIN t = 1..Len(t) /\ DOMAIN (s \o t) = 1..(Len(s) + Len(t))
    BY <1>1, ConcatProperties, LenProperties
<1> HIDE DEF ToSet
<1> DEFINE u == s \o t
<1>3. ToSet(s) \cup ToSet(t) \subseteq ToSet(u)
  <2>1. ASSUME NEW i \in 1..Len(s) PROVE s[i] \in ToSet(u)
      BY <1>1, <1>2, <2>1 DEF ToSet
  <2>2. ASSUME NEW i \in 1..Len(t) PROVE t[i] \in ToSet(u)
    <3>1. i + Len(s) \in 1..(Len(s) + Len(t)) /\ u[i + Len(s)] = t[i]
        BY <1>1
    <3> QED BY <1>2, <3>1 DEF ToSet
  <2> QED BY <1>2, <2>1, <2>2 DEF ToSet
<1>4. ToSet(u) \subseteq ToSet(s) \cup ToSet(t)
  <2>1. ASSUME NEW i \in 1..(Len(s) + Len(t)) PROVE u[i] \in ToSet(s) \cup ToSet(t)
    <3>1. CASE i <= Len(s)
        BY <1>1, <1>2, <3>1 DEF ToSet
    <3>2. CASE i > Len(s)
      <4>1. i - Len(s) \in 1..Len(t) /\ u[i] = t[i - Len(s)]
          BY <1>1, <3>2
      <4> QED BY <1>2, <4>1 DEF ToSet
    <3> QED BY <1>1, <3>1, <3>2
  <2> QED BY <1>2, <2>1 DEF ToSet
<1> QED BY <1>3, <1>4

\* What a command does to the device takes back nothing that was done.
LEMMA EffectKeeps ==
  ASSUME op \in Ops, NEW done, NEW bad, Effect(done, bad), op' = op, behind \subseteq behind',
         NEW p, Settled(p)
  PROVE  Settled(p)'
BY DEF Effect, Settled, Ops

LEMMA AnswerDone ==
  ASSUME IInv, Done, Answer, op' = op
  PROVE  failures' = {} /\ ~lost' => \A p \in ToSet(ran') : Settled(p)'
<1> SUFFICES ASSUME failures' = {}, ~lost'
             PROVE  \A p \in ToSet(ran') : Settled(p)'
    OBVIOUS
<1>1. op \in Ops /\ ToSet(ran') = ToSet(ran) \cup ToSet(commands)
    BY ToSetConcat DEF Answer, IInv, Types
<1>2. CASE WentOn
  <2>1. PICK bad \in SUBSET ToSet(commands) :
          /\ failures' = failures \cup Printed(bad)
          /\ Effect(ToSet(commands), bad) /\ UNCHANGED <<lost, behind>>
      BY <1>2 DEF WentOn
  <2>2. failures = {} /\ Printed(bad) = {} /\ ~lost
      BY <2>1
  <2>3. \A p \in ToSet(ran) : Settled(p)'
      BY <1>1, <2>1, <2>2, EffectKeeps DEF Done
  <2>4. \A p \in ToSet(commands) : Settled(p)'
      BY <1>1, <2>1, <2>2 DEF Effect, Printed, Settled, Ops
  <2> QED BY <1>1, <2>3, <2>4
<1>3. ASSUME NEW n \in 1..Len(commands), StoppedAt(n)
      PROVE  \A p \in ToSet(ran') : Settled(p)'
  <2> DEFINE made == {commands[i] : i \in 1..(n - 1)}
             left == {commands[i] : i \in (n + 1)..Len(commands)}
  <2>1. /\ op = "mkdir" /\ failures' = failures \cup (Printed({commands[n]}) \ made)
        /\ Effect(made, {}) /\ lost' = lost
        /\ behind' = behind \cup ({commands[n]} \X left)
      BY <1>3 DEF StoppedAt
  <2>2. ToSet(commands) \subseteq made \cup {commands[n]} \cup left
    <3>1. Len(commands) \in Nat /\ DOMAIN commands = 1..Len(commands)
        BY LenProperties DEF IInv, Types
    <3>2. ASSUME NEW i \in 1..Len(commands) PROVE commands[i] \in made \cup {commands[n]} \cup left
      <4>1. i \in 1..(n - 1) \/ i = n \/ i \in (n + 1)..Len(commands)
          BY <1>3, <3>1
      <4> QED BY <4>1
    <3> QED BY <3>1, <3>2 DEF ToSet
  <2> HIDE DEF made, left
  <2>3. commands # <<>>
      BY <1>3, LenProperties DEF IInv, Types
  <2>4. failures = {} /\ ~lost /\ exists' = exists \cup made /\ commands[n] \in exists'
      BY <2>1, <2>3 DEF Printed, Effect
  <2>5. \A p \in ToSet(ran) : Settled(p)'
      BY <1>1, <2>1, <2>4, EffectKeeps DEF Done
  <2>6. ASSUME NEW p \in ToSet(commands) PROVE Settled(p)'
    <3>1. CASE p \in left
      <4>1. <<commands[n], p>> \in behind'
          BY <2>1, <3>1
      <4> QED BY <2>1, <2>4, <4>1 DEF Settled
    <3>2. CASE p \notin left
        BY <2>1, <2>2, <2>4, <3>2 DEF Settled
    <3> QED BY <3>1, <3>2
  <2> QED BY <1>1, <2>5, <2>6
<1>4. CASE CutShort
    BY <1>4 DEF CutShort
<1> QED BY <1>2, <1>3, <1>4 DEF Answer

LEMMA NextDone == IInv /\ Done /\ [Next]_vars => Done'
<1> SUFFICES ASSUME IInv, Done, [Next]_vars PROVE Done'
    OBVIOUS
<1>1. CASE Take
    BY <1>1 DEF Take, Done, Settled
<1>2. CASE Flush
    BY <1>2, AnswerDone DEF Flush, Done
<1>3. CASE Abandon
  <2>1. exists' = exists \/ \E done \in SUBSET ToSet(commands) : Effect(done, {})
      BY <1>3 DEF Abandon, Refuse, Fail
  <2>2. UNCHANGED <<op, ran, failures, lost, behind>> /\ outcome' # "nil"
      BY <1>3 DEF Abandon, Refuse, Fail, Stop
  <2>3. op \in Ops
      BY DEF IInv, Types
  <2>4. ASSUME NEW p, Settled(p) PROVE Settled(p)'
    <3>1. CASE exists' = exists
        BY <2>2, <2>4, <3>1 DEF Settled
    <3>2. CASE \E done \in SUBSET ToSet(commands) : Effect(done, {})
        BY <2>2, <2>3, <2>4, <3>2, EffectKeeps
    <3> QED BY <2>1, <3>1, <3>2
  <2> QED BY <2>2, <2>4 DEF Done
<1>4. CASE Finish
  <2>1. CASE Answer
      BY <1>4, <2>1, AnswerDone DEF Finish, Done
  <2>2. CASE UNCHANGED <<ran, failures, exists, lost, behind>>
      BY <1>4, <2>2 DEF Finish, Done, Settled
  <2> QED BY <1>4, <2>1, <2>2 DEF Finish
<1>5. CASE UNCHANGED vars
    BY <1>5 DEF vars, Done, Settled
<1> QED BY <1>1, <1>2, <1>3, <1>4, <1>5 DEF Next

\* Without an error the work is done, for every list and every answer, that of a
\* mkdir that stops at its first failure among them: what it left out is behind a
\* path that exists.
THEOREM NilIsDone == Spec => []DoneTrue
<1>1. Init => Done
    BY SMT DEF ToSet, Init, Done
<1>2. Spec => []Done
    BY <1>1, NextDone, Inductive, PTL DEF Spec
<1>3. Done /\ AllRun => DoneTrue
    BY DEF Done, AllRun, DoneTrue
<1> QED BY <1>2, <1>3, EverythingRun, PTL

-----------------------------------------------------------------------------
\* A budget that leaves room for the overhead keeps every command within a message,
\* unless a path of it has whitespace or is longer than the budget.
THEOREM BudgetSuffices == Spec => []OnlyOddPathsTooLong
<1>1. IInv => OnlyOddPathsTooLong
  <2> SUFFICES ASSUME IInv, outcome = "toolong", Overhead[op] + Budget[op] + 1 <= MaxPayload
               PROVE  \E p \in ToSet(commands) : p \in Spaced \/ Length[p] > Budget[op]
      BY DEF OnlyOddPathsTooLong
  <2>1. requestLen > MaxPayload
      BY DEF IInv, Refused
  <2>2. Overhead[op] \in Nat /\ Budget[op] \in Nat /\ commandsLen \in Nat /\ MaxPayload \in Nat
      BY NumberAssumption DEF IInv, Types
  <2>3. ~Plain
      BY <2>1, <2>2 DEF IInv, Counted
  <2> QED BY <2>3 DEF Plain, Odd
<1> QED BY <1>1, Inductive, PTL
=============================================================================
