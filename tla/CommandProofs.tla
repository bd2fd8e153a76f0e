---------------------------- MODULE CommandProofs ----------------------------
(***************************************************************************)
(* The commands that are sent to a device: the verdicts of AppCommands,    *)
(* for every number of calls and of words, and Reboot, for every number of *)
(* times the device goes down.                                             *)
(***************************************************************************)
EXTENDS AppCommands, Reboot, TLAPS

-----------------------------------------------------------------------------
(***************************************************************************)
(* AppCommands                                                             *)
(***************************************************************************)
Says(words, w) == \E i \in DOMAIN words : words[i] = w
Speaks == Pm \cup {"launch"}

\* What the command of the call has printed tells what it did.
Honest ==
  /\ done => stage = "over"
  /\ Says(printed, "good") => done
  /\ stage = "over" /\ ~done => printed # <<>>
  /\ done => ~Says(printed, "bad")
  /\ stage # "over" => ~Says(printed, "bad")
  /\ done /\ op \in Speaks =>
       /\ printed # <<>> /\ printed[Len(printed)] = "good"
       /\ \A i \in 1..(Len(printed) - 1) : printed[i] = "other"
  /\ op = "stop" /\ (stage # "over" \/ done) => printed = <<>>

\* Nothing runs before the command is sent.
Unsent == pc = "send" => stage = "none"

IInv == TypeOK /\ Unsent /\ Honest /\ SuccessTrue /\ RefusalTrue

-----------------------------------------------------------------------------
LEMMA Cutting ==
  ASSUME printed \in Seq(Word), NEW words \in Cuts
  PROVE  /\ words \in Seq(Word)
         /\ Says(words, "good") => Says(printed, "good")
<1>1. CASE \E n \in 0..Len(printed) : words = SubSeq(printed, 1, n)
  BY <1>1 DEF Says
<1>2. CASE \E n \in 1..Len(printed) : words = SubSeq(printed, 1, n - 1) \o <<"other">>
  <2>1. PICK n \in 1..Len(printed) : words = SubSeq(printed, 1, n - 1) \o <<"other">>
    BY <1>2
  <2> DEFINE head == SubSeq(printed, 1, n - 1)
  <2>2. head \in Seq(Word) /\ Len(head) = n - 1 /\ \A i \in 1..(n - 1) : head[i] = printed[i]
    OBVIOUS
  <2>3. words = head \o <<"other">>
    BY <2>1
  <2> HIDE DEF head
  <2>4. <<"other">> \in Seq(Word)
    BY DEF Word
  <2>5. /\ words \in Seq(Word) /\ Len(words) = n
        /\ words[n] = "other" /\ \A i \in 1..(n - 1) : words[i] = head[i]
    BY <2>2, <2>3, <2>4
  <2> QED BY <2>2, <2>5 DEF Says
<1> QED BY <1>1, <1>2 DEF Cuts

LEMMA SaysSucceeds ==
  ASSUME NEW words \in Seq(Word), op \in Speaks, Succeeds(words)
  PROVE  Says(words, "good")
<1>1. CASE op \in Pm
  <2>1. words = <<"good">> BY <1>1 DEF Succeeds, Pm
  <2> QED BY <2>1 DEF Says
<1>2. CASE op = "launch"
  BY <1>2 DEF Succeeds, Says, Pm
<1> QED BY <1>1, <1>2 DEF Speaks

\* A verdict on the whole output is true.
LEMMA WholeOutput ==
  ASSUME TypeOK, Honest, stage = "over"
  PROVE  /\ op # "start" /\ Succeeds(printed) => done
         /\ ~Succeeds(printed) /\ ~Says(printed, "other") => ~done
<1>1. op \in Speaks \/ op = "start" \/ op = "stop"
  BY DEF TypeOK, Ops, Speaks
<1>2. CASE op \in Speaks
  <2>1. Succeeds(printed) => done
    BY <1>2, SaysSucceeds DEF TypeOK, Honest
  <2>2. ASSUME done, ~Says(printed, "other") PROVE Succeeds(printed)
    <3>1. printed \in Seq(Word) /\ Len(printed) \in Nat /\ printed # <<>>
      BY <1>2, <2>2 DEF TypeOK, Honest
    <3>0. Len(printed) # 0
      BY <3>1
    <3>2. printed[Len(printed)] = "good"
      BY <1>2, <2>2 DEF Honest
    <3>3. Len(printed) = 1
      <4> SUFFICES ASSUME Len(printed) # 1 PROVE FALSE
        OBVIOUS
      <4>1. \A k \in Nat : k # 0 /\ k # 1 => 1 \in 1..(k - 1)
        OBVIOUS
      <4>2. 1 \in 1..(Len(printed) - 1)
        BY <3>0, <3>1, <4>1
      <4>3. DOMAIN printed = 1..Len(printed)
        BY <3>1
      <4>4. 1 \in DOMAIN printed
        BY <3>0, <3>1, <4>3
      <4>5. printed[1] = "other"
        BY <1>2, <2>2, <4>2 DEF Honest
      <4> QED BY <2>2, <4>4, <4>5 DEF Says
    <3>4. printed = <<"good">>
      BY <3>1, <3>2, <3>3
    <3>5. CASE op \in Pm
      BY <3>4, <3>5 DEF Succeeds, Pm
    <3>6. CASE op = "launch"
      <4>1. 1 \in DOMAIN printed /\ printed[1] = "good"
        BY <3>1, <3>2, <3>3
      <4> QED BY <3>6, <4>1 DEF Succeeds, Pm
    <3> QED BY <1>2, <3>5, <3>6 DEF Speaks
  <2> QED BY <2>1, <2>2
<1>3. CASE op = "start"
  <2>1. Succeeds(printed) <=> ~Says(printed, "bad")
    BY <1>3 DEF Succeeds, Says, Pm
  <2> QED BY <1>3, <2>1 DEF Honest
<1>4. CASE op = "stop"
  <2>1. Succeeds(printed) <=> printed = <<>>
    BY <1>4 DEF Succeeds, Pm
  <2> QED BY <1>4, <2>1 DEF Honest
<1> QED BY <1>1, <1>2, <1>3, <1>4

-----------------------------------------------------------------------------
LEMMA InitInv == Init => IInv
<1> SUFFICES ASSUME Init PROVE IInv
  OBVIOUS
<1>1. TypeOK
  <2>1. printed \in Seq(Word) /\ calls \in 0..MaxCalls
    BY BoundsAssumption DEF Init
  <2>2. op \in Ops /\ orphans \subseteq Ops
    BY DEF Init, Ops, Pm
  <2> QED BY <2>1, <2>2 DEF Init, TypeOK
<1>2. Honest
  BY DEF Init, Honest, Says
<1>3. SuccessTrue /\ RefusalTrue /\ Unsent
  BY DEF Init, SuccessTrue, RefusalTrue, Unsent
<1> QED BY <1>1, <1>2, <1>3 DEF IInv

\* Honest is about the command of the call alone.
LEMMA SameHonest ==
  ASSUME Honest, UNCHANGED <<op, stage, printed, done>>
  PROVE  Honest'
BY DEF Honest, Says

\* The two verdicts are about a call that has returned.
LEMMA SameVerdict ==
  ASSUME SuccessTrue, RefusalTrue, UNCHANGED <<op, out, printed, done, lost>>
  PROVE  SuccessTrue' /\ RefusalTrue'
BY DEF SuccessTrue, RefusalTrue

LEMMA CallInv == ASSUME IInv, Call PROVE IInv'
<1>1. TypeOK'
  <2>1. printed' \in Seq(Word) BY DEF Call
  <2>2. calls' \in 0..MaxCalls BY BoundsAssumption DEF IInv, TypeOK, Call
  <2> QED BY <2>1, <2>2 DEF IInv, TypeOK, Call
<1>2. Honest'
  BY DEF Call, Honest, Says
<1>3. SuccessTrue' /\ RefusalTrue' /\ Unsent'
  BY DEF Call, SuccessTrue, RefusalTrue, Unsent
<1> QED BY <1>1, <1>2, <1>3 DEF IInv

LEMMA SendInv == ASSUME IInv, Send PROVE IInv'
<1>1. /\ pc = "send" /\ orphans' \subseteq Ops
      /\ UNCHANGED <<app, op, printed, done, lost, calls>>
      /\ \/ pc' = "read" /\ stage' = "running" /\ out' = out /\ orphans' = orphans
         \/ pc' = "idle" /\ out' = "error" /\ stage' = stage
  BY DEF IInv, TypeOK, Send, Return, Abandon
<1>2. out = "none"
  BY <1>1 DEF IInv, TypeOK
<1>3. TypeOK'
  BY <1>1, <1>2 DEF IInv, TypeOK
<1>4. Honest'
  BY <1>1, SameHonest DEF IInv, Honest, Says, Unsent
<1>5. SuccessTrue' /\ RefusalTrue' /\ Unsent'
  BY <1>1, <1>2 DEF SuccessTrue, RefusalTrue, Unsent
<1> QED BY <1>3, <1>4, <1>5 DEF IInv

LEMMA AnswerInv == ASSUME IInv, Answer PROVE IInv'
<1> USE DEF IInv
<1>1. /\ pc = "read" /\ pc' = "idle"
      /\ UNCHANGED <<app, op, stage, printed, done, calls>>
  BY DEF Answer, Judge, Return, command
<1>2. \/ stage = "over" /\ Judge(printed) /\ lost' = lost /\ orphans' = orphans
      \/ (\E words \in Cuts : Judge(words)) /\ lost' = TRUE /\ Abandon
      \/ Return("error") /\ Abandon /\ lost' = lost
  BY DEF Answer
<1>3. out' \in {"nil", "refused", "error"}
  BY <1>2 DEF Judge, Return
<1>4. orphans' \subseteq Ops /\ lost' \in BOOLEAN
  BY <1>2 DEF Abandon, TypeOK
<1>5. TypeOK'
  BY <1>1, <1>3, <1>4 DEF TypeOK
<1>6. Honest'
  BY <1>1, SameHonest
<1>7. SuccessTrue' /\ RefusalTrue'
  <2>1. CASE stage = "over" /\ Judge(printed) /\ lost' = lost
    <3>1. out' = IF Succeeds(printed) THEN "nil" ELSE "refused"
      BY <2>1 DEF Judge, Return
    <3>2. op # "start" /\ out' = "nil" => done
      BY <2>1, <3>1, WholeOutput
    <3>3. out' = "refused" /\ ~Says(printed, "other") => ~done
      BY <2>1, <3>1, WholeOutput
    <3>4. SuccessTrue'
      BY <1>1, <3>2 DEF SuccessTrue, Pm
    <3>5. RefusalTrue'
      BY <1>1, <3>3 DEF RefusalTrue, Says
    <3> QED BY <3>4, <3>5
  <2>2. CASE (\E words \in Cuts : Judge(words)) /\ lost' = TRUE
    <3>1. PICK words \in Cuts : out' = IF Succeeds(words) THEN "nil" ELSE "refused"
      BY <2>2 DEF Judge, Return
    <3>2. ASSUME out' = "nil", op \in Speaks PROVE done
      <4>1. printed \in Seq(Word)
        BY DEF TypeOK
      <4>2. Says(words, "good")
        BY <3>1, <3>2, <4>1, Cutting, SaysSucceeds
      <4> QED BY <4>1, <4>2, Cutting DEF Honest
    <3> QED BY <1>1, <2>2, <3>2 DEF SuccessTrue, RefusalTrue, Speaks
  <2>3. CASE Return("error")
    BY <2>3 DEF Return, SuccessTrue, RefusalTrue
  <2> QED BY <1>2, <2>1, <2>2, <2>3
<1> QED BY <1>1, <1>5, <1>6, <1>7 DEF Unsent

LEMMA NoiseInv == ASSUME IInv, Noise PROVE IInv'
<1> USE DEF IInv
<1>1. /\ stage = "running" /\ op # "stop" /\ ~done /\ out = "none" /\ pc = "read"
      /\ printed' = Append(printed, "other") /\ printed \in Seq(Word)
      /\ UNCHANGED <<app, op, pc, out, stage, done, lost, orphans, calls>>
  BY DEF Noise, TypeOK, Honest
<1>2. /\ printed' \in Seq(Word)
      /\ \A i \in DOMAIN printed' : printed'[i] = "other" \/ (i \in DOMAIN printed /\ printed'[i] = printed[i])
  <2>1. "other" \in Word BY DEF Word
  <2> QED BY <1>1, <2>1
<1>3. TypeOK' BY <1>1, <1>2 DEF TypeOK
<1>4. (Says(printed, "good"))' => Says(printed, "good")
  BY <1>2 DEF Says
<1>5. (Says(printed, "bad"))' => Says(printed, "bad")
  BY <1>2 DEF Says
<1>6. Honest' BY <1>1, <1>4, <1>5 DEF Honest
<1>7. SuccessTrue' /\ RefusalTrue' BY <1>1 DEF SuccessTrue, RefusalTrue
<1> QED BY <1>1, <1>3, <1>6, <1>7 DEF Unsent

LEMMA WorkInv == ASSUME IInv, Work PROVE IInv'
<1> USE DEF IInv
<1>1. /\ stage = "running" /\ stage' = "over" /\ ~done /\ out = "none" /\ pc = "read"
      /\ printed \in Seq(Word) /\ ~Says(printed, "bad") /\ ~Says(printed, "good")
      /\ op = "stop" => printed = <<>>
      /\ UNCHANGED <<op, pc, out, lost, orphans, calls>>
  BY DEF Work, TypeOK, Honest
<1>2. \A i \in DOMAIN printed : printed[i] = "other"
  BY <1>1 DEF Says, Word
<1>3. SuccessTrue' /\ RefusalTrue' BY <1>1 DEF SuccessTrue, RefusalTrue
<1>4. CASE /\ app' \in Effect(op) /\ done' = TRUE
           /\ printed' = IF op \in Speaks THEN Append(printed, "good") ELSE printed
  <2>1. /\ printed' \in Seq(Word)
        /\ op \in Speaks => /\ printed' # <<>> /\ printed'[Len(printed')] = "good"
                            /\ \A i \in 1..(Len(printed') - 1) : printed'[i] = "other"
    BY <1>1, <1>2, <1>4 DEF Word
  <2>2. \A i \in DOMAIN printed' : printed'[i] # "bad"
    BY <1>1, <1>2, <1>4
  <2>3. op = "stop" => printed' = <<>>
    BY <1>1, <1>4 DEF Speaks, Pm
  <2>4. Honest'
    BY <1>1, <1>4, <2>1, <2>2, <2>3 DEF Honest, Says
  <2>5. app' \in {"absent", "stopped", "running"}
    BY <1>4 DEF Effect
  <2>6. TypeOK' BY <1>1, <1>4, <2>1, <2>5 DEF TypeOK
  <2> QED BY <1>1, <1>3, <2>4, <2>6 DEF Unsent
<1>5. CASE (\E word \in {"bad", "other"} : printed' = Append(printed, word)) /\ app' = app /\ done' = done
  <2>1. PICK word \in {"bad", "other"} : printed' = Append(printed, word)
    BY <1>5
  <2>2. /\ printed' \in Seq(Word) /\ printed' # <<>>
        /\ \A i \in DOMAIN printed' : printed'[i] # "good"
    BY <1>1, <1>2, <2>1 DEF Word
  <2>3. Honest' BY <1>1, <1>5, <2>2 DEF Honest, Says
  <2>4. TypeOK' BY <1>1, <1>5, <2>2 DEF TypeOK
  <2> QED BY <1>1, <1>3, <2>3, <2>4 DEF Unsent
<1> QED BY <1>4, <1>5 DEF Work, Speaks

LEMMA NextInv == IInv /\ [Next]_vars => IInv'
<1> SUFFICES ASSUME IInv, [Next]_vars PROVE IInv'
  OBVIOUS
<1>1. CASE Call BY <1>1, CallInv
<1>2. CASE Send BY <1>2, SendInv
<1>3. CASE Answer BY <1>3, AnswerInv
<1>4. CASE Noise BY <1>4, NoiseInv
<1>5. CASE Work BY <1>5, WorkInv
<1>6. CASE Orphan
  <2>1. /\ orphans # {} /\ orphans' \subseteq orphans
        /\ app' \in {"absent", "stopped", "running"}
        /\ UNCHANGED <<op, pc, out, stage, printed, done, lost, calls>>
    BY <1>6 DEF Orphan, Effect, IInv, TypeOK, command
  <2>2. TypeOK' BY <2>1 DEF IInv, TypeOK
  <2>3. Honest' BY <2>1, SameHonest DEF IInv
  <2>4. SuccessTrue' /\ RefusalTrue' BY <2>1, SameVerdict DEF IInv
  <2> QED BY <2>1, <2>2, <2>3, <2>4 DEF IInv, Unsent
<1>7. CASE Crash
  <2>1. /\ app = "running" /\ app' = "stopped"
        /\ UNCHANGED <<op, pc, out, stage, printed, done, lost, orphans, calls>>
    BY <1>7 DEF Crash, command
  <2>2. TypeOK' BY <2>1 DEF IInv, TypeOK
  <2>3. Honest' BY <2>1, SameHonest DEF IInv
  <2>4. SuccessTrue' /\ RefusalTrue' BY <2>1, SameVerdict DEF IInv
  <2> QED BY <2>1, <2>2, <2>3, <2>4 DEF IInv, Unsent
<1>8. CASE UNCHANGED vars
  <2>1. TypeOK' BY <1>8 DEF vars, IInv, TypeOK
  <2>2. Honest' BY <1>8, SameHonest DEF vars, IInv
  <2>3. SuccessTrue' /\ RefusalTrue' BY <1>8, SameVerdict DEF vars, IInv
  <2> QED BY <1>8, <2>1, <2>2, <2>3 DEF IInv, Unsent, vars
<1> QED BY <1>1, <1>2, <1>3, <1>4, <1>5, <1>6, <1>7, <1>8 DEF Next

LEMMA SpecInv == Spec => []IInv
BY InitInv, NextInv, PTL DEF Spec

\* The variables of the calls and of the app stay in their ranges.
THEOREM TypeCorrect == Spec => []TypeOK
<1>1. IInv => TypeOK BY DEF IInv
<1> QED BY SpecInv, <1>1, PTL

\* A success that is reported took place, wherever the output of pm or monkey was cut;
\* that of AmForceStop if its connection lasted.  AmStart is left out: see SuccessTrue.
THEOREM SuccessIsTrue == Spec => []SuccessTrue
<1>1. IInv => SuccessTrue BY DEF IInv
<1> QED BY SpecInv, <1>1, PTL

\* A refusal that came whole and without noise is true.
THEOREM RefusalIsTrue == Spec => []RefusalTrue
<1>1. IInv => RefusalTrue BY DEF IInv
<1> QED BY SpecInv, <1>1, PTL

-----------------------------------------------------------------------------
(***************************************************************************)
(* Reboot                                                                  *)
(***************************************************************************)
SecondLoop == {"back?", "booted?", "sleep2"}

\* The device is as it was until the command is accepted, and a device that is seen to
\* be down has gone down.
Shutting ==
  /\ step = "command" => device = "up"
  /\ device \notin {"up", "leaving"} => downs > 0

\* The second loop is entered only if asked for, and, if no query that failed ended the
\* first, only after the device went down.
Gone ==
  /\ Shutting
  /\ step \in SecondLoop => wait /\ (~misled => downs > 0)
  /\ TrueBoot

\* How many questions have been asked after the end of the context.
Asked ==
  /\ ctx = "live" \/ step \in {"command", "gone?"} => late = 0
  /\ step \in {"sleep1", "back?"} => late <= 1
  /\ step = "booted?" => late <= 2
  /\ LateQueries

RInv == RebootTypeOK /\ Gone /\ Asked

LEMMA InitReboot == RebootInit => RInv
<1> SUFFICES ASSUME RebootInit PROVE RInv
  OBVIOUS
<1>1. /\ wait \in BOOLEAN /\ misled = FALSE /\ device = "up" /\ downs = 0 /\ seen = -1 /\ late = 0
      /\ step = "command" /\ outcome = "none" /\ ctx \in {"live", "done"} /\ timer = "live"
  BY DEF RebootInit
<1>2. downs \in 0..MaxBoots /\ seen \in -1..MaxBoots /\ late \in Nat
  BY <1>1, BootsAssumption
<1>3. RebootTypeOK BY <1>1, <1>2, Zenon DEF RebootTypeOK
<1>4. Gone BY <1>1, Zenon DEF Gone, Shutting, SecondLoop, TrueBoot
<1>5. Asked BY <1>1 DEF Asked, LateQueries
<1> QED BY <1>3, <1>4, <1>5 DEF RInv

LEMMA StepReboot == RInv /\ [RebootNext]_rebootVars => RInv'
<1> SUFFICES ASSUME RInv, [RebootNext]_rebootVars PROVE RInv'
  OBVIOUS
<1> USE BootsAssumption DEF RInv
<1>1. CASE Command
  <2>1. RebootTypeOK' BY <1>1 DEF Command, Ends, RebootTypeOK
  <2>2. Gone' BY <1>1 DEF Command, Ends, RebootTypeOK, Gone, Shutting, SecondLoop, TrueBoot
  <2>3. Asked' BY <1>1 DEF Command, Ends, RebootTypeOK, Asked, LateQueries
  <2> QED BY <2>1, <2>2, <2>3
<1>2. CASE PollGone
  <2>1. /\ step = "gone?" /\ Query
        /\ UNCHANGED <<wait, external, ctx, seen>>
        /\ \/ /\ misled' \in BOOLEAN /\ timer' = "live"
              /\ \/ wait /\ step' = "back?" /\ UNCHANGED outcome
                 \/ ~wait /\ Ends("nil")
           \/ step' = "sleep1" /\ UNCHANGED <<outcome, timer, misled>>
    BY <1>2 DEF PollGone
  <2>2. wait' = wait /\ device' = device /\ downs' = downs /\ ctx' = ctx /\ seen' = seen
    BY <2>1 DEF external
  <2>3. misled' \in BOOLEAN /\ timer' \in {"live", "done"}
    BY <2>1 DEF RebootTypeOK
  <2>4. /\ step' \in {"back?", "sleep1", "returned"} /\ outcome' \in {"none", "nil"}
        /\ outcome' = "none" <=> step' # "returned"
    BY <2>1 DEF Ends, RebootTypeOK
  <2>5. RebootTypeOK' BY <2>1, <2>2, <2>3, <2>4 DEF Query, RebootTypeOK
  <2>6. step' \in {"back?", "returned"} /\ ~misled' => downs > 0
    <3>1. SUFFICES ASSUME step' \in {"back?", "returned"}, ~misled' PROVE downs > 0
      OBVIOUS
    <3>2. PICK state \in {"invalid", "offline"} : misled' = (state \notin Known)
      BY <1>2, <3>1 DEF PollGone, Disturbed
    <3>3. state \in Known
      BY <3>1, <3>2
    <3>4. device \notin {"up", "leaving"}
      BY <3>3 DEF Known
    <3> QED BY <3>4 DEF Gone, Shutting
  <2>7. step' = "back?" => wait
    BY <2>1 DEF Ends
  <2>8. step' = "returned" => ~wait
    BY <2>1 DEF Ends
  <2>9. Gone'
    <3>1. (step \in SecondLoop => wait /\ (~misled => downs > 0))'
      BY <2>2, <2>4, <2>6, <2>7 DEF SecondLoop
    <3>2. TrueBoot'
      BY <2>2, <2>4, <2>6, <2>8 DEF TrueBoot
    <3>3. Shutting'
      BY <2>2, <2>4 DEF Gone, Shutting
    <3> QED BY <3>1, <3>2, <3>3 DEF Gone
  <2>10. Asked' BY <2>1 DEF external, Query, Ends, RebootTypeOK, Asked, LateQueries
  <2> QED BY <2>5, <2>9, <2>10
<1>3. CASE PollBack
  <2>1. /\ step = "back?" /\ Query /\ step' \in {"booted?", "sleep2"}
        /\ UNCHANGED <<wait, external, outcome, ctx, timer, misled, seen>>
    BY <1>3 DEF PollBack
  <2>2. RebootTypeOK' BY <2>1 DEF external, Query, RebootTypeOK
  <2>3. Gone' BY <2>1 DEF external, RebootTypeOK, Gone, Shutting, SecondLoop, TrueBoot
  <2>4. Asked' BY <2>1 DEF external, Query, RebootTypeOK, Asked, LateQueries
  <2> QED BY <2>2, <2>3, <2>4
<1>4. CASE BootCompleted
  <2>1. RebootTypeOK' BY <1>4 DEF BootCompleted, external, Query, Ends, RebootTypeOK
  <2>2. Gone' BY <1>4 DEF BootCompleted, external, Ends, RebootTypeOK, Gone, Shutting, SecondLoop, TrueBoot
  <2>3. Asked' BY <1>4 DEF BootCompleted, external, Query, Ends, RebootTypeOK, Asked, LateQueries
  <2> QED BY <2>1, <2>2, <2>3
<1>5. CASE Sleep
  <2>1. RebootTypeOK' BY <1>5 DEF Sleep, external, Ends, RebootTypeOK
  <2>2. Gone' BY <1>5 DEF Sleep, external, Ends, RebootTypeOK, Gone, Shutting, SecondLoop, TrueBoot
  <2>3. Asked' BY <1>5 DEF Sleep, Expired, external, Ends, RebootTypeOK, Asked, LateQueries
  <2> QED BY <2>1, <2>2, <2>3
<1>6. CASE Timeout
  BY <1>6 DEF Timeout, external, RebootTypeOK, Gone, Shutting, Asked, SecondLoop, TrueBoot, LateQueries
<1>7. CASE CtxEnds
  BY <1>7 DEF CtxEnds, external, RebootTypeOK, Gone, Shutting, Asked, SecondLoop, TrueBoot, LateQueries
<1>8. CASE Device
  <2>1. downs' \in Int /\ downs <= downs' /\ downs' \in 0..MaxBoots
    BY <1>8 DEF Device, RebootTypeOK
  <2>2. RebootTypeOK' BY <1>8, <2>1 DEF Device, RebootTypeOK
  <2>3. Gone' BY <1>8, <2>1 DEF Device, RebootTypeOK, Gone, Shutting, SecondLoop, TrueBoot
  <2>4. Asked' BY <1>8 DEF Device, Asked, LateQueries
  <2> QED BY <2>2, <2>3, <2>4
<1>9. CASE UNCHANGED rebootVars
  BY <1>9 DEF rebootVars, external, RebootTypeOK, Gone, Shutting, Asked, SecondLoop, TrueBoot, LateQueries
<1> QED BY <1>1, <1>2, <1>3, <1>4, <1>5, <1>6, <1>7, <1>8, <1>9 DEF RebootNext, Caller

LEMMA RebootInv == RebootSpec => []RInv
BY InitReboot, StepReboot, PTL DEF RebootSpec

\* The variables of a reboot stay in their ranges.
THEOREM RebootTypeCorrect == RebootSpec => []RebootTypeOK
<1>1. RInv => RebootTypeOK BY DEF RInv
<1> QED BY RebootInv, <1>1, PTL

\* A reboot that reports success has waited until the device went down, and has read the
\* boot property of a later boot if it was asked to, unless the first loop was ended by a
\* query that failed or was disturbed.
THEOREM BootIsTrue == RebootSpec => []TrueBoot
<1>1. RInv => TrueBoot BY DEF RInv, Gone
<1> QED BY RebootInv, <1>1, PTL

\* At most three questions are asked after the end of the context.
THEOREM FewLateQueries == RebootSpec => []LateQueries
<1>1. RInv => LateQueries BY DEF RInv, Asked
<1> QED BY RebootInv, <1>1, PTL
=============================================================================
