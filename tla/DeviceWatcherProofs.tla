------------------------ MODULE DeviceWatcherProofs ------------------------
(***************************************************************************)
(* Theorems of DeviceWatcher, for every set of serials and of states the   *)
(* server lists, any number of changes, deaths and messages in flight.     *)
(***************************************************************************)
EXTENDS DeviceWatcher, SequenceTheorems, TLAPS

USE ListableAssumption, BoundsAssumption

\* A state the server lists is parsed to a state, never to StateDisconnected.
LEMMA ParsedState ==
  ASSUME NEW str \in Listable
  PROVE  parseDeviceState(str) \in DeviceStates \ {"StateDisconnected"}
BY DEF parseDeviceState, DeviceStates

\* So is a list: a map of states, in which no device is StateDisconnected.
LEMMA ParsedList ==
  ASSUME NEW list \in Lists
  PROVE  /\ parseDeviceStates(list) \in [Serials -> States]
         /\ \A s \in Serials : parseDeviceStates(list)[s] # "StateDisconnected"
<1>1. ASSUME NEW s \in Serials
      PROVE  /\ parseDeviceStates(list)[s] \in States
             /\ parseDeviceStates(list)[s] # "StateDisconnected"
  <2>1. CASE list[s] = NotListed
    BY <2>1 DEF parseDeviceStates, States, NotListed
  <2>2. CASE list[s] # NotListed
    <3>1. list[s] \in Listable
      BY <2>2 DEF Lists
    <3> QED BY <2>2, <3>1, ParsedState DEF parseDeviceStates, States
  <2> QED BY <2>1, <2>2
<1> QED BY <1>1 DEF parseDeviceStates

\* The states the consumer is told are states.
LEMMA StateInType ==
  ASSUME NEW states \in [Serials -> States], NEW s \in Serials
  PROVE  StateIn(states, s) \in DeviceStates
BY DEF StateIn, States, DeviceStates

LEMMA ShortSeq ==
  ASSUME NEW S, NEW a \in S, NEW b \in S
  PROVE  <<a>> \in Seq(S) /\ <<a, b>> \in Seq(S)
OBVIOUS

LEMMA NoDevicesType == NoDevices \in Lists /\ NoDevices \in [Serials -> States]
BY DEF NoDevices, Lists, States

-----------------------------------------------------------------------------
(* The inductive invariant. *)

\* A connection that is being set up is counted as open.
ConnCounted == pc \in {"send", "status"} => conns >= 1

\* An error is stored exactly from reportErr on.
ErrStored == err # "nil" <=> pc \in {"closing", "closed"}

\* No map holds StateDisconnected: a device that is listed is not disconnected.
NoneDisconnected ==
  \A s \in Serials : /\ lastKnownStates[s] # "StateDisconnected"
                     /\ deviceStates[s] # "StateDisconnected"

\* Every event still to be sent is a change of what the consumer knows.
PendingAreChanges ==
  /\ pc = "publish" => pending \subseteq Diffs(lastKnownStates, deviceStates)
  /\ pc = "removing" => pending \subseteq Listed(lastKnownStates)

\* No device is known until a new server has sent its first list.
NothingKnown ==
  pc \in {"restart", "dial", "dialStart", "redial", "send", "status"} =>
    lastKnownStates = NoDevices

IInv ==
  /\ TypeOK
  /\ ConnCounted /\ ErrStored /\ NoneDisconnected /\ PendingAreChanges
  /\ NothingKnown /\ ViewTracksLastKnown

LEMMA InitIInv == Init => IInv
<1> SUFFICES ASSUME Init PROVE IInv
  OBVIOUS
<1>1. TypeOK
  <2>1. view \in [Serials -> DeviceStates]
    BY DEF Init, DeviceStates
  <2>2. stream \in Seq(Message)
    BY DEF Init
  <2>3. changes \in 0..MaxChanges /\ deaths \in 0..MaxDeaths /\ conns \in Nat
    BY DEF Init
  <2>4. event \in {<<>>} \cup (Serials \X DeviceStates \X DeviceStates)
    BY DEF Init
  <2>5. /\ lastKnownStates \in [Serials -> States]
        /\ deviceStates \in [Serials -> States]
        /\ devices \in Lists
    BY NoDevicesType DEF Init
  <2> QED BY <2>1, <2>2, <2>3, <2>4, <2>5 DEF Init, TypeOK
<1>2. NoneDisconnected
  BY DEF Init, NoneDisconnected, NoDevices, NotListed
<1>3. ViewTracksLastKnown
  BY DEF Init, ViewTracksLastKnown, StateIn, NoDevices
<1> QED
  BY <1>1, <1>2, <1>3 DEF Init, IInv, ConnCounted, ErrStored, PendingAreChanges,
     NothingKnown

-----------------------------------------------------------------------------
(* Type correctness, one step per action. *)

LEMMA TypeNext == ASSUME IInv, [Next]_vars PROVE TypeOK'
<1> USE DEF local, consumer, server, environment
<1>0. TypeOK /\ ConnCounted /\ PendingAreChanges
  BY DEF IInv
<1>1. CASE Dial
  <2>1. CASE Connect
    BY <1>0, <1>1, <2>1 DEF Dial, Connect, TypeOK
  <2>2. CASE ~Connect
    BY <1>0, <1>1, <2>2 DEF Dial, reportErr, TypeOK
  <2> QED BY <2>1, <2>2
<1>2. CASE Redial
  <2>1. CASE Connect
    BY <1>0, <1>2, <2>1 DEF Redial, Connect, TypeOK
  <2>2. CASE ~Connect
    BY <1>0, <1>2, <2>2 DEF Redial, reportErr, TypeOK
  <2> QED BY <2>1, <2>2
<1>3. CASE Start
  BY <1>0, <1>3 DEF Start, reportErr, TypeOK
<1>4. CASE SendMessage
  BY <1>0, <1>4 DEF SendMessage, reportErr, TypeOK, ConnCounted
<1>5. CASE ReadStatus
  <2>1. stream' \in Seq(Message)
    BY <1>0, <1>5, HeadTailProperties DEF ReadStatus, TypeOK
  <2> QED BY <1>0, <1>5, <2>1 DEF ReadStatus, reportErr, TypeOK, ConnCounted
<1>6. CASE ReadMessage
  <2>1. stream' \in Seq(Message) /\ Head(stream) \in Message
    BY <1>0, <1>6, HeadTailProperties DEF ReadMessage, TypeOK
  <2>2. Head(stream).list \in Lists
    BY <2>1 DEF Message
  <2>3. deviceStates' \in [Serials -> States] /\ pending' \subseteq Serials
    BY <1>0, <1>6, <2>2, ParsedList DEF ReadMessage, TypeOK, Diffs
  <2>4. pc' \in {"publish", "closing"} /\ err' \in {err, "parse"}
    BY <1>0, <1>6 DEF ReadMessage, reportErr
  <2> QED BY <1>0, <1>6, <2>1, <2>3, <2>4 DEF ReadMessage, TypeOK
<1>7. CASE ReadError
  BY <1>0, <1>7 DEF ReadError, reportErr, TypeOK, Listed
<1>8. ASSUME NEW s \in Serials, PublishEvent(s) PROVE TypeOK'
  <2>1. /\ StateIn(lastKnownStates, s) \in DeviceStates
        /\ StateIn(deviceStates, s) \in DeviceStates
    BY <1>0, StateInType DEF TypeOK
  <2> QED BY <1>0, <1>8, <2>1 DEF PublishEvent, Emit, TypeOK
<1>9. ASSUME NEW s \in Serials, PublishRemoved(s) PROVE TypeOK'
  <2>1. lastKnownStates[s] \in DeviceStates
    BY <1>0, <1>9 DEF PublishRemoved, PendingAreChanges, Listed, TypeOK, States
  <2> QED BY <1>0, <1>9, <2>1 DEF PublishRemoved, Emit, TypeOK, DeviceStates
<1>10. CASE Published
  BY <1>0, <1>10, NoDevicesType DEF Published, TypeOK
<1>11. CASE CloseChan
  BY <1>0, <1>11 DEF CloseChan, TypeOK
<1>12. CASE Shutdown
  BY <1>0, <1>12 DEF Shutdown, TypeOK
<1>13. CASE ServerAnswers
  <2>1. stream' \in Seq(Message)
    <3>1. devices \in Lists
      BY <1>0 DEF TypeOK
    <3>2. ListMessage(devices) \in Message /\ StatusMessage("OKAY") \in Message
          /\ StatusMessage("FAIL") \in Message
      BY <3>1, NoDevicesType DEF Message, ListMessage, StatusMessage
    <3>3. stream' = <<StatusMessage("FAIL")>>
            \/ stream' = <<StatusMessage("OKAY"), ListMessage(devices)>>
      BY <1>13 DEF ServerAnswers
    <3> QED BY <3>2, <3>3, ShortSeq
  <2> QED BY <1>0, <1>13, <2>1 DEF ServerAnswers, TypeOK
<1>14. ASSUME NEW s \in Serials, NEW state \in Listable \cup {NotListed},
              DeviceChanges(s, state)
       PROVE  TypeOK'
  <2>1. devices' \in Lists
    BY <1>0, <1>14 DEF DeviceChanges, TypeOK, Lists
  <2>2. stream' \in Seq(Message)
    <3>1. ListMessage(devices') \in Message
      BY <2>1 DEF ListMessage, Message
    <3>2. stream \in Seq(Message)
      BY <1>0 DEF TypeOK
    <3> QED BY <1>14, <3>1, <3>2 DEF DeviceChanges
  <2>3. changes' \in 0..MaxChanges
    BY <1>0, <1>14 DEF DeviceChanges, TypeOK
  <2> QED BY <1>0, <1>14, <2>1, <2>2, <2>3 DEF DeviceChanges, TypeOK
<1>15. CASE ServerDies
  <2>1. stream \in Seq(Message)
    BY <1>0 DEF TypeOK
  <2>2. stream' \in Seq(Message)
    <3>1. ASSUME NEW k \in 0..Len(stream)
          PROVE  SubSeq(stream, 1, k) \in Seq(Message)
      BY <2>1, <3>1
    <3> QED BY <1>15, <2>1, <3>1 DEF ServerDies
  <2>3. deaths' \in 0..MaxDeaths
    BY <1>0, <1>15 DEF ServerDies, TypeOK
  <2>4. link' \in {link, "dead"} /\ ending' \in {ending, "ErrConnectionReset", "EOF"}
    BY <1>15 DEF ServerDies
  <2>5. /\ serverUp' = FALSE /\ devices' = NoDevices
        /\ UNCHANGED <<environment, changes>>
    BY <1>15 DEF ServerDies
  <2>6. /\ link' \in {"none", "dialled", "requested", "tracking", "dead"}
        /\ ending' \in {"none", "ErrConnectionReset", "EOF"}
        /\ serverUp' \in BOOLEAN
    BY <1>0, <2>4, <2>5 DEF TypeOK
  <2>7. devices' \in Lists
    BY <2>5, NoDevicesType
  <2> QED BY <1>0, <2>2, <2>3, <2>5, <2>6, <2>7 DEF TypeOK
<1>16. CASE ServerStartedElsewhere
  BY <1>0, <1>16 DEF ServerStartedElsewhere, TypeOK
<1>17. CASE UNCHANGED vars
  BY <1>0, <1>17 DEF vars, TypeOK
<1> QED
  BY <1>1, <1>2, <1>3, <1>4, <1>5, <1>6, <1>7, <1>8, <1>9, <1>10, <1>11, <1>12,
     <1>13, <1>14, <1>15, <1>16, <1>17 DEF Next, Watcher, Server

-----------------------------------------------------------------------------
(* The rest of the inductive invariant, one step per action. *)

Core ==
  /\ ConnCounted /\ ErrStored /\ NoneDisconnected /\ PendingAreChanges
  /\ NothingKnown /\ ViewTracksLastKnown

\* A step outside the publishing of events, that leaves both maps and the view.
LEMMA QuietStep ==
  ASSUME IInv, UNCHANGED <<local, consumer>>,
         pc \notin {"publish", "removing"} \/ pc' = pc,
         pc' \notin {"publish", "removing"} \/ pc' = pc
  PROVE  (NoneDisconnected /\ PendingAreChanges /\ ViewTracksLastKnown)'
<1> USE DEF IInv, local, consumer
<1>1. NoneDisconnected'
  BY DEF NoneDisconnected
<1>2. PendingAreChanges'
  BY DEF PendingAreChanges, Diffs, Listed
<1>3. ViewTracksLastKnown'
  BY DEF ViewTracksLastKnown, StateIn
<1> QED BY <1>1, <1>2, <1>3

LEMMA CoreNext == ASSUME IInv, [Next]_vars PROVE Core'
<1> USE DEF local, consumer, server, environment
<1>0. TypeOK /\ Core
  BY DEF IInv, Core
<1>1. CASE Dial
  BY <1>0, <1>1, QuietStep DEF Dial, Connect, reportErr, Core, ConnCounted,
     ErrStored, NothingKnown, TypeOK
<1>2. CASE Redial
  BY <1>0, <1>2, QuietStep DEF Redial, Connect, reportErr, Core, ConnCounted,
     ErrStored, NothingKnown, TypeOK
<1>3. CASE Start
  BY <1>0, <1>3, QuietStep DEF Start, reportErr, Core, ConnCounted, ErrStored,
     NothingKnown
<1>4. CASE SendMessage
  BY <1>0, <1>4, QuietStep DEF SendMessage, reportErr, Core, ConnCounted,
     ErrStored, NothingKnown
<1>5. CASE ReadStatus
  BY <1>0, <1>5, QuietStep DEF ReadStatus, reportErr, Core, ConnCounted,
     ErrStored, NothingKnown
<1>6. CASE ReadMessage
  <2> DEFINE list == Head(stream).list
  <2>0. Head(stream) \in Message
    BY <1>0, <1>6, HeadTailProperties DEF ReadMessage, TypeOK
  <2>1. list \in Lists
    BY <2>0 DEF Message
  <2>2. CASE /\ deviceStates' = parseDeviceStates(list)
             /\ pending' = Diffs(lastKnownStates, deviceStates')
             /\ pc' = "publish" /\ UNCHANGED err
    <3>1. NoneDisconnected'
      BY <1>0, <1>6, <2>1, <2>2, ParsedList DEF Core, NoneDisconnected, ReadMessage
    <3>2. PendingAreChanges'
      BY <1>6, <2>2 DEF PendingAreChanges, Diffs, ReadMessage
    <3>3. ViewTracksLastKnown'
      BY <1>0, <1>6, <2>2 DEF Core, ViewTracksLastKnown, Diffs, StateIn, ReadMessage
    <3> QED BY <1>0, <1>6, <2>2, <3>1, <3>2, <3>3
            DEF Core, ConnCounted, ErrStored, NothingKnown, ReadMessage
  <2>3. CASE reportErr("parse") /\ UNCHANGED <<deviceStates, pending>>
    BY <1>0, <1>6, <2>3, QuietStep DEF ReadMessage, reportErr, Core, ConnCounted,
       ErrStored, NothingKnown
  <2> QED BY <1>6, <2>2, <2>3 DEF ReadMessage
<1>7. CASE ReadError
  <2>1. CASE pc' = "removing" /\ pending' = Listed(lastKnownStates) /\ UNCHANGED err
    <3>1. ViewTracksLastKnown'
      BY <1>0, <1>7, <2>1 DEF Core, ViewTracksLastKnown, Listed, StateIn, ReadError
    <3>2. PendingAreChanges'
      BY <1>7, <2>1 DEF PendingAreChanges, Listed, ReadError
    <3> QED BY <1>0, <1>7, <2>1, <3>1, <3>2
            DEF Core, ConnCounted, ErrStored, NothingKnown, NoneDisconnected, ReadError
  <2>2. CASE (reportErr("read") \/ reportErr("killed")) /\ UNCHANGED pending
    BY <1>0, <1>7, <2>2, QuietStep DEF ReadError, reportErr, Core, ConnCounted,
       ErrStored, NothingKnown
  <2> QED BY <1>7, <2>1, <2>2 DEF ReadError
<1>8. ASSUME NEW s \in Serials, PublishEvent(s) PROVE Core'
  <2>1. /\ pc = "publish" /\ pc' = pc
        /\ pending' = pending \ {s}
        /\ view' = [view EXCEPT ![s] = StateIn(deviceStates, s)]
        /\ UNCHANGED <<lastKnownStates, deviceStates, conns, err>>
    BY <1>8 DEF PublishEvent, Emit
  <2>2. ViewTracksLastKnown'
    BY <1>0, <2>1 DEF Core, ViewTracksLastKnown, StateIn, TypeOK
  <2>3. PendingAreChanges'
    BY <1>0, <2>1 DEF Core, PendingAreChanges, Diffs
  <2> QED BY <1>0, <2>1, <2>2, <2>3
          DEF Core, ConnCounted, ErrStored, NothingKnown, NoneDisconnected
<1>9. ASSUME NEW s \in Serials, PublishRemoved(s) PROVE Core'
  <2>1. /\ pc = "removing" /\ pc' = pc
        /\ pending' = pending \ {s}
        /\ view' = [view EXCEPT ![s] = "StateDisconnected"]
        /\ UNCHANGED <<lastKnownStates, deviceStates, conns, err>>
    BY <1>9 DEF PublishRemoved, Emit
  <2>2. ViewTracksLastKnown'
    BY <1>0, <2>1 DEF Core, ViewTracksLastKnown, StateIn, TypeOK
  <2>3. PendingAreChanges'
    BY <1>0, <2>1 DEF Core, PendingAreChanges, Listed
  <2> QED BY <1>0, <2>1, <2>2, <2>3
          DEF Core, ConnCounted, ErrStored, NothingKnown, NoneDisconnected
<1>10. CASE Published
  <2>1. CASE pc = "publish"
    <3>1. ViewTracksLastKnown'
      BY <1>0, <1>10, <2>1 DEF Core, ViewTracksLastKnown, StateIn, Published
    <3> QED BY <1>0, <1>10, <2>1, <3>1 DEF Core, ConnCounted, ErrStored, NothingKnown,
            NoneDisconnected, PendingAreChanges, Published
  <2>2. CASE pc = "removing"
    <3>1. ViewTracksLastKnown'
      BY <1>0, <1>10, <2>2 DEF Core, ViewTracksLastKnown, StateIn, NoDevices, Published
    <3>2. NoneDisconnected'
      BY <1>0, <1>10, <2>2 DEF Core, NoneDisconnected, NoDevices, NotListed, Published
    <3> QED BY <1>0, <1>10, <2>2, <3>1, <3>2 DEF Core, ConnCounted, ErrStored,
            NothingKnown, PendingAreChanges, Published
  <2> QED BY <1>10, <2>1, <2>2 DEF Published
<1>11. CASE CloseChan
  BY <1>0, <1>11, QuietStep DEF CloseChan, Core, ConnCounted, ErrStored, NothingKnown
<1>12. CASE Shutdown
  BY <1>0, <1>12, QuietStep DEF Shutdown, Core, ConnCounted, ErrStored, NothingKnown
<1>13. CASE UNCHANGED environment
  BY <1>0, <1>13, QuietStep DEF Core, ConnCounted, ErrStored, NothingKnown
<1>14. CASE UNCHANGED vars
  BY <1>13, <1>14 DEF vars
<1> QED
  BY <1>1, <1>2, <1>3, <1>4, <1>5, <1>6, <1>7, <1>8, <1>9, <1>10, <1>11, <1>12,
     <1>13, <1>14 DEF Next, Watcher, Server, ServerAnswers, ServerDies,
     ServerStartedElsewhere, DeviceChanges

LEMMA IInvNext == IInv /\ [Next]_vars => IInv'
BY TypeNext, CoreNext DEF IInv, Core

LEMMA Invariance == Spec => []IInv
BY InitIInv, IInvNext, PTL DEF Spec

-----------------------------------------------------------------------------
(* What is in flight on a connection that lives ends with the devices.  *)

LastIs(d) == stream # <<>> /\ stream[Len(stream)].list = d

InFlight ==
  /\ pc = "send" => link \in {"dialled", "dead"}
  /\ link = "dialled" => pc = "send" /\ stream = <<>>
  /\ link = "requested" => pc = "status" /\ stream = <<>>
  /\ link = "tracking" => pc \in {"status", "read", "publish", "closing", "closed"}
  /\ link = "tracking" /\ pc = "status" => Len(stream) >= 2 /\ LastIs(devices)
  /\ link = "tracking" /\ pc = "read" =>
       LastIs(devices) \/ (stream = <<>> /\ lastKnownStates = parseDeviceStates(devices))
  /\ link = "tracking" /\ pc = "publish" =>
       LastIs(devices) \/ (stream = <<>> /\ deviceStates = parseDeviceStates(devices))

\* The last message stays when the first of several is read.
LEMMA LastStays ==
  ASSUME NEW m \in Seq(Message), Len(m) >= 2
  PROVE  /\ Tail(m) # <<>> /\ Len(Tail(m)) = Len(m) - 1
         /\ Tail(m)[Len(Tail(m))] = m[Len(m)]
<1>1. Len(Tail(m)) = Len(m) - 1
  OBVIOUS
<1>2. Tail(m)[Len(m) - 1] = m[Len(m)]
  OBVIOUS
<1> QED BY <1>1, <1>2

LEMMA OnlyMessage ==
  ASSUME NEW m \in Seq(Message), Len(m) = 1
  PROVE  Tail(m) = <<>> /\ Head(m) = m[Len(m)]
<1>1. Tail(m) \in Seq(Message) /\ Len(Tail(m)) = 0
  <2>1. m # <<>>
    BY EmptySeq
  <2>2. Len(Tail(m)) = Len(m) - 1
    BY <2>1
  <2> QED BY <2>1, <2>2
<1>2. Tail(m) = <<>>
  BY <1>1, EmptySeq
<1> QED BY <1>2

LEMMA InFlightNext == ASSUME IInv, InFlight, [Next]_vars PROVE InFlight'
<1> USE DEF local, consumer, server, environment
<1>0. TypeOK
  BY DEF IInv
<1>1. stream \in Seq(Message)
  BY <1>0 DEF TypeOK
<1>2. CASE Dial \/ Redial
  BY <1>2 DEF Dial, Redial, Connect, reportErr, InFlight, LastIs
<1>3. CASE Start
  BY <1>3 DEF Start, reportErr, InFlight
<1>4. CASE SendMessage
  BY <1>4 DEF SendMessage, reportErr, InFlight
<1>5. CASE ReadStatus
  <2>1. CASE pc' = "closing"
    BY <1>5, <2>1 DEF ReadStatus, InFlight
  <2>2. CASE pc' # "closing"
    <3>1. pc' = "read" /\ stream # <<>> /\ stream' = Tail(stream) /\ link' = link
      BY <1>5, <2>2 DEF ReadStatus, reportErr
    <3>2. UNCHANGED devices
      BY <1>5 DEF ReadStatus
    <3>3. CASE link = "tracking"
      <4>1. Len(stream) >= 2 /\ LastIs(devices)
        BY <1>5, <3>3 DEF InFlight, ReadStatus
      <4>2. LastIs(devices)'
        BY <1>1, <3>1, <3>2, <4>1, LastStays DEF LastIs
      <4> QED BY <3>1, <3>3, <4>2 DEF InFlight
    <3>4. CASE link # "tracking"
      BY <1>5, <3>1, <3>4 DEF InFlight, ReadStatus
    <3> QED BY <3>3, <3>4
  <2> QED BY <2>1, <2>2
<1>6. CASE ReadMessage
  <2>1. CASE pc' = "closing"
    BY <1>6, <2>1 DEF ReadMessage, InFlight
  <2>2. CASE pc' # "closing"
    <3>1. /\ pc = "read" /\ pc' = "publish" /\ stream # <<>>
          /\ deviceStates' = parseDeviceStates(Head(stream).list)
          /\ stream' = Tail(stream) /\ link' = link /\ devices' = devices
      BY <1>6, <2>2 DEF ReadMessage, reportErr
    <3>2. CASE link = "tracking"
      <4>1. LastIs(devices)
        BY <3>1, <3>2 DEF InFlight
      <4>2. CASE Len(stream) >= 2
        <5>1. LastIs(devices)'
          BY <1>1, <3>1, <4>1, <4>2, LastStays DEF LastIs
        <5> QED BY <3>1, <3>2, <5>1 DEF InFlight
      <4>3. CASE ~(Len(stream) >= 2)
        <5>1. Len(stream) = 1
          <6>1. Len(stream) \in Nat \ {0}
            BY <1>1, <3>1, EmptySeq
          <6>2. \A n \in Nat \ {0} : n >= 2 \/ n = 1
            OBVIOUS
          <6> QED BY <4>3, <6>1, <6>2
        <5>2. Head(stream).list = devices /\ stream' = <<>>
          BY <1>1, <3>1, <4>1, <5>1, OnlyMessage DEF LastIs
        <5>3. parseDeviceStates(devices)' = parseDeviceStates(devices)
          BY <3>1 DEF parseDeviceStates
        <5>4. (stream = <<>> /\ deviceStates = parseDeviceStates(devices))'
          BY <3>1, <5>2, <5>3
        <5> QED BY <3>1, <3>2, <5>4 DEF InFlight
      <4> QED BY <4>2, <4>3
    <3>3. CASE link # "tracking"
      BY <3>1, <3>3 DEF InFlight
    <3> QED BY <3>2, <3>3
  <2> QED BY <2>1, <2>2
<1>7. CASE ReadError
  BY <1>7 DEF ReadError, reportErr, InFlight
<1>8. ASSUME NEW s \in Serials, PublishEvent(s) \/ PublishRemoved(s) PROVE InFlight'
  <2>1. UNCHANGED <<pc, lastKnownStates, deviceStates, server>>
    BY <1>8 DEF PublishEvent, PublishRemoved, Emit
  <2> QED BY <2>1 DEF InFlight, LastIs, parseDeviceStates
<1>9. CASE Published
  <2>1. UNCHANGED <<deviceStates, server>>
    BY <1>9 DEF Published
  <2>2. pc = "publish" => pc' = "read" /\ lastKnownStates' = deviceStates
    BY <1>9 DEF Published
  <2>3. pc # "publish" => pc = "removing" /\ pc' = "restart"
    BY <1>9 DEF Published
  <2> QED BY <2>1, <2>2, <2>3 DEF InFlight, LastIs, parseDeviceStates
<1>10. CASE CloseChan
  BY <1>10 DEF CloseChan, InFlight
<1>11. CASE Shutdown \/ UNCHANGED vars
  <2>1. UNCHANGED <<pc, lastKnownStates, deviceStates, server>>
    BY <1>11 DEF Shutdown, vars
  <2> QED BY <2>1 DEF InFlight, LastIs, parseDeviceStates
<1>12. CASE ServerAnswers
  <2>1. CASE link' = "dead"
    BY <1>12, <2>1 DEF ServerAnswers, InFlight
  <2>2. CASE link' # "dead"
    <3>1. /\ link' = "tracking" /\ pc = "status" /\ pc' = pc /\ devices' = devices
          /\ stream' = <<StatusMessage("OKAY"), ListMessage(devices)>>
      BY <1>12, <2>2 DEF ServerAnswers, InFlight
    <3>2. (Len(stream) >= 2 /\ LastIs(devices))'
      BY <3>1 DEF LastIs, ListMessage
    <3> QED BY <3>1, <3>2 DEF InFlight
  <2> QED BY <2>1, <2>2
<1>13. ASSUME NEW s \in Serials, NEW state \in Listable \cup {NotListed}, DeviceChanges(s, state)
       PROVE  InFlight'
  <2>1. UNCHANGED <<environment, link>>
    BY <1>13 DEF DeviceChanges
  <2>2. CASE link = "tracking"
    <3>1. stream' = Append(stream, ListMessage(devices'))
      BY <1>13, <2>2 DEF DeviceChanges
    <3>2. ListMessage(devices') \in Message
      <4>1. devices' \in Lists
        BY <1>0, <1>13 DEF DeviceChanges, TypeOK, Lists
      <4> QED BY <4>1 DEF ListMessage, Message
    <3>3. Len(stream') = Len(stream) + 1 /\ stream'[Len(stream')] = ListMessage(devices')
      BY <1>1, <3>1, <3>2
    <3>4. LastIs(devices)'
      BY <1>1, <3>1, <3>2, <3>3 DEF LastIs, ListMessage
    <3>5. Len(stream) \in Nat
      BY <1>1
    <3> QED BY <2>1, <2>2, <3>3, <3>4, <3>5 DEF InFlight
  <2>3. CASE link # "tracking"
    <3>1. UNCHANGED stream
      BY <1>13, <2>3 DEF DeviceChanges
    <3> QED BY <2>1, <2>3, <3>1 DEF InFlight
  <2> QED BY <2>2, <2>3
<1>14. CASE ServerDies
  <2>1. link' \in {"none", "dead"} /\ (link # "none" => link' = "dead")
    BY <1>14 DEF ServerDies
  <2>2. pc' = pc
    BY <1>14 DEF ServerDies
  <2> QED BY <2>1, <2>2 DEF InFlight
<1>15. CASE ServerStartedElsewhere
  BY <1>15 DEF ServerStartedElsewhere, InFlight, LastIs, parseDeviceStates
<1> QED
  BY <1>2, <1>3, <1>4, <1>5, <1>6, <1>7, <1>8, <1>9, <1>10, <1>11, <1>12, <1>13,
     <1>14, <1>15 DEF Next, Watcher, Server

-----------------------------------------------------------------------------
(* The theorems. *)

\* TypeOK, for any serials, states and bounds: what publishDevices keeps in its
\* maps, sends on eventChan and stores as its error stays in range.
THEOREM TypeCorrect == Spec => []TypeOK
BY Invariance, PTL DEF IInv

\* ViewTracksLastKnown: calculateStateDiffs and the removals after the death of
\* a server always start from what the consumer was told.
THEOREM NeverStale == Spec => []ViewTracksLastKnown
BY Invariance, PTL DEF IInv

\* NoGhosts: between the loss of a server and the first list of the next one the
\* consumer of publishDevices believes in no device.
THEOREM GhostFree == Spec => []NoGhosts
<1>1. IInv => NoGhosts
  BY DEF IInv, NothingKnown, ViewTracksLastKnown, NoGhosts, StateIn, NoDevices
<1> QED BY <1>1, Invariance, PTL

\* CaughtUp: a watcher that has read all a live server sent has told its consumer
\* the state of every device (publishDevicesUntilError).
THEOREM NothingMissed == Spec => []CaughtUp
<1>1. Init => InFlight
  BY DEF Init, InFlight
<1>2. IInv /\ InFlight => CaughtUp
  BY DEF IInv, InFlight, LastIs, ViewTracksLastKnown, CaughtUp
<1>3. IInv /\ InFlight /\ [Next]_vars => InFlight'
  BY InFlightNext
<1> QED BY <1>1, <1>2, <1>3, Invariance, PTL DEF Spec

\* Implements: publishDevices sends events that chain per device and change it,
\* stores one error, and closes the channel after it.
THEOREM Refinement == Spec => Implements
<1>1. Init => Events!Init
  BY DEF Init, Events!Init
<1>2. IInv /\ [Next]_vars => [Events!Next]_(Events!vars)
  <2> SUFFICES ASSUME IInv, [Next]_vars PROVE [Events!Next]_(Events!vars)
    OBVIOUS
  <2> USE DEF local, consumer, server, environment
  <2>1. ASSUME reportErr("dial") \/ reportErr("start") \/ reportErr("send")
               \/ reportErr("status") \/ reportErr("parse") \/ reportErr("read")
               \/ reportErr("killed"),
               pc \notin {"closing", "closed"}, UNCHANGED consumer
        PROVE  Events!Fail
    BY <2>1 DEF reportErr, Events!Fail, IInv, ErrStored
  <2>2. ASSUME UNCHANGED <<consumer, err>>, (pc = "closed") <=> (pc' = "closed")
        PROVE  UNCHANGED Events!vars
    BY <2>2 DEF Events!vars
  <2>3. CASE Dial
    BY <2>1, <2>2, <2>3 DEF Dial, Connect, Events!Next, reportErr
  <2>4. CASE Redial
    BY <2>1, <2>2, <2>4 DEF Redial, Connect, Events!Next, reportErr
  <2>5. CASE Start
    BY <2>1, <2>2, <2>5 DEF Start, Events!Next, reportErr
  <2>6. CASE SendMessage
    BY <2>1, <2>2, <2>6 DEF SendMessage, Events!Next, reportErr
  <2>7. CASE ReadStatus
    BY <2>1, <2>2, <2>7 DEF ReadStatus, Events!Next, reportErr
  <2>8. CASE ReadMessage
    BY <2>1, <2>2, <2>8 DEF ReadMessage, Events!Next, reportErr
  <2>9. CASE ReadError
    BY <2>1, <2>2, <2>9 DEF ReadError, Events!Next, reportErr
  <2>10. ASSUME NEW s \in Serials, PublishEvent(s) PROVE Events!Next
    <3>1. /\ view[s] = StateIn(lastKnownStates, s)
          /\ StateIn(deviceStates, s) # StateIn(lastKnownStates, s)
      BY <2>10 DEF IInv, ViewTracksLastKnown, PublishEvent, PendingAreChanges, Diffs,
         NoneDisconnected, StateIn
    <3>2. StateIn(deviceStates, s) \in DeviceStates
      BY StateInType DEF IInv, TypeOK
    <3>3. Events!Report(s, StateIn(deviceStates, s))
      BY <2>10, <3>1 DEF Events!Report, PublishEvent, Emit, IInv, ErrStored
    <3> QED BY <3>2, <3>3 DEF Events!Next
  <2>11. ASSUME NEW s \in Serials, PublishRemoved(s) PROVE Events!Next
    <3>1. view[s] = lastKnownStates[s] /\ view[s] # "StateDisconnected"
      BY <2>11 DEF IInv, ViewTracksLastKnown, PublishRemoved, PendingAreChanges, Listed,
         NoneDisconnected, StateIn
    <3>2. Events!Report(s, "StateDisconnected")
      BY <2>11, <3>1 DEF Events!Report, PublishRemoved, Emit, IInv, ErrStored
    <3> QED BY <3>2 DEF Events!Next, DeviceStates
  <2>12. CASE Published
    BY <2>2, <2>12 DEF Published
  <2>13. CASE CloseChan
    BY <2>13 DEF CloseChan, Events!Next, Events!Close, IInv, ErrStored
  <2>14. CASE Shutdown
    BY <2>2, <2>14 DEF Shutdown
  <2>15. CASE UNCHANGED environment
    BY <2>2, <2>15
  <2>16. CASE UNCHANGED vars
    BY <2>15, <2>16 DEF vars
  <2> QED
    BY <2>3, <2>4, <2>5, <2>6, <2>7, <2>8, <2>9, <2>10, <2>11, <2>12, <2>13, <2>14,
       <2>15, <2>16 DEF Next, Watcher, Server, ServerAnswers, ServerDies,
       ServerStartedElsewhere, DeviceChanges
<1> QED
  BY <1>1, <1>2, Invariance, PTL DEF Spec, Implements, Events!Spec
=============================================================================
