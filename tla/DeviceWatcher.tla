--------------------------- MODULE DeviceWatcher ---------------------------
(***************************************************************************)
(* The goroutine behind a DeviceWatcher (publishDevices), one connection   *)
(* to the adb server that it opens, loses and reopens, and the server it   *)
(* watches.  The consumer of C() is folded into the send on the unbuffered *)
(* eventChan: view and event are what it has received.                     *)
(***************************************************************************)
EXTENDS Naturals, Sequences

CONSTANTS
  Serials,      \* serial numbers of the devices that come and go
  Listable,     \* the state strings the server writes in a device list
  MaxChanges,   \* bound: changes of the devices the server sees
  MaxDeaths,    \* bound: deaths of the server
  MaxInFlight   \* bound: messages written to the connection and not yet read

NotListed == "NotListed"
Blank == ""      \* the state string of no device

\* The server never lists a device without a state.
ASSUME ListableAssumption == Blank \notin Listable /\ NotListed \notin Listable
ASSUME BoundsAssumption ==
  /\ MaxChanges \in Nat /\ MaxDeaths \in Nat /\ MaxInFlight \in Nat

VARIABLES
  autoStart,        \* ServerConfig.AutoStart
  pc,               \* where publishDevices is
  lastKnownStates,  \* the states the watcher believes its consumer knows
  deviceStates,     \* the states of the list being published
  pending,          \* the serials whose event of this list is not yet sent
  conns,            \* connections opened and not closed
  err,              \* deviceWatcherImpl.err
  shutdown,         \* Shutdown was called
  view, event,      \* what the consumer knows, and the event it received last
  serverUp,         \* an adb server listens
  devices,          \* the devices it sees, as state strings
  link,             \* the watcher's newest connection, seen from the server
  stream,           \* the messages in flight to the watcher
  ending,           \* the error a read of the dead connection ends with
  changes, deaths   \* count DeviceChanges and ServerDies for their bounds

server   == <<serverUp, devices, link, stream, ending, changes, deaths>>
consumer == <<view, event>>
local    == <<lastKnownStates, deviceStates, pending>>
vars == <<autoStart, pc, local, conns, err, shutdown, consumer, server>>

-----------------------------------------------------------------------------
DeviceStates ==
  {"StateInvalid", "StateUnauthorized", "StateAuthorizing",
   "StateDisconnected", "StateOffline", "StateOnline", "StateHost"}

parseDeviceState(str) ==
  CASE str = Blank          -> "StateDisconnected"
    [] str = "offline"      -> "StateOffline"
    [] str = "device"       -> "StateOnline"
    [] str = "unauthorized" -> "StateUnauthorized"
    [] str = "authorizing"  -> "StateAuthorizing"
    [] str = "host"         -> "StateHost"
    [] OTHER                -> "StateInvalid"

\* The map of a list: a serial that is not listed is not a key.
parseDeviceStates(list) ==
  [s \in Serials |-> IF list[s] = NotListed THEN NotListed
                                            ELSE parseDeviceState(list[s])]

Listed(list) == {s \in Serials : list[s] # NotListed}

\* Every line overwrites err, so only the state of the last line can fail the
\* list, and the server writes the lines in an order of its own.
MayFailToParse(list) ==
  \E last \in Listed(list) : parseDeviceState(list[last]) = "StateInvalid"
MayParse(list) ==
  \/ Listed(list) = {}
  \/ \E last \in Listed(list) : parseDeviceState(list[last]) # "StateInvalid"

NoDevices == [s \in Serials |-> NotListed]

\* What the consumer should take a device of a states map for.
StateIn(states, s) ==
  IF states[s] = NotListed THEN "StateDisconnected" ELSE states[s]

\* Mutants: devices that left the list are not looked for; an event for every
\* device of both lists, changed or not.
Diffs_NoRemoved(old, new) == {s \in Listed(new) : old[s] # new[s]}
Diffs_Unchanged(old, new) == Listed(old) \cup Listed(new)

\* The serials with an event in calculateStateDiffs(old, new).
Diffs(old, new) == {s \in Serials : old[s] # new[s]}

-----------------------------------------------------------------------------
Init ==
  /\ autoStart \in BOOLEAN
  /\ pc = "dial"
  /\ lastKnownStates = NoDevices /\ deviceStates = NoDevices /\ pending = {}
  /\ conns = 0 /\ err = "nil" /\ shutdown = FALSE
  /\ view = [s \in Serials |-> "StateDisconnected"] /\ event = <<>>
  /\ serverUp \in BOOLEAN /\ devices = NoDevices
  /\ link = "none" /\ stream = <<>> /\ ending = "none"
  /\ changes = 0 /\ deaths = 0

reportErr(e) == err' = e /\ pc' = "closing"

\* A connection of this watcher to a server that listens.
Connect ==
  /\ serverUp
  /\ link' = "dialled" /\ stream' = <<>> /\ ending' = "none"
  /\ conns' = conns + 1
  /\ pc' = "send"
  /\ UNCHANGED <<err, serverUp, devices, changes, deaths>>

\* realServer.Dial: a first attempt, a start of the server, a second attempt.
Dial ==
  /\ pc = "dial"
  /\ \/ Connect
     \/ /\ ~serverUp
        /\ IF autoStart THEN pc' = "dialStart" /\ UNCHANGED err
                        ELSE reportErr("dial")
        /\ UNCHANGED <<conns, server>>
  /\ UNCHANGED <<autoStart, local, shutdown, consumer>>

Redial ==
  /\ pc = "redial"
  /\ \/ Connect
     \/ ~serverUp /\ reportErr("dial") /\ UNCHANGED <<conns, server>>
  /\ UNCHANGED <<autoStart, local, shutdown, consumer>>

\* Mutant: a restarted server is not dialled again.
Start_NoRedial ==
  /\ pc \in {"dialStart", "restart"}
  /\ serverUp' = TRUE
  /\ pc' = IF pc = "dialStart" THEN "redial" ELSE "read"
  /\ UNCHANGED <<autoStart, local, conns, err, shutdown, consumer,
                 devices, link, stream, ending, changes, deaths>>

\* realServer.Start, between the two attempts of Dial or after a lost server.
Start ==
  /\ pc \in {"dialStart", "restart"}
  /\ \/ /\ serverUp' = TRUE
        /\ pc' = IF pc = "dialStart" THEN "redial" ELSE "dial"
        /\ UNCHANGED err
     \/ reportErr("start") /\ UNCHANGED serverUp
  /\ UNCHANGED <<autoStart, local, conns, shutdown, consumer,
                 devices, link, stream, ending, changes, deaths>>

\* A write to a connection that has just died may still be accepted.
SendMessage ==
  /\ pc = "send"
  /\ \/ /\ pc' = "status"
        /\ link' = IF link = "dead" THEN "dead" ELSE "requested"
        /\ UNCHANGED <<err, conns>>
     \/ link = "dead" /\ reportErr("send") /\ conns' = conns - 1 /\ UNCHANGED link
  /\ UNCHANGED <<autoStart, local, shutdown, consumer,
                 serverUp, devices, stream, ending, changes, deaths>>

ReadStatus ==
  /\ pc = "status"
  /\ \/ /\ stream # <<>> /\ Head(stream).id = "OKAY"
        /\ pc' = "read"
        /\ UNCHANGED <<err, conns>>
     \/ /\ IF stream = <<>> THEN link = "dead" ELSE Head(stream).id = "FAIL"
        /\ reportErr("status")
        /\ conns' = conns - 1
  /\ stream' = IF stream = <<>> THEN <<>> ELSE Tail(stream)
  /\ UNCHANGED <<autoStart, local, shutdown, consumer,
                 serverUp, devices, link, ending, changes, deaths>>

ReadMessage ==
  /\ pc = "read" /\ stream # <<>>
  /\ LET list == Head(stream).list IN
     \/ /\ MayParse(list)
        /\ deviceStates' = parseDeviceStates(list)
        /\ pending' = Diffs(lastKnownStates, deviceStates')
        /\ pc' = "publish"
        /\ UNCHANGED err
     \/ /\ MayFailToParse(list)
        /\ reportErr("parse")
        /\ UNCHANGED <<deviceStates, pending>>
  /\ stream' = Tail(stream)
  /\ UNCHANGED <<autoStart, lastKnownStates, conns, shutdown, consumer,
                 serverUp, devices, link, ending, changes, deaths>>

\* Mutant: the devices of a lost server are not reported removed.
ReadError_NoRemoval ==
  /\ pc = "read" /\ stream = <<>> /\ link = "dead"
  /\ IF ending # "ErrConnectionReset" THEN reportErr("read")
     ELSE IF ~autoStart THEN reportErr("killed")
     ELSE pc' = "restart" /\ UNCHANGED err
  /\ UNCHANGED <<autoStart, local, conns, shutdown, consumer, server>>

\* ReadMessage on a connection that is dead and drained.  The connection is
\* left open whatever happens: finished is never set.
ReadError ==
  /\ pc = "read" /\ stream = <<>> /\ link = "dead"
  /\ IF ending # "ErrConnectionReset" THEN reportErr("read") /\ UNCHANGED pending
     ELSE IF ~autoStart THEN reportErr("killed") /\ UNCHANGED pending
     ELSE /\ pc' = "removing"
          /\ pending' = Listed(lastKnownStates)
          /\ UNCHANGED err
  /\ UNCHANGED <<autoStart, lastKnownStates, deviceStates, conns, shutdown,
                 consumer, server>>

\* One send on eventChan, received.
Emit(s, old, new) ==
  /\ pending' = pending \ {s}
  /\ event' = <<s, old, new>>
  /\ view' = [view EXCEPT ![s] = new]
  /\ UNCHANGED <<autoStart, pc, lastKnownStates, deviceStates, conns, err,
                 shutdown, server>>

\* The events of one list, those of the listed devices first.
PublishEvent(s) ==
  /\ pc = "publish" /\ s \in pending
  /\ deviceStates[s] = NotListed =>
       \A t \in pending : deviceStates[t] = NotListed
  /\ Emit(s, StateIn(lastKnownStates, s), StateIn(deviceStates, s))

PublishRemoved(s) ==
  /\ pc = "removing" /\ s \in pending
  /\ Emit(s, lastKnownStates[s], "StateDisconnected")

\* Mutant: lastKnownStates is not reset once all devices are reported removed.
Published_NoReset ==
  /\ pc \in {"publish", "removing"} /\ pending = {}
  /\ IF pc = "publish" THEN lastKnownStates' = deviceStates /\ pc' = "read"
                       ELSE UNCHANGED lastKnownStates /\ pc' = "restart"
  /\ UNCHANGED <<autoStart, deviceStates, pending, conns, err, shutdown,
                 consumer, server>>

Published ==
  /\ pc \in {"publish", "removing"} /\ pending = {}
  /\ IF pc = "publish" THEN lastKnownStates' = deviceStates /\ pc' = "read"
                       ELSE lastKnownStates' = NoDevices /\ pc' = "restart"
  /\ UNCHANGED <<autoStart, deviceStates, pending, conns, err, shutdown,
                 consumer, server>>

\* The deferred close of eventChan.
CloseChan ==
  /\ pc = "closing" /\ pc' = "closed"
  /\ UNCHANGED <<autoStart, local, conns, err, shutdown, consumer, server>>

\* Shutdown has no body: only the call is recorded.
Shutdown ==
  /\ ~shutdown /\ shutdown' = TRUE
  /\ UNCHANGED <<autoStart, pc, local, conns, err, consumer, server>>

-----------------------------------------------------------------------------
(* The server and its devices. *)

environment == <<autoStart, pc, local, conns, err, shutdown, consumer>>

ListMessage(list) == [id |-> "LIST", list |-> list]
StatusMessage(status) == [id |-> status, list |-> NoDevices]

ServerAnswers ==
  /\ link = "requested"
  /\ \/ /\ link' = "tracking"
        /\ stream' = <<StatusMessage("OKAY"), ListMessage(devices)>>
     \/ link' = "dead" /\ stream' = <<StatusMessage("FAIL")>>
  /\ UNCHANGED <<environment, serverUp, devices, ending, changes, deaths>>

\* A server that tracks sends the whole list at every change.
DeviceChanges(s, state) ==
  /\ serverUp /\ changes < MaxChanges
  /\ state # devices[s]
  /\ devices' = [devices EXCEPT ![s] = state]
  /\ changes' = changes + 1
  /\ IF link = "tracking"
     THEN /\ Len(stream) < MaxInFlight
          /\ stream' = Append(stream, ListMessage(devices'))
     ELSE UNCHANGED stream
  /\ UNCHANGED <<environment, serverUp, link, ending, deaths>>

\* A prefix of what was in flight is delivered.  A cut between two messages, in
\* a length or inside a body reads as ErrConnectionReset, a cut between the
\* length and the body of a list that is not empty as another error.
ServerDies ==
  /\ serverUp /\ deaths < MaxDeaths
  /\ deaths' = deaths + 1
  /\ serverUp' = FALSE /\ devices' = NoDevices
  /\ IF link \in {"none", "dead"} THEN UNCHANGED <<link, stream, ending>>
     ELSE \E k \in 0..Len(stream) :
            /\ link' = "dead"
            /\ stream' = SubSeq(stream, 1, k)
            /\ \/ ending' = "ErrConnectionReset"
               \/ /\ k < Len(stream) /\ stream[k + 1].list # NoDevices
                  /\ ending' = "EOF"
  /\ UNCHANGED <<environment, changes>>

\* Another client of the machine starts the server.
ServerStartedElsewhere ==
  /\ ~serverUp /\ serverUp' = TRUE
  /\ UNCHANGED <<environment, devices, link, stream, ending, changes, deaths>>

-----------------------------------------------------------------------------
Watcher ==
  \/ Dial \/ Redial \/ Start \/ SendMessage \/ ReadStatus
  \/ ReadMessage \/ ReadError
  \/ \E s \in Serials : PublishEvent(s) \/ PublishRemoved(s)
  \/ Published \/ CloseChan

Server ==
  \/ ServerAnswers \/ ServerDies \/ ServerStartedElsewhere
  \/ \E s \in Serials, state \in Listable \cup {NotListed} : DeviceChanges(s, state)

Next == Watcher \/ Shutdown \/ Server

Spec == Init /\ [][Next]_vars

\* The goroutine is scheduled, its consumer keeps receiving, and a server that
\* lives answers a request.
Fairness == WF_vars(Watcher) /\ WF_vars(ServerAnswers)
FairSpec == Spec /\ Fairness

-----------------------------------------------------------------------------
States == DeviceStates \cup {NotListed}
Lists == [Serials -> Listable \cup {NotListed}]
Message == [id : {"OKAY", "FAIL", "LIST"}, list : Lists]

\* Every variable stays in its range.
TypeOK ==
  /\ autoStart \in BOOLEAN /\ shutdown \in BOOLEAN /\ serverUp \in BOOLEAN
  /\ pc \in {"dial", "dialStart", "redial", "send", "status", "read", "publish",
             "removing", "restart", "closing", "closed"}
  /\ lastKnownStates \in [Serials -> States]
  /\ deviceStates \in [Serials -> States]
  /\ pending \subseteq Serials
  /\ conns \in Nat
  /\ err \in {"nil", "dial", "start", "send", "status", "parse", "read", "killed"}
  /\ view \in [Serials -> DeviceStates]
  /\ event \in {<<>>} \cup (Serials \X DeviceStates \X DeviceStates)
  /\ devices \in Lists
  /\ link \in {"none", "dialled", "requested", "tracking", "dead"}
  /\ stream \in Seq(Message)
  /\ ending \in {"none", "ErrConnectionReset", "EOF"}
  /\ changes \in 0..MaxChanges /\ deaths \in 0..MaxDeaths

\* At every point of the goroutine the consumer's view of a device is exactly
\* the one of lastKnownStates, or, once the device's event of the list being
\* published is sent, the one of that list: an event's OldState is never
\* stale, across reconnections too.
ViewTracksLastKnown ==
  \A s \in Serials :
    view[s] = CASE pc = "publish" /\ s \notin pending -> StateIn(deviceStates, s)
                [] pc = "removing" /\ s \notin pending -> "StateDisconnected"
                [] OTHER -> StateIn(lastKnownStates, s)

\* While no server is being tracked, from the restart to the first list of the
\* new server, the consumer believes in no device of the old one.
NoGhosts ==
  pc \in {"restart", "dial", "dialStart", "redial", "send", "status"} =>
    \A s \in Serials : view[s] = "StateDisconnected"

\* A watcher that has read all a live server sent has told its consumer the
\* state of every device: no change is lost to a diff with a stale map.
CaughtUp ==
  pc = "read" /\ link = "tracking" /\ stream = <<>> =>
    \A s \in Serials : view[s] = StateIn(parseDeviceStates(devices), s)

\* When devices and servers stop changing, the channel is closed, with an
\* error, or the consumer knows the state of every device for good: no death
\* of the server leaves the watcher waiting on a connection nobody serves.
Converges ==
  <>[]( \/ pc = "closed" /\ err # "nil"
        \/ \A s \in Serials : view[s] = StateIn(parseDeviceStates(devices), s))

\* The watcher implements the stream of events it promises.
Events == INSTANCE DeviceEvents
            WITH Disconnected <- "StateDisconnected", open <- (pc # "closed")
Implements == Events!Spec

-----------------------------------------------------------------------------
(* What the documentation says, and the code does not do in every case. *)

\* device_watcher.go:17, "If the server dies while listening for events, it
\* restarts the server": a dead connection is no reason to give up.
DeathIsRetried ==
  [][pc = "read" /\ autoStart /\ link = "dead" /\ stream = <<>>
       => pc' # "closing"]_vars
=============================================================================
