------------------------------ MODULE Batching ------------------------------
(***************************************************************************)
(* MkdirsWithParent and Rm (sync.go): a list of paths is given to the      *)
(* device in several commands, each of which must fit in one message of    *)
(* wire/conn.go.  A path is a model value with a length; paths with        *)
(* whitespace get two quotes in prepareCommandLine (device.go), paths with *)
(* a double quote are refused there.                                       *)
(***************************************************************************)
EXTENDS Integers, Sequences, SequencesExt

CONSTANTS Path,        \* paths of the device
          Length,      \* their lengths
          Spaced,      \* those with whitespace
          DoubleQuoted,\* those with a double quote
          Budget,      \* 4000 for mkdir, 32768 - 7 for rm
          Overhead,    \* the length of "shell:mkdir -p" and of "shell:rm -rf"
          MaxPayload,  \* wire.MaxPayloadV1Length
          MaxList      \* bound: length of the list

Ops == {"mkdir", "rm"}

ASSUME LengthAssumption == Length \in [Path -> Nat \ {0}]
ASSUME SubsetAssumption == Spaced \subseteq Path /\ DoubleQuoted \subseteq Path
ASSUME NumberAssumption ==
  Budget \in [Ops -> Nat] /\ Overhead \in [Ops -> Nat] /\ MaxPayload \in Nat /\ MaxList \in Nat

VARIABLES op,          \* which of the two functions runs
          list,        \* the argument
          rest,        \* what the loop has not taken yet
          commands,    \* the paths of the command being put together
          commandsLen,
          requestLen,  \* the length of the message that command would make
          ran,         \* the paths of all commands that were run, in order
          failures,    \* the paths whose error line is in errs, and "usage"
          exists,      \* external: the paths that exist on the device
          lost,        \* a connection was lost: its output ended early, without an error
          behind,      \* external: <<q, p>> if a mkdir stopped at path q and left out p
          outcome

vars == <<op, list, rest, commands, commandsLen, requestLen, ran, failures, exists, lost, behind, outcome>>

Outcomes == {"running", "nil", "errs", "quote", "toolong", "failed"}
Needs(p) == Length[p] + 1 + (IF p \in Spaced THEN 2 ELSE 0)

Init ==
  /\ op \in Ops
  /\ list \in BoundedSeq(Path, MaxList)
  /\ rest = list
  /\ commands = <<>> /\ commandsLen = 0 /\ requestLen = Overhead[op]
  /\ ran = <<>> /\ failures = {} /\ lost = FALSE /\ behind = {}
  /\ exists \in SUBSET Path
  /\ outcome = "running"

(***************************************************************************)
(* RunCommandTimeout with the paths in commands.                           *)
(***************************************************************************)
QuoteRefused == \E p \in ToSet(commands) : p \in DoubleQuoted
LengthRefused == requestLen > MaxPayload
Accepted == ~QuoteRefused /\ ~LengthRefused

\* the mutant: the filter keeps the wrong lines
Printed_OnlyExisting(bad) ==
  IF commands = <<>> THEN {"usage"} ELSE IF op = "mkdir" THEN bad \cap exists ELSE bad

\* External: the command has been carried out for the paths in done, and printed a
\* line for each path in bad; the line of a path that exists already is left out
\* by filterFileExistedError.  A command without paths prints how it is used.
Printed(bad) ==
  IF commands = <<>> THEN {"usage"} ELSE IF op = "mkdir" THEN bad \ exists ELSE bad

Effect(done, bad) ==
  exists' = IF op = "mkdir" THEN exists \cup (done \ bad) ELSE exists \ (done \ bad)

Stop(why) ==
  /\ outcome' = why
  /\ UNCHANGED <<op, list, rest, commands, commandsLen, requestLen, ran, failures, lost, behind>>

\* prepareCommandLine or SendMessage refuses the command
Refuse ==
  /\ \/ QuoteRefused /\ Stop("quote")
     \/ ~QuoteRefused /\ LengthRefused /\ Stop("toolong")
  /\ UNCHANGED exists

\* no connection, no status, or a timeout, with any part of the work done
Fail ==
  /\ Accepted /\ Stop("failed")
  /\ \E done \in SUBSET ToSet(commands) : Effect(done, {})

\* the command went through all of its paths
WentOn ==
  \E bad \in SUBSET ToSet(commands) :
     /\ failures' = failures \cup Printed(bad)
     /\ Effect(ToSet(commands), bad) /\ UNCHANGED <<lost, behind>>

\* the mkdir of Android 5.1 stops at the first path that fails, with a line about
\* that one only, be it that the path exists (sync.go:61-78)
StoppedAt(n) ==
  LET made == {commands[i] : i \in 1..(n - 1)}
      left == {commands[i] : i \in (n + 1)..Len(commands)}
  IN  /\ op = "mkdir"
      /\ failures' = failures \cup (Printed({commands[n]}) \ made)
      /\ Effect(made, {})
      /\ behind' = behind \cup ({commands[n]} \X left) /\ UNCHANGED lost

\* the connection was lost, which looks like the end of the output
CutShort ==
  /\ lost' = TRUE /\ UNCHANGED <<failures, behind>>
  /\ \E done \in SUBSET ToSet(commands) : Effect(done, {})

\* the output has been read to its end
Answer ==
  /\ Accepted /\ ran' = ran \o commands
  /\ WentOn \/ (\E n \in 1..Len(commands) : StoppedAt(n)) \/ CutShort

(***************************************************************************)
(* The loop.  A path that does not fit any more is put, without another    *)
(* check, into a new command once the current one has run.                 *)
(***************************************************************************)
Fits(p) == commandsLen + Length[p] <= Budget[op]

\* the mutant: the space between two paths is not counted
Take_NoSpace ==
  /\ outcome = "running" /\ rest # <<>> /\ Fits(Head(rest))
  /\ commands' = Append(commands, Head(rest))
  /\ commandsLen' = commandsLen + Length[Head(rest)]
  /\ requestLen' = requestLen + Needs(Head(rest))
  /\ rest' = Tail(rest)
  /\ UNCHANGED <<op, list, ran, failures, exists, lost, behind, outcome>>

Take ==
  /\ outcome = "running" /\ rest # <<>> /\ Fits(Head(rest))
  /\ commands' = Append(commands, Head(rest))
  /\ commandsLen' = commandsLen + Length[Head(rest)] + 1
  /\ requestLen' = requestLen + Needs(Head(rest))
  /\ rest' = Tail(rest)
  /\ UNCHANGED <<op, list, ran, failures, exists, lost, behind, outcome>>

\* the mutant: the path that did not fit is dropped with the command before it
Flush_Drops ==
  /\ outcome = "running" /\ rest # <<>> /\ ~Fits(Head(rest))
  /\ Answer
  /\ commands' = <<>> /\ commandsLen' = 0 /\ requestLen' = Overhead[op]
  /\ rest' = Tail(rest)
  /\ UNCHANGED <<op, list, outcome>>

Flush ==
  /\ outcome = "running" /\ rest # <<>> /\ ~Fits(Head(rest))
  /\ Answer
  /\ commands' = <<Head(rest)>>
  /\ commandsLen' = Length[Head(rest)] + 1
  /\ requestLen' = Overhead[op] + Needs(Head(rest))
  /\ rest' = Tail(rest)
  /\ UNCHANGED <<op, list, outcome>>

\* a command that cannot be run ends the call; what earlier commands printed is
\* not reported then
Abandon ==
  /\ outcome = "running"
  /\ IF rest = <<>> THEN commandsLen > 0 ELSE ~Fits(Head(rest))
  /\ Refuse \/ Fail

Finish ==
  /\ outcome = "running" /\ rest = <<>>
  /\ IF commandsLen > 0 THEN Answer ELSE UNCHANGED <<ran, failures, exists, lost, behind>>
  /\ outcome' = IF failures' = {} THEN "nil" ELSE "errs"
  /\ commands' = <<>> /\ commandsLen' = 0 /\ requestLen' = Overhead[op]
  /\ UNCHANGED <<op, list, rest>>

Next == Take \/ Flush \/ Abandon \/ Finish

Spec == Init /\ [][Next]_vars

-----------------------------------------------------------------------------
TypeOK ==
  /\ op \in Ops /\ list \in Seq(Path) /\ rest \in Seq(Path)
  /\ commands \in Seq(Path) /\ ran \in Seq(Path)
  /\ commandsLen \in Nat /\ requestLen \in Nat
  /\ failures \subseteq Path \cup {"usage"} /\ exists \subseteq Path
  /\ lost \in BOOLEAN /\ behind \subseteq Path \X Path /\ outcome \in Outcomes

\* No path is lost, repeated or moved where one command ends and the next begins.
Conserved == ran \o commands \o rest = list

\* What is run is all of the list when the call returns without an error of the
\* transport (MkdirsWithParent and Rm go through the whole list).
AllRun == outcome \in {"nil", "errs"} => ran = list

\* When the budget leaves room for the overhead in a message, as mkdir's does, a
\* command is too long only if it holds a path with whitespace, whose quotes the
\* budget does not count, or one longer than the budget (sync.go:104-106).
OnlyOddPathsTooLong ==
  outcome = "toolong" /\ Overhead[op] + Budget[op] + 1 <= MaxPayload =>
     \E p \in ToSet(commands) : p \in Spaced \/ Length[p] > Budget[op]

\* A path is gone, or is there; or a mkdir stopped before it at a path that is there.
Settled(p) ==
  IF op = "rm" THEN p \notin exists
  ELSE p \in exists \/ \E q \in exists : <<q, p>> \in behind

\* Without an error every path is there, or for Rm is gone, unless the device was
\* lost, which RunCommandTimeout cannot tell from the end of the command, or its
\* mkdir stops at the first path that fails: then only the paths behind one that
\* exists may be missing, whose line is left out (sync.go:79, 106-136).
DoneTrue == outcome = "nil" /\ ~lost => \A p \in ToSet(list) : Settled(p)
=============================================================================
