---------------------------- MODULE SessionProofs ----------------------------
(***************************************************************************)
(* Theorems about Session, for any amount of output and of input: TypeOK,  *)
(* ExitStatusTrue, ExitMissingTrue and WaitReleases.                       *)
(***************************************************************************)
EXTENDS Session, SequenceTheorems, TLAPS

Types ==
  /\ Stdin \in {"nil", "reader", "pipe"} /\ Stdout \in {"nil", "writer", "pipe"}
  /\ errorChan \in BOOLEAN /\ abort \in BOOLEAN /\ transport \in BOOLEAN
  /\ handles \subseteq {"stdin", "stdout"} /\ closed \subseteq {"stdin", "stdout"}
  /\ pc \in [Goroutines -> Places] /\ sending \in [Senders -> Errors]
  /\ result \in Errors \cup {"aborted"}
  /\ net \in {"up", "lost", "closed"} /\ inflow \in Seq({"out", "exit"})
  /\ cut \in {"none", "clean", "error"} /\ exited \in {"none", "0", "1"}
  /\ produced \in 0..MaxOutput /\ written \in Nat /\ taken \in 0..MaxInput

LEMMA InitTypes == Init => Types
<1> SUFFICES ASSUME Init PROVE Types
  OBVIOUS
<1>1. pc \in [Goroutines -> Places]
  BY DEF Init, Goroutines, Places
<1>2. sending \in [Senders -> Errors]
  BY DEF Init, Senders, Errors
<1>3. inflow \in Seq({"out", "exit"}) /\ produced \in 0..MaxOutput /\ written \in Nat /\ taken \in 0..MaxInput
  BY BoundsAssumption DEF Init
<1>. QED BY <1>1, <1>2, <1>3 DEF Init, Types, Errors

LEMMA StepTypes == Types /\ [Next]_vars => Types'
<1> SUFFICES ASSUME Types, [Next]_vars PROVE Types'
  OBVIOUS
<1>0. {"caller", "closer", "stdin", "reader"} \subseteq Goroutines /\ Senders \subseteq Goroutines
      /\ {"stdin", "reader"} \subseteq Senders
  BY DEF Goroutines, Senders
<1> USE BoundsAssumption DEF Types, Places, Errors, vars, fields, command, wire
<1>1. CASE StdinPipe
  BY <1>0, <1>1 DEF StdinPipe
<1>2. CASE StdoutPipe
  BY <1>0, <1>2 DEF StdoutPipe
<1>3. CASE StartRequest
  BY <1>0, <1>3 DEF StartRequest, Go
<1>4. CASE StartGoroutines
  <2>1. pc' \in [Goroutines -> Places]
    <3>1. pc \in [Goroutines -> Places]
      BY DEF Types
    <3>2. {"started", "loop", "failed"} \subseteq Places
      OBVIOUS
    <3> HIDE DEF Places
    <3>3. \A f \in [Goroutines -> Places], g \in Goroutines, to \in Places :
             [f EXCEPT ![g] = to] \in [Goroutines -> Places]
      OBVIOUS
    <3>4. /\ [pc EXCEPT !["caller"] = "started"] \in [Goroutines -> Places]
          /\ [pc EXCEPT !["caller"] = "failed"] \in [Goroutines -> Places]
      BY <1>0, <3>1, <3>2, <3>3
    <3>5. [pc EXCEPT !["caller"] = "started", !["reader"] = "loop"] \in [Goroutines -> Places]
      BY <1>0, <3>2, <3>3, <3>4
    <3>6. [pc EXCEPT !["caller"] = "started", !["stdin"] = "loop", !["reader"] = "loop"] \in [Goroutines -> Places]
      BY <1>0, <3>2, <3>3, <3>4
    <3>. QED BY <1>4, <3>4, <3>5, <3>6 DEF StartGoroutines, Go
  <2>2. errorChan' = TRUE /\ abort' = FALSE
    BY <1>4 DEF StartGoroutines
  <2> HIDE DEF Places, Errors
  <2>. QED BY <1>4, <2>1, <2>2 DEF StartGoroutines
<1>5. CASE Wait
  BY <1>0, <1>5 DEF Wait, Go
<1>6. CASE Drain
  BY <1>0, <1>6 DEF Drain, Go
<1>7. ASSUME NEW g \in Senders, Receive(g) PROVE Types'
  <2>1. pc \in [Goroutines -> Places] /\ sending \in [Senders -> Errors] /\ exited \in Errors
        /\ {"close", "done"} \subseteq Places
    OBVIOUS
  <2> HIDE DEF Places, Errors
  <2>2. pc' \in [Goroutines -> Places]
    BY <1>0, <1>7, <2>1 DEF Receive
  <2>3. sending' \in [Senders -> Errors] /\ result' \in Errors \cup {"aborted"}
    BY <1>7, <2>1 DEF Receive
  <2>. QED BY <1>7, <2>2, <2>3 DEF Receive
<1>8. CASE CallClose
  BY <1>0, <1>8 DEF CallClose, Go
<1>9. ASSUME NEW g \in {"caller", "closer"}, CloseAbort(g) PROVE Types'
  BY <1>0, <1>9 DEF CloseAbort, Go
<1>10. ASSUME NEW g \in {"caller", "closer"}, CloseTransport(g) PROVE Types'
  <2>1. pc \in [Goroutines -> Places] /\ {"files", "panic"} \subseteq Places
    OBVIOUS
  <2> HIDE DEF Places, Errors
  <2>2. pc' \in [Goroutines -> Places]
    BY <1>0, <1>10, <2>1 DEF CloseTransport, Go
  <2>3. net' \in {"up", "lost", "closed"} /\ transport' \in BOOLEAN
    BY <1>10 DEF CloseTransport
  <2>4. UNCHANGED <<Stdin, Stdout, errorChan, handles, abort, closed, sending, result,
                    inflow, cut, exited, produced, written, taken>>
    BY <1>10 DEF CloseTransport
  <2>. QED BY <2>2, <2>3, <2>4
<1>11. ASSUME NEW g \in {"caller", "closer"}, CloseFiles(g) PROVE Types'
  BY <1>0, <1>11 DEF CloseFiles, closeFiles, Go
<1>12. CASE StdinLoop
  BY <1>0, <1>12 DEF StdinLoop, Go
<1>13. CASE StdinError
  BY <1>0, <1>13 DEF StdinError, Report, Go
<1>14. CASE StdinSend
  BY <1>0, <1>14 DEF StdinSend, Go
<1>15. CASE StdinSendEOF
  BY <1>0, <1>15 DEF StdinSendEOF, Report, Go
<1>16. CASE StdinData
  BY <1>0, <1>16 DEF StdinData, Go
<1>17. CASE StdinEOF
  BY <1>0, <1>17 DEF StdinEOF, Go
<1>18. CASE ReaderLoop
  BY <1>0, <1>18 DEF ReaderLoop, Report, Go
<1>19. CASE ReadPacket
  BY <1>0, <1>19 DEF ReadPacket, Go
<1>20. CASE ReadError
  BY <1>0, <1>20 DEF ReadError, Report, Go
<1>21. CASE WriteOutput
  BY <1>0, <1>21 DEF WriteOutput, Report, Go
<1>22. CASE ReaderExit
  BY <1>0, <1>22 DEF ReaderExit, closeFiles, Report, Go
<1>23. CASE Output
  BY <1>0, <1>23 DEF Output, session
<1>24. CASE Hangup
  BY <1>0, <1>24 DEF Hangup, session
<1>25. ASSUME NEW status \in {"0", "1"}, Exit(status) PROVE Types'
  BY <1>0, <1>25 DEF Exit, session
<1>26. CASE UNCHANGED vars
  BY <1>26
<1>27. CASE StdinFails
  BY <1>0, <1>27 DEF StdinFails, Report, Go
<1>28. CASE ReadUnexpected
  BY <1>0, <1>28 DEF ReadUnexpected, Report, Go
<1>29. CASE ReadBareExit
  BY <1>0, <1>29 DEF ReadBareExit, Go
<1>. QED BY <1>1, <1>2, <1>3, <1>4, <1>5, <1>6, <1>7, <1>8, <1>9, <1>10, <1>11,
           <1>12, <1>13, <1>14, <1>15, <1>16, <1>17, <1>18, <1>19, <1>20,
           <1>21, <1>22, <1>23, <1>24, <1>25, <1>26, <1>27, <1>28, <1>29
         DEF Next, Caller, Closing, Copier, Reader

-----------------------------------------------------------------------------
(* What Wait leaves behind: a transport that is gone was closed, every     *)
(* pipe is either to be closed or closed, and whoever is about to close    *)
(* the pipes, or has closed them at the end of a Wait, has no transport.   *)

Releases ==
  /\ ~transport => net = "closed"
  /\ Stdin = "pipe" => "stdin" \in handles \cup closed
  /\ Stdout = "pipe" => "stdout" \in handles \cup closed
  /\ pc["caller"] = "files" => ~transport
  /\ pc["closer"] = "files" => ~transport
  /\ pc["caller"] = "done" /\ result # "aborted" => ~transport /\ handles = {}
  /\ pc["caller"] \in {"new", "starting"} => pc["closer"] = "idle"

LEMMA InitReleases == Init => Releases
BY DEF Init, Releases, Goroutines

LEMMA StepReleases == Types /\ Releases /\ [Next]_vars => Releases'
<1> SUFFICES ASSUME Types, Releases, [Next]_vars PROVE Releases'
  OBVIOUS
<1>0. /\ pc \in [Goroutines -> Places] /\ "caller" \in Goroutines /\ "closer" \in Goroutines
      /\ Senders \subseteq Goroutines \ {"caller", "closer"}
      /\ "stdin" \in Goroutines /\ "reader" \in Goroutines
      /\ \A g \in Senders : sending[g] # "aborted"
  BY DEF Types, Goroutines, Senders, Errors
<1> USE DEF Releases, vars, fields, command, wire
<1>1. CASE StdinPipe
  BY <1>0, <1>1 DEF StdinPipe
<1>2. CASE StdoutPipe
  BY <1>0, <1>2 DEF StdoutPipe
<1>3. CASE StartRequest
  BY <1>0, <1>3 DEF StartRequest, Go
<1>4. CASE StartGoroutines
  BY <1>0, <1>4 DEF StartGoroutines, Go
<1>5. CASE Wait
  BY <1>0, <1>5 DEF Wait, Go
<1>6. CASE Drain
  BY <1>0, <1>6 DEF Drain, Go
<1>7. ASSUME NEW g \in Senders, Receive(g) PROVE Releases'
  BY <1>0, <1>7 DEF Receive
<1>8. CASE CallClose
  BY <1>0, <1>8 DEF CallClose, Go
<1>9. ASSUME NEW g \in {"caller", "closer"}, CloseAbort(g) PROVE Releases'
  BY <1>0, <1>9 DEF CloseAbort, Go
<1>10. ASSUME NEW g \in {"caller", "closer"}, CloseTransport(g) PROVE Releases'
  BY <1>0, <1>10 DEF CloseTransport, Go
<1>11. ASSUME NEW g \in {"caller", "closer"}, CloseFiles(g) PROVE Releases'
  BY <1>0, <1>11 DEF CloseFiles, closeFiles, Go
<1>12. CASE StdinLoop
  BY <1>0, <1>12 DEF StdinLoop, Go
<1>13. CASE StdinError
  BY <1>0, <1>13 DEF StdinError, Report, Go
<1>14. CASE StdinSend
  BY <1>0, <1>14 DEF StdinSend, Go
<1>15. CASE StdinSendEOF
  BY <1>0, <1>15 DEF StdinSendEOF, Report, Go
<1>16. CASE StdinData
  BY <1>0, <1>16 DEF StdinData, Go
<1>17. CASE StdinEOF
  BY <1>0, <1>17 DEF StdinEOF, Go
<1>18. CASE ReaderLoop
  BY <1>0, <1>18 DEF ReaderLoop, Report, Go
<1>19. CASE ReadPacket
  BY <1>0, <1>19 DEF ReadPacket, Go
<1>20. CASE ReadError
  BY <1>0, <1>20 DEF ReadError, Report, Go
<1>21. CASE WriteOutput
  BY <1>0, <1>21 DEF WriteOutput, Report, Go
<1>22. CASE ReaderExit
  BY <1>0, <1>22 DEF ReaderExit, closeFiles, Report, Go
<1>23. CASE Output
  BY <1>0, <1>23 DEF Output, session
<1>24. CASE Hangup
  BY <1>0, <1>24 DEF Hangup, session
<1>25. ASSUME NEW status \in {"0", "1"}, Exit(status) PROVE Releases'
  BY <1>0, <1>25 DEF Exit, session
<1>26. CASE UNCHANGED vars
  BY <1>26
<1>27. CASE StdinFails
  BY <1>0, <1>27 DEF StdinFails, Report, Go
<1>28. CASE ReadUnexpected
  BY <1>0, <1>28 DEF ReadUnexpected, Report, Go
<1>29. CASE ReadBareExit
  BY <1>0, <1>29 DEF ReadBareExit, Go
<1>. QED BY <1>1, <1>2, <1>3, <1>4, <1>5, <1>6, <1>7, <1>8, <1>9, <1>10, <1>11,
           <1>12, <1>13, <1>14, <1>15, <1>16, <1>17, <1>18, <1>19, <1>20,
           <1>21, <1>22, <1>23, <1>24, <1>25, <1>26, <1>27, <1>28, <1>29
         DEF Next, Caller, Closing, Copier, Reader

\* When Wait is done nothing of the session is left open (session.go:85-97, 283-296).
THEOREM WaitLeavesNothing == Spec => []WaitReleases
<1>1. Releases => WaitReleases
  BY DEF Releases, WaitReleases
<1>2. Spec => []Types
  BY InitTypes, StepTypes, PTL DEF Spec
<1>3. Spec => []Releases
  BY <1>2, InitReleases, StepReleases, PTL DEF Spec
<1>. QED BY <1>1, <1>3, PTL

-----------------------------------------------------------------------------
(* The packets on their way: output, and the exit packet after it.         *)

Packets == {"out", "exit"}
ExitLast(s) == \A i \in 1..Len(s) : s[i] = "exit" => i = Len(s)
HasExit(s) == s # <<>> /\ s[Len(s)] = "exit"
Outs(s) == IF HasExit(s) THEN Len(s) - 1 ELSE Len(s)

LEMMA OutsNat == \A s \in Seq(Packets) : Outs(s) \in Nat
<1> SUFFICES ASSUME NEW s \in Seq(Packets) PROVE Outs(s) \in Nat
  OBVIOUS
<1>. QED BY EmptySeq DEF Outs, HasExit

LEMMA AppendPacket ==
  ASSUME NEW s \in Seq(Packets), ~HasExit(s), ExitLast(s)
  PROVE  /\ ExitLast(Append(s, "out")) /\ ~HasExit(Append(s, "out"))
         /\ Outs(Append(s, "out")) = Outs(s) + 1
         /\ ExitLast(Append(s, "exit")) /\ HasExit(Append(s, "exit"))
         /\ Outs(Append(s, "exit")) = Outs(s)
<1>1. \A i \in 1..Len(s) : s[i] # "exit"
  BY DEF ExitLast, HasExit
<1>. QED BY <1>1 DEF ExitLast, HasExit, Outs, Packets

LEMMA FirstPacket ==
  ASSUME NEW s \in Seq(Packets), s # <<>>, ExitLast(s)
  PROVE  /\ Head(s) = "out" => /\ ExitLast(Tail(s)) /\ (HasExit(Tail(s)) <=> HasExit(s))
                               /\ Outs(Tail(s)) = Outs(s) - 1
         /\ Head(s) # "out" => Tail(s) = <<>> /\ HasExit(s) /\ Outs(s) = 0
<1> DEFINE t == Tail(s)  n == Len(s)
<1>1. /\ t \in Seq(Packets) /\ Len(t) = n - 1 /\ n \in Nat \ {0}
      /\ \A i \in 1..(n - 1) : t[i] = s[i + 1]
      /\ Head(s) = s[1] /\ s[1] \in Packets
  OBVIOUS
<1> HIDE DEF t
<1>2. Len(s) = n /\ s # <<>> /\ (t = <<>> <=> Len(t) = 0)
  BY <1>1, EmptySeq
<1> HIDE DEF n
<1>3. /\ \A i \in 1..n : s[i] = "exit" => i = n
      /\ HasExit(s) <=> s[n] = "exit"
      /\ Outs(s) = IF s[n] = "exit" THEN n - 1 ELSE n
  BY <1>2 DEF ExitLast, HasExit, Outs
<1>4. /\ HasExit(t) <=> n # 1 /\ t[n - 1] = "exit"
      /\ Outs(t) = IF HasExit(t) THEN (n - 1) - 1 ELSE n - 1
      /\ ExitLast(t) <=> \A i \in 1..(n - 1) : t[i] = "exit" => i = n - 1
      /\ t = <<>> <=> n = 1
  BY <1>1, <1>2 DEF HasExit, Outs, ExitLast
<1>5. CASE Head(s) = "out"
  <2>1. ExitLast(t)
    BY <1>1, <1>3, <1>4
  <2>2. HasExit(t) <=> HasExit(s)
    <3>1. CASE n = 1
      BY <1>1, <1>3, <1>4, <1>5, <3>1
    <3>2. CASE n # 1
      <4>1. n - 1 \in 1..(n - 1) /\ (n - 1) + 1 = n
        BY <1>1, <3>2
      <4>2. t[n - 1] = s[n]
        BY <1>1, <4>1
      <4>. QED BY <1>3, <1>4, <3>2, <4>2
    <3>. QED BY <3>1, <3>2
  <2>3. Outs(t) = Outs(s) - 1
    BY <1>1, <1>3, <1>4, <2>2
  <2>. QED BY <1>5, <2>1, <2>2, <2>3 DEF t
<1>6. CASE Head(s) # "out"
  <2>1. s[1] = "exit"
    BY <1>1, <1>6 DEF Packets
  <2>2. n = 1
    <3>1. 1 \in 1..n
      BY <1>1
    <3>. QED BY <1>3, <2>1, <3>1
  <2>. QED BY <1>1, <1>3, <1>4, <1>6, <2>1, <2>2 DEF t
<1>. QED BY <1>5, <1>6

LEMMA LostPackets ==
  ASSUME NEW s \in Seq(Packets), ExitLast(s), NEW k \in 0..Len(s)
  PROVE  /\ ExitLast(SubSeq(s, 1, k)) /\ Outs(SubSeq(s, 1, k)) <= Outs(s)
         /\ HasExit(SubSeq(s, 1, k)) => HasExit(s) /\ Outs(SubSeq(s, 1, k)) = Outs(s)
<1> DEFINE t == SubSeq(s, 1, k)
<1>1. /\ t \in Seq(Packets) /\ Len(t) = k /\ Len(s) \in Nat
      /\ \A i \in 1..k : t[i] = s[i]
  BY SubSeqProperties
<1> HIDE DEF t
<1>2. ExitLast(t)
  BY <1>1 DEF ExitLast
<1>3. HasExit(t) => k = Len(s) /\ HasExit(s)
  BY <1>1 DEF HasExit, ExitLast
<1>4. Outs(t) <= Outs(s)
  <2>1. CASE k = Len(s)
    <3>1. HasExit(s) => HasExit(t)
      BY <1>1, <2>1 DEF HasExit
    <3>. QED BY <1>1, <1>3, <2>1, <3>1 DEF Outs
  <2>2. CASE k < Len(s)
    BY <1>1, <1>3, <2>2 DEF Outs
  <2>. QED BY <1>1, <2>1, <2>2
<1>5. HasExit(t) => Outs(t) = Outs(s)
  BY <1>1, <1>3 DEF Outs
<1>. QED BY <1>2, <1>3, <1>4, <1>5 DEF t

-----------------------------------------------------------------------------
(* Every packet of output is written, in the hands of the reader, on its   *)
(* way, or lost; none is lost before an exit packet that arrives.          *)

Reads == pc["reader"] \in {"none", "loop", "read", "write"}
InHand == IF pc["reader"] = "write" THEN 1 ELSE 0

Account ==
  /\ ExitLast(inflow) /\ (exited = "none" => ~HasExit(inflow))
  /\ pc["caller"] \in {"new", "starting"} => pc["reader"] = "none"
  /\ pc["reader"] = "none" => produced = 0 /\ written = 0 /\ inflow = <<>> /\ exited = "none"
  /\ written <= produced
  /\ Reads => written + InHand + Outs(inflow) <= produced
  /\ Reads /\ (HasExit(inflow) \/ (net = "up" /\ exited = "none")) =>
       written + InHand + Outs(inflow) = produced
  /\ pc["reader"] = "exit" => exited # "none" /\ written = produced

Reported ==
  /\ sending["reader"] # "none" => pc["reader"] \in {"report", "done"}
  /\ sending["reader"] \in {"0", "1"} => sending["reader"] = exited /\ written = produced
  /\ sending["reader"] = "closeFiles" => exited # "none" /\ written = produced
  /\ sending["reader"] = "ExitMissingError" => abort \/ cut = "clean"
  /\ cut # "none" => net # "up"
  /\ sending["stdin"] \in {"none", "copyStdin", "closeStdin"}
  /\ pc["caller"] \in {"new", "starting", "started", "draining", "drained", "wait"} => result = "none"
  /\ result \in {"0", "1"} => result = exited /\ written = produced

LEMMA InitAccount == Init => Account /\ Reported
<1> SUFFICES ASSUME Init PROVE Account /\ Reported
  OBVIOUS
<1>1. inflow = <<>> /\ ExitLast(inflow) /\ ~HasExit(inflow) /\ Outs(inflow) = 0
  BY DEF Init, ExitLast, HasExit, Outs
<1>. QED BY <1>1 DEF Init, Account, Reported, Reads, InHand, Goroutines, Senders

LEMMA StepAccount == Types /\ Account /\ Reported /\ [Next]_vars => Account'
<1> SUFFICES ASSUME Types, Account, Reported, [Next]_vars PROVE Account'
  OBVIOUS
<1>0. /\ pc \in [Goroutines -> Places]
      /\ {"caller", "closer", "stdin", "reader"} \subseteq Goroutines
      /\ inflow \in Seq(Packets) /\ Outs(inflow) \in Nat /\ written \in Nat /\ produced \in Nat
  BY OutsNat, BoundsAssumption DEF Types, Goroutines, Packets
<1> USE DEF Account, Reads, InHand, vars, fields, command, wire
<1>1. CASE StdinPipe
  BY <1>0, <1>1 DEF StdinPipe
<1>2. CASE StdoutPipe
  BY <1>0, <1>2 DEF StdoutPipe
<1>3. CASE StartRequest
  BY <1>0, <1>3 DEF StartRequest, Go
<1>4. CASE StartGoroutines
  BY <1>0, <1>4 DEF StartGoroutines, Go
<1>5. CASE Wait
  BY <1>0, <1>5 DEF Wait, Go
<1>6. CASE Drain
  BY <1>0, <1>6 DEF Drain, Go
<1>7. ASSUME NEW g \in Senders, Receive(g) PROVE Account'
  BY <1>0, <1>7 DEF Receive, Senders
<1>8. CASE CallClose
  BY <1>0, <1>8 DEF CallClose, Go
<1>9. ASSUME NEW g \in {"caller", "closer"}, CloseAbort(g) PROVE Account'
  BY <1>0, <1>9 DEF CloseAbort, Go
<1>10. ASSUME NEW g \in {"caller", "closer"}, CloseTransport(g) PROVE Account'
  BY <1>0, <1>10 DEF CloseTransport, Go
<1>11. ASSUME NEW g \in {"caller", "closer"}, CloseFiles(g) PROVE Account'
  BY <1>0, <1>11 DEF CloseFiles, closeFiles, Go
<1>12. CASE StdinLoop
  BY <1>0, <1>12 DEF StdinLoop, Go
<1>13. CASE StdinError
  BY <1>0, <1>13 DEF StdinError, Report, Go
<1>14. CASE StdinSend
  BY <1>0, <1>14 DEF StdinSend, Go
<1>15. CASE StdinSendEOF
  BY <1>0, <1>15 DEF StdinSendEOF, Report, Go
<1>16. CASE StdinData
  BY <1>0, <1>16 DEF StdinData, Go
<1>17. CASE StdinEOF
  BY <1>0, <1>17 DEF StdinEOF, Go
<1>18. CASE ReaderLoop
  BY <1>0, <1>18 DEF ReaderLoop, Report, Go
<1>19. CASE ReadPacket
  <2>1. pc["reader"] = "read" /\ inflow # <<>> /\ inflow' = Tail(inflow)
        /\ pc' = [pc EXCEPT !["reader"] = IF Head(inflow) = "out" THEN "write" ELSE "exit"]
        /\ UNCHANGED <<net, exited, written, produced>>
    BY <1>19 DEF ReadPacket, Go
  <2>2. pc'["caller"] = pc["caller"]
        /\ pc'["reader"] = IF Head(inflow) = "out" THEN "write" ELSE "exit"
    BY <1>0, <2>1
  <2>3. CASE Head(inflow) = "out"
    <3>1. /\ ExitLast(inflow') /\ (HasExit(inflow') <=> HasExit(inflow))
          /\ Outs(inflow') = Outs(inflow) - 1
      BY <1>0, <2>1, <2>3, FirstPacket
    <3>. QED BY <1>0, <2>1, <2>2, <2>3, <3>1
  <2>4. CASE Head(inflow) # "out"
    <3>1. inflow' = <<>> /\ HasExit(inflow) /\ Outs(inflow) = 0
      BY <1>0, <2>1, <2>4, FirstPacket
    <3>2. ExitLast(inflow') /\ ~HasExit(inflow')
      BY <3>1 DEF ExitLast, HasExit
    <3>. QED BY <1>0, <2>1, <2>2, <2>4, <3>1, <3>2
  <2>. QED BY <2>3, <2>4
<1>20. CASE ReadError
  BY <1>0, <1>20 DEF ReadError, Report, Go
<1>21. CASE WriteOutput
  BY <1>0, <1>21 DEF WriteOutput, Report, Go
<1>22. CASE ReaderExit
  BY <1>0, <1>22 DEF ReaderExit, closeFiles, Report, Go
<1>23. CASE Output
  <2>1. /\ pc["reader"] # "none" /\ exited = "none" /\ net = "up"
        /\ produced' = produced + 1 /\ inflow' = Append(inflow, "out")
        /\ UNCHANGED <<pc, net, exited, written>>
    BY <1>23 DEF Output, session
  <2>2. /\ ExitLast(inflow') /\ ~HasExit(inflow') /\ Outs(inflow') = Outs(inflow) + 1
    BY <1>0, <2>1, AppendPacket
  <2>. QED BY <1>0, <2>1, <2>2
<1>24. CASE Hangup
  <2>1. net' = "lost" /\ UNCHANGED <<pc, exited, written, produced>>
    BY <1>24 DEF Hangup, session
  <2>2. CASE UNCHANGED inflow
    BY <1>0, <2>1, <2>2
  <2>3. ASSUME NEW k \in 0..Len(inflow), inflow' = SubSeq(inflow, 1, k) PROVE Account'
    <3>1. /\ ExitLast(inflow') /\ Outs(inflow') <= Outs(inflow) /\ inflow' \in Seq(Packets)
          /\ HasExit(inflow') => HasExit(inflow) /\ Outs(inflow') = Outs(inflow)
      BY <1>0, <2>3, LostPackets, SubSeqProperties
    <3>2. Outs(inflow') \in Nat
      BY <3>1, OutsNat
    <3>3. inflow = <<>> => inflow' = <<>>
      BY <1>0, <2>3, SubSeqProperties, EmptySeq
    <3>. QED BY <1>0, <2>1, <3>1, <3>2, <3>3
  <2>. QED BY <1>24, <2>2, <2>3 DEF Hangup
<1>25. ASSUME NEW status \in {"0", "1"}, Exit(status) PROVE Account'
  <2>1. /\ pc["reader"] # "none" /\ exited = "none" /\ net = "up"
        /\ exited' = status /\ inflow' = Append(inflow, "exit")
        /\ UNCHANGED <<pc, net, produced, written>>
    BY <1>25 DEF Exit, session
  <2>2. /\ ExitLast(inflow') /\ HasExit(inflow') /\ Outs(inflow') = Outs(inflow)
    BY <1>0, <2>1, AppendPacket
  <2>. QED BY <1>0, <1>25, <2>1, <2>2
<1>26. CASE UNCHANGED vars
  BY <1>26
<1>27. CASE StdinFails
  BY <1>0, <1>27 DEF StdinFails, Report, Go
<1>28. CASE ReadUnexpected
  BY <1>0, <1>28 DEF ReadUnexpected, Report, Go
<1>29. CASE ReadBareExit
  BY <1>0, <1>29 DEF ReadBareExit, Go
<1>. QED BY <1>1, <1>2, <1>3, <1>4, <1>5, <1>6, <1>7, <1>8, <1>9, <1>10, <1>11,
           <1>12, <1>13, <1>14, <1>15, <1>16, <1>17, <1>18, <1>19, <1>20,
           <1>21, <1>22, <1>23, <1>24, <1>25, <1>26, <1>27, <1>28, <1>29
         DEF Next, Caller, Closing, Copier, Reader

LEMMA StepReported == Types /\ Account /\ Reported /\ [Next]_vars => Reported'
<1> SUFFICES ASSUME Types, Account, Reported, [Next]_vars PROVE Reported'
  OBVIOUS
<1>0. /\ pc \in [Goroutines -> Places] /\ sending \in [Senders -> Errors]
      /\ {"caller", "closer", "stdin", "reader"} \subseteq Goroutines
      /\ {"stdin", "reader"} \subseteq Senders /\ Senders \subseteq {"stdin", "reader"}
      /\ exited \in {"none", "0", "1"} /\ written \in Nat /\ produced \in Nat
      /\ inflow \in Seq(Packets) /\ Outs(inflow) \in Nat
  BY OutsNat, BoundsAssumption DEF Types, Goroutines, Senders, Packets
<1> USE DEF Reported, Account, Reads, InHand, vars, fields, command, wire
<1>1. CASE StdinPipe
  BY <1>0, <1>1 DEF StdinPipe
<1>2. CASE StdoutPipe
  BY <1>0, <1>2 DEF StdoutPipe
<1>3. CASE StartRequest
  BY <1>0, <1>3 DEF StartRequest, Go
<1>4. CASE StartGoroutines
  BY <1>0, <1>4 DEF StartGoroutines, Go
<1>5. CASE Wait
  BY <1>0, <1>5 DEF Wait, Go
<1>6. CASE Drain
  BY <1>0, <1>6 DEF Drain, Go
<1>7. ASSUME NEW g \in Senders, Receive(g) PROVE Reported'
  BY <1>0, <1>7 DEF Receive
<1>8. CASE CallClose
  BY <1>0, <1>8 DEF CallClose, Go
<1>9. ASSUME NEW g \in {"caller", "closer"}, CloseAbort(g) PROVE Reported'
  BY <1>0, <1>9 DEF CloseAbort, Go
<1>10. ASSUME NEW g \in {"caller", "closer"}, CloseTransport(g) PROVE Reported'
  BY <1>0, <1>10 DEF CloseTransport, Go
<1>11. ASSUME NEW g \in {"caller", "closer"}, CloseFiles(g) PROVE Reported'
  BY <1>0, <1>11 DEF CloseFiles, closeFiles, Go
<1>12. CASE StdinLoop
  BY <1>0, <1>12 DEF StdinLoop, Go
<1>13. CASE StdinError
  BY <1>0, <1>13 DEF StdinError, Report, Go
<1>14. CASE StdinSend
  BY <1>0, <1>14 DEF StdinSend, Go
<1>15. CASE StdinSendEOF
  BY <1>0, <1>15 DEF StdinSendEOF, Report, Go
<1>16. CASE StdinData
  BY <1>0, <1>16 DEF StdinData, Go
<1>17. CASE StdinEOF
  BY <1>0, <1>17 DEF StdinEOF, Go
<1>18. CASE ReaderLoop
  BY <1>0, <1>18 DEF ReaderLoop, Report, Go
<1>19. CASE ReadPacket
  BY <1>0, <1>19 DEF ReadPacket, Go
<1>20. CASE ReadError
  BY <1>0, <1>20 DEF ReadError, Report, Go
<1>21. CASE WriteOutput
  BY <1>0, <1>21 DEF WriteOutput, Report, Go
<1>22. CASE ReaderExit
  BY <1>0, <1>22 DEF ReaderExit, closeFiles, Report, Go
<1>23. CASE Output
  BY <1>0, <1>23 DEF Output, session
<1>24. CASE Hangup
  BY <1>0, <1>24 DEF Hangup, session
<1>25. ASSUME NEW status \in {"0", "1"}, Exit(status) PROVE Reported'
  BY <1>0, <1>25 DEF Exit, session
<1>26. CASE UNCHANGED vars
  BY <1>26
<1>27. CASE StdinFails
  BY <1>0, <1>27 DEF StdinFails, Report, Go
<1>28. CASE ReadUnexpected
  BY <1>0, <1>28 DEF ReadUnexpected, Report, Go
<1>29. CASE ReadBareExit
  BY <1>0, <1>29 DEF ReadBareExit, Go
<1>. QED BY <1>1, <1>2, <1>3, <1>4, <1>5, <1>6, <1>7, <1>8, <1>9, <1>10, <1>11,
           <1>12, <1>13, <1>14, <1>15, <1>16, <1>17, <1>18, <1>19, <1>20,
           <1>21, <1>22, <1>23, <1>24, <1>25, <1>26, <1>27, <1>28, <1>29
         DEF Next, Caller, Closing, Copier, Reader

LEMMA AlwaysReported == Spec => [](Types /\ Account /\ Reported)
<1>1. Spec => []Types
  BY InitTypes, StepTypes, PTL DEF Spec
<1>. QED BY <1>1, InitAccount, StepAccount, StepReported, PTL DEF Spec

\* Every variable stays in its range (session.go).
THEOREM TypeCorrect == Spec => []TypeOK
<1>1. Types /\ Account => TypeOK
  BY BoundsAssumption DEF Types, Account, TypeOK
<1>. QED BY <1>1, AlwaysReported, PTL

\* The exit status Wait returns is the command's, and all its output is written
\* (session.go:208-221, 291-296).
THEOREM ExitStatusIsTrue == Spec => []ExitStatusTrue
<1>1. Reported => ExitStatusTrue
  BY DEF Reported, ExitStatusTrue
<1>. QED BY <1>1, AlwaysReported, PTL

\* A missing exit status was never read (session.go:185-192).
THEOREM ExitMissingIsTrue == Spec => ExitMissingTrue
<1>1. Types /\ Reported /\ [Next]_vars =>
        [pc.caller = "wait" /\ ~abort /\ result' = "ExitMissingError" => cut = "clean"]_vars
  <2> SUFFICES ASSUME Types, Reported, Next, pc["caller"] = "wait", ~abort, result' = "ExitMissingError"
               PROVE  cut = "clean"
    OBVIOUS
  <2>1. result = "none"
    BY DEF Reported
  <2>2. ASSUME NEW g \in Senders, Receive(g) PROVE cut = "clean"
    BY <2>2 DEF Receive, Reported, Senders
  <2>3. CASE Wait
    BY <2>3 DEF Wait
  <2>4. result' = result \/ Wait \/ \E g \in Senders : Receive(g)
    BY DEF Next, Caller, Closing, Copier, Reader, StdinPipe, StdoutPipe, StartRequest, StartGoroutines, Drain,
           CallClose, CloseAbort, CloseTransport, CloseFiles, StdinLoop, StdinError, StdinSend, StdinSendEOF,
           StdinFails, ReadUnexpected, ReadBareExit, StdinData, StdinEOF, ReaderLoop, ReadPacket, ReadError, WriteOutput, ReaderExit, Output, Hangup,
           Exit, session
  <2>. QED BY <2>1, <2>2, <2>3, <2>4
<1>. QED BY <1>1, AlwaysReported, PTL DEF Spec, ExitMissingTrue
=============================================================================
