------------------------ MODULE UpgradeRunnerProofs ------------------------
(***************************************************************************)
(* The upgrade runner keeps its invariant, for any number of calls and     *)
(* streams, any capacity of the channels and any output.                   *)
(***************************************************************************)
EXTENDS UpgradeRunner, SequenceTheorems, TLAPS

\* What the handlers' steps read and what the invariant says about streams
\* depends on the sequence of lines only: a line that moves from the channel
\* to the client leaves it as it is (Receive).
LEMMA MovedLine ==
    ASSUME NEW S, NEW g \in Seq(S), NEW q \in Seq(S), q # <<>>
    PROVE  /\ Append(g, Head(q)) \in Seq(S)
           /\ Tail(q) \in Seq(S)
           /\ Len(Tail(q)) = Len(q) - 1
           /\ Append(g, Head(q)) \o Tail(q) = g \o q
<1>1. Len(q) > 0 /\ Head(q) \in S /\ Tail(q) \in Seq(S) /\ Len(Tail(q)) = Len(q) - 1
  BY SMT
<1>2. Append(g, Head(q)) \in Seq(S) /\ Len(Append(g, Head(q))) = Len(g) + 1
  BY <1>1, SMT
<1>3. Len(Append(g, Head(q)) \o Tail(q)) = Len(g \o q)
  BY <1>1, <1>2, SMT
<1>4. ASSUME NEW i \in 1..Len(g \o q)
      PROVE  (Append(g, Head(q)) \o Tail(q))[i] = (g \o q)[i]
  BY <1>1, <1>2, <1>3, SMT
<1>5. (Append(g, Head(q)) \o Tail(q)) \in Seq(S) /\ g \o q \in Seq(S)
  BY <1>1, <1>2, SMT
<1>6. Append(g, Head(q)) \o Tail(q) = g \o q
  BY <1>3, <1>4, <1>5, SeqEqual
<1> QED BY <1>1, <1>2, <1>6

\* A line that is sent to a channel (broadcast) comes after all that the
\* stream has seen.
LEMMA SentLine ==
    ASSUME NEW S, NEW g \in Seq(S), NEW q \in Seq(S), NEW x \in S
    PROVE  /\ Append(q, x) \in Seq(S)
           /\ Len(Append(q, x)) = Len(q) + 1
           /\ g \o Append(q, x) \in Seq(S)
           /\ Len(g \o Append(q, x)) = Len(g \o q) + 1
           /\ \A i \in 1..Len(g \o q) : (g \o Append(q, x))[i] = (g \o q)[i]
           /\ (g \o Append(q, x))[Len(g \o q) + 1] = x
BY SMT

-----------------------------------------------------------------------------
\* A step that leaves the runner, the streams and who is active alone
\* disturbs nothing but the call's own state.
LEMMA QuietStep ==
    ASSUME Inv, CallsTypeOK', FilesHeld', ProcHeld',
           UNCHANGED <<runnerVars, streamVars, sent>>,
           \A d \in Calls : Active(d)' <=> Active(d),
           \A d \in Calls : proc'[d] = "running" => Active(d)
    PROVE  Inv'
<1> USE DEF Inv, runnerVars, streamVars
<1>0. TypeOK'
  BY DEF TypeOK, RunnerTypeOK, StreamsTypeOK
<1>1. OneUpgrade' /\ ClaimantActive'
  BY Zenon DEF OneUpgrade, ClaimantActive
<1>2. StreamsRegistered' /\ ClosedOnce'
  BY Zenon DEF StreamsRegistered, ClosedOnce
<1>a. subscribers' = subscribers /\ from' = from /\ sent' = sent
  OBVIOUS
<1>3. \A s \in Streams : Seen(s)' = Seen(s)
  BY DEF Seen
<1>4. NoGaps'
  <2> SUFFICES ASSUME NEW s \in Streams
               PROVE  /\ \A i \in 1..Len(Seen(s)) :
                           Seen(s)[i][1] \in from[s].call /\ Seen(s)[i][2] = from[s].at + i
                      /\ s \in subscribers =>
                           \A c \in from[s].call :
                               Active(c)' /\ from[s].at + Len(Seen(s)) = sent[c]
    BY <1>3, <1>a DEF NoGaps
  <2>1. from[s].call \subseteq Calls
    BY DEF TypeOK, StreamsTypeOK
  <2> QED BY <2>1, Zenon DEF NoGaps
<1> QED BY <1>0, <1>1, <1>2, <1>4

\* finish closes the channels of all streams and leaves no call active.
LEMMA FinishStep ==
    ASSUME Inv, NEW c \in Calls, Active(c), NEW st \in {"done", "failed"}, Finish(st),
           CallsTypeOK', FilesHeld', ProcHeld', ~Active(c)', UNCHANGED <<claimant, proc, streamVars>>,
           \A d \in Calls \ {c} : call'[d] = call[d],
           proc[c] # "running"
    PROVE  Inv'
<1> USE DEF Inv, streamVars
<1>0. TypeOK'
  BY DEF TypeOK, RunnerTypeOK, StreamsTypeOK, Finish, Close
<1>1. subscribers' = {} /\ state' = st
  BY DEF Finish, Close, TypeOK, RunnerTypeOK
<1>2. \A d \in Calls : Active(d) => d = c
  BY DEF OneUpgrade
<1>3. \A d \in Calls : ~Active(d)'
  BY <1>2 DEF Active
<1>4. OneUpgrade' /\ ClaimantActive'
  BY <1>1, <1>2, <1>3 DEF OneUpgrade, ClaimantActive
<1>5. StreamsRegistered'
  BY <1>1 DEF StreamsRegistered
<1>6. ClosedOnce'
  <2> SUFFICES ASSUME NEW s \in Streams
               PROVE  closes'[s] = IF from[s].call = {} THEN 0 ELSE 1
    BY <1>1 DEF ClosedOnce
  <2>1. closes'[s] = IF s \in subscribers THEN closes[s] + 1 ELSE closes[s]
    BY DEF Finish, Close
  <2> QED BY <2>1 DEF ClosedOnce, StreamsRegistered
<1>7. \A s \in Streams : Seen(s)' = Seen(s)
  BY DEF Seen
<1>8. NoGaps'
  BY <1>1, <1>7 DEF NoGaps
<1> QED BY <1>0, <1>4, <1>5, <1>6, <1>8

\* Claim: a call takes the runner when no other is active.
LEMMA ClaimStep ==
    ASSUME Inv, NEW c \in Calls, Claim(c)
    PROVE  Inv'
<1> USE DEF Inv
<1>1. call[c] = "none" /\ ~Active(c)
  BY DEF Claim, Active, Opening, Collecting
<1>2. TypeOK'
  <2>1. CallsTypeOK'
    BY DEF Claim, To, TypeOK, CallsTypeOK, Opening
  <2>2. RunnerTypeOK'
    BY DEF Claim, TypeOK, RunnerTypeOK
  <2>3. StreamsTypeOK'
    BY DEF Claim, TypeOK, StreamsTypeOK, streamVars
  <2> QED BY <2>1, <2>2, <2>3 DEF TypeOK
<1>3. FilesHeld' /\ ProcHeld'
  BY <1>1 DEF Claim, To, TypeOK, CallsTypeOK, FilesHeld, FilesOf, ProcHeld, Opening, Collecting
<1>4. \A d \in Calls \ {c} : Active(d)' <=> Active(d)
  BY DEF Claim, To, TypeOK, CallsTypeOK, Active
<1>5. proc[c] # "running"
  BY <1>1 DEF OneUpgrade
<1>6. CASE state = "running"
  <2>1. ~Active(c)'
    BY <1>6 DEF Claim, To, TypeOK, CallsTypeOK, Active, Opening, Collecting
  <2>2. UNCHANGED <<runnerVars, streamVars, sent>> /\ proc' = proc
    BY <1>6 DEF Claim, runnerVars, streamVars
  <2>3. \A d \in Calls : proc'[d] = "running" => Active(d)
    BY <2>2 DEF OneUpgrade
  <2> QED BY <1>1, <1>2, <1>3, <1>4, <2>1, <2>2, <2>3, QuietStep DEF TypeOK
<1>7. CASE state # "running"
  <2>1. \A d \in Calls : ~Active(d)
    BY <1>7 DEF OneUpgrade
  <2>2. Active(c)'
    BY <1>7 DEF Claim, To, TypeOK, CallsTypeOK, Active, Opening
  <2>3. state' = "running" /\ claimant' = {c}
    BY <1>7 DEF Claim
  <2>4. OneUpgrade'
    BY <1>4, <1>5, <2>1, <2>2, <2>3 DEF OneUpgrade, Claim
  <2>5. ClaimantActive'
    BY <2>2, <2>3 DEF ClaimantActive
  <2>6. subscribers = {}
    BY <2>1 DEF NoGaps, StreamsRegistered, TypeOK, RunnerTypeOK, StreamsTypeOK
  <2>7. UNCHANGED <<streamVars, subscribers, closes>>
    BY DEF Claim, streamVars
  <2>8. StreamsRegistered' /\ ClosedOnce'
    BY <2>7 DEF StreamsRegistered, ClosedOnce, streamVars
  <2>9. \A s \in Streams : Seen(s)' = Seen(s)
    BY <2>7 DEF Seen, streamVars
  <2>10. NoGaps'
    BY <2>6, <2>7, <2>9 DEF NoGaps, streamVars
  <2> QED BY <1>2, <1>3, <2>4, <2>5, <2>8, <2>10
<1> QED BY <1>6, <1>7

\* Start's preparations, the process and the end of a scan.
LEMMA OwnStep ==
    ASSUME Inv, NEW c \in Calls,
           \/ Prepare(c) \/ StartProcess(c) \/ ScanEnds(c) \/ CloseFiles(c)
           \/ \E kind \in {"line", "long"} : WriteLine(c, kind)
           \/ \E result \in {"succeeded", "failed"} : Exit(c, result)
    PROVE  Inv'
<1> USE DEF Inv
<1>1. UNCHANGED <<runnerVars, streamVars, sent>>
  BY DEF Prepare, StartProcess, ScanEnds, CloseFiles, WriteLine, Exit
<1>2. CASE Prepare(c)
  <2>1. PICK S \in SUBSET Files, phase \in Opening : Open(c, S, phase)
    BY <1>2 DEF Prepare, Opening, Files
  <2>2. CallsTypeOK'
    BY <1>2, <2>1 DEF Prepare, Open, To, TypeOK, CallsTypeOK
  <2>3. ASSUME NEW S1, NEW p, NEW q, call[c] = p, Open(c, S1, q),
               FilesOf(q) = FilesOf(p) \cup S1
        PROVE  FilesHeld'
    BY <2>3 DEF Open, To, TypeOK, CallsTypeOK, FilesHeld
  <2>4. FilesHeld'
    <3>1. CASE call[c] = "build"
      BY <1>2, <2>3, <3>1 DEF Prepare, FilesOf, Collecting
    <3>2. CASE call[c] = "stdin"
      BY <1>2, <2>3, <3>2 DEF Prepare, FilesOf, Collecting
    <3>3. CASE call[c] = "pipe"
      BY <1>2, <2>3, <3>3 DEF Prepare, FilesOf, Collecting
    <3>4. CASE call[c] = "log"
      BY <1>2, <2>3, <3>4 DEF Prepare, FilesOf, Collecting, Files
    <3> QED BY <1>2, <3>1, <3>2, <3>3, <3>4 DEF Prepare
  <2>5. call[c] \in Opening /\ proc' = proc
    BY <1>2 DEF Prepare, Opening
  <2>6. ProcHeld'
    BY <2>1, <2>5 DEF Open, To, TypeOK, CallsTypeOK, ProcHeld, Opening, Collecting
  <2>7. \A d \in Calls : Active(d)' <=> Active(d)
    BY <2>1, <2>5 DEF Open, To, TypeOK, CallsTypeOK, Active
  <2>8. \A d \in Calls : proc'[d] = "running" => Active(d)
    BY <2>5 DEF OneUpgrade
  <2> QED BY <1>1, <2>2, <2>4, <2>6, <2>7, <2>8, QuietStep
<1>3. CASE StartProcess(c)
  <2>1. CallsTypeOK'
    BY <1>3 DEF StartProcess, To, TypeOK, CallsTypeOK, Collecting
  <2>2. FilesHeld' /\ ProcHeld'
    BY <1>3 DEF StartProcess, To, TypeOK, CallsTypeOK, FilesHeld, FilesOf, ProcHeld, Collecting, Files
  <2>3. \A d \in Calls : Active(d)' <=> Active(d)
    BY <1>3 DEF StartProcess, To, TypeOK, CallsTypeOK, Active, Opening, Collecting
  <2>4. \A d \in Calls : proc'[d] = "running" => Active(d)
    BY <1>3 DEF StartProcess, TypeOK, CallsTypeOK, OneUpgrade, Active, Opening
  <2> QED BY <1>1, <2>1, <2>2, <2>3, <2>4, QuietStep
<1>4. CASE ScanEnds(c)
  <2>1. CallsTypeOK'
    BY <1>4 DEF ScanEnds, To, TypeOK, CallsTypeOK, Collecting
  <2>2. FilesHeld' /\ ProcHeld'
    BY <1>4 DEF ScanEnds, To, TypeOK, CallsTypeOK, FilesHeld, FilesOf, ProcHeld, Collecting, Files
  <2>3. \A d \in Calls : Active(d)' <=> Active(d)
    BY <1>4 DEF ScanEnds, To, TypeOK, CallsTypeOK, Active, Collecting
  <2>4. \A d \in Calls : proc'[d] = "running" => Active(d)
    BY <1>4 DEF ScanEnds, OneUpgrade
  <2> QED BY <1>1, <2>1, <2>2, <2>3, <2>4, QuietStep
<1>5. CASE CloseFiles(c)
  <2>1. CallsTypeOK'
    BY <1>5 DEF CloseFiles, To, TypeOK, CallsTypeOK
  <2>2. FilesHeld' /\ ProcHeld'
    BY <1>5 DEF CloseFiles, To, TypeOK, CallsTypeOK, FilesHeld, FilesOf, ProcHeld, Collecting, Files
  <2>3. \A d \in Calls : Active(d)' <=> Active(d)
    BY <1>5 DEF CloseFiles, To, TypeOK, CallsTypeOK, Active, Opening, Collecting
  <2>4. \A d \in Calls : proc'[d] = "running" => Active(d)
    BY <1>5 DEF CloseFiles, OneUpgrade
  <2> QED BY <1>1, <2>1, <2>2, <2>3, <2>4, QuietStep
<1>6. CASE (\E kind \in {"line", "long"} : WriteLine(c, kind))
           \/ \E result \in {"succeeded", "failed"} : Exit(c, result)
  <2>1. call' = call /\ files' = files
    BY <1>6 DEF WriteLine, Exit
  <2>2. CallsTypeOK'
    <3>1. ASSUME NEW kind \in {"line", "long"}, WriteLine(c, kind)
          PROVE  CallsTypeOK'
      <4>1. Append(pipe[c], kind) \in Seq({"line", "long"})
        BY DEF TypeOK, CallsTypeOK
      <4> QED BY <3>1, <4>1 DEF WriteLine, TypeOK, CallsTypeOK
    <3>2. ASSUME NEW result \in {"succeeded", "failed"}, Exit(c, result)
          PROVE  CallsTypeOK'
      BY <3>2 DEF Exit, TypeOK, CallsTypeOK
    <3> QED BY <1>6, <3>1, <3>2
  <2>3. FilesHeld' /\ ProcHeld' /\ \A d \in Calls : Active(d)' <=> Active(d)
    BY <1>6, <2>1 DEF WriteLine, Exit, TypeOK, CallsTypeOK, CallsTypeOK, FilesHeld, ProcHeld, Active, Opening, Collecting
  <2>4. \A d \in Calls : proc'[d] = "running" => Active(d)
    BY <1>6 DEF WriteLine, Exit, TypeOK, CallsTypeOK, OneUpgrade
  <2> QED BY <1>1, <2>2, <2>3, <2>4, QuietStep
<1> QED BY <1>2, <1>3, <1>4, <1>5, <1>6

\* The two ends of an upgrade.
LEMMA EndStep ==
    ASSUME Inv, NEW c \in Calls, StartFails(c) \/ Wait(c)
    PROVE  Inv'
<1> USE DEF Inv
<1>1. Active(c) /\ UNCHANGED <<claimant, proc, streamVars>>
  BY DEF StartFails, Wait, Active, Collecting
<1>2. PICK st \in {"done", "failed"} : Finish(st)
  BY DEF StartFails, Wait
<1>3. \A d \in Calls \ {c} : call'[d] = call[d]
  BY DEF StartFails, Wait, To, TypeOK, CallsTypeOK
<1>4. ~Active(c)'
  BY DEF StartFails, Wait, To, TypeOK, CallsTypeOK, Active, Opening, Collecting
<1>6. CallsTypeOK'
  BY DEF StartFails, Wait, To, TypeOK, CallsTypeOK
<1>7. FilesHeld' /\ ProcHeld'
  <2>1. CASE StartFails(c)
    BY <2>1 DEF StartFails, ClosedOnError, To, TypeOK, CallsTypeOK, FilesHeld, FilesOf, ProcHeld, Opening, Collecting, Files
  <2>2. CASE Wait(c)
    BY <2>2 DEF Wait, To, TypeOK, CallsTypeOK, FilesHeld, FilesOf, ProcHeld, Collecting
  <2> QED BY <2>1, <2>2
<1>8. proc[c] # "running"
  BY DEF StartFails, Wait, Exited, ProcHeld, Opening, Collecting
<1> QED BY <1>1, <1>2, <1>3, <1>4, <1>6, <1>7, <1>8, FinishStep

\* ScanLine: the line goes to the registered streams, which have seen all
\* lines before it; those whose channel is full are dropped.
LEMMA ScanLineStep ==
    ASSUME Inv, NEW c \in Calls, ScanLine(c)
    PROVE  Inv'
<1> USE DEF Inv
<1> DEFINE line == <<c, sent[c] + 1>>
           kept == subscribers \ Full
<1>1. /\ UNCHANGED <<state, claimant, call, files, proc, scanned, stream, got, from>>
      /\ subscribers' = kept
      /\ closes' = [s \in Streams |-> IF s \in Full THEN closes[s] + 1 ELSE closes[s]]
      /\ chan' = [s \in Streams |-> IF s \in kept THEN Append(chan[s], line) ELSE chan[s]]
      /\ sent' = [sent EXCEPT ![c] = sent[c] + 1]
      /\ pipe' = [pipe EXCEPT ![c] = Tail(pipe[c])]
  BY DEF ScanLine, Broadcast, Deliver, Close
<1>2. Active(c) /\ \A d \in Calls : Active(d) => d = c
  BY DEF ScanLine, Active, Collecting, OneUpgrade
<1>3. sent[c] \in Nat /\ line \in Line
  BY DEF TypeOK, CallsTypeOK, Line
<1>4. ASSUME NEW s \in Streams
      PROVE  got[s] \in Seq(Line) /\ chan[s] \in Seq(Line) /\ Len(chan[s]) <= Buffer
  BY DEF TypeOK, StreamsTypeOK
<1>5. ASSUME NEW s \in Streams
      PROVE  chan'[s] \in Seq(Line) /\ Len(chan'[s]) <= Buffer
  <2>1. CASE s \in kept
    <3>1. Len(chan[s]) < Buffer
      BY <1>4, <2>1, BufferAssumption DEF Full
    <3> QED BY <1>1, <1>3, <1>4, <2>1, <3>1, BufferAssumption, SentLine
  <2>2. CASE s \notin kept
    BY <1>1, <1>4, <2>2
  <2> QED BY <2>1, <2>2
<1>6. RunnerTypeOK'
  BY <1>1 DEF TypeOK, RunnerTypeOK
<1>7. CallsTypeOK'
  <2>1. Tail(pipe[c]) \in Seq({"line", "long"})
    BY DEF ScanLine, TypeOK, CallsTypeOK
  <2> QED BY <1>1, <1>3, <2>1 DEF TypeOK, CallsTypeOK
<1>8. StreamsTypeOK'
  <2>1. chan' \in [Streams -> Seq(Line)]
    BY <1>1, <1>5
  <2> QED BY <1>1, <1>5, <2>1 DEF TypeOK, StreamsTypeOK
<1>9. OneUpgrade' /\ ClaimantActive' /\ FilesHeld' /\ ProcHeld'
  BY <1>1 DEF OneUpgrade, ClaimantActive, FilesHeld, ProcHeld, Active
<1>10. StreamsRegistered'
  BY <1>1 DEF StreamsRegistered
<1>11. ClosedOnce'
  BY <1>1 DEF ClosedOnce, StreamsRegistered, Full
<1>12. NoGaps'
  <2> SUFFICES ASSUME NEW s \in Streams
               PROVE  /\ \A i \in 1..Len(Seen(s)') :
                           Seen(s)'[i][1] \in from[s].call /\ Seen(s)'[i][2] = from[s].at + i
                      /\ s \in kept =>
                           \A d \in from[s].call :
                               Active(d)' /\ from[s].at + Len(Seen(s)') = sent'[d]
    BY <1>1 DEF NoGaps
  <2>1. CASE s \in kept
    <3>1. from[s].call = {c} /\ from[s].at \in Nat
      BY <1>2, <2>1 DEF NoGaps, StreamsRegistered, TypeOK, StreamsTypeOK
    <3>2. from[s].at + Len(Seen(s)) = sent[c]
      BY <2>1, <3>1 DEF NoGaps
    <3>3. Seen(s)' = got[s] \o Append(chan[s], line)
      BY <1>1, <2>1 DEF Seen
    <3>4. /\ Seen(s) \in Seq(Line)
          /\ Len(Seen(s)') = Len(Seen(s)) + 1
          /\ \A i \in 1..Len(Seen(s)) : Seen(s)'[i] = Seen(s)[i]
          /\ Seen(s)'[Len(Seen(s)) + 1] = line
      <4>1. Seen(s) = got[s] \o chan[s]
        BY DEF Seen
      <4>2. Seen(s) \in Seq(Line)
        BY <1>4, <4>1
      <4> HIDE DEF line
      <4>3. /\ Len(got[s] \o Append(chan[s], line)) = Len(got[s] \o chan[s]) + 1
            /\ \A i \in 1..Len(got[s] \o chan[s]) :
                 (got[s] \o Append(chan[s], line))[i] = (got[s] \o chan[s])[i]
            /\ (got[s] \o Append(chan[s], line))[Len(got[s] \o chan[s]) + 1] = line
        <5>1. got[s] \in Seq(Line) /\ chan[s] \in Seq(Line) /\ line \in Line
          BY <1>3, <1>4
        <5>2. \A g, q \in Seq(Line), x \in Line :
                /\ Len(g \o Append(q, x)) = Len(g \o q) + 1
                /\ \A i \in 1..Len(g \o q) : (g \o Append(q, x))[i] = (g \o q)[i]
                /\ (g \o Append(q, x))[Len(g \o q) + 1] = x
          <6> TAKE g, q \in Seq(Line), x \in Line
          <6> QED BY SMT
        <5> QED BY <5>1, <5>2, Zenon
      <4> QED BY <3>3, <4>1, <4>2, <4>3, Zenon
    <3>5. Len(Seen(s)) \in Nat
      BY <3>4
    <3>6. ASSUME NEW i \in 1..Len(Seen(s)')
          PROVE  Seen(s)'[i][1] \in from[s].call /\ Seen(s)'[i][2] = from[s].at + i
      <4>1. CASE i \in 1..Len(Seen(s))
        BY <3>4, <4>1 DEF NoGaps
      <4>2. CASE i = Len(Seen(s)) + 1
        <5>1. Seen(s)'[i] = <<c, sent[c] + 1>>
          BY <3>4, <4>2
        <5>2. sent[c] + 1 = from[s].at + i
          BY <3>1, <3>2, <3>5, <4>2
        <5> QED BY <3>1, <5>1, <5>2
      <4> QED BY <3>4, <3>5, <4>1, <4>2
    <3>7. Active(c)' /\ sent'[c] = sent[c] + 1
      BY <1>1, <1>2 DEF Active, TypeOK, CallsTypeOK
    <3> QED BY <1>3, <3>1, <3>2, <3>4, <3>5, <3>6, <3>7
  <2>2. CASE s \notin kept
    <3>1. Seen(s)' = Seen(s)
      BY <1>1, <2>2 DEF Seen
    <3> QED BY <2>2, <3>1 DEF NoGaps
  <2> QED BY <2>1, <2>2
<1> QED BY <1>6, <1>7, <1>8, <1>9, <1>10, <1>11, <1>12 DEF TypeOK

\* The handlers of the log stream.
LEMMA StreamActions ==
    ASSUME Inv, NEW s \in Streams, Subscribe(s) \/ StreamStep(s) \/ Disconnect(s)
    PROVE  Inv'
<1> USE DEF Inv
<1>1. /\ UNCHANGED <<state, claimant, callVars>>
      /\ \A d \in Calls : Active(d)' <=> Active(d)
  BY DEF Subscribe, StreamStep, Receive, SeeClosed, Unsubscribe, Disconnect, runnerVars, callVars, Active
<1>2. CallsTypeOK' /\ OneUpgrade' /\ FilesHeld' /\ ProcHeld'
  BY <1>1 DEF callVars, TypeOK, CallsTypeOK, OneUpgrade, FilesHeld, ProcHeld
<1>3. ClaimantActive'
  BY <1>1 DEF ClaimantActive
<1>4. CASE Subscribe(s) /\ state = "running"
  <2>1. PICK c \in Calls : claimant = {c} /\ Active(c)
    BY <1>4 DEF ClaimantActive
  <2>2. /\ subscribers' = subscribers \cup {s}
        /\ from' = [from EXCEPT ![s] = [call |-> {c}, at |-> sent[c]]]
        /\ stream' = [stream EXCEPT ![s] = "reading"]
        /\ UNCHANGED <<closes, chan, got>>
    BY <1>4, <2>1 DEF Subscribe, At
  <2>3. stream[s] = "none" /\ from[s].call = {} /\ got[s] = <<>> /\ chan[s] = <<>>
    BY <1>4 DEF Subscribe, StreamsRegistered
  <2>4. RunnerTypeOK' /\ StreamsTypeOK'
    BY <1>1, <2>2 DEF TypeOK, RunnerTypeOK, CallsTypeOK, StreamsTypeOK
  <2>5. StreamsRegistered'
    BY <2>2 DEF StreamsRegistered, TypeOK, StreamsTypeOK
  <2>6. ClosedOnce'
    BY <2>2, <2>3 DEF ClosedOnce, TypeOK, StreamsTypeOK
  <2>7. \A t \in Streams : Seen(t)' = Seen(t)
    BY <2>2 DEF Seen
  <2>8. NoGaps'
    <3> SUFFICES ASSUME NEW t \in Streams
                 PROVE  /\ \A i \in 1..Len(Seen(t)) :
                             Seen(t)[i][1] \in from'[t].call /\ Seen(t)[i][2] = from'[t].at + i
                        /\ t \in subscribers' =>
                             \A d \in from'[t].call :
                                 Active(d) /\ from'[t].at + Len(Seen(t)) = sent[d]
      BY <1>1, <2>4, <2>7 DEF NoGaps, StreamsTypeOK, callVars
    <3>1. CASE t = s
      <4>1. Len(Seen(s)) = 0
        BY <2>3 DEF Seen
      <4>2. from'[s].call = {c} /\ from'[s].at = sent[c] /\ sent[c] \in Nat
        BY <2>2 DEF TypeOK, StreamsTypeOK, CallsTypeOK
      <4> QED BY <2>1, <3>1, <4>1, <4>2
    <3>2. CASE t # s
      <4>1. from'[t] = from[t] /\ (t \in subscribers' <=> t \in subscribers)
        BY <2>2, <3>2 DEF TypeOK, StreamsTypeOK
      <4> QED BY <4>1 DEF NoGaps
    <3> QED BY <3>1, <3>2
  <2> QED BY <1>2, <1>3, <2>4, <2>5, <2>6, <2>8 DEF TypeOK
<1>5. CASE Receive(s)
  <2>1. /\ UNCHANGED <<subscribers, closes, from>>
        /\ chan' = [chan EXCEPT ![s] = Tail(chan[s])]
        /\ got' = [got EXCEPT ![s] = Append(got[s], Head(chan[s]))]
        /\ stream' \in {stream, [stream EXCEPT ![s] = "leaving"]}
        /\ stream[s] = "reading"
    BY <1>5 DEF Receive, runnerVars
  <2>2. got[s] \in Seq(Line) /\ chan[s] \in Seq(Line) /\ chan[s] # <<>>
    BY <1>5 DEF Receive, TypeOK, StreamsTypeOK
  <2>3. /\ Append(got[s], Head(chan[s])) \in Seq(Line)
        /\ Tail(chan[s]) \in Seq(Line)
        /\ Len(Tail(chan[s])) = Len(chan[s]) - 1
        /\ Append(got[s], Head(chan[s])) \o Tail(chan[s]) = got[s] \o chan[s]
    BY <2>2, MovedLine
  <2>4. RunnerTypeOK'
    BY <1>1, <2>1 DEF TypeOK, RunnerTypeOK
  <2>5. StreamsTypeOK'
    <3>1. chan' \in [Streams -> Seq(Line)] /\ got' \in [Streams -> Seq(Line)]
      BY <2>1, <2>3 DEF TypeOK, StreamsTypeOK
    <3>2. \A t \in Streams : Len(chan'[t]) <= Buffer
      <4> SUFFICES ASSUME NEW t \in Streams PROVE Len(chan'[t]) <= Buffer
        OBVIOUS
      <4>1. Len(chan[t]) \in Nat /\ Len(chan[t]) <= Buffer
        BY DEF TypeOK, StreamsTypeOK
      <4>2. chan'[t] = IF t = s THEN Tail(chan[s]) ELSE chan[t]
        BY <2>1 DEF TypeOK, StreamsTypeOK
      <4> QED BY <2>3, <4>1, <4>2, BufferAssumption
    <3>3. stream' \in [Streams -> {"none", "reading", "leaving", "gone"}]
      BY <2>1 DEF TypeOK, StreamsTypeOK
    <3> QED BY <2>1, <3>1, <3>2, <3>3 DEF TypeOK, StreamsTypeOK
  <2>6. StreamsRegistered'
    BY <2>1 DEF StreamsRegistered, TypeOK, StreamsTypeOK
  <2>7. ClosedOnce'
    BY <2>1 DEF ClosedOnce
  <2>8. \A t \in Streams : Seen(t)' = Seen(t)
    BY <2>1, <2>3 DEF Seen, TypeOK, StreamsTypeOK
  <2>9. NoGaps'
    <3> SUFFICES ASSUME NEW t \in Streams
                 PROVE  /\ \A i \in 1..Len(Seen(t)) :
                             Seen(t)[i][1] \in from[t].call /\ Seen(t)[i][2] = from[t].at + i
                        /\ t \in subscribers =>
                             \A d \in from[t].call :
                                 Active(d) /\ from[t].at + Len(Seen(t)) = sent[d]
      BY <1>1, <2>1, <2>5, <2>8 DEF NoGaps, StreamsTypeOK, callVars
    <3> QED BY DEF NoGaps
  <2> QED BY <1>2, <1>3, <2>4, <2>5, <2>6, <2>7, <2>9 DEF TypeOK
<1>6. CASE \/ Subscribe(s) /\ state # "running"
           \/ SeeClosed(s) \/ Disconnect(s) \/ Unsubscribe(s)
  <2>1. PICK S \in SUBSET subscribers, phase \in {"leaving", "gone"} :
            /\ Close(S)
            /\ stream' = [stream EXCEPT ![s] = phase]
            /\ UNCHANGED <<chan, got, from>>
            /\ phase = "gone" => s \notin subscribers \ S
    <3>1. CASE Subscribe(s) /\ state # "running"
      <4>1. s \notin subscribers
        BY <3>1 DEF Subscribe, StreamsRegistered
      <4>2. Close({})
        BY <3>1 DEF Subscribe, Close, TypeOK, RunnerTypeOK
      <4> QED BY <3>1, <4>1, <4>2 DEF Subscribe, At
    <3>2. CASE SeeClosed(s) \/ Disconnect(s)
      <4>1. Close({})
        BY <3>2 DEF SeeClosed, Disconnect, Close, TypeOK, RunnerTypeOK, runnerVars
      <4> QED BY <3>2, <4>1 DEF SeeClosed, Disconnect, At
    <3>3. CASE Unsubscribe(s)
      BY <3>3 DEF Unsubscribe, At
    <3> QED BY <1>6, <3>1, <3>2, <3>3
  <2>2. /\ subscribers' = subscribers \ S
        /\ closes' = [t \in Streams |-> IF t \in S THEN closes[t] + 1 ELSE closes[t]]
    BY <2>1 DEF Close
  <2>3. RunnerTypeOK' /\ StreamsTypeOK'
    BY <1>1, <2>1, <2>2 DEF TypeOK, RunnerTypeOK, StreamsTypeOK
  <2>4. StreamsRegistered'
    BY <2>1, <2>2 DEF StreamsRegistered, TypeOK, StreamsTypeOK
  <2>5. ClosedOnce'
    BY <2>1, <2>2 DEF ClosedOnce, StreamsRegistered
  <2>6. \A t \in Streams : Seen(t)' = Seen(t)
    BY <2>1 DEF Seen
  <2>7. NoGaps'
    <3> SUFFICES ASSUME NEW t \in Streams
                 PROVE  /\ \A i \in 1..Len(Seen(t)) :
                             Seen(t)[i][1] \in from[t].call /\ Seen(t)[i][2] = from[t].at + i
                        /\ t \in subscribers =>
                             \A d \in from[t].call :
                                 Active(d) /\ from[t].at + Len(Seen(t)) = sent[d]
      BY <1>1, <2>1, <2>2, <2>3, <2>6 DEF NoGaps, StreamsTypeOK, callVars
    <3> QED BY DEF NoGaps
  <2> QED BY <1>2, <1>3, <2>3, <2>4, <2>5, <2>7 DEF TypeOK
<1> QED BY <1>4, <1>5, <1>6 DEF StreamStep

-----------------------------------------------------------------------------
\* The runner and its streams keep the invariant.
THEOREM InvHolds == Spec => []Inv
<1>1. Init => Inv
  <2> SUFFICES ASSUME Init PROVE Inv
    OBVIOUS
  <2> USE DEF Init
  <2>1. TypeOK
    BY BufferAssumption DEF TypeOK, RunnerTypeOK, CallsTypeOK, StreamsTypeOK
  <2>2. OneUpgrade /\ ClaimantActive /\ StreamsRegistered /\ ClosedOnce
    BY DEF OneUpgrade, ClaimantActive, StreamsRegistered, ClosedOnce, Active, Opening, Collecting
  <2>3. \A s \in Streams : Len(Seen(s)) = 0
    BY DEF Seen
  <2>4. NoGaps
    BY <2>3 DEF NoGaps
  <2>5. FilesHeld /\ ProcHeld
    BY DEF FilesHeld, FilesOf, ProcHeld, Collecting
  <2> QED BY <2>1, <2>2, <2>4, <2>5 DEF Inv
<1>2. Inv /\ [Next]_vars => Inv'
  <2> SUFFICES ASSUME Inv, [Next]_vars PROVE Inv'
    OBVIOUS
  <2>1. ASSUME NEW c \in Calls, Claim(c) PROVE Inv'
    BY <2>1, ClaimStep
  <2>2. ASSUME NEW c \in Calls, CallStep(c) PROVE Inv'
    BY <2>2, OwnStep, EndStep, ScanLineStep DEF CallStep
  <2>3. ASSUME NEW c \in Calls, NEW kind \in {"line", "long"}, WriteLine(c, kind) PROVE Inv'
    BY <2>3, OwnStep
  <2>4. ASSUME NEW c \in Calls, NEW result \in {"succeeded", "failed"}, Exit(c, result)
        PROVE  Inv'
    BY <2>4, OwnStep
  <2>5. ASSUME NEW s \in Streams, Subscribe(s) \/ StreamStep(s) \/ Disconnect(s) PROVE Inv'
    BY <2>5, StreamActions
  <2>6. CASE UNCHANGED vars
    <3>1. \A d \in Calls : Active(d)' <=> Active(d)
      BY <2>6 DEF vars, Active
    <3>2. UNCHANGED <<runnerVars, streamVars, sent>>
      BY <2>6 DEF vars, runnerVars, streamVars
    <3>3. CallsTypeOK' /\ FilesHeld' /\ ProcHeld'
      BY <2>6 DEF vars, Inv, TypeOK, CallsTypeOK, FilesHeld, ProcHeld
    <3>4. \A d \in Calls : proc'[d] = "running" => Active(d)
      BY <2>6 DEF vars, Inv, OneUpgrade
    <3> QED BY <3>1, <3>2, <3>3, <3>4, QuietStep
  <2> QED BY <2>1, <2>2, <2>3, <2>4, <2>5, <2>6 DEF Next
<1> QED BY <1>1, <1>2, PTL DEF Spec

\* Every variable keeps its type; no channel holds more than its capacity
\* (broadcast).
THEOREM TypeCorrect == Spec => []TypeOK
<1>1. Inv => TypeOK
  BY DEF Inv
<1> QED BY <1>1, InvHolds, PTL

\* At most one upgrade is prepared, runs or is collected, and the runner says
\* so (Start, collect).
THEOREM OneUpgradeHolds == Spec => []OneUpgrade
<1>1. Inv => OneUpgrade
  BY DEF Inv
<1> QED BY <1>1, InvHolds, PTL

\* No channel is closed twice or while it is registered (broadcast, finish,
\* unsubscribe).
THEOREM ClosedOnceHolds == Spec => []ClosedOnce
<1>1. Inv => ClosedOnce
  BY DEF Inv
<1> QED BY <1>1, InvHolds, PTL

\* Streams show an unbroken run of one upgrade's lines (broadcast,
\* upgradeLogs).
THEOREM NoGapsHolds == Spec => []NoGaps
<1>1. Inv => NoGaps
  BY DEF Inv
<1> QED BY <1>1, InvHolds, PTL

\* A call that has ended holds no file (Start, collect).
THEOREM FilesClosedHolds == Spec => []FilesClosed
<1>1. Inv => FilesClosed
  BY DEF Inv, FilesHeld, FilesOf, FilesClosed, Collecting
<1> QED BY <1>1, InvHolds, PTL


=============================================================================
