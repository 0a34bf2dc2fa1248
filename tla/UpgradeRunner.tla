--------------------------- MODULE UpgradeRunner ---------------------------
(***************************************************************************)
(* The API's upgrade runner: Start claims the runner, launches the upgrade *)
(* process and leaves a goroutine behind that collects its output; the     *)
(* lines go to the channels of the log streams, each of them an HTTP       *)
(* handler that its client may leave at any time.                          *)
(*                                                                         *)
(* A call of Start and its collect goroutine are one process of the model. *)
(* A line is the call it belongs to and its number.                        *)
(***************************************************************************)
EXTENDS Naturals, Sequences

CONSTANTS
    Calls,      \* calls of Start, each made at most once
    Streams,    \* requests for the log stream, each made at most once
    Buffer,     \* capacity of a subscriber's channel, 32 in the code
    PipeSize,   \* lines that fit into the output pipe
    MaxLines    \* bound: lines a process writes

ASSUME BufferAssumption == Buffer \in Nat
ASSUME PipeAssumption == PipeSize \in Nat /\ MaxLines \in Nat

VARIABLES
    state,          \* Runner.state
    subscribers,    \* Runner.subscribers, the streams registered in it
    call,           \* [Calls -> how far the call has got]
    files,          \* [Calls -> the files the call holds open]
    proc,           \* [Calls -> its process]
    pipe,           \* [Calls -> what its process has written, unread]
    scanned,        \* [Calls -> how its scanner ended]
    sent,           \* [Calls -> number of lines broadcast]
    chan,           \* [Streams -> what its channel buffers]
    closes,         \* [Streams -> how often its channel was closed]
    stream,         \* [Streams -> how far its handler has got]
    got,            \* [Streams -> lines received]
    from,           \* history: [Streams -> call and its lines when subscribing]
    claimant        \* history: the last call that claimed the runner, if any

runnerVars == <<state, subscribers, closes, claimant>>
callVars == <<call, files, proc, pipe, scanned, sent>>
streamVars == <<chan, stream, got, from>>
vars == <<state, subscribers, closes, claimant, call, files, proc, pipe, scanned, sent,
          chan, stream, got, from>>

Files == {"stdin", "pipeReader", "pipeWriter", "log"}
Opening == {"build", "stdin", "pipe", "log", "exec"}
Collecting == {"scan", "wait"}
Line == Calls \X Nat

RunnerTypeOK ==
    /\ state \in {"idle", "running", "done", "failed"}
    /\ subscribers \subseteq Streams
    /\ closes \in [Streams -> Nat]
    /\ claimant \subseteq Calls

CallsTypeOK ==
    /\ call \in [Calls -> Opening \cup Collecting \cup {"none", "refused", "closing", "ended"}]
    /\ files \in [Calls -> SUBSET Files]
    /\ proc \in [Calls -> {"none", "running", "succeeded", "failed"}]
    /\ pipe \in [Calls -> Seq({"line", "long"})]
    /\ scanned \in [Calls -> {"eof", "error"}]
    /\ sent \in [Calls -> Nat]

StreamsTypeOK ==
    /\ chan \in [Streams -> Seq(Line)]
    /\ \A s \in Streams : Len(chan[s]) <= Buffer
    /\ stream \in [Streams -> {"none", "reading", "leaving", "gone"}]
    /\ got \in [Streams -> Seq(Line)]
    /\ from \in [Streams -> [call : SUBSET Calls, at : Nat]]

TypeOK == RunnerTypeOK /\ CallsTypeOK /\ StreamsTypeOK

Init ==
    /\ state = "idle"
    /\ subscribers = {}
    /\ claimant = {}
    /\ call = [c \in Calls |-> "none"]
    /\ files = [c \in Calls |-> {}]
    /\ proc = [c \in Calls |-> "none"]
    /\ pipe = [c \in Calls |-> <<>>]
    /\ scanned = [c \in Calls |-> "eof"]
    /\ sent = [c \in Calls |-> 0]
    /\ chan = [s \in Streams |-> <<>>]
    /\ closes = [s \in Streams |-> 0]
    /\ stream = [s \in Streams |-> "none"]
    /\ got = [s \in Streams |-> <<>>]
    /\ from = [s \in Streams |-> [call |-> {}, at |-> 0]]

-----------------------------------------------------------------------------
(* The runner's channels; each operator is a critical section of its mutex.*)

\* The streams in S leave the map and their channels are closed.
Close(S) ==
    /\ subscribers' = subscribers \ S
    /\ closes' = [s \in Streams |-> IF s \in S THEN closes[s] + 1 ELSE closes[s]]

Finish(st) ==
    /\ state' = st
    /\ Close(subscribers)

Full == {s \in subscribers : Len(chan[s]) = Buffer}

Deliver(S, line) ==
    chan' = [s \in Streams |-> IF s \in S THEN Append(chan[s], line) ELSE chan[s]]

\* Mutant: slow subscribers miss the line and stay.
BroadcastSkips(line) ==
    /\ Deliver(subscribers \ Full, line)
    /\ UNCHANGED <<subscribers, closes>>

\* A subscriber whose channel is full is dropped.
Broadcast(line) ==
    /\ Deliver(subscribers \ Full, line)
    /\ Close(Full)

-----------------------------------------------------------------------------
(* Start.                                                                  *)

To(c, phase) == call' = [call EXCEPT ![c] = phase]

Open(c, S, phase) ==
    /\ To(c, phase)
    /\ files' = [files EXCEPT ![c] = @ \cup S]

\* Mutant: an upgrade that runs is not looked at.
ClaimAnyway(c) ==
    /\ call[c] = "none"
    /\ state' = "running"
    /\ claimant' = {c}
    /\ To(c, "build")
    /\ UNCHANGED <<subscribers, closes, files, proc, pipe, scanned, sent, streamVars>>

Claim(c) ==
    /\ call[c] = "none"
    /\ IF state = "running"
       THEN /\ To(c, "refused")
            /\ UNCHANGED <<state, claimant>>
       ELSE /\ state' = "running"
            /\ claimant' = {c}
            /\ To(c, "build")
    /\ UNCHANGED <<subscribers, closes, files, proc, pipe, scanned, sent, streamVars>>

\* The builder, /dev/null, the pipe and the log file.
Prepare(c) ==
    /\ \/ call[c] = "build" /\ Open(c, {}, "stdin")
       \/ call[c] = "stdin" /\ Open(c, {"stdin"}, "pipe")
       \/ call[c] = "pipe" /\ Open(c, {"pipeReader", "pipeWriter"}, "log")
       \/ call[c] = "log" /\ Open(c, {"log"}, "exec")
    /\ UNCHANGED <<runnerVars, proc, pipe, scanned, sent, streamVars>>

\* Mutant: the reading end of the pipe is left open.
ClosedOnErrorButReader(phase) ==
    CASE phase = "pipe" -> {"stdin"}
      [] phase = "log" -> {"stdin", "pipeWriter", "pipeReader"}
      [] phase = "exec" -> {"stdin", "pipeWriter", "log"}
      [] OTHER -> {}

\* What Start closes when the step fails.
ClosedOnError(phase) ==
    CASE phase = "pipe" -> {"stdin"}
      [] phase = "log" -> {"stdin", "pipeReader", "pipeWriter"}
      [] phase = "exec" -> {"stdin", "pipeWriter", "pipeReader", "log"}
      [] OTHER -> {}

\* A step of Start returns an error.
StartFails(c) ==
    /\ call[c] \in Opening
    /\ files' = [files EXCEPT ![c] = @ \ ClosedOnError(call[c])]
    /\ Finish("failed")
    /\ To(c, "ended")
    /\ UNCHANGED <<claimant, proc, pipe, scanned, sent, streamVars>>

StartProcess(c) ==
    /\ call[c] = "exec"
    /\ files' = [files EXCEPT ![c] = @ \ {"stdin", "pipeWriter"}]
    /\ proc' = [proc EXCEPT ![c] = "running"]
    /\ To(c, "scan")
    /\ UNCHANGED <<runnerVars, pipe, scanned, sent, streamVars>>

-----------------------------------------------------------------------------
(* The process.  It blocks when the pipe is full.                          *)

WriteLine(c, kind) ==
    /\ proc[c] = "running"
    /\ Len(pipe[c]) < PipeSize
    /\ sent[c] + Len(pipe[c]) < MaxLines
    /\ pipe' = [pipe EXCEPT ![c] = Append(@, kind)]
    /\ UNCHANGED <<runnerVars, call, files, proc, scanned, sent, streamVars>>

Exit(c, result) ==
    /\ proc[c] = "running"
    /\ proc' = [proc EXCEPT ![c] = result]
    /\ UNCHANGED <<runnerVars, call, files, pipe, scanned, sent, streamVars>>

-----------------------------------------------------------------------------
(* collect.                                                                *)

Exited(c) == proc[c] \in {"succeeded", "failed"}

ScanLine(c) ==
    /\ call[c] = "scan"
    /\ pipe[c] # <<>>
    /\ Head(pipe[c]) = "line"
    /\ pipe' = [pipe EXCEPT ![c] = Tail(@)]
    /\ sent' = [sent EXCEPT ![c] = @ + 1]
    /\ Broadcast(<<c, sent[c] + 1>>)
    /\ UNCHANGED <<state, claimant, call, files, proc, scanned, stream, got, from>>

\* The end of the output, or a line longer than the scanner's buffer.
ScanEnds(c) ==
    /\ call[c] = "scan"
    /\ \/ /\ pipe[c] = <<>>
          /\ Exited(c)
          /\ UNCHANGED scanned
       \/ /\ pipe[c] # <<>>
          /\ Head(pipe[c]) = "long"
          /\ scanned' = [scanned EXCEPT ![c] = "error"]
    /\ To(c, "wait")
    /\ UNCHANGED <<runnerVars, files, proc, pipe, sent, streamVars>>

Wait(c) ==
    /\ call[c] = "wait"
    /\ Exited(c)
    /\ Finish(IF scanned[c] = "eof" /\ proc[c] = "succeeded" THEN "done" ELSE "failed")
    /\ To(c, "closing")
    /\ UNCHANGED <<claimant, files, proc, pipe, scanned, sent, streamVars>>

\* The deferred calls.
CloseFiles(c) ==
    /\ call[c] = "closing"
    /\ files' = [files EXCEPT ![c] = @ \ {"log", "pipeReader"}]
    /\ To(c, "ended")
    /\ UNCHANGED <<runnerVars, proc, pipe, scanned, sent, streamVars>>

CallStep(c) ==
    Prepare(c) \/ StartFails(c) \/ StartProcess(c)
        \/ ScanLine(c) \/ ScanEnds(c) \/ Wait(c) \/ CloseFiles(c)

-----------------------------------------------------------------------------
(* upgradeLogs.                                                            *)

At(s, phase) == stream' = [stream EXCEPT ![s] = phase]

Subscribe(s) ==
    /\ stream[s] = "none"
    /\ IF state = "running"
       THEN /\ subscribers' = subscribers \cup {s}
            /\ \E c \in claimant :
                  from' = [from EXCEPT ![s] = [call |-> {c}, at |-> sent[c]]]
            /\ At(s, "reading")
       ELSE /\ At(s, "gone")
            /\ UNCHANGED <<subscribers, from>>
    /\ UNCHANGED <<state, closes, claimant, callVars, chan, got>>

\* A line is taken from the channel and written to the client; a write that
\* fails ends the stream.
Receive(s) ==
    /\ stream[s] = "reading"
    /\ chan[s] # <<>>
    /\ chan' = [chan EXCEPT ![s] = Tail(@)]
    /\ got' = [got EXCEPT ![s] = Append(@, Head(chan[s]))]
    /\ stream' \in {stream, [stream EXCEPT ![s] = "leaving"]}
    /\ UNCHANGED <<runnerVars, callVars, from>>

\* Mutant: that the channel is closed is not looked at.
SeeClosedAsLine(s) ==
    /\ stream[s] = "reading"
    /\ chan[s] = <<>>
    /\ closes[s] > 0
    /\ UNCHANGED vars

\* A closed channel is read as closed once it is empty.
SeeClosed(s) ==
    /\ stream[s] = "reading"
    /\ chan[s] = <<>>
    /\ closes[s] > 0
    /\ At(s, "leaving")
    /\ UNCHANGED <<runnerVars, callVars, chan, got, from>>

Disconnect(s) ==
    /\ stream[s] = "reading"
    /\ At(s, "leaving")
    /\ UNCHANGED <<runnerVars, callVars, chan, got, from>>

\* Mutant: whether the stream is still registered is not looked at.
UnsubscribeAnyway(s) ==
    /\ stream[s] = "leaving"
    /\ Close({s})
    /\ At(s, "gone")
    /\ UNCHANGED <<state, claimant, callVars, chan, got, from>>

\* The deferred unsubscribe.
Unsubscribe(s) ==
    /\ stream[s] = "leaving"
    /\ Close({s} \cap subscribers)
    /\ At(s, "gone")
    /\ UNCHANGED <<state, claimant, callVars, chan, got, from>>

StreamStep(s) == Receive(s) \/ SeeClosed(s) \/ Unsubscribe(s)

-----------------------------------------------------------------------------
Next ==
    \/ \E c \in Calls : Claim(c) \/ CallStep(c)
    \/ \E c \in Calls, kind \in {"line", "long"} : WriteLine(c, kind)
    \/ \E c \in Calls, result \in {"succeeded", "failed"} : Exit(c, result)
    \/ \E s \in Streams : Subscribe(s) \/ StreamStep(s) \/ Disconnect(s)

Spec == Init /\ [][Next]_vars

\* The scheduler runs goroutines that can run.  Nothing is assumed of the
\* upgrade process.
LiveSpec ==
    /\ Spec
    /\ \A c \in Calls : WF_vars(CallStep(c))
    /\ \A s \in Streams : WF_vars(StreamStep(s))

-----------------------------------------------------------------------------
(* Properties.                                                             *)

Active(c) == call[c] \in Opening \cup Collecting

\* Start refuses while an upgrade runs: the runner says "running" exactly
\* while one call prepares, runs or collects its process, and no two do.
OneUpgrade ==
    /\ state = "running" <=> \E c \in Calls : Active(c)
    /\ \A c, d \in Calls : Active(c) /\ Active(d) => c = d
    /\ \A c \in Calls : proc[c] = "running" => Active(c)

\* broadcast, finish and unsubscribe each close channels.  No channel is
\* closed twice, and none that is still registered, and so may be sent to
\* or closed again, is closed: either would panic.
ClosedOnce ==
    \A s \in Streams :
        closes[s] = IF s \in subscribers \/ from[s].call = {} THEN 0 ELSE 1

\* What has been sent to a stream.
Seen(s) == got[s] \o chan[s]

\* A stream shows an unbroken run of the lines of one upgrade, the ones from
\* when it subscribed; while it is registered it has missed none.
NoGaps ==
    \A s \in Streams :
        /\ \A i \in 1..Len(Seen(s)) :
             Seen(s)[i][1] \in from[s].call /\ Seen(s)[i][2] = from[s].at + i
        /\ s \in subscribers =>
             \A c \in from[s].call : Active(c) /\ from[s].at + Len(Seen(s)) = sent[c]

\* Start closes the files that it opened on every path, collect the rest.
FilesClosed == \A c \in Calls : call[c] = "ended" => files[c] = {}

\* The streams of an upgrade whose process has exited come to an end.
StreamsEnd ==
    \A c \in Calls, s \in Streams :
        (Exited(c) /\ from[s].call = {c}) ~> stream[s] = "gone"

-----------------------------------------------------------------------------
(* The inductive invariant.                                                *)

\* The last claimant is the active call.
ClaimantActive ==
    state = "running" => \E c \in Calls : claimant = {c} /\ Active(c)

\* Registered streams have subscribed and not left; streams that did not
\* subscribe have received nothing.
StreamsRegistered ==
    \A s \in Streams :
        /\ s \in subscribers => /\ stream[s] \in {"reading", "leaving"}
                                /\ from[s].call # {}
        /\ stream[s] = "none" => /\ from[s].call = {}
                                 /\ chan[s] = <<>>
                                 /\ got[s] = <<>>

FilesOf(phase) ==
    CASE phase = "pipe" -> {"stdin"}
      [] phase = "log" -> {"stdin", "pipeReader", "pipeWriter"}
      [] phase = "exec" -> Files
      [] phase \in Collecting \cup {"closing"} -> {"pipeReader", "log"}
      [] OTHER -> {}

\* A call has a process from StartProcess on.
ProcHeld ==
    \A c \in Calls :
        proc[c] # "none" => call[c] \in Collecting \cup {"closing", "ended"}

FilesHeld == \A c \in Calls : files[c] = FilesOf(call[c])

Inv ==
    /\ TypeOK
    /\ OneUpgrade
    /\ ClaimantActive
    /\ StreamsRegistered
    /\ ClosedOnce
    /\ NoGaps
    /\ FilesHeld
    /\ ProcHeld

=============================================================================
