---------------------------- MODULE SystemStatus ----------------------------
(***************************************************************************)
(* The health that the dashboard shows: the orchestrator probes Docker, the*)
(* store and the proxy on every round of its loop and sends a heartbeat;   *)
(* the API records its signals one by one, derives a snapshot from them    *)
(* and pushes it to the event streams that are open                        *)
(* (orchestrator/cmd/orchestrator/main.go, internal/apiclient,             *)
(* api/internal/api/system_status.go, handler_record_orchestrator_-        *)
(* heartbeat.go, handler_system_status_events.go).                         *)
(*                                                                         *)
(* Times are kept as ages, so that the clock needs no bound: what the code *)
(* stamps with a time is stamped here with how long ago that was, up to    *)
(* the first age that is stale.  Percentages, traffic counters, the        *)
(* description of the host and the usage of the containers are carried     *)
(* along and decide nothing.                                               *)
(***************************************************************************)
EXTENDS Integers, Sequences

CONSTANTS
    Order,        \* the signals, in the order in which a handler records them:
                  \* orchestrator, docker, loadBalancer, cpu, ram in the code
    Reads,        \* the signals, in the order in which a snapshot reads them:
                  \* orchestrator, docker, loadBalancer, docker, cpu, ram
    Reports,      \* what one round of probes may find
    Handlers,     \* goroutines of the API that handle heartbeats
    Streams,      \* connections to the event stream
    StaleAfter,   \* the age up to which a signal is fresh
    Capacity,     \* of a subscriber's buffer: 16 in the code
    None

Signals == {Order[i] : i \in 1..Len(Order)}

MaxAge == StaleAfter + 1
Ages == 0..MaxAge

\* A signal is bad when the store, Docker or the proxy did not answer, and
\* absent when the host's metrics could not be computed.  The handler refuses
\* a percentage that is not in 0..100, but the orchestrator's collector keeps
\* both of its percentages in that range, so no report has such a one.
Report == [Signals -> {"ok", "bad", "absent"}]

ASSUME StatusAssumption ==
    /\ Order \in Seq(STRING) /\ Reads \in Seq(Signals)
    /\ {"orchestrator", "docker"} \subseteq Signals
    /\ Len(Reads) >= 2 /\ Reads[1] = "orchestrator" /\ Reads[2] = "docker"
    /\ Reports \subseteq Report
    /\ \A r \in Reports : r["orchestrator"] # "absent" /\ r["docker"] # "absent"
    /\ \A r \in Reports : \A s \in Signals \cap {"cpu", "ram"} : r[s] # "bad"
    /\ StaleAfter \in Nat /\ Capacity \in Nat \ {0}

VARIABLES
    handler,   \* the heartbeats that the API is handling
    signals,   \* the signals of the status provider
    draft,     \* the snapshots that the handlers are taking
    stream,    \* the event streams
    foundOk    \* history: how long ago a probe found each signal ok

vars == <<handler, signals, draft, stream, foundOk>>

Snapshots == [Signals -> {"healthy", "degraded", "unavailable"}]

Signal == [reading : {"ok", "bad"}, age : Ages]
Beat == [age : Ages, report : Reports]

Idle == [pc |-> "idle", next |-> 1, beat |-> None]
Blank == [next |-> 1, heard |-> None, got |-> [s \in Signals |-> "unavailable"]]

ASSUME NoneAssumption == None \notin Signal \cup Beat \cup Snapshots

\* owed is history: the last snapshot published since the stream subscribed,
\* if its buffer had room for it.
Closed == [pc |-> "closed", buf |-> <<>>, shown |-> None, owed |-> None]

TypeOK ==
    /\ handler \in [Handlers -> [pc : {"idle", "record", "read"},
                                 next : 1..Len(Order), beat : Beat \cup {None}]]
    /\ \A h \in Handlers : handler[h].pc = "record" <=> handler[h].beat # None
    /\ signals \in [Signals -> Signal \cup {None}]
    /\ draft \in [Handlers -> [next : 1..(Len(Reads) + 1), heard : Signal \cup {None}, got : Snapshots]]
    /\ stream \in [Streams -> [pc : {"closed", "initial", "open", "stuck"}, buf : Seq(Snapshots),
                               shown : Snapshots \cup {None}, owed : Snapshots \cup {None}]]
    /\ \A c \in Streams : Len(stream[c].buf) <= Capacity
    /\ foundOk \in [Signals -> Ages]

Init ==
    /\ handler = [h \in Handlers |-> Idle]
    /\ signals = [s \in Signals |-> None]
    /\ draft = [h \in Handlers |-> Blank]
    /\ stream = [c \in Streams |-> Closed]
    /\ foundOk = [s \in Signals |-> MaxAge]

-----------------------------------------------------------------------------
(* Time.                                                                   *)

Older(a) == IF a = MaxAge THEN a ELSE a + 1

OlderSignal(sig) == IF sig = None THEN None ELSE [sig EXCEPT !.age = Older(@)]

Tick ==
    /\ handler' = [h \in Handlers |->
                     IF handler[h].beat = None THEN handler[h]
                     ELSE [handler[h] EXCEPT !.beat.age = Older(@)]]
    /\ signals' = [s \in Signals |-> OlderSignal(signals[s])]
    /\ draft' = [h \in Handlers |-> [draft[h] EXCEPT !.heard = OlderSignal(@)]]
    /\ foundOk' = [s \in Signals |-> Older(foundOk[s])]
    /\ UNCHANGED stream

-----------------------------------------------------------------------------
(* The orchestrator's loop.                                                *)

\* One round: it takes its time before it probes, each probe has a timeout,
\* and the heartbeat is sent whatever they found, so its age is anything by
\* then.  The probes are one step, because every signal is judged on its own.
\* The client waits for the answer, but not for long: the handler of a
\* request that timed out goes on while the loop reconciles and begins the
\* next round.  A round that dies with its process, or that does not reach
\* the API, leaves nothing behind and is no step.  The pass of Reconcile comes
\* after the heartbeat in the same goroutine, and its calls of Docker have no
\* deadline, unlike those of the probes: while one hangs there is no round.
NotifyHeartbeat(h, report) ==
    /\ \E age \in Ages :
          handler' = [handler EXCEPT ![h] = [pc |-> "record", next |-> 1,
                                             beat |-> [age |-> age, report |-> report]]]
    /\ foundOk' = [s \in Signals |-> IF report[s] = "ok" THEN 0 ELSE foundOk[s]]
    /\ UNCHANGED <<signals, draft, stream>>

-----------------------------------------------------------------------------
(* The handler of a heartbeat.                                             *)

Advance(h) ==
    handler' = [handler EXCEPT ![h] = IF @.next = Len(Order) THEN [Idle EXCEPT !.pc = "read"]
                                      ELSE [handler[h] EXCEPT !.next = @ + 1]]

Recorded(s, found, age) == [signals EXCEPT ![s] = [reading |-> found, age |-> age]]

\* Mutant: a signal is stamped with the time of its arrival.
RecordOnArrival(h) ==
    /\ handler[h].pc = "record"
    /\ LET s == Order[handler[h].next]
           found == handler[h].beat.report[s]
       IN  IF found = "absent" THEN UNCHANGED signals
           ELSE signals' = Recorded(s, found, 0)
    /\ Advance(h)
    /\ UNCHANGED <<draft, stream, foundOk>>

\* Mutant: an outage is answered with an error.
RecordStops(h) ==
    /\ handler[h].pc = "record"
    /\ LET s == Order[handler[h].next]
           found == handler[h].beat.report[s]
       IN  /\ signals' = IF found = "absent" THEN signals ELSE Recorded(s, found, handler[h].beat.age)
           /\ IF found = "bad" THEN handler' = [handler EXCEPT ![h] = Idle] ELSE Advance(h)
    /\ UNCHANGED <<draft, stream, foundOk>>

\* One signal under its own lock, whatever was recorded before.
Record(h) ==
    /\ handler[h].pc = "record"
    /\ LET s == Order[handler[h].next]
           found == handler[h].beat.report[s]
       IN  signals' = IF found = "absent" THEN signals ELSE Recorded(s, found, handler[h].beat.age)
    /\ Advance(h)
    /\ UNCHANGED <<draft, stream, foundOk>>

\* The containers' usage comes after the signals; a number out of range ends
\* the request, and what it recorded is not published.
RefuseStats(h) ==
    /\ handler[h].pc = "read" /\ draft[h].next = 1
    /\ handler' = [handler EXCEPT ![h] = Idle]
    /\ UNCHANGED <<signals, draft, stream, foundOk>>

-----------------------------------------------------------------------------
(* Snapshot.                                                               *)

\* All that counts for the processor and the memory: a signal, and its age.
FreshStatus(sig) ==
    IF sig = None THEN "unavailable" ELSE IF sig.age > StaleAfter THEN "degraded" ELSE "healthy"

\* For Docker and the proxy a signal may also be bad.
StatusOf(sig) ==
    IF FreshStatus(sig) = "healthy" /\ sig.reading = "bad" THEN "degraded" ELSE FreshStatus(sig)

OrchestratorStatus(sig, docker) ==
    IF StatusOf(sig) = "healthy" /\ docker # "healthy" THEN "degraded" ELSE StatusOf(sig)

\* What the draft of a snapshot has after its next read.  The state of the
\* orchestrator depends on Docker's, which is read again for its own entry.
Noted(d) ==
    LET sig == signals[Reads[d.next]]
    IN  CASE d.next = 1 -> [d EXCEPT !.next = 2, !.heard = sig]
          [] d.next = 2 -> [next |-> 3, heard |-> None,
                            got |-> [d.got EXCEPT !["orchestrator"] =
                                       OrchestratorStatus(d.heard, StatusOf(sig))]]
          [] OTHER      -> [d EXCEPT !.next = @ + 1,
                                     !.got = [d.got EXCEPT ![Reads[d.next]] = StatusOf(sig)]]

\* The handler of a heartbeat takes a snapshot: each signal is read under
\* its own lock and its age is taken then.
ReadSignal(h) ==
    /\ handler[h].pc = "read"
    /\ draft[h].next <= Len(Reads)
    /\ draft' = [draft EXCEPT ![h] = Noted(draft[h])]
    /\ UNCHANGED <<handler, signals, stream, foundOk>>

Taken(h) == handler[h].pc = "read" /\ draft[h].next > Len(Reads)

\* A snapshot that nothing interrupts.
Snapshot ==
    [s \in Signals |->
        IF s = "orchestrator" THEN OrchestratorStatus(signals[s], StatusOf(signals["docker"]))
        ELSE StatusOf(signals[s])]

-----------------------------------------------------------------------------
(* The broker and its streams.                                             *)

Subscribed(c) == stream[c].pc # "closed"

\* A buffer that is full loses the event.
Offered(c, snapshot) ==
    IF ~Subscribed(c) THEN stream[c]
    ELSE IF Len(stream[c].buf) < Capacity
    THEN [stream[c] EXCEPT !.buf = Append(@, snapshot), !.owed = snapshot]
    ELSE [stream[c] EXCEPT !.owed = None]

\* The request ends.
Answered(h) ==
    /\ handler' = [handler EXCEPT ![h] = Idle]
    /\ draft' = [draft EXCEPT ![h] = Blank]
    /\ UNCHANGED <<signals, foundOk>>

\* Mutant: a stream subscribes when it has written its first snapshot.
PublishToOpen(h) ==
    /\ Taken(h)
    /\ stream' = [c \in Streams |->
                    CASE stream[c].pc = "open"    -> Offered(c, draft[h].got)
                      [] stream[c].pc = "initial" -> [stream[c] EXCEPT !.owed = draft[h].got]
                      [] OTHER -> stream[c]]
    /\ Answered(h)

\* Mutant: the publisher waits for room.
PublishWaiting(h) ==
    /\ Taken(h)
    /\ \A c \in Streams : Len(stream[c].buf) < Capacity
    /\ stream' = [c \in Streams |-> Offered(c, draft[h].got)]
    /\ Answered(h)

Publish(h) ==
    /\ Taken(h)
    /\ stream' = [c \in Streams |-> Offered(c, draft[h].got)]
    /\ Answered(h)

\* A stream subscribes before it takes its first snapshot.
Subscribe(c) ==
    /\ stream[c].pc = "closed"
    /\ stream' = [stream EXCEPT ![c] = [Closed EXCEPT !.pc = "initial"]]
    /\ UNCHANGED <<handler, signals, draft, foundOk>>

\* The first snapshot, taken and written in one step.
WriteInitial(c) ==
    /\ stream[c].pc = "initial"
    /\ stream' = [stream EXCEPT ![c].pc = "open", ![c].shown = Snapshot]
    /\ UNCHANGED <<handler, signals, draft, foundOk>>

WriteSnapshot(c) ==
    /\ stream[c].pc = "open"
    /\ stream[c].buf # <<>>
    /\ stream' = [stream EXCEPT ![c].buf = Tail(@), ![c].shown = Head(stream[c].buf)]
    /\ UNCHANGED <<handler, signals, draft, foundOk>>

\* The client stops reading and keeps its connection: a write to it blocks,
\* and the subscription stays.
ClientStops(c) ==
    /\ stream[c].pc \in {"initial", "open"}
    /\ stream' = [stream EXCEPT ![c] = [Closed EXCEPT !.pc = "stuck", !.buf = stream[c].buf]]
    /\ UNCHANGED <<handler, signals, draft, foundOk>>

\* The client goes away, or a write fails: the subscription is cancelled.
Disconnect(c) ==
    /\ Subscribed(c)
    /\ stream' = [stream EXCEPT ![c] = Closed]
    /\ UNCHANGED <<handler, signals, draft, foundOk>>

\* The API keeps all of this in memory.
RestartAPI ==
    /\ handler' = [h \in Handlers |-> Idle]
    /\ signals' = [s \in Signals |-> None]
    /\ draft' = [h \in Handlers |-> Blank]
    /\ stream' = [c \in Streams |-> Closed]
    /\ UNCHANGED <<foundOk>>

-----------------------------------------------------------------------------
\* Nothing tells idle goroutines apart.
Free == {h \in Handlers : handler[h].pc = "idle"}

Probe == Free # {} /\ \E report \in Reports : NotifyHeartbeat(CHOOSE h \in Free : TRUE, report)

HandlerStep(h) == Record(h) \/ RefuseStats(h) \/ ReadSignal(h) \/ Publish(h)

StreamStep(c) == WriteInitial(c) \/ WriteSnapshot(c)

Next ==
    \/ Tick
    \/ Probe
    \/ \E h \in Handlers : HandlerStep(h)
    \/ \E c \in Streams : StreamStep(c) \/ Subscribe(c) \/ ClientStops(c) \/ Disconnect(c)
    \/ RestartAPI

Spec == Init /\ [][Next]_vars

\* A request is handled to its end and not all of them are refused; a stream
\* goes on while its client reads.  Nothing makes the next round come: a pass
\* of Reconcile that hangs keeps the orchestrator's loop for as long as it does.
Fairness ==
    /\ \A h \in Handlers : WF_vars(HandlerStep(h))
    /\ SF_vars(\E h \in Handlers : ReadSignal(h))
    /\ \A c \in Streams : WF_vars(StreamStep(c))

LiveSpec == Spec /\ Fairness

-----------------------------------------------------------------------------
(* What it promises.                                                       *)

\* What the API would call healthy was found so by a probe within the last
\* StaleAfter, however late a heartbeat was handled, by whichever process
\* it was sent, and whatever overtook it.
FreshClaims ==
    \A s \in Signals : StatusOf(signals[s]) = "healthy" => foundOk[s] <= StaleAfter

\* A stream that has written all that was in its buffer shows the snapshot
\* that was published last since it subscribed, unless that one found the
\* buffer full: nothing is lost between the first snapshot and the
\* subscription.
CaughtUp ==
    \A c \in Streams :
        (stream[c].pc = "open" /\ stream[c].buf = <<>> /\ stream[c].owed # None)
            => stream[c].shown = stream[c].owed

\* A heartbeat is handled to its end, so that its goroutine is idle again and
\* again, although a client that has stopped reading keeps its connection and
\* its buffer stays full.
HeartbeatsEnd ==
    \A h \in Handlers : []<>(handler[h].pc = "idle")

\* An outage that lasts, so that no probe finds the signal ok any more, is
\* shown for good on every dashboard that reads its stream, although events
\* are dropped, heartbeats are handled late and overwrite newer ones, and
\* snapshots are published out of order.  Without Docker the orchestrator is
\* not shown as healthy either.  It needs that rounds of the orchestrator's
\* loop keep coming: only a heartbeat publishes a snapshot, and a stream that
\* was open when a pass began to hang shows for ever what it showed then.
OutageShown ==
    \A s \in Signals :
        (<>[](foundOk[s] = MaxAge) /\ []<><<Probe>>_vars)
            => <>[](\A c \in Streams :
                       stream[c].pc = "open" =>
                           /\ stream[c].shown[s] # "healthy"
                           /\ s = "docker" => stream[c].shown["orchestrator"] # "healthy")

=============================================================================
