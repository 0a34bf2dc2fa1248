------------------------ MODULE SystemStatusProofs -------------------------
(***************************************************************************)
(* The status of the system is typed, claims nothing that no probe found   *)
(* lately, and reaches the streams, for any signals, any number of         *)
(* handlers and streams, any age and any capacity of the buffers.          *)
(***************************************************************************)
EXTENDS SystemStatus, TLAPS

\* What was found ok, and is recorded or about to be recorded, is no younger
\* than the last probe that found it so.
FoundBefore ==
    /\ \A s \in Signals :
          (signals[s] # None /\ signals[s].reading = "ok") => foundOk[s] <= signals[s].age
    /\ \A h \in Handlers : \A s \in Signals :
          (handler[h].beat # None /\ handler[h].beat.report[s] = "ok")
              => foundOk[s] <= handler[h].beat.age

\* The snapshot that is owed is the last one of the buffer, or it is shown.
OwedIsNext ==
    \A c \in Streams : stream[c].owed # None =>
        \/ /\ stream[c].buf # <<>>
           /\ stream[c].buf[Len(stream[c].buf)] = stream[c].owed
        \/ /\ stream[c].buf = <<>> /\ stream[c].pc = "open"
           /\ stream[c].shown = stream[c].owed

Inv == TypeOK /\ FoundBefore /\ OwedIsNext

\* The handlers' part and the streams' part of the type.
HandlerState == [pc : {"idle", "record", "read"}, next : 1..Len(Order), beat : Beat \cup {None}]
DraftState == [next : 1..(Len(Reads) + 1), heard : Signal \cup {None}, got : Snapshots]
StreamState == [pc : {"closed", "initial", "open", "stuck"}, buf : Seq(Snapshots),
                shown : Snapshots \cup {None}, owed : Snapshots \cup {None}]

-----------------------------------------------------------------------------
LEMMA Bounds ==
    /\ StaleAfter \in Nat /\ MaxAge = StaleAfter + 1 /\ Ages = 0..MaxAge
    /\ Len(Order) \in Nat /\ Len(Order) >= 1 /\ Len(Reads) \in Nat /\ Len(Reads) >= 2
    /\ \A i \in 1..Len(Order) : Order[i] \in Signals
    /\ \A i \in 1..Len(Reads) : Reads[i] \in Signals
    /\ "orchestrator" \in Signals /\ "docker" \in Signals
    /\ None \notin Signal /\ None \notin Beat /\ None \notin Snapshots
    /\ Capacity \in Nat /\ Capacity >= 1
<1>1. Len(Order) \in Nat /\ Len(Reads) \in Nat /\ Len(Reads) >= 2
  BY StatusAssumption
<1>2. "orchestrator" \in Signals /\ "docker" \in Signals
  BY StatusAssumption
<1>3. Len(Order) >= 1
  BY <1>1, <1>2 DEF Signals
<1>4. \A i \in 1..Len(Order) : Order[i] \in Signals
  BY DEF Signals
<1>5. \A i \in 1..Len(Reads) : Reads[i] \in Signals
  BY StatusAssumption
<1>6. None \notin Signal /\ None \notin Beat /\ None \notin Snapshots
  BY NoneAssumption
<1>7. StaleAfter \in Nat /\ Capacity \in Nat /\ Capacity >= 1
  BY StatusAssumption
<1> QED BY <1>1, <1>2, <1>3, <1>4, <1>5, <1>6, <1>7 DEF MaxAge, Ages

LEMMA OlderTyped ==
    /\ \A a \in Ages : Older(a) \in Ages
    /\ \A a, b \in Ages : a <= b => Older(a) <= Older(b)
    /\ \A sig \in Signal \cup {None} :
          /\ OlderSignal(sig) \in Signal \cup {None}
          /\ sig # None => /\ OlderSignal(sig).reading = sig.reading
                           /\ OlderSignal(sig).age = Older(sig.age)
          /\ sig = None <=> OlderSignal(sig) = None
<1>1. \A a \in Ages : Older(a) \in Ages
  BY Bounds DEF Older
<1>2. \A a, b \in Ages : a <= b => Older(a) <= Older(b)
  BY Bounds DEF Older
<1>3. ASSUME NEW sig \in Signal
      PROVE  /\ OlderSignal(sig) \in Signal
             /\ OlderSignal(sig).reading = sig.reading
             /\ OlderSignal(sig).age = Older(sig.age)
  BY <1>1, Bounds DEF OlderSignal, Signal
<1>4. OlderSignal(None) = None
  BY DEF OlderSignal
<1> QED BY <1>1, <1>2, <1>3, <1>4, Bounds

LEMMA StatusTyped ==
    /\ \A sig : StatusOf(sig) \in {"healthy", "degraded", "unavailable"}
    /\ \A sig, d : OrchestratorStatus(sig, d) \in {"healthy", "degraded", "unavailable"}
    /\ Snapshot \in Snapshots
<1>1. \A sig : StatusOf(sig) \in {"healthy", "degraded", "unavailable"}
  BY DEF StatusOf, FreshStatus
<1>2. \A sig, d : OrchestratorStatus(sig, d) \in {"healthy", "degraded", "unavailable"}
  BY <1>1 DEF OrchestratorStatus
<1>3. Snapshot \in Snapshots
  BY <1>1, <1>2 DEF Snapshot, Snapshots
<1> QED BY <1>1, <1>2, <1>3

-----------------------------------------------------------------------------
\* A heartbeat's handler is idle again, or on its way to the snapshot.
LEMMA IdleTyped ==
    /\ Idle \in HandlerState /\ Idle.pc = "idle" /\ Idle.beat = None
    /\ [Idle EXCEPT !.pc = "read"] \in HandlerState
    /\ [Idle EXCEPT !.pc = "read"].pc = "read" /\ [Idle EXCEPT !.pc = "read"].beat = None
    /\ Blank \in DraftState
    /\ Closed \in StreamState /\ Closed.buf = <<>> /\ Closed.owed = None /\ Len(Closed.buf) = 0
<1>1. Idle \in HandlerState /\ Idle.pc = "idle" /\ Idle.beat = None
  BY Bounds DEF Idle, HandlerState
<1>2. /\ [Idle EXCEPT !.pc = "read"] \in HandlerState
      /\ [Idle EXCEPT !.pc = "read"].pc = "read" /\ [Idle EXCEPT !.pc = "read"].beat = None
  BY Bounds DEF Idle, HandlerState
<1>3. Blank \in DraftState
  BY Bounds DEF Blank, DraftState, Snapshots
<1>4. Closed \in StreamState /\ Closed.buf = <<>> /\ Closed.owed = None /\ Len(Closed.buf) = 0
  BY DEF Closed, StreamState
<1> QED BY <1>1, <1>2, <1>3, <1>4

\* The type, in those terms.
LEMMA Types ==
    TypeOK <=>
    /\ handler \in [Handlers -> HandlerState]
    /\ \A h \in Handlers : handler[h].pc = "record" <=> handler[h].beat # None
    /\ signals \in [Signals -> Signal \cup {None}]
    /\ draft \in [Handlers -> DraftState]
    /\ stream \in [Streams -> StreamState]
    /\ \A c \in Streams : Len(stream[c].buf) <= Capacity
    /\ foundOk \in [Signals -> Ages]
BY DEF TypeOK, HandlerState, DraftState, StreamState

LEMMA InitInv == Init => Inv
<1> SUFFICES ASSUME Init PROVE Inv
  OBVIOUS
<1> USE DEF Init
<1>1. TypeOK
  <2>1. \A h \in Handlers : handler[h].pc = "record" <=> handler[h].beat # None
    BY IdleTyped
  <2>2. \A c \in Streams : Len(stream[c].buf) <= Capacity
    BY IdleTyped, Bounds
  <2>3. foundOk \in [Signals -> Ages]
    BY Bounds
  <2> QED BY <2>1, <2>2, <2>3, IdleTyped, Types
<1>2. FoundBefore
  BY IdleTyped DEF FoundBefore
<1>3. OwedIsNext
  BY IdleTyped DEF OwedIsNext
<1> QED BY <1>1, <1>2, <1>3 DEF Inv

-----------------------------------------------------------------------------
(* Steps of one part leave the others' invariants alone.                   *)

\* A step of the handlers (Record, RefuseStats, ReadSignal).
LEMMA HandlersOnly ==
    ASSUME Inv, UNCHANGED <<stream, foundOk>>,
           handler' \in [Handlers -> HandlerState],
           \A h \in Handlers : handler'[h].pc = "record" <=> handler'[h].beat # None,
           signals' \in [Signals -> Signal \cup {None}],
           draft' \in [Handlers -> DraftState],
           FoundBefore'
    PROVE  Inv'
<1>1. TypeOK'
  BY Types DEF Inv, TypeOK, HandlerState, DraftState
<1>2. OwedIsNext'
  BY DEF Inv, OwedIsNext
<1> QED BY <1>1, <1>2 DEF Inv

\* A step of one stream.
LEMMA StreamsOnly ==
    ASSUME Inv, UNCHANGED <<handler, signals, draft, foundOk>>,
           NEW c \in Streams, NEW new \in StreamState,
           stream' = [stream EXCEPT ![c] = new],
           Len(new.buf) <= Capacity,
           new.owed # None =>
               \/ new.buf # <<>> /\ new.buf[Len(new.buf)] = new.owed
               \/ new.buf = <<>> /\ new.pc = "open" /\ new.shown = new.owed
    PROVE  Inv'
<1>0. stream \in [Streams -> StreamState]
  BY Types DEF Inv
<1>1. /\ stream' \in [Streams -> StreamState]
      /\ \A d \in Streams : stream'[d] = IF d = c THEN new ELSE stream[d]
  BY <1>0
<1>2. \A d \in Streams : Len(stream'[d].buf) <= Capacity
  BY <1>1 DEF Inv, TypeOK
<1>3. TypeOK'
  BY <1>1, <1>2 DEF Inv, TypeOK, StreamState
<1>4. FoundBefore'
  BY DEF Inv, FoundBefore
<1>5. OwedIsNext'
  BY <1>1 DEF Inv, OwedIsNext
<1> QED BY <1>3, <1>4, <1>5 DEF Inv

LEMMA TickKeeps == ASSUME Inv, Tick PROVE Inv'
<1>0. /\ handler \in [Handlers -> HandlerState] /\ signals \in [Signals -> Signal \cup {None}]
      /\ draft \in [Handlers -> DraftState] /\ foundOk \in [Signals -> Ages]
      /\ \A h \in Handlers : handler[h].pc = "record" <=> handler[h].beat # None
  BY Types DEF Inv
<1>1. ASSUME NEW h \in Handlers
      PROVE  /\ handler'[h] \in HandlerState /\ handler'[h].pc = handler[h].pc
             /\ handler[h].beat = None <=> handler'[h].beat = None
             /\ handler[h].beat # None =>
                  /\ handler'[h].beat.report = handler[h].beat.report
                  /\ handler'[h].beat.age = Older(handler[h].beat.age)
  <2>1. handler[h] \in HandlerState
    BY <1>0
  <2>2. CASE handler[h].beat = None
    BY <2>1, <2>2 DEF Tick
  <2>3. CASE handler[h].beat # None
    <3>1. handler[h].beat \in Beat /\ handler[h].beat.age \in Ages
      BY <2>1, <2>3 DEF HandlerState, Beat
    <3>2. handler'[h] = [handler[h] EXCEPT !.beat.age = Older(handler[h].beat.age)]
      BY <2>3 DEF Tick
    <3>3. [handler[h].beat EXCEPT !.age = Older(handler[h].beat.age)] \in Beat
      BY <3>1, OlderTyped DEF Beat
    <3>4. handler'[h].beat = [handler[h].beat EXCEPT !.age = Older(handler[h].beat.age)]
      BY <3>2, <2>1 DEF HandlerState
    <3>5. handler'[h] \in HandlerState /\ handler'[h].pc = handler[h].pc
      BY <3>2, <3>3, <2>1 DEF HandlerState
    <3>6. /\ handler'[h].beat.report = handler[h].beat.report
          /\ handler'[h].beat.age = Older(handler[h].beat.age)
      BY <3>1, <3>4 DEF Beat
    <3> QED BY <3>3, <3>4, <3>5, <3>6, <2>3, Bounds
  <2> QED BY <2>2, <2>3
<1>2. handler' \in [Handlers -> HandlerState]
  BY <1>1 DEF Tick
<1>3. signals' \in [Signals -> Signal \cup {None}]
  BY <1>0, OlderTyped DEF Tick
<1>4. draft' \in [Handlers -> DraftState]
  <2>1. ASSUME NEW h \in Handlers
        PROVE  [draft[h] EXCEPT !.heard = OlderSignal(draft[h].heard)] \in DraftState
    <3>1. draft[h] \in DraftState /\ draft[h].heard \in Signal \cup {None}
      BY <1>0 DEF DraftState
    <3>2. OlderSignal(draft[h].heard) \in Signal \cup {None}
      BY <3>1, OlderTyped
    <3> QED BY <3>1, <3>2 DEF DraftState
  <2> QED BY <2>1 DEF Tick
<1>5. foundOk' \in [Signals -> Ages] /\ \A s \in Signals : foundOk'[s] = Older(foundOk[s])
  BY <1>0, OlderTyped DEF Tick
<1>6. TypeOK'
  <2>1. \A h \in Handlers : handler'[h].pc = "record" <=> handler'[h].beat # None
    BY <1>0, <1>1
  <2>2. stream' = stream
    BY DEF Tick
  <2> QED BY <1>2, <1>3, <1>4, <1>5, <2>1, <2>2 DEF Inv, TypeOK, HandlerState, DraftState
<1>7. FoundBefore'
  <2>1. ASSUME NEW s \in Signals, signals'[s] # None, signals'[s].reading = "ok"
        PROVE  foundOk'[s] <= signals'[s].age
    <3>1. signals'[s] = OlderSignal(signals[s]) /\ signals[s] \in Signal \cup {None}
      BY <1>0 DEF Tick
    <3>2. signals[s] # None /\ signals[s].reading = "ok" /\ signals'[s].age = Older(signals[s].age)
      BY <2>1, <3>1, OlderTyped
    <3>3. foundOk[s] <= signals[s].age
      BY <3>2 DEF Inv, FoundBefore
    <3>4. signals[s].age \in Ages /\ foundOk[s] \in Ages
      BY <3>1, <3>2, <1>0 DEF Signal
    <3> QED BY <3>2, <3>3, <3>4, <1>5, OlderTyped
  <2>2. ASSUME NEW h \in Handlers, NEW s \in Signals,
               handler'[h].beat # None, handler'[h].beat.report[s] = "ok"
        PROVE  foundOk'[s] <= handler'[h].beat.age
    <3>1. handler[h].beat # None /\ handler[h].beat.report[s] = "ok"
      BY <2>2, <1>1
    <3>2. foundOk[s] <= handler[h].beat.age
      BY <3>1 DEF Inv, FoundBefore
    <3>3. handler[h].beat.age \in Ages /\ foundOk[s] \in Ages
      BY <1>0, <3>1 DEF HandlerState, Beat
    <3> QED BY <3>1, <3>2, <3>3, <1>1, <1>5, OlderTyped
  <2> QED BY <2>1, <2>2 DEF FoundBefore
<1>8. OwedIsNext'
  BY DEF Inv, OwedIsNext, Tick
<1> QED BY <1>6, <1>7, <1>8 DEF Inv

-----------------------------------------------------------------------------
(* The steps of the handlers.                                              *)

LEMMA NotifyKeeps ==
    ASSUME Inv, NEW h \in Handlers, NEW report \in Reports, NotifyHeartbeat(h, report) PROVE Inv'
<1>0. /\ handler \in [Handlers -> HandlerState] /\ signals \in [Signals -> Signal \cup {None}]
      /\ foundOk \in [Signals -> Ages]
      /\ \A g \in Handlers : handler[g].pc = "record" <=> handler[g].beat # None
  BY Types DEF Inv
<1>1. PICK age \in Ages :
          handler' = [handler EXCEPT ![h] = [pc |-> "record", next |-> 1,
                                             beat |-> [age |-> age, report |-> report]]]
  BY DEF NotifyHeartbeat
<1> DEFINE new == [pc |-> "record", next |-> 1, beat |-> [age |-> age, report |-> report]]
<1>2. new \in HandlerState /\ new.beat # None /\ new.pc = "record" /\ new.beat.age = age
  BY Bounds DEF HandlerState, Beat
<1>3. \A g \in Handlers : handler'[g] = IF g = h THEN new ELSE handler[g]
  BY <1>0, <1>1
<1>4. /\ handler' \in [Handlers -> HandlerState]
      /\ \A g \in Handlers : handler'[g].pc = "record" <=> handler'[g].beat # None
  BY <1>0, <1>1, <1>2, <1>3
<1>5. \A s \in Signals : foundOk'[s] \in Ages /\ foundOk'[s] <= foundOk[s]
                         /\ (report[s] = "ok" => foundOk'[s] = 0)
  BY <1>0, Bounds DEF NotifyHeartbeat
<1>6. TypeOK'
  <2>1. foundOk' \in [Signals -> Ages]
    BY <1>5 DEF NotifyHeartbeat
  <2>2. UNCHANGED <<signals, draft, stream>>
    BY DEF NotifyHeartbeat
  <2> QED BY <1>4, <2>1, <2>2 DEF Inv, TypeOK, HandlerState
<1>7. FoundBefore'
  <2>1. ASSUME NEW s \in Signals, signals[s] # None, signals[s].reading = "ok"
        PROVE  foundOk'[s] <= signals[s].age
    <3>1. foundOk[s] <= signals[s].age /\ signals[s].age \in Ages
      BY <2>1, <1>0 DEF Inv, FoundBefore, Signal
    <3> QED BY <3>1, <1>0, <1>5, Bounds
  <2>2. ASSUME NEW g \in Handlers, NEW s \in Signals,
               handler'[g].beat # None, handler'[g].beat.report[s] = "ok"
        PROVE  foundOk'[s] <= handler'[g].beat.age
    <3>1. CASE g = h
      <4>1. handler'[g].beat.age = age /\ report[s] = "ok"
        BY <3>1, <1>3, <2>2
      <4> QED BY <4>1, <1>5, Bounds
    <3>2. CASE g # h
      <4>1. handler'[g] = handler[g]
        BY <3>2, <1>3
      <4>2. foundOk[s] <= handler[g].beat.age /\ handler[g].beat.age \in Ages
        BY <4>1, <2>2, <1>0 DEF Inv, FoundBefore, HandlerState, Beat
      <4> QED BY <4>1, <4>2, <1>0, <1>5, Bounds
    <3> QED BY <3>1, <3>2
  <2>3. signals' = signals
    BY DEF NotifyHeartbeat
  <2> QED BY <2>1, <2>2, <2>3 DEF FoundBefore
<1>8. OwedIsNext'
  BY DEF Inv, OwedIsNext, NotifyHeartbeat
<1> QED BY <1>6, <1>7, <1>8 DEF Inv

LEMMA RecordKeeps == ASSUME Inv, NEW h \in Handlers, Record(h) PROVE Inv'
<1>0. /\ handler \in [Handlers -> HandlerState] /\ signals \in [Signals -> Signal \cup {None}]
      /\ foundOk \in [Signals -> Ages] /\ draft \in [Handlers -> DraftState]
      /\ \A g \in Handlers : handler[g].pc = "record" <=> handler[g].beat # None
  BY Types DEF Inv
<1>1. /\ handler[h] \in HandlerState /\ handler[h].pc = "record"
      /\ handler[h].beat \in Beat /\ handler[h].next \in 1..Len(Order)
  BY <1>0 DEF Record, HandlerState
<1>2. PICK new \in HandlerState :
          /\ handler' = [handler EXCEPT ![h] = new]
          /\ new.pc = "record" <=> new.beat # None
          /\ new.beat # None => new.beat = handler[h].beat
  <2>1. CASE handler[h].next = Len(Order)
    <3>1. handler' = [handler EXCEPT ![h] = [Idle EXCEPT !.pc = "read"]]
      BY <2>1, <1>0 DEF Record, Advance
    <3> QED BY <3>1, IdleTyped
  <2>2. CASE handler[h].next # Len(Order)
    <3>1. handler' = [handler EXCEPT ![h] = [handler[h] EXCEPT !.next = handler[h].next + 1]]
      BY <2>2, <1>0 DEF Record, Advance
    <3>2. handler[h].next + 1 \in 1..Len(Order)
      BY <2>2, <1>1, Bounds
    <3>3. LET new == [handler[h] EXCEPT !.next = handler[h].next + 1]
          IN  new \in HandlerState /\ new.pc = "record" /\ new.beat = handler[h].beat
      BY <3>2, <1>1 DEF HandlerState
    <3> QED BY <3>1, <3>3, <1>1, Bounds
  <2> QED BY <2>1, <2>2
<1>3. \A g \in Handlers : handler'[g] = IF g = h THEN new ELSE handler[g]
  BY <1>0, <1>2
<1>4. /\ handler' \in [Handlers -> HandlerState]
      /\ \A g \in Handlers : handler'[g].pc = "record" <=> handler'[g].beat # None
  BY <1>0, <1>2, <1>3
<1> DEFINE s0 == Order[handler[h].next]
           found == handler[h].beat.report[s0]
           age == handler[h].beat.age
<1>5. s0 \in Signals /\ age \in Ages /\ found \in {"ok", "bad", "absent"}
  <2>1. handler[h].beat.report \in Report
    BY <1>1, StatusAssumption DEF Beat
  <2> QED BY <1>1, <2>1, Bounds DEF Beat, Report
<1>6. \/ signals' = signals
      \/ found # "absent" /\ signals' = [signals EXCEPT ![s0] = [reading |-> found, age |-> age]]
  BY DEF Record, Recorded
<1>7. signals' \in [Signals -> Signal \cup {None}]
  BY <1>0, <1>5, <1>6 DEF Signal
<1>8. UNCHANGED <<draft, stream, foundOk>>
  BY DEF Record
<1>9. FoundBefore'
  <2>1. ASSUME NEW s \in Signals, signals'[s] # None, signals'[s].reading = "ok"
        PROVE  foundOk[s] <= signals'[s].age
    <3>1. CASE signals'[s] = signals[s]
      BY <2>1, <3>1 DEF Inv, FoundBefore
    <3>2. CASE signals'[s] # signals[s]
      <4>1. s = s0 /\ signals'[s] = [reading |-> found, age |-> age]
        BY <3>2, <1>0, <1>5, <1>6
      <4>2. found = "ok" /\ signals'[s].age = age
        BY <4>1, <2>1
      <4> QED BY <4>1, <4>2, <1>1, Bounds DEF Inv, FoundBefore
    <3> QED BY <3>1, <3>2
  <2>2. ASSUME NEW g \in Handlers, NEW s \in Signals,
               handler'[g].beat # None, handler'[g].beat.report[s] = "ok"
        PROVE  foundOk[s] <= handler'[g].beat.age
    <3>1. handler'[g].beat = handler[g].beat
      BY <1>2, <1>3, <2>2
    <3> QED BY <3>1, <2>2 DEF Inv, FoundBefore
  <2> QED BY <2>1, <2>2, <1>8 DEF FoundBefore
<1> QED BY <1>4, <1>7, <1>8, <1>9, <1>0, HandlersOnly

LEMMA RefuseKeeps == ASSUME Inv, NEW h \in Handlers, RefuseStats(h) PROVE Inv'
<1>0. /\ handler \in [Handlers -> HandlerState] /\ signals \in [Signals -> Signal \cup {None}]
      /\ draft \in [Handlers -> DraftState]
      /\ \A g \in Handlers : handler[g].pc = "record" <=> handler[g].beat # None
  BY Types DEF Inv
<1>1. \A g \in Handlers : handler'[g] = IF g = h THEN Idle ELSE handler[g]
  BY <1>0 DEF RefuseStats
<1>2. /\ handler' \in [Handlers -> HandlerState]
      /\ \A g \in Handlers : handler'[g].pc = "record" <=> handler'[g].beat # None
  BY <1>0, <1>1, IdleTyped DEF RefuseStats
<1>3. UNCHANGED <<signals, draft, stream, foundOk>>
  BY DEF RefuseStats
<1>4. FoundBefore'
  BY <1>1, <1>3, IdleTyped DEF Inv, FoundBefore
<1> QED BY <1>0, <1>2, <1>3, <1>4, HandlersOnly

LEMMA ReadKeeps == ASSUME Inv, NEW h \in Handlers, ReadSignal(h) PROVE Inv'
<1>0. /\ handler \in [Handlers -> HandlerState] /\ signals \in [Signals -> Signal \cup {None}]
      /\ draft \in [Handlers -> DraftState]
      /\ \A g \in Handlers : handler[g].pc = "record" <=> handler[g].beat # None
  BY Types DEF Inv
<1> DEFINE d == draft[h]
           k == d.next
           sig == signals[Reads[k]]
<1>1. d \in DraftState /\ k \in 1..Len(Reads) /\ d.got \in Snapshots
  BY <1>0, Bounds DEF ReadSignal, DraftState
<1>2. Reads[k] \in Signals /\ sig \in Signal \cup {None}
  BY <1>0, <1>1, Bounds
<1>3. k + 1 \in 1..(Len(Reads) + 1) /\ k \in Nat
  BY <1>1, Bounds
<1>4. Noted(d) \in DraftState
  <2>1. CASE k = 1
    <3>1. Noted(d) = [d EXCEPT !.next = 2, !.heard = sig]
      BY <2>1 DEF Noted
    <3>2. 2 \in 1..(Len(Reads) + 1)
      BY <2>1, <1>3
    <3> QED BY <3>1, <3>2, <1>1, <1>2 DEF DraftState
  <2>2. CASE k = 2
    <3> DEFINE got == [d.got EXCEPT !["orchestrator"] = OrchestratorStatus(d.heard, StatusOf(sig))]
    <3>1. got \in Snapshots
      BY <1>1, StatusTyped, Bounds DEF Snapshots
    <3>2. Noted(d) = [next |-> 3, heard |-> None, got |-> got]
      BY <2>2 DEF Noted
    <3> HIDE DEF got
    <3>3. 3 \in 1..(Len(Reads) + 1)
      BY <2>2, <1>3
    <3> QED BY <3>1, <3>2, <3>3 DEF DraftState
  <2>3. CASE k # 1 /\ k # 2
    <3> DEFINE got == [d.got EXCEPT ![Reads[k]] = StatusOf(sig)]
    <3>1. got \in Snapshots
      BY <1>1, <1>2, StatusTyped DEF Snapshots
    <3>2. Noted(d) = [d EXCEPT !.next = k + 1, !.got = got]
      BY <2>3 DEF Noted
    <3> HIDE DEF got
    <3> QED BY <3>1, <3>2, <1>1, <1>3 DEF DraftState
  <2> QED BY <2>1, <2>2, <2>3
<1>6. draft' \in [Handlers -> DraftState]
  BY <1>0, <1>4 DEF ReadSignal
<1>7. UNCHANGED <<handler, signals, stream, foundOk>>
  BY DEF ReadSignal
<1>8. FoundBefore'
  BY <1>7 DEF Inv, FoundBefore
<1> QED BY <1>0, <1>6, <1>7, <1>8, HandlersOnly

-----------------------------------------------------------------------------
(* The steps of the broker and of the streams.                             *)

LEMMA LastOfAppend ==
    ASSUME NEW q \in Seq(Snapshots), NEW x \in Snapshots
    PROVE  /\ Append(q, x) \in Seq(Snapshots) /\ Append(q, x) # <<>>
           /\ Len(Append(q, x)) = Len(q) + 1
           /\ Append(q, x)[Len(Append(q, x))] = x
BY SMT

LEMMA LastOfTail ==
    ASSUME NEW q \in Seq(Snapshots), q # <<>>
    PROVE  /\ Tail(q) \in Seq(Snapshots) /\ Head(q) \in Snapshots
           /\ Len(Tail(q)) = Len(q) - 1 /\ Len(q) \in Nat
           /\ Tail(q) # <<>> => Tail(q)[Len(Tail(q))] = q[Len(q)]
           /\ Tail(q) = <<>> => Head(q) = q[Len(q)]
<1>1. Len(q) \in Nat /\ Len(q) > 0
  BY SMT
<1>2. Tail(q) \in Seq(Snapshots) /\ Head(q) \in Snapshots /\ Len(Tail(q)) = Len(q) - 1
  BY <1>1, SMT
<1>3. ASSUME Tail(q) # <<>> PROVE Tail(q)[Len(Tail(q))] = q[Len(q)]
  <2>1. Len(Tail(q)) >= 1
    BY <1>2, <1>3, <1>1, SMT
  <2> QED BY <2>1, <1>1, <1>2, SMT
<1>4. Len(<<>>) = 0
  OBVIOUS
<1>5. Len(Tail(q)) # 0 \/ Head(q) = q[Len(q)]
  <2>1. Len(q) - 1 # 0 \/ Len(q) = 1
    BY <1>1, SMT
  <2>2. Len(q) = 1 => Head(q) = q[Len(q)]
    BY SMT
  <2> QED BY <2>1, <2>2, <1>2, Zenon
<1>6. Tail(q) = <<>> => Head(q) = q[Len(q)]
  BY <1>4, <1>5, Zenon
<1> QED BY <1>1, <1>2, <1>3, <1>6

LEMMA PublishKeeps == ASSUME Inv, NEW h \in Handlers, Publish(h) PROVE Inv'
<1>0. /\ handler \in [Handlers -> HandlerState] /\ draft \in [Handlers -> DraftState]
      /\ stream \in [Streams -> StreamState]
      /\ \A c \in Streams : Len(stream[c].buf) <= Capacity
      /\ \A g \in Handlers : handler[g].pc = "record" <=> handler[g].beat # None
  BY Types DEF Inv
<1> DEFINE snapshot == draft[h].got
<1>1. snapshot \in Snapshots
  BY <1>0 DEF DraftState
<1>2. ASSUME NEW c \in Streams
      PROVE  LET new == Offered(c, snapshot)
             IN  /\ new \in StreamState /\ Len(new.buf) <= Capacity
                 /\ new.owed # None =>
                      \/ new.buf # <<>> /\ new.buf[Len(new.buf)] = new.owed
                      \/ new.buf = <<>> /\ new.pc = "open" /\ new.shown = new.owed
  <2>1. stream[c] \in StreamState /\ stream[c].buf \in Seq(Snapshots) /\ Len(stream[c].buf) \in Nat
    BY <1>0 DEF StreamState
  <2>2. CASE ~Subscribed(c)
    BY <2>1, <2>2, <1>0 DEF Offered, Inv, OwedIsNext
  <2>3. CASE Subscribed(c) /\ Len(stream[c].buf) < Capacity
    <3> DEFINE new == [stream[c] EXCEPT !.buf = Append(@, snapshot), !.owed = snapshot]
    <3>1. Offered(c, snapshot) = new
      BY <2>3 DEF Offered
    <3>2. /\ Append(stream[c].buf, snapshot) \in Seq(Snapshots)
          /\ Append(stream[c].buf, snapshot) # <<>>
          /\ Len(Append(stream[c].buf, snapshot)) = Len(stream[c].buf) + 1
          /\ Append(stream[c].buf, snapshot)[Len(Append(stream[c].buf, snapshot))] = snapshot
      BY <1>1, <2>1, LastOfAppend
    <3>3. new \in StreamState /\ new.buf = Append(stream[c].buf, snapshot) /\ new.owed = snapshot
      BY <3>2, <1>1, <2>1 DEF StreamState
    <3> QED BY <3>1, <3>2, <3>3, <2>1, <2>3, Bounds
  <2>4. CASE Subscribed(c) /\ ~(Len(stream[c].buf) < Capacity)
    <3>1. Offered(c, snapshot) = [stream[c] EXCEPT !.owed = None]
      BY <2>4 DEF Offered
    <3> QED BY <3>1, <2>1, <1>0 DEF StreamState
  <2> QED BY <2>2, <2>3, <2>4
<1>3. stream' = [c \in Streams |-> Offered(c, snapshot)]
  BY DEF Publish
<1>4. stream' \in [Streams -> StreamState] /\ \A c \in Streams : Len(stream'[c].buf) <= Capacity
  BY <1>2, <1>3
<1>5. OwedIsNext'
  BY <1>2, <1>3 DEF OwedIsNext
<1>6. \A g \in Handlers : handler'[g] = IF g = h THEN Idle ELSE handler[g]
  BY <1>0 DEF Publish, Answered
<1>7. /\ handler' \in [Handlers -> HandlerState] /\ draft' \in [Handlers -> DraftState]
      /\ \A g \in Handlers : handler'[g].pc = "record" <=> handler'[g].beat # None
  BY <1>0, <1>6, IdleTyped DEF Publish, Answered
<1>8. UNCHANGED <<signals, foundOk>>
  BY DEF Publish, Answered
<1>9. FoundBefore'
  BY <1>6, <1>8, IdleTyped DEF Inv, FoundBefore
<1>10. TypeOK'
  BY <1>4, <1>7, <1>8 DEF Inv, TypeOK, HandlerState, DraftState, StreamState
<1> QED BY <1>5, <1>9, <1>10 DEF Inv

LEMMA StreamKeeps ==
    ASSUME Inv, NEW c \in Streams,
           StreamStep(c) \/ Subscribe(c) \/ ClientStops(c) \/ Disconnect(c)
    PROVE  Inv'
<1> DEFINE s == stream[c]
<1>0. s \in StreamState /\ s.buf \in Seq(Snapshots) /\ Len(s.buf) <= Capacity
  BY Types DEF Inv, StreamState
<1>o. s.owed # None =>
         \/ s.buf # <<>> /\ s.buf[Len(s.buf)] = s.owed
         \/ s.buf = <<>> /\ s.pc = "open" /\ s.shown = s.owed
  BY DEF Inv, OwedIsNext
<1>s. stream \in [Streams -> StreamState]
  BY Types DEF Inv
<1>1. CASE Subscribe(c)
  <2> DEFINE new == [Closed EXCEPT !.pc = "initial"]
  <2>1. new \in StreamState /\ new.owed = None /\ new.buf = <<>>
    BY IdleTyped DEF StreamState
  <2>2. UNCHANGED <<handler, signals, draft, foundOk>> /\ stream' = [stream EXCEPT ![c] = new]
    BY <1>1 DEF Subscribe
  <2>3. Len(new.buf) <= Capacity
    BY <2>1, Bounds, IdleTyped
  <2> HIDE DEF new
  <2> QED BY <2>1, <2>2, <2>3, StreamsOnly
<1>2. CASE WriteInitial(c)
  <2> DEFINE new == [s EXCEPT !.pc = "open", !.shown = Snapshot]
  <2>1. new \in StreamState /\ new.owed = s.owed /\ new.buf = s.buf
    BY <1>0, StatusTyped DEF StreamState
  <2>2. UNCHANGED <<handler, signals, draft, foundOk>> /\ stream' = [stream EXCEPT ![c] = new]
    BY <1>2, <1>s DEF WriteInitial
  <2>3. s.pc = "initial"
    BY <1>2 DEF WriteInitial
  <2> HIDE DEF new
  <2> QED BY <2>1, <2>2, <2>3, <1>0, <1>o, StreamsOnly
<1>3. CASE WriteSnapshot(c)
  <2> DEFINE new == [s EXCEPT !.buf = Tail(s.buf), !.shown = Head(s.buf)]
  <2>1. s.buf # <<>> /\ s.pc = "open"
    BY <1>3 DEF WriteSnapshot
  <2>2. /\ Tail(s.buf) \in Seq(Snapshots) /\ Head(s.buf) \in Snapshots
        /\ Len(Tail(s.buf)) = Len(s.buf) - 1 /\ Len(s.buf) \in Nat
        /\ Tail(s.buf) # <<>> => Tail(s.buf)[Len(Tail(s.buf))] = s.buf[Len(s.buf)]
        /\ Tail(s.buf) = <<>> => Head(s.buf) = s.buf[Len(s.buf)]
    BY <1>0, <2>1, LastOfTail
  <2>3. /\ new \in StreamState /\ new.owed = s.owed /\ new.buf = Tail(s.buf) /\ new.pc = "open"
        /\ new.shown = Head(s.buf)
    BY <1>0, <2>1, <2>2 DEF StreamState
  <2>4. UNCHANGED <<handler, signals, draft, foundOk>> /\ stream' = [stream EXCEPT ![c] = new]
    BY <1>3, <1>s DEF WriteSnapshot
  <2>5. Len(new.buf) <= Capacity
    BY <2>2, <2>3, <1>0, Bounds
  <2> HIDE DEF new
  <2>6. new.owed # None =>
           \/ new.buf # <<>> /\ new.buf[Len(new.buf)] = new.owed
           \/ new.buf = <<>> /\ new.pc = "open" /\ new.shown = new.owed
    BY <2>1, <2>2, <2>3, <1>o
  <2> QED BY <2>3, <2>4, <2>5, <2>6, StreamsOnly
<1>4. CASE ClientStops(c)
  <2> DEFINE new == [Closed EXCEPT !.pc = "stuck", !.buf = s.buf]
  <2>1. new \in StreamState /\ new.owed = None /\ new.buf = s.buf
    BY <1>0 DEF Closed, StreamState
  <2>2. UNCHANGED <<handler, signals, draft, foundOk>> /\ stream' = [stream EXCEPT ![c] = new]
    BY <1>4 DEF ClientStops
  <2> HIDE DEF new
  <2> QED BY <2>1, <2>2, <1>0, StreamsOnly
<1>5. CASE Disconnect(c)
  <2>1. UNCHANGED <<handler, signals, draft, foundOk>> /\ stream' = [stream EXCEPT ![c] = Closed]
    BY <1>5 DEF Disconnect
  <2>2. Closed \in StreamState /\ Closed.owed = None /\ Len(Closed.buf) <= Capacity
    BY IdleTyped, Bounds
  <2> QED BY <2>1, <2>2, StreamsOnly
<1> QED BY <1>1, <1>2, <1>3, <1>4, <1>5 DEF StreamStep

LEMMA RestartKeeps == ASSUME Inv, RestartAPI PROVE Inv'
<1> USE DEF RestartAPI
<1>1. TypeOK'
  <2>1. \A h \in Handlers : handler'[h].pc = "record" <=> handler'[h].beat # None
    BY IdleTyped
  <2>2. \A c \in Streams : Len(stream'[c].buf) <= Capacity
    BY IdleTyped, Bounds
  <2>3. foundOk' \in [Signals -> Ages]
    BY DEF Inv, TypeOK
  <2> QED BY <2>1, <2>2, <2>3, IdleTyped DEF TypeOK, HandlerState, DraftState, StreamState
<1>2. FoundBefore'
  BY IdleTyped DEF FoundBefore
<1>3. OwedIsNext'
  BY IdleTyped DEF OwedIsNext
<1> QED BY <1>1, <1>2, <1>3 DEF Inv

-----------------------------------------------------------------------------
\* Every step keeps the invariant.
LEMMA NextKeeps == Inv /\ [Next]_vars => Inv'
<1> SUFFICES ASSUME Inv, [Next]_vars PROVE Inv'
  OBVIOUS
<1>1. CASE Tick
  BY <1>1, TickKeeps
<1>2. CASE Probe
  <2>1. PICK report \in Reports : Free # {} /\ NotifyHeartbeat(CHOOSE h \in Free : TRUE, report)
    BY <1>2 DEF Probe
  <2>2. (CHOOSE h \in Free : TRUE) \in Handlers
    BY <2>1 DEF Free
  <2> QED BY <2>1, <2>2, NotifyKeeps
<1>3. CASE \E h \in Handlers : HandlerStep(h)
  BY <1>3, RecordKeeps, RefuseKeeps, ReadKeeps, PublishKeeps DEF HandlerStep
<1>4. CASE \E c \in Streams : StreamStep(c) \/ Subscribe(c) \/ ClientStops(c) \/ Disconnect(c)
  BY <1>4, StreamKeeps
<1>5. CASE RestartAPI
  BY <1>5, RestartKeeps
<1>6. CASE UNCHANGED vars
  BY <1>6 DEF Inv, TypeOK, FoundBefore, OwedIsNext, vars
<1> QED BY <1>1, <1>2, <1>3, <1>4, <1>5, <1>6 DEF Next

\* The status provider, its handlers and its streams never leave their types;
\* no buffer of a subscriber outgrows its capacity (publish).
THEOREM TypeCorrect == Spec => []TypeOK
<1>1. Inv => TypeOK
  BY DEF Inv
<1> QED BY <1>1, InitInv, NextKeeps, PTL DEF Spec

\* What the API would call healthy was found so by a probe within the last
\* StaleAfter (StatusOf, RecordDockerStatus and the like): whatever is
\* recorded, or is about to be, carries the time of its probe.
THEOREM FreshClaimsHolds == Spec => []FreshClaims
<1>1. Inv => FreshClaims
  <2> SUFFICES ASSUME Inv, NEW s \in Signals, StatusOf(signals[s]) = "healthy"
               PROVE  foundOk[s] <= StaleAfter
    BY DEF FreshClaims
  <2>1. signals[s] \in Signal \cup {None} /\ foundOk[s] \in Ages
    BY DEF Inv, TypeOK
  <2>2. signals[s] # None /\ ~(signals[s].age > StaleAfter) /\ signals[s].reading # "bad"
    BY DEF StatusOf, FreshStatus
  <2>3. signals[s].reading = "ok" /\ signals[s].age \in Ages
    BY <2>1, <2>2 DEF Signal
  <2>4. foundOk[s] <= signals[s].age
    BY <2>2, <2>3 DEF Inv, FoundBefore
  <2> QED BY <2>1, <2>2, <2>3, <2>4, Bounds
<1> QED BY <1>1, InitInv, NextKeeps, PTL DEF Spec

\* A stream that has emptied its buffer shows what was published last since
\* it subscribed, unless that was dropped (systemStatusEvents, publish).
THEOREM CaughtUpHolds == Spec => []CaughtUp
<1>1. Inv => CaughtUp
  BY DEF Inv, OwedIsNext, CaughtUp
<1> QED BY <1>1, InitInv, NextKeeps, PTL DEF Spec

=============================================================================
