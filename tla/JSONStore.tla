----------------------------- MODULE JSONStore -----------------------------
(***************************************************************************)
(* The file-backed store (store/store.go).  Threads of several processes   *)
(* take their process's RWMutex, then flock the lock file, read the whole  *)
(* file, and replace it through a temporary file and a rename.  Calls of   *)
(* the operating system fail, processes are killed between any two steps,  *)
(* and the power goes.                                                     *)
(***************************************************************************)
EXTENDS StoreRequests, FiniteSets

CONSTANTS
    Processes,      \* the API, the orchestrator, the proxy, the CLI
    Threads,        \* the goroutines that call the store
    ProcessOf,      \* [Threads -> Processes]
    Requests,       \* the requests that are made
    RequestsOf,     \* process -> the requests of which it makes some
    NoThread,
    NoRequest,
    MaxFaults,      \* bound: failed calls, kills and power losses
    MaxCalls        \* bound: requests made

ASSUME ProcessAssumption == ProcessOf \in [Threads -> Processes]
ASSUME RequestsAssumption == Requests \subseteq Request
ASSUME NoThreadAssumption == NoThread \notin Threads
ASSUME NoRequestAssumption == NoRequest \notin Request
ASSUME BoundAssumption == MaxFaults \in Nat /\ MaxCalls \in Nat

\* A file: an object with deployments and registries, as persistState
\* writes it; the array of deployments that older versions wrote; a torn
\* file that does not decode.  "synced" says that its contents are on disk.
File == [kind : {"none", "array", "object", "torn"}, content : State, synced : BOOLEAN]

NoFile == [kind |-> "none", content |-> EmptyState, synced |-> TRUE]
Torn   == [kind |-> "torn", content |-> EmptyState, synced |-> FALSE]

PCs == {"idle", "lock", "readers", "flock", "read", "create", "encode", "sync",
        "rename", "unlock"}

VARIABLES
    file,       \* the deployments file
    tmp,        \* the temporary file beside it
    disk,       \* the deployments file that a power loss leaves
    muWriter,   \* [Processes -> Threads \cup {NoThread}], holds or awaits mu
    muReaders,  \* [Processes -> SUBSET Threads]
    flockEX,    \* the thread with the exclusive flock, or NoThread
    flockSH,    \* the threads with a shared flock
    pc,
    request,    \* [Threads -> Request \cup {NoRequest}]
    data,       \* [Threads -> State], what a thread is about to persist
    answer,     \* [Threads -> Answer], what a thread is about to return
    calls,
    faults

fileVars == <<file, tmp, disk>>
lockVars == <<muWriter, muReaders, flockEX, flockSH>>
vars == <<fileVars, lockVars, pc, request, data, answer, calls, faults>>

TypeOK ==
    /\ file \in File /\ tmp \in File /\ disk \in File
    /\ muWriter \in [Processes -> Threads \cup {NoThread}]
    /\ muReaders \in [Processes -> SUBSET Threads]
    /\ flockEX \in Threads \cup {NoThread}
    /\ flockSH \subseteq Threads
    /\ pc \in [Threads -> PCs]
    /\ request \in [Threads -> Request \cup {NoRequest}]
    /\ data \in [Threads -> State]
    /\ answer \in [Threads -> Answer]
    /\ calls \in 0..MaxCalls
    /\ faults \in 0..MaxFaults

\* A new installation, or one whose file an older version wrote.
Init ==
    /\ \/ file = NoFile
       \/ \E d \in IDs, q \in Requests :
            file = [kind |-> "array",
                    content |-> [EmptyState EXCEPT !.deployments[d] = q.body],
                    synced |-> TRUE]
    /\ tmp = NoFile
    /\ disk = file
    /\ muWriter = [p \in Processes |-> NoThread]
    /\ muReaders = [p \in Processes |-> {}]
    /\ flockEX = NoThread
    /\ flockSH = {}
    /\ pc = [t \in Threads |-> "idle"]
    /\ request = [t \in Threads |-> NoRequest]
    /\ data = [t \in Threads |-> EmptyState]
    /\ answer = [t \in Threads |-> Reply("ok")]
    /\ calls = 0
    /\ faults = 0

-----------------------------------------------------------------------------
Reads(t) == request[t].op = "read"

Goto(t, label) == pc' = [pc EXCEPT ![t] = label]

Fault == faults < MaxFaults /\ faults' = faults + 1

\* Newly drawn ids only: newID is random.
FreshID(q) ==
    q.op \in {"create", "createRegistry"} =>
        /\ file.content.deployments[q.id] = NoDeployment
        /\ file.content.registries[q.id] = NoRegistry
        /\ \A t \in Threads : request[t] # NoRequest => request[t].id # q.id

Call(t, q) ==
    /\ pc[t] = "idle"
    /\ calls < MaxCalls
    /\ q \in RequestsOf[ProcessOf[t]]
    /\ FreshID(q)
    /\ calls' = calls + 1
    /\ request' = [request EXCEPT ![t] = q]
    /\ Goto(t, "lock")
    /\ UNCHANGED <<fileVars, lockVars, data, answer, faults>>

\* The call goes on to its return with answer a; the deferred unlocks follow.
ReturnWith(t, a) ==
    /\ answer' = [answer EXCEPT ![t] = a]
    /\ Goto(t, "unlock")

-----------------------------------------------------------------------------
(* withLock and withRLock.                                                 *)

\* mu.RLock, or the announcement in mu.Lock that keeps new readers out.
LockMu(t) ==
    LET p == ProcessOf[t] IN
    /\ pc[t] = "lock"
    /\ muWriter[p] = NoThread
    /\ \/ /\ Reads(t)
          /\ muReaders' = [muReaders EXCEPT ![p] = @ \cup {t}]
          /\ Goto(t, "flock")
          /\ UNCHANGED muWriter
       \/ /\ ~Reads(t)
          /\ muWriter' = [muWriter EXCEPT ![p] = t]
          /\ Goto(t, "readers")
          /\ UNCHANGED muReaders
    /\ UNCHANGED <<fileVars, flockEX, flockSH, request, data, answer, calls, faults>>

AwaitReaders(t) ==
    /\ pc[t] = "readers"
    /\ muReaders[ProcessOf[t]] = {}
    /\ Goto(t, "flock")
    /\ UNCHANGED <<fileVars, lockVars, request, data, answer, calls, faults>>

\* Mutant: a writer that takes the shared lock.
FlockShared(t) ==
    /\ pc[t] = "flock"
    /\ flockEX = NoThread
    /\ flockSH' = flockSH \cup {t}
    /\ Goto(t, "read")
    /\ UNCHANGED <<fileVars, muWriter, muReaders, flockEX, request, data, answer, calls, faults>>

Flock(t) ==
    /\ pc[t] = "flock"
    /\ flockEX = NoThread
    /\ \/ Reads(t) /\ flockSH' = flockSH \cup {t} /\ UNCHANGED flockEX
       \/ ~Reads(t) /\ flockSH = {} /\ flockEX' = t /\ UNCHANGED flockSH
    /\ Goto(t, "read")
    /\ UNCHANGED <<fileVars, muWriter, muReaders, request, data, answer, calls, faults>>

\* The lock file cannot be opened or locked.
FlockFails(t) ==
    /\ pc[t] = "flock"
    /\ Fault
    /\ ReturnWith(t, Reply("error"))
    /\ UNCHANGED <<fileVars, lockVars, request, data, calls>>

\* What t's deferred unlocks, or its death, leave of the locks.
Released(S) ==
    /\ muWriter' = [p \in Processes |-> IF muWriter[p] \in S THEN NoThread ELSE muWriter[p]]
    /\ muReaders' = [p \in Processes |-> muReaders[p] \ S]
    /\ flockEX' = IF flockEX \in S THEN NoThread ELSE flockEX
    /\ flockSH' = flockSH \ S

\* The threads of S are gone from the store.
Idle(S) ==
    /\ pc' = [t \in Threads |-> IF t \in S THEN "idle" ELSE pc[t]]
    /\ request' = [t \in Threads |-> IF t \in S THEN NoRequest ELSE request[t]]
    /\ data' = [t \in Threads |-> IF t \in S THEN EmptyState ELSE data[t]]
    /\ answer' = [t \in Threads |-> IF t \in S THEN Reply("ok") ELSE answer[t]]

\* Mutant: the locks are not deferred, and an error returns without them.
UnlockOnSuccess(t) ==
    /\ pc[t] = "unlock"
    /\ IF answer[t].code = "error" THEN UNCHANGED lockVars ELSE Released({t})
    /\ Idle({t})
    /\ UNCHANGED <<fileVars, calls, faults>>

Unlock(t) ==
    /\ pc[t] = "unlock"
    /\ Released({t})
    /\ Idle({t})
    /\ UNCHANGED <<fileVars, calls, faults>>

-----------------------------------------------------------------------------
(* readState, and the operations that work on what it returns.             *)

Decodes(f) == f.kind # "torn"

\* A file that is not there is an empty store; an array has no registries.
ReadState(f) ==
    CASE f.kind = "object" -> f.content
      [] f.kind = "array"  -> [deployments |-> f.content.deployments,
                               registries  |-> EmptyState.registries]
      [] OTHER -> EmptyState

\* A request that persists nothing returns at once.
Read(t) ==
    /\ pc[t] = "read"
    /\ Decodes(file)
    /\ LET s == ReadState(file) IN
       IF Persists(request[t], s)
       THEN /\ data' = [data EXCEPT ![t] = Effect(request[t], s)]
            /\ Goto(t, "create")
            /\ UNCHANGED answer
       ELSE /\ ReturnWith(t, AnswerTo(request[t], s))
            /\ UNCHANGED data
    /\ UNCHANGED <<fileVars, lockVars, request, calls, faults>>

ReadFails(t) ==
    /\ pc[t] = "read"
    /\ Decodes(file) => faults < MaxFaults
    /\ faults' = IF Decodes(file) THEN faults + 1 ELSE faults
    /\ ReturnWith(t, Reply("error"))
    /\ UNCHANGED <<fileVars, lockVars, request, data, calls>>

-----------------------------------------------------------------------------
(* persist and persistState.                                               *)

\* Mutant: the deployments are persisted without reading the file again.
CreateTmpBlindly(t) ==
    /\ pc[t] = "create"
    /\ tmp' = Torn
    /\ data' = [data EXCEPT ![t] =
                  IF request[t].op \in DeploymentOps
                  THEN [deployments |-> @.deployments, registries |-> EmptyState.registries]
                  ELSE @]
    /\ Goto(t, "encode")
    /\ UNCHANGED <<file, disk, lockVars, request, answer, calls, faults>>

\* persist reads the file a second time, for the registries it goes with.
CreateTmp(t) ==
    /\ pc[t] = "create"
    /\ Decodes(file)
    /\ tmp' = Torn
    /\ data' = [data EXCEPT ![t] =
                  IF request[t].op \in DeploymentOps
                  THEN [deployments |-> @.deployments, registries |-> ReadState(file).registries]
                  ELSE @]
    /\ Goto(t, "encode")
    /\ UNCHANGED <<file, disk, lockVars, request, answer, calls, faults>>

CreateTmpFails(t) ==
    /\ pc[t] = "create"
    /\ Fault
    /\ ReturnWith(t, Reply("error"))
    /\ UNCHANGED <<fileVars, lockVars, request, data, calls>>

Encode(t) ==
    /\ pc[t] = "encode"
    /\ tmp' = [kind |-> "object", content |-> data[t], synced |-> FALSE]
    /\ Goto(t, "sync")
    /\ UNCHANGED <<file, disk, lockVars, request, data, answer, calls, faults>>

\* Mutant: the temporary file is renamed without being synced.
SyncSkipped(t) ==
    /\ pc[t] = "sync"
    /\ Goto(t, "rename")
    /\ UNCHANGED <<fileVars, lockVars, request, data, answer, calls, faults>>

Sync(t) ==
    /\ pc[t] = "sync"
    /\ tmp' = [tmp EXCEPT !.synced = TRUE]
    /\ Goto(t, "rename")
    /\ UNCHANGED <<file, disk, lockVars, request, data, answer, calls, faults>>

CloseAndRename(t) ==
    /\ pc[t] = "rename"
    /\ file' = tmp
    /\ tmp' = NoFile
    /\ ReturnWith(t, Reply("ok"))
    /\ UNCHANGED <<disk, lockVars, request, data, calls, faults>>

\* Encoding, syncing, closing or renaming fails: the temporary file goes.
PersistFails(t) ==
    /\ pc[t] \in {"encode", "sync", "rename"}
    /\ Fault
    /\ tmp' = NoFile
    /\ ReturnWith(t, Reply("error"))
    /\ UNCHANGED <<file, disk, lockVars, request, data, calls>>

-----------------------------------------------------------------------------
(* The environment.                                                        *)

\* The kernel drops the locks of a killed process and leaves its files; the
\* process is started again.
Kill(p) ==
    LET S == {t \in Threads : ProcessOf[t] = p} IN
    /\ Fault
    /\ \E t \in S : pc[t] # "idle"
    /\ Released(S)
    /\ Idle(S)
    /\ UNCHANGED <<fileVars, calls>>

\* The file system gets to writing the directory; the code never asks it to.
Flush ==
    /\ disk # file
    /\ disk' = file
    /\ UNCHANGED <<file, tmp, lockVars, pc, request, data, answer, calls, faults>>

\* The file falls back to the last one whose name is on disk, and contents
\* that were never synced are lost.
PowerLoss ==
    /\ Fault
    /\ file' = IF disk.synced THEN disk ELSE Torn
    /\ disk' = file'
    /\ tmp' \in {NoFile, Torn}
    /\ Released(Threads)
    /\ Idle(Threads)
    /\ UNCHANGED calls

-----------------------------------------------------------------------------
Step(t) ==
    \/ LockMu(t) \/ AwaitReaders(t) \/ Flock(t) \/ Read(t) \/ ReadFails(t)
    \/ CreateTmp(t) \/ Encode(t) \/ Sync(t) \/ CloseAndRename(t) \/ Unlock(t)

Next ==
    \/ \E t \in Threads, q \in Requests : Call(t, q)
    \/ \E t \in Threads :
         Step(t) \/ FlockFails(t) \/ CreateTmpFails(t) \/ PersistFails(t)
    \/ \E p \in Processes : Kill(p)
    \/ Flush
    \/ PowerLoss

Spec == Init /\ [][Next]_vars

\* Every goroutine keeps running.  Nothing is assumed about who gets a lock
\* that several wait for.
Fairness == \A t \in Threads : WF_vars(Step(t))

LiveSpec == Spec /\ Fairness

-----------------------------------------------------------------------------
(* Properties.                                                             *)

\* The deployments file always decodes, after kills and power losses too:
\* it is replaced by a rename of a synced file and never written in place.
FileDecodes == Decodes(file)

\* What the store promises: see AtomicStore.  A request is done when the
\* file has been renamed, or when it was answered without that.
Atomic == INSTANCE AtomicStore WITH
    state   <- ReadState(file),
    durable <- ReadState(disk),
    phase   <- [t \in Threads |-> IF pc[t] = "idle" THEN "idle"
                                  ELSE IF pc[t] = "unlock" THEN "done" ELSE "called"]

\* The file-backed store implements the atomic one: every request is
\* applied at one instant to the state that all others left, or fails and
\* changes nothing, whatever the processes do and wherever they are killed.
ImplementsAtomicStore == Atomic!AtomicSpec

DistinctPrefixes(rs) ==
    \A r1, r2 \in IDs : rs[r1] = rs[r2] /\ rs[r1] # NoRegistry => r1 = r2

\* No two registries have the same prefix, though CreateRegistry and
\* UpdateRegistry of different processes check and write at the same time.
PrefixesUnique == DistinctPrefixes(ReadState(file).registries)

\* Every call returns: no error path keeps a lock, and the two locks are
\* taken in one order.
CallsReturn == \A t \in Threads : pc[t] # "idle" ~> pc[t] = "idle"

-----------------------------------------------------------------------------
(* The inductive invariant behind ImplementsAtomicStore and FileDecodes.   *)

Persisting == {"create", "encode", "sync", "rename"}

\* A thread has a request and no answer exactly while it is being served.
RequestsServed ==
    \A t \in Threads :
        /\ pc[t] # "idle" => request[t] \in Request
        /\ pc[t] # "unlock" => answer[t] = Reply("ok")

\* Whoever is about to replace the file has the exclusive flock.
WritersLocked ==
    \A t \in Threads :
        /\ pc[t] \in Persisting => request[t].op # "read"
        /\ pc[t] = "read" /\ request[t].op # "read" => flockEX = t
        /\ pc[t] \in Persisting => flockEX = t

\* What it is about to write is what its request makes of the file as it is.
DataCurrent ==
    \A t \in Threads : pc[t] \in Persisting =>
        /\ Persists(request[t], ReadState(file))
        /\ data[t] = Effect(request[t], ReadState(file))

TmpCurrent ==
    \A t \in Threads : pc[t] \in {"sync", "rename"} =>
        tmp = [kind |-> "object", content |-> data[t], synced |-> (pc[t] = "rename")]

FilesSynced ==
    /\ Decodes(file) /\ file.synced
    /\ Decodes(disk) /\ disk.synced

Inv == TypeOK /\ RequestsServed /\ WritersLocked /\ DataCurrent /\ TmpCurrent /\ FilesSynced

=============================================================================
