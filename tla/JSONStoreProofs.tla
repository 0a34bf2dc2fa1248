-------------------------- MODULE JSONStoreProofs --------------------------
(***************************************************************************)
(* The file-backed store implements the atomic one, for any number of      *)
(* processes, goroutines, requests and faults.                             *)
(***************************************************************************)
EXTENDS JSONStore, TLAPS

\* The store's operations keep the type of the deployments map.
LEMMA DeploymentsAfterType ==
    ASSUME NEW q \in Request, NEW ds \in [IDs -> Deployment \cup {NoDeployment}]
    PROVE  DeploymentsAfter(q, ds) \in [IDs -> Deployment \cup {NoDeployment}]
<1> DEFINE Map == [IDs -> Deployment \cup {NoDeployment}]
<1>1. StoreCreate(ds, q.id, q.body) \in Map
  BY DEF StoreCreate, Request
<1>2. StoreUpdate(ds, q.id, q.body) \in Map
  BY DEF StoreUpdate, Request
<1>3. ASSUME NEW p \in Deployment, NEW fields
      PROVE  StorePatch(ds, q.id, p, fields) \in Map
  <2>1. CASE ds[q.id] = NoDeployment
    BY <2>1 DEF StorePatch
  <2>2. CASE ds[q.id] # NoDeployment
    <3> DEFINE d == ds[q.id]
               r == [name   |-> d.name,
                     image  |-> IF "image"  \in fields THEN p.image  ELSE d.image,
                     ports  |-> IF "ports"  \in fields THEN p.ports  ELSE d.ports,
                     domain |-> IF "domain" \in fields THEN p.domain ELSE d.domain,
                     status |-> IF "status" \in fields THEN p.status ELSE d.status,
                     err    |-> IF "status" \in fields THEN p.err    ELSE d.err]
    <3>1. d \in Deployment
      BY <2>2 DEF Request
    <3>2. r \in Deployment
      BY <3>1, <1>3 DEF Deployment
    <3>3. StorePatch(ds, q.id, p, fields) = [ds EXCEPT ![q.id] = r]
      BY <2>2 DEF StorePatch
    <3> HIDE DEF r
    <3> QED BY <3>2, <3>3
  <2> QED BY <2>1, <2>2
<1>4. StoreDelete(ds, q.id) \in Map
  BY DEF StoreDelete
<1>5. q.body \in Deployment /\ [q.body EXCEPT !.err = "none"] \in Deployment
  BY DEF Request, Deployment, Errors
<1>6. StorePatch(ds, q.id, q.body, q.fields) \in Map
  BY <1>3, <1>5
<1>7. StorePatch(ds, q.id, [q.body EXCEPT !.err = "none"], {"status"}) \in Map
  BY <1>3, <1>5
<1> HIDE DEF Map
<1>8. ds \in Map
  BY DEF Map
<1>9. DeploymentsAfter(q, ds) \in Map
  BY <1>1, <1>2, <1>4, <1>6, <1>7, <1>8 DEF DeploymentsAfter
<1> QED BY <1>9 DEF Map

\* The registry operations keep the type of the registries map.
LEMMA RegistriesAfterType ==
    ASSUME NEW q \in Request, NEW rs \in [IDs -> Prefixes \cup {NoRegistry}]
    PROVE  RegistriesAfter(q, rs) \in [IDs -> Prefixes \cup {NoRegistry}]
  BY DEF RegistriesAfter, Request

\* Every request leaves a state.
LEMMA EffectType ==
    ASSUME NEW q \in Request, NEW s \in State
    PROVE  Effect(q, s) \in State
<1>1. /\ s.deployments \in [IDs -> Deployment \cup {NoDeployment}]
      /\ s.registries \in [IDs -> Prefixes \cup {NoRegistry}]
  BY DEF State
<1>2. /\ DeploymentsAfter(q, s.deployments) \in [IDs -> Deployment \cup {NoDeployment}]
      /\ RegistriesAfter(q, s.registries) \in [IDs -> Prefixes \cup {NoRegistry}]
  BY <1>1, DeploymentsAfterType, RegistriesAfterType
<1> QED BY <1>2 DEF Effect, State

\* A request about deployments leaves the registries alone.
LEMMA EffectKeepsRegistries ==
    ASSUME NEW q \in Request, NEW s \in State, q.op \in DeploymentOps, Persists(q, s)
    PROVE  /\ Effect(q, s).registries = s.registries
           /\ Effect(q, s) = [deployments |-> Effect(q, s).deployments,
                              registries  |-> s.registries]
  BY DEF Effect, RegistriesAfter, DeploymentOps

\* A request that persists the state is answered without an error.
LEMMA PersistsAnswer ==
    ASSUME NEW q, NEW s, Persists(q, s)
    PROVE  AnswerTo(q, s) = Reply("ok")
  BY DEF Persists, AnswerTo, Reply

\* A request that does not persist the state leaves it as it is.
LEMMA NotPersists ==
    ASSUME NEW q, NEW s, ~Persists(q, s)
    PROVE  Effect(q, s) = s
  BY DEF Effect

LEMMA EmptyStateType == EmptyState \in State
  BY DEF EmptyState, State

\* Answers are answers.
LEMMA AnswerType ==
    ASSUME NEW q \in Request, NEW s \in State
    PROVE  AnswerTo(q, s) \in Answer
<1>1. Code(q, s) \in Codes
  BY DEF Code, Codes, Request
<1> QED BY <1>1, EmptyStateType DEF AnswerTo, Answer

LEMMA ReplyType ==
    ASSUME NEW code \in Codes PROVE Reply(code) \in Answer
  BY EmptyStateType DEF Reply, Answer

\* Whatever the file, what is read from it is a state.
LEMMA ReadStateType ==
    ASSUME NEW f \in File PROVE ReadState(f) \in State
<1>1. f.content \in State
  BY DEF File
<1> QED BY <1>1, EmptyStateType DEF ReadState, State, EmptyState

LEMMA FileTypes == NoFile \in File /\ Torn \in File
  BY EmptyStateType DEF NoFile, Torn, File

\* What a file that persistState wrote reads as.
LEMMA ReadObject ==
    ASSUME NEW s \in State, NEW b \in BOOLEAN
    PROVE  /\ [kind |-> "object", content |-> s, synced |-> b] \in File
           /\ ReadState([kind |-> "object", content |-> s, synced |-> b]) = s
           /\ Decodes([kind |-> "object", content |-> s, synced |-> b])
  BY DEF File, ReadState, Decodes

-----------------------------------------------------------------------------
(* The inductive invariant.                                                *)

\* The bodies of requests are deployments, so an old file holds a state.
LEMMA InitInv ==
    ASSUME Init PROVE Inv
<1>1. file \in File /\ Decodes(file) /\ file.synced
  <2>1. CASE file = NoFile
    BY <2>1, FileTypes DEF NoFile, Decodes
  <2>2. ASSUME NEW d \in IDs, NEW q \in Requests,
               file = [kind |-> "array",
                       content |-> [EmptyState EXCEPT !.deployments[d] = q.body],
                       synced |-> TRUE]
        PROVE  file \in File /\ Decodes(file) /\ file.synced
    <3>1. q.body \in Deployment
      BY RequestsAssumption DEF Request
    <3>2. [EmptyState EXCEPT !.deployments[d] = q.body] \in State
      BY <3>1 DEF EmptyState, State
    <3> QED BY <2>2, <3>2 DEF File, Decodes
  <2> QED BY <2>1, <2>2 DEF Init
<1>2. TypeOK
  BY <1>1, FileTypes, EmptyStateType, ReplyType, BoundAssumption DEF Init, TypeOK, PCs, Codes
<1>3. RequestsServed /\ WritersLocked /\ DataCurrent /\ TmpCurrent /\ FilesSynced
  BY <1>1 DEF Init, RequestsServed, WritersLocked, DataCurrent, TmpCurrent, FilesSynced,
              Persisting
<1> QED BY <1>2, <1>3 DEF Inv

\* A state read from the file is a state.
LEMMA FileState ==
    ASSUME TypeOK PROVE ReadState(file) \in State
  BY ReadStateType DEF TypeOK

\* Threads that unlock, die or lose power keep the invariant, as long as
\* the files they leave are sound.
LEMMA IdleInv ==
    ASSUME Inv, NEW S \in SUBSET Threads, Released(S), Idle(S),
           file' \in File, tmp' \in File, disk' \in File,
           Decodes(file'), file'.synced, Decodes(disk'), disk'.synced,
           S = Threads \/ (file' = file /\ tmp' = tmp),
           calls' \in 0..MaxCalls, faults' \in 0..MaxFaults
    PROVE  Inv'
<1>1. TypeOK'
  <2>1. /\ pc' \in [Threads -> PCs]
        /\ request' \in [Threads -> Request \cup {NoRequest}]
        /\ data' \in [Threads -> State]
    BY EmptyStateType DEF Inv, TypeOK, Idle, PCs
  <2>2. answer' \in [Threads -> Answer]
    BY ReplyType DEF Inv, TypeOK, Idle, Codes
  <2>3. /\ muWriter' \in [Processes -> Threads \cup {NoThread}]
        /\ muReaders' \in [Processes -> SUBSET Threads]
        /\ flockEX' \in Threads \cup {NoThread}
        /\ flockSH' \subseteq Threads
    BY DEF Inv, TypeOK, Released
  <2> QED BY <2>1, <2>2, <2>3 DEF TypeOK
<1>2. ASSUME NEW t \in Threads, pc'[t] # "idle"
      PROVE  /\ t \notin S
             /\ pc'[t] = pc[t] /\ request'[t] = request[t] /\ data'[t] = data[t]
             /\ answer'[t] = answer[t]
             /\ flockEX = t => flockEX' = t
             /\ file' = file /\ tmp' = tmp
  BY <1>2 DEF Idle, Released
<1>3. RequestsServed'
  <2> SUFFICES ASSUME NEW t \in Threads
               PROVE  /\ pc'[t] # "idle" => request'[t] \in Request
                      /\ pc'[t] # "unlock" => answer'[t] = Reply("ok")
    BY DEF RequestsServed
  <2>1. CASE t \in S
    BY <2>1 DEF Idle
  <2>2. CASE t \notin S
    BY <2>2 DEF Idle, Inv, RequestsServed
  <2> QED BY <2>1, <2>2
<1>4. WritersLocked'
  <2> SUFFICES ASSUME NEW t \in Threads, pc'[t] \in Persisting \cup {"read"}
               PROVE  /\ pc'[t] \in Persisting => request'[t].op # "read"
                      /\ pc'[t] = "read" /\ request'[t].op # "read" => flockEX' = t
                      /\ pc'[t] \in Persisting => flockEX' = t
    BY DEF WritersLocked
  <2>1. pc'[t] # "idle"
    BY DEF Persisting
  <2> QED BY <2>1, <1>2 DEF Inv, WritersLocked
<1>5. DataCurrent'
  <2> SUFFICES ASSUME NEW t \in Threads, pc'[t] \in Persisting
               PROVE  /\ Persists(request'[t], ReadState(file'))
                      /\ data'[t] = Effect(request'[t], ReadState(file'))
    BY DEF DataCurrent
  <2>1. pc'[t] # "idle"
    BY DEF Persisting
  <2> QED BY <2>1, <1>2 DEF Inv, DataCurrent
<1>6. TmpCurrent'
  <2> SUFFICES ASSUME NEW t \in Threads, pc'[t] \in {"sync", "rename"}
               PROVE  tmp' = [kind |-> "object", content |-> data'[t],
                              synced |-> (pc'[t] = "rename")]
    BY DEF TmpCurrent
  <2> QED BY <1>2 DEF Inv, TmpCurrent
<1>7. FilesSynced'
  BY DEF FilesSynced
<1> QED BY <1>1, <1>3, <1>4, <1>5, <1>6, <1>7 DEF Inv

\* A step of thread t that changes no file and no other thread, and does not
\* bring t nearer to the rename, keeps the invariant.
LEMMA AsideInv ==
    ASSUME Inv, NEW t \in Threads, UNCHANGED fileVars, TypeOK',
           \A u \in Threads \ {t} :
              pc'[u] = pc[u] /\ request'[u] = request[u]
              /\ data'[u] = data[u] /\ answer'[u] = answer[u],
           \A u \in Threads \ {t} : flockEX = u => flockEX' = u,
           pc'[t] \notin Persisting \cup {"idle", "read"},
           request'[t] \in Request,
           pc'[t] # "unlock" => answer'[t] = Reply("ok")
    PROVE  Inv'
<1>1. RequestsServed'
  BY DEF Inv, RequestsServed
<1>2. WritersLocked'
  BY DEF Inv, WritersLocked, Persisting
<1>3. DataCurrent'
  BY DEF Inv, DataCurrent, fileVars
<1>4. TmpCurrent'
  <2> SUFFICES ASSUME NEW u \in Threads, pc'[u] \in {"sync", "rename"}
               PROVE  tmp' = [kind |-> "object", content |-> data'[u],
                              synced |-> (pc'[u] = "rename")]
    BY DEF TmpCurrent
  <2>1. u # t
    BY DEF Persisting
  <2> QED BY <2>1 DEF Inv, TmpCurrent, fileVars
<1>5. FilesSynced'
  BY DEF Inv, FilesSynced, fileVars
<1> QED BY <1>1, <1>2, <1>3, <1>4, <1>5 DEF Inv

\* Steps before the file is read.
LEMMA LockingInv ==
    ASSUME Inv, NEW t \in Threads,
           \/ \E q \in Requests : Call(t, q)
           \/ LockMu(t)
           \/ AwaitReaders(t)
           \/ FlockFails(t)
    PROVE  Inv'
<1> USE DEF Inv
<1>1. pc \in [Threads -> PCs] /\ answer \in [Threads -> Answer] /\ calls \in Nat /\ faults \in Nat
  BY DEF TypeOK
<1>2. ASSUME NEW q \in Requests, Call(t, q)
      PROVE  Inv'
  <2>1. q \in Request
    BY RequestsAssumption
  <2>2. TypeOK'
    BY <1>2, <2>1, BoundAssumption DEF Call, Goto, TypeOK, PCs, fileVars, lockVars
  <2>3. answer[t] = Reply("ok")
    BY <1>2 DEF Call, RequestsServed
  <2> QED BY <1>1, <1>2, <2>1, <2>2, <2>3, AsideInv
          DEF Call, Goto, Persisting, TypeOK, lockVars
<1>3. CASE LockMu(t)
  <2>1. TypeOK'
    <3>1. ProcessOf[t] \in Processes
      BY ProcessAssumption
    <3> QED BY <1>3, <3>1 DEF LockMu, Goto, TypeOK, PCs, fileVars
  <2>2. answer[t] = Reply("ok") /\ request[t] \in Request
    BY <1>3 DEF LockMu, RequestsServed
  <2> QED BY <1>1, <1>3, <2>1, <2>2, AsideInv DEF LockMu, Goto, Persisting
<1>4. CASE AwaitReaders(t)
  <2>1. TypeOK'
    BY <1>4 DEF AwaitReaders, Goto, TypeOK, PCs, fileVars, lockVars
  <2>2. answer[t] = Reply("ok") /\ request[t] \in Request
    BY <1>4 DEF AwaitReaders, RequestsServed
  <2> QED BY <1>1, <1>4, <2>1, <2>2, AsideInv DEF AwaitReaders, Goto, Persisting, lockVars
<1>5. CASE FlockFails(t)
  <2>1. Reply("error") \in Answer
    BY ReplyType DEF Codes
  <2>2. TypeOK'
    BY <1>5, <2>1, BoundAssumption DEF FlockFails, ReturnWith, Fault, Goto, TypeOK, PCs, fileVars, lockVars
  <2>3. request[t] \in Request
    BY <1>5 DEF FlockFails, RequestsServed
  <2> QED BY <1>1, <1>5, <2>2, <2>3, AsideInv
          DEF FlockFails, ReturnWith, Goto, Persisting, lockVars
<1> QED BY <1>2, <1>3, <1>4, <1>5

\* Calls that fail after the locks were taken.
LEMMA FailureInv ==
    ASSUME Inv, NEW t \in Threads,
           ReadFails(t) \/ CreateTmpFails(t) \/ PersistFails(t)
    PROVE  Inv'
<1> USE DEF Inv
<1>1. pc \in [Threads -> PCs] /\ answer \in [Threads -> Answer] /\ calls \in Nat /\ faults \in Nat
  BY DEF TypeOK
<1>2. Reply("error") \in Answer
  BY ReplyType DEF Codes
<1>3. request[t] \in Request
  BY DEF ReadFails, CreateTmpFails, PersistFails, RequestsServed
<1>4. CASE ReadFails(t)
  <2>1. TypeOK'
    BY <1>4, <1>2, BoundAssumption DEF ReadFails, ReturnWith, Goto, TypeOK, PCs, fileVars, lockVars
  <2> QED BY <1>1, <1>3, <1>4, <2>1, AsideInv
          DEF ReadFails, ReturnWith, Goto, Persisting, lockVars
<1>5. CASE CreateTmpFails(t)
  <2>1. TypeOK'
    BY <1>5, <1>2, BoundAssumption DEF CreateTmpFails, ReturnWith, Fault, Goto, TypeOK, PCs, fileVars, lockVars
  <2> QED BY <1>1, <1>3, <1>5, <2>1, AsideInv
          DEF CreateTmpFails, ReturnWith, Goto, Persisting, lockVars
<1>6. CASE PersistFails(t)
  <2>1. TypeOK'
    BY <1>6, <1>2, FileTypes, BoundAssumption
       DEF PersistFails, ReturnWith, Fault, Goto, TypeOK, PCs, lockVars
  <2>2. \A u \in Threads : pc'[u] \in Persisting => FALSE
    BY <1>6, <1>1, NoThreadAssumption
       DEF PersistFails, ReturnWith, Goto, WritersLocked, Persisting
  <2>3. RequestsServed'
    BY <1>1, <1>3, <1>6 DEF PersistFails, ReturnWith, Goto, RequestsServed
  <2>4. WritersLocked'
    BY <1>1, <1>6, <2>2 DEF PersistFails, ReturnWith, Goto, WritersLocked, lockVars
  <2>5. DataCurrent' /\ TmpCurrent'
    BY <2>2 DEF DataCurrent, TmpCurrent, Persisting
  <2>6. FilesSynced'
    BY <1>6 DEF PersistFails, FilesSynced
  <2> QED BY <2>1, <2>3, <2>4, <2>5, <2>6
<1> QED BY <1>4, <1>5, <1>6

\* Taking the flock and reading the file.
LEMMA ReadingInv ==
    ASSUME Inv, NEW t \in Threads, Flock(t) \/ Read(t)
    PROVE  Inv'
<1> USE DEF Inv
<1>1. pc \in [Threads -> PCs] /\ answer \in [Threads -> Answer] /\ data \in [Threads -> State]
  BY DEF TypeOK
<1>2. request[t] \in Request /\ answer[t] = Reply("ok")
  BY DEF Flock, Read, RequestsServed
<1>3. CASE Flock(t)
  <2>1. TypeOK'
    BY <1>3 DEF Flock, Goto, TypeOK, PCs, fileVars
  <2>2. RequestsServed'
    BY <1>1, <1>2, <1>3 DEF Flock, Goto, RequestsServed
  <2>3. WritersLocked'
    BY <1>1, <1>2, <1>3, NoThreadAssumption
       DEF Flock, Goto, Reads, WritersLocked, Persisting
  <2>4. DataCurrent' /\ TmpCurrent' /\ FilesSynced'
    BY <1>1, <1>3
       DEF Flock, Goto, DataCurrent, TmpCurrent, FilesSynced, Persisting, fileVars
  <2> QED BY <2>1, <2>2, <2>3, <2>4
<1>4. CASE Read(t) /\ Persists(request[t], ReadState(file))
  <2> DEFINE s == ReadState(file)
  <2>1. s \in State /\ Effect(request[t], s) \in State
    BY <1>2, FileState, EffectType
  <2>2. /\ pc[t] = "read"
        /\ data' = [data EXCEPT ![t] = Effect(request[t], s)]
        /\ pc' = [pc EXCEPT ![t] = "create"]
        /\ UNCHANGED <<fileVars, lockVars, request, answer, calls, faults>>
    BY <1>4 DEF Read, Goto
  <2>3. request[t].op # "read" /\ flockEX = t
    BY <1>4, <2>2 DEF Persists, WritersLocked
  <2>4. TypeOK'
    BY <2>1, <2>2 DEF TypeOK, PCs, fileVars, lockVars
  <2>5. RequestsServed' /\ WritersLocked'
    BY <1>1, <2>2, <2>3 DEF RequestsServed, WritersLocked, Persisting, lockVars
  <2>6. DataCurrent'
    <3> SUFFICES ASSUME NEW u \in Threads, pc'[u] \in Persisting
                 PROVE  /\ Persists(request'[u], ReadState(file'))
                        /\ data'[u] = Effect(request'[u], ReadState(file'))
      BY DEF DataCurrent
    <3>1. CASE u = t
      BY <1>1, <1>4, <2>2, <3>1 DEF fileVars
    <3>2. CASE u # t
      BY <1>1, <2>2, <3>2 DEF DataCurrent, fileVars
    <3> QED BY <3>1, <3>2
  <2>7. TmpCurrent' /\ FilesSynced'
    BY <1>1, <2>2 DEF TmpCurrent, FilesSynced, fileVars
  <2> QED BY <2>4, <2>5, <2>6, <2>7
<1>5. CASE Read(t) /\ ~Persists(request[t], ReadState(file))
  <2>1. AnswerTo(request[t], ReadState(file)) \in Answer
    BY <1>2, FileState, AnswerType
  <2>2. /\ answer' = [answer EXCEPT ![t] = AnswerTo(request[t], ReadState(file))]
        /\ pc' = [pc EXCEPT ![t] = "unlock"]
        /\ UNCHANGED <<fileVars, lockVars, request, data, calls, faults>>
    BY <1>5 DEF Read, ReturnWith, Goto
  <2>3. TypeOK'
    BY <2>1, <2>2 DEF TypeOK, PCs, fileVars, lockVars
  <2> QED BY <1>1, <1>2, <2>2, <2>3, AsideInv DEF Persisting, lockVars
<1> QED BY <1>3, <1>4, <1>5

\* persistState up to the rename: no other thread is persisting.
LEMMA PersistingInv ==
    ASSUME Inv, NEW t \in Threads,
           CreateTmp(t) \/ Encode(t) \/ Sync(t) \/ CloseAndRename(t)
    PROVE  Inv'
<1> USE DEF Inv
<1>1. pc \in [Threads -> PCs] /\ answer \in [Threads -> Answer] /\ data \in [Threads -> State]
  BY DEF TypeOK
<1>2. pc[t] \in Persisting
  BY DEF CreateTmp, Encode, Sync, CloseAndRename, Persisting
<1>3. request[t] \in Request /\ answer[t] = Reply("ok") /\ request[t].op # "read" /\ flockEX = t
  BY <1>2 DEF RequestsServed, WritersLocked, Persisting
<1>4. \A u \in Threads \ {t} : pc[u] \notin Persisting
  BY <1>3 DEF WritersLocked
<1>5. /\ Persists(request[t], ReadState(file))
      /\ data[t] = Effect(request[t], ReadState(file))
  BY <1>2 DEF DataCurrent
<1>6. CASE CreateTmp(t)
  <2>1. data' = data
    <3> DEFINE new == IF request[t].op \in DeploymentOps
                      THEN [deployments |-> data[t].deployments,
                            registries |-> ReadState(file).registries]
                      ELSE data[t]
    <3>1. new = data[t]
      BY <1>3, <1>5, FileState, EffectKeepsRegistries
    <3>2. data' = [data EXCEPT ![t] = new]
      BY <1>6 DEF CreateTmp
    <3> HIDE DEF new
    <3> QED BY <1>1, <3>1, <3>2
  <2>2. /\ pc' = [pc EXCEPT ![t] = "encode"] /\ tmp' = Torn
        /\ UNCHANGED <<file, disk, lockVars, request, answer, calls, faults>>
    BY <1>6 DEF CreateTmp, Goto
  <2>3. TypeOK'
    BY <2>1, <2>2, FileTypes DEF TypeOK, PCs, lockVars
  <2>4. RequestsServed' /\ WritersLocked'
    BY <1>1, <1>3, <1>4, <2>2 DEF RequestsServed, WritersLocked, Persisting, lockVars
  <2>5. DataCurrent'
    BY <1>1, <1>4, <1>5, <2>1, <2>2 DEF DataCurrent, Persisting
  <2>6. TmpCurrent' /\ FilesSynced'
    BY <1>1, <1>4, <2>2 DEF TmpCurrent, FilesSynced, Persisting
  <2> QED BY <2>3, <2>4, <2>5, <2>6
<1>7. CASE Encode(t)
  <2>1. /\ pc' = [pc EXCEPT ![t] = "sync"]
        /\ tmp' = [kind |-> "object", content |-> data[t], synced |-> FALSE]
        /\ UNCHANGED <<file, disk, lockVars, request, data, answer, calls, faults>>
    BY <1>7 DEF Encode, Goto
  <2>2. TypeOK'
    BY <1>1, <2>1, ReadObject DEF TypeOK, PCs, lockVars
  <2>3. RequestsServed' /\ WritersLocked'
    BY <1>1, <1>3, <1>4, <2>1 DEF RequestsServed, WritersLocked, Persisting, lockVars
  <2>4. DataCurrent'
    BY <1>1, <1>4, <1>5, <2>1 DEF DataCurrent, Persisting
  <2>5. TmpCurrent' /\ FilesSynced'
    BY <1>1, <1>4, <2>1 DEF TmpCurrent, FilesSynced, Persisting
  <2> QED BY <2>2, <2>3, <2>4, <2>5
<1>8. CASE Sync(t)
  <2>1. /\ pc[t] = "sync" /\ pc' = [pc EXCEPT ![t] = "rename"]
        /\ tmp' = [tmp EXCEPT !.synced = TRUE]
        /\ UNCHANGED <<file, disk, lockVars, request, data, answer, calls, faults>>
    BY <1>8 DEF Sync, Goto
  <2>2. tmp = [kind |-> "object", content |-> data[t], synced |-> FALSE]
    BY <2>1 DEF TmpCurrent
  <2>3. tmp' = [kind |-> "object", content |-> data[t], synced |-> TRUE]
    BY <2>1, <2>2
  <2>4. TypeOK'
    <3>1. tmp' \in File
      BY <1>1, <2>3, ReadObject
    <3> QED BY <2>1, <3>1 DEF TypeOK, PCs, lockVars
  <2>5. RequestsServed' /\ WritersLocked'
    BY <1>1, <1>3, <1>4, <2>1 DEF RequestsServed, WritersLocked, Persisting, lockVars
  <2>6. DataCurrent'
    BY <1>1, <1>4, <1>5, <2>1 DEF DataCurrent, Persisting
  <2>7. TmpCurrent' /\ FilesSynced'
    BY <1>1, <1>4, <2>1, <2>3 DEF TmpCurrent, FilesSynced, Persisting
  <2> QED BY <2>4, <2>5, <2>6, <2>7
<1>9. CASE CloseAndRename(t)
  <2>1. /\ pc[t] = "rename" /\ pc' = [pc EXCEPT ![t] = "unlock"]
        /\ file' = tmp /\ tmp' = NoFile /\ answer' = [answer EXCEPT ![t] = Reply("ok")]
        /\ UNCHANGED <<disk, lockVars, request, data, calls, faults>>
    BY <1>9 DEF CloseAndRename, ReturnWith, Goto
  <2>2. tmp = [kind |-> "object", content |-> data[t], synced |-> TRUE]
    BY <2>1 DEF TmpCurrent
  <2>3. Decodes(file') /\ file'.synced /\ file' \in File
    BY <1>1, <2>1, <2>2, ReadObject
  <2>4. TypeOK'
    <3>1. Reply("ok") \in Answer
      BY ReplyType DEF Codes
    <3> QED BY <2>1, <2>3, <3>1, FileTypes DEF TypeOK, PCs, lockVars
  <2>5. \A u \in Threads : pc'[u] \notin Persisting
    BY <1>1, <1>4, <2>1 DEF Persisting
  <2>6. RequestsServed' /\ WritersLocked'
    BY <1>1, <1>3, <2>1, <2>5 DEF RequestsServed, WritersLocked, lockVars
  <2>7. DataCurrent' /\ TmpCurrent'
    BY <2>5 DEF DataCurrent, TmpCurrent, Persisting
  <2>8. FilesSynced'
    BY <2>1, <2>3 DEF FilesSynced
  <2> QED BY <2>4, <2>6, <2>7, <2>8
<1> QED BY <1>6, <1>7, <1>8, <1>9

\* The invariant is inductive.
LEMMA NextInv ==
    ASSUME Inv, [Next]_vars PROVE Inv'
<1>1. CASE \E t \in Threads, q \in Requests : Call(t, q)
  BY <1>1, LockingInv
<1>2. ASSUME NEW t \in Threads, Step(t) \/ FlockFails(t) \/ CreateTmpFails(t) \/ PersistFails(t)
      PROVE  Inv'
  <2>1. CASE Unlock(t)
    <3>1. /\ Released({t}) /\ Idle({t}) /\ UNCHANGED <<fileVars, calls, faults>>
      BY <2>1 DEF Unlock
    <3> QED BY <3>1, IdleInv DEF Inv, TypeOK, FilesSynced, fileVars
  <2> QED BY <1>2, <2>1, LockingInv, FailureInv, ReadingInv, PersistingInv DEF Step
<1>3. ASSUME NEW p \in Processes, Kill(p)
      PROVE  Inv'
  <2> DEFINE S == {t \in Threads : ProcessOf[t] = p}
  <2>1. Released(S) /\ Idle(S) /\ UNCHANGED <<fileVars, calls>> /\ Fault
    BY <1>3 DEF Kill
  <2>2. S \in SUBSET Threads
    OBVIOUS
  <2>3. faults' \in 0..MaxFaults
    BY <2>1, BoundAssumption DEF Fault, Inv, TypeOK
  <2> HIDE DEF S
  <2> QED BY <2>1, <2>2, <2>3, IdleInv DEF Inv, TypeOK, FilesSynced, fileVars
<1>4. CASE Flush
  <2>1. disk' = file /\ UNCHANGED <<file, tmp, lockVars, pc, request, data, answer, calls, faults>>
    BY <1>4 DEF Flush
  <2>2. TypeOK' /\ RequestsServed' /\ WritersLocked'
    BY <2>1 DEF Inv, TypeOK, RequestsServed, WritersLocked, lockVars
  <2>3. DataCurrent' /\ TmpCurrent' /\ FilesSynced'
    BY <2>1 DEF Inv, DataCurrent, TmpCurrent, FilesSynced
  <2> QED BY <2>2, <2>3 DEF Inv
<1>5. CASE PowerLoss
  <2>1. file' = disk /\ disk' = disk /\ tmp' \in File
    BY <1>5, FileTypes DEF PowerLoss, Inv, FilesSynced
  <2>2. Released(Threads) /\ Idle(Threads) /\ calls' = calls /\ faults' \in 0..MaxFaults
    BY <1>5, BoundAssumption DEF PowerLoss, Fault, Inv, TypeOK
  <2> QED BY <2>1, <2>2, IdleInv DEF Inv, TypeOK, FilesSynced
<1>6. CASE UNCHANGED vars
  BY <1>6 DEF vars, fileVars, lockVars, Inv, TypeOK, RequestsServed, WritersLocked, DataCurrent,
              TmpCurrent, FilesSynced
<1> QED BY <1>1, <1>2, <1>3, <1>4, <1>5, <1>6 DEF Next

-----------------------------------------------------------------------------
(* The theorems.                                                           *)

LEMMA InvHolds == Spec => []Inv
<1>1. Init => Inv
  BY InitInv
<1>2. Inv /\ [Next]_vars => Inv'
  BY NextInv
<1> QED BY <1>1, <1>2, PTL DEF Spec

\* The store's variables keep their types.
THEOREM StoreTypeCorrect == Spec => []TypeOK
<1>1. Inv => TypeOK
  BY DEF Inv
<1> QED BY <1>1, InvHolds, PTL

\* The deployments file always decodes, whatever is killed or loses power
\* and whichever system call fails.
THEOREM FileDecodesHolds == Spec => []FileDecodes
<1>1. Inv => FileDecodes
  BY DEF Inv, FilesSynced, FileDecodes
<1> QED BY <1>1, InvHolds, PTL

\* The atomic store is written with the same operators.
LEMMA SameOperators ==
    /\ Atomic!State = State
    /\ Atomic!Request = Request
    /\ \A code : Atomic!Reply(code) = Reply(code)
    /\ \A q, s : Atomic!AnswerTo(q, s) = AnswerTo(q, s)
    /\ \A q, s : Atomic!Effect(q, s) = Effect(q, s)
<1>1. Atomic!EmptyState = EmptyState
  BY DEF Atomic!EmptyState, EmptyState
<1>2. Atomic!Deployment = Deployment
  BY DEF Atomic!Deployment, Deployment, Atomic!Status, Status, Atomic!Errors, Errors
<1>3. Atomic!State = State
  BY <1>2 DEF Atomic!State, State
<1>4. Atomic!Request = Request
  BY <1>2 DEF Atomic!Request, Request, Atomic!PatchFields, PatchFields
<1>5. \A code : Atomic!Reply(code) = Reply(code)
  BY <1>1 DEF Atomic!Reply, Reply
<1>6. \A q, s : Atomic!Code(q, s) = Code(q, s)
  BY DEF Atomic!Code, Code, Atomic!PrefixTaken, PrefixTaken, Atomic!Stored, Stored
<1>7. \A q, s : Atomic!AnswerTo(q, s) = AnswerTo(q, s)
  BY <1>1, <1>6 DEF Atomic!AnswerTo, AnswerTo
<1>8. \A q, s : Atomic!Persists(q, s) = Persists(q, s)
  BY <1>6 DEF Atomic!Persists, Persists
<1>9. \A q, ds : Atomic!DeploymentsAfter(q, ds) = DeploymentsAfter(q, ds)
  <2>1. \A ds, id, d : Atomic!StoreCreate(ds, id, d) = StoreCreate(ds, id, d)
    BY DEF Atomic!StoreCreate, StoreCreate, Atomic!Stored, Stored
  <2>2. \A ds, id, d : Atomic!StoreUpdate(ds, id, d) = StoreUpdate(ds, id, d)
    BY DEF Atomic!StoreUpdate, StoreUpdate
  <2>3. \A ds, id, p, fs : Atomic!StorePatch(ds, id, p, fs) = StorePatch(ds, id, p, fs)
    BY DEF Atomic!StorePatch, StorePatch
  <2>4. \A ds, id : Atomic!StoreDelete(ds, id) = StoreDelete(ds, id)
    BY DEF Atomic!StoreDelete, StoreDelete
  <2> QED BY <2>1, <2>2, <2>3, <2>4 DEF Atomic!DeploymentsAfter, DeploymentsAfter
<1>10. \A q, rs : Atomic!RegistriesAfter(q, rs) = RegistriesAfter(q, rs)
  BY DEF Atomic!RegistriesAfter, RegistriesAfter
<1>11. \A q, s : Atomic!Effect(q, s) = Effect(q, s)
  BY <1>8, <1>9, <1>10 DEF Atomic!Effect, Effect
<1> QED BY <1>3, <1>4, <1>5, <1>7, <1>11

\* Threads that are gone from the store are gone from the atomic one.
LEMMA IdleRefines ==
    ASSUME TypeOK, NEW S \in SUBSET Threads, Idle(S)
    PROVE  Atomic!Idle(S)
  BY SameOperators DEF Idle, Atomic!Idle, TypeOK

\* A thread that goes on to its return is done.
LEMMA DoneRefines ==
    ASSUME TypeOK, NEW t \in Threads, NEW a, pc[t] \notin {"idle", "unlock"}, ReturnWith(t, a),
           UNCHANGED <<disk, request>>
    PROVE  Atomic!Done(t, a)
  BY DEF ReturnWith, Goto, Atomic!Done, TypeOK

\* A step that stays within the call and leaves the files is a stutter.
LEMMA StutterRefines ==
    ASSUME TypeOK, NEW t \in Threads, pc[t] \notin {"idle", "unlock"},
           NEW label, label \notin {"idle", "unlock"}, Goto(t, label),
           UNCHANGED <<file, disk, request, answer>>
    PROVE  UNCHANGED Atomic!atomicVars
  BY DEF Goto, Atomic!atomicVars, TypeOK

\* Every step of the file-backed store is a step of the atomic one.
LEMMA StepRefines ==
    ASSUME Inv, [Next]_vars
    PROVE  [Atomic!Next]_(Atomic!atomicVars)
<1> USE DEF Inv
<1>1. ASSUME NEW t \in Threads, NEW q \in Requests, Call(t, q)
      PROVE  Atomic!Call(t)
  <2>1. q \in Request
    BY RequestsAssumption
  <2> QED BY <1>1, <2>1, SameOperators DEF Call, Goto, Atomic!Call, TypeOK, fileVars
<1>2. ASSUME NEW t \in Threads, LockMu(t) \/ AwaitReaders(t) \/ Flock(t)
      PROVE  UNCHANGED Atomic!atomicVars
  BY <1>2, StutterRefines DEF LockMu, AwaitReaders, Flock, fileVars
<1>3. ASSUME NEW t \in Threads, CreateTmp(t) \/ Encode(t) \/ Sync(t)
      PROVE  UNCHANGED Atomic!atomicVars
  BY <1>3, StutterRefines DEF CreateTmp, Encode, Sync, fileVars
<1>4. ASSUME NEW t \in Threads, FlockFails(t) \/ ReadFails(t) \/ CreateTmpFails(t) \/ PersistFails(t)
      PROVE  Atomic!Fail(t)
  <2>1. /\ pc[t] \notin {"idle", "unlock"}
        /\ ReturnWith(t, Reply("error"))
        /\ UNCHANGED <<file, disk, request>>
    BY <1>4 DEF FlockFails, ReadFails, CreateTmpFails, PersistFails, fileVars
  <2> QED BY <2>1, DoneRefines, SameOperators DEF Atomic!Fail
<1>5. ASSUME NEW t \in Threads, Read(t)
      PROVE  Atomic!Apply(t) \/ UNCHANGED Atomic!atomicVars
  <2>1. pc[t] = "read" /\ UNCHANGED <<file, disk, request>>
    BY <1>5 DEF Read, fileVars
  <2>2. CASE Persists(request[t], ReadState(file))
    BY <1>5, <2>1, <2>2, StutterRefines DEF Read
  <2>3. CASE ~Persists(request[t], ReadState(file))
    <3>1. ReturnWith(t, AnswerTo(request[t], ReadState(file)))
      BY <1>5, <2>3 DEF Read
    <3>2. Atomic!Done(t, AnswerTo(request[t], ReadState(file)))
      BY <2>1, <3>1 DEF ReturnWith, Goto, Atomic!Done, TypeOK
    <3>3. ReadState(file') = Effect(request[t], ReadState(file))
      BY <2>1, <2>3, NotPersists
    <3> QED BY <3>2, <3>3, SameOperators DEF Atomic!Apply, Atomic!Done
  <2> QED BY <2>2, <2>3
<1>6. ASSUME NEW t \in Threads, CloseAndRename(t)
      PROVE  Atomic!Apply(t)
  <2>1. /\ pc[t] = "rename" /\ file' = tmp /\ ReturnWith(t, Reply("ok"))
        /\ UNCHANGED <<disk, request>>
    BY <1>6 DEF CloseAndRename
  <2>2. /\ tmp = [kind |-> "object", content |-> data[t], synced |-> TRUE]
        /\ data[t] \in State
        /\ Persists(request[t], ReadState(file))
        /\ data[t] = Effect(request[t], ReadState(file))
    BY <2>1 DEF TmpCurrent, DataCurrent, Persisting, TypeOK
  <2>3. ReadState(file') = Effect(request[t], ReadState(file))
    BY <2>1, <2>2, ReadObject
  <2>4. AnswerTo(request[t], ReadState(file)) = Reply("ok")
    BY <2>2, PersistsAnswer
  <2>5. Atomic!Done(t, Reply("ok"))
    BY <2>1, DoneRefines
  <2> QED BY <2>3, <2>4, <2>5, SameOperators DEF Atomic!Apply, Atomic!Done
<1>7. ASSUME NEW t \in Threads, Unlock(t)
      PROVE  Atomic!Return(t)
  <2>1. pc[t] = "unlock" /\ Idle({t}) /\ UNCHANGED <<file, disk>>
    BY <1>7 DEF Unlock, fileVars
  <2> QED BY <2>1, IdleRefines DEF Atomic!Return
<1>8. ASSUME NEW p \in Processes, Kill(p)
      PROVE  \E S \in SUBSET Threads : Atomic!Die(S)
  <2> DEFINE S == {t \in Threads : ProcessOf[t] = p}
  <2>1. Idle(S) /\ UNCHANGED <<file, disk>>
    BY <1>8 DEF Kill, fileVars
  <2>2. S \in SUBSET Threads
    OBVIOUS
  <2> HIDE DEF S
  <2>3. Atomic!Die(S)
    BY <2>1, <2>2, IdleRefines DEF Atomic!Die
  <2> QED BY <2>2, <2>3
<1>9. CASE Flush
  BY <1>9 DEF Flush, Atomic!Flush, Atomic!Next
<1>10. CASE PowerLoss
  <2>1. file' = disk /\ disk' = disk /\ Idle(Threads)
    BY <1>10 DEF PowerLoss, FilesSynced
  <2>2. Atomic!Idle(Threads)
    BY <2>1, IdleRefines
  <2> QED BY <2>1, <2>2 DEF Atomic!PowerLoss, Atomic!Next
<1>11. CASE UNCHANGED vars
  BY <1>11 DEF vars, fileVars, Atomic!atomicVars
<1>12. CASE \E t \in Threads : Step(t) \/ FlockFails(t) \/ CreateTmpFails(t) \/ PersistFails(t)
  BY <1>12, <1>2, <1>3, <1>4, <1>5, <1>6, <1>7 DEF Step, Atomic!Next
<1> QED BY <1>1, <1>8, <1>9, <1>10, <1>11, <1>12 DEF Next, Atomic!Next

\* The file-backed store implements the atomic one: whatever the processes
\* do, wherever they are killed and whichever system call fails, a request
\* is applied at one instant to the state all others left, or not at all.
THEOREM ImplementsAtomicStoreHolds == Spec => ImplementsAtomicStore
<1>1. Init => Atomic!Init
  <2> SUFFICES ASSUME Init PROVE Atomic!Init
    OBVIOUS
  <2>1. ReadState(file) \in State
    BY InitInv, FileState DEF Inv
  <2> QED BY <2>1, SameOperators DEF Init, Atomic!Init
<1>2. Inv /\ [Next]_vars => [Atomic!Next]_(Atomic!atomicVars)
  BY StepRefines
<1> QED BY <1>1, <1>2, InvHolds, PTL DEF Spec, ImplementsAtomicStore, Atomic!AtomicSpec

-----------------------------------------------------------------------------
(* Registry prefixes.                                                      *)

\* No request gives a registry the prefix of another.
LEMMA EffectKeepsPrefixes ==
    ASSUME NEW q \in Request, NEW s \in State, DistinctPrefixes(s.registries)
    PROVE  DistinctPrefixes(Effect(q, s).registries)
<1>1. CASE ~Persists(q, s)
  BY <1>1, NotPersists
<1>2. CASE Persists(q, s)
  <2> DEFINE rs == s.registries
  <2>1. rs \in [IDs -> Prefixes \cup {NoRegistry}] /\ q.id \in IDs
    BY DEF State, Request
  <2>2. Effect(q, s).registries = RegistriesAfter(q, rs)
    BY <1>2 DEF Effect
  <2>3. CASE q.op \in {"createRegistry", "updateRegistry"}
    <3>1. ~PrefixTaken(rs, q.id, q.prefix)
      BY <1>2, <2>3 DEF Persists, Code
    <3>2. RegistriesAfter(q, rs) = [rs EXCEPT ![q.id] = q.prefix]
      BY <2>3 DEF RegistriesAfter
    <3>3. DistinctPrefixes([rs EXCEPT ![q.id] = q.prefix])
      BY <2>1, <3>1 DEF DistinctPrefixes, PrefixTaken
    <3> QED BY <2>2, <3>2, <3>3
  <2>4. CASE q.op = "deleteRegistry"
    <3>1. RegistriesAfter(q, rs) = [rs EXCEPT ![q.id] = NoRegistry]
      BY <2>4 DEF RegistriesAfter
    <3>2. DistinctPrefixes([rs EXCEPT ![q.id] = NoRegistry])
      BY <2>1 DEF DistinctPrefixes
    <3> QED BY <2>2, <3>1, <3>2
  <2>5. CASE q.op \notin {"createRegistry", "updateRegistry", "deleteRegistry"}
    BY <2>2, <2>5 DEF RegistriesAfter
  <2> QED BY <2>3, <2>4, <2>5
<1> QED BY <1>1, <1>2

\* The file that a power loss leaves must have distinct prefixes as well.
DiskPrefixes == PrefixesUnique /\ DistinctPrefixes(ReadState(disk).registries)

\* No two registries ever have the same prefix, for any number of processes
\* that create, change and delete registries at the same time.
THEOREM PrefixesUniqueHolds == Spec => []PrefixesUnique
<1>1. Init => DiskPrefixes
  <2> SUFFICES ASSUME Init PROVE DistinctPrefixes(ReadState(file).registries)
    BY DEF Init, DiskPrefixes, PrefixesUnique
  <2>1. ReadState(file).registries = EmptyState.registries
    <3>1. CASE file = NoFile
      BY <3>1 DEF ReadState, NoFile
    <3>2. CASE file.kind = "array"
      BY <3>2 DEF ReadState
    <3> QED BY <3>1, <3>2 DEF Init
  <2> QED BY <2>1 DEF DistinctPrefixes, EmptyState
<1>2. DiskPrefixes /\ Inv /\ [Next]_vars => DiskPrefixes'
  <2> SUFFICES ASSUME DiskPrefixes, Inv, [Next]_vars PROVE DiskPrefixes'
    OBVIOUS
  <2>1. ASSUME NEW t \in Threads, CloseAndRename(t) PROVE DiskPrefixes'
    <3>1. /\ pc[t] = "rename" /\ file' = tmp /\ disk' = disk
      BY <2>1 DEF CloseAndRename
    <3>2. /\ tmp = [kind |-> "object", content |-> data[t], synced |-> TRUE]
          /\ data[t] \in State /\ request[t] \in Request
          /\ data[t] = Effect(request[t], ReadState(file))
      BY <3>1 DEF Inv, TmpCurrent, DataCurrent, Persisting, TypeOK, RequestsServed
    <3>3. ReadState(file') = Effect(request[t], ReadState(file))
      BY <3>1, <3>2, ReadObject
    <3>4. ReadState(file) \in State
      BY FileState DEF Inv
    <3>5. DistinctPrefixes(Effect(request[t], ReadState(file)).registries)
      BY <3>2, <3>4, EffectKeepsPrefixes DEF DiskPrefixes, PrefixesUnique
    <3> QED BY <3>1, <3>3, <3>5 DEF DiskPrefixes, PrefixesUnique
  <2>2. CASE PowerLoss
    BY <2>2 DEF PowerLoss, Inv, FilesSynced, DiskPrefixes, PrefixesUnique
  <2>3. CASE Flush
    BY <2>3 DEF Flush, DiskPrefixes, PrefixesUnique
  <2>4. CASE UNCHANGED <<file, disk>>
    BY <2>4 DEF DiskPrefixes, PrefixesUnique
  <2>5. ASSUME NEW t \in Threads,
               Step(t) \/ FlockFails(t) \/ CreateTmpFails(t) \/ PersistFails(t)
        PROVE  CloseAndRename(t) \/ UNCHANGED <<file, disk>>
    BY <2>5 DEF Step, LockMu, AwaitReaders, Flock, Read, ReadFails, CreateTmp, Encode, Sync,
                Unlock, FlockFails, CreateTmpFails, PersistFails, fileVars
  <2>6. ASSUME NEW p \in Processes, Kill(p) PROVE UNCHANGED <<file, disk>>
    BY <2>6 DEF Kill, fileVars
  <2>7. ASSUME NEW t \in Threads, NEW q \in Requests, Call(t, q) PROVE UNCHANGED <<file, disk>>
    BY <2>7 DEF Call, fileVars
  <2>8. CASE UNCHANGED vars
    BY <2>4, <2>8 DEF vars, fileVars
  <2> QED BY <2>1, <2>2, <2>3, <2>4, <2>5, <2>6, <2>7, <2>8 DEF Next
<1>3. DiskPrefixes => PrefixesUnique
  BY DEF DiskPrefixes
<1> QED BY <1>1, <1>2, <1>3, InvHolds, PTL DEF Spec

=============================================================================
