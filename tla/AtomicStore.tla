---------------------------- MODULE AtomicStore ----------------------------
(***************************************************************************)
(* What the store promises its callers.  A request is applied in one step  *)
(* between its call and its return, or answered with an error and has no   *)
(* effect at all; a process that dies takes its requests with it, each of  *)
(* them applied or not.  Only a power loss may undo requests that were     *)
(* answered, and then it falls back to a state the store really was in.    *)
(***************************************************************************)
EXTENDS StoreRequests

CONSTANTS Threads, NoRequest

VARIABLES
    state,      \* the persisted state
    durable,    \* the one of its states that a power loss falls back to
    phase,      \* [Threads -> {"idle", "called", "done"}]
    request,    \* [Threads -> Request \cup {NoRequest}]
    answer      \* [Threads -> Answer], of the threads that are done

atomicVars == <<state, durable, phase, request, answer>>

Init ==
    /\ state \in State
    /\ durable = state
    /\ phase = [t \in Threads |-> "idle"]
    /\ request = [t \in Threads |-> NoRequest]
    /\ answer = [t \in Threads |-> Reply("ok")]

Call(t) ==
    /\ phase[t] = "idle"
    /\ phase' = [phase EXCEPT ![t] = "called"]
    /\ request'[t] \in Request
    /\ request' = [request EXCEPT ![t] = request'[t]]
    /\ UNCHANGED <<state, durable, answer>>

Done(t, a) ==
    /\ phase[t] = "called"
    /\ phase' = [phase EXCEPT ![t] = "done"]
    /\ answer' = [answer EXCEPT ![t] = a]
    /\ UNCHANGED <<durable, request>>

Apply(t) ==
    /\ Done(t, AnswerTo(request[t], state))
    /\ state' = Effect(request[t], state)

Fail(t) ==
    /\ Done(t, Reply("error"))
    /\ UNCHANGED state

Idle(S) ==
    /\ phase' = [t \in Threads |-> IF t \in S THEN "idle" ELSE phase[t]]
    /\ request' = [t \in Threads |-> IF t \in S THEN NoRequest ELSE request[t]]
    /\ answer' = [t \in Threads |-> IF t \in S THEN Reply("ok") ELSE answer[t]]

Return(t) ==
    /\ phase[t] = "done"
    /\ Idle({t})
    /\ UNCHANGED <<state, durable>>

\* The requests of a process that dies are lost, whatever became of them.
Die(S) ==
    /\ Idle(S)
    /\ UNCHANGED <<state, durable>>

Flush ==
    /\ durable' = state
    /\ UNCHANGED <<state, phase, request, answer>>

PowerLoss ==
    /\ state' = durable
    /\ Idle(Threads)
    /\ UNCHANGED durable

Next ==
    \/ \E t \in Threads : Call(t) \/ Apply(t) \/ Fail(t) \/ Return(t)
    \/ \E S \in SUBSET Threads : Die(S)
    \/ Flush
    \/ PowerLoss

AtomicSpec == Init /\ [][Next]_atomicVars

=============================================================================
