------------------------ MODULE ProxyRequestsProofs ------------------------
(***************************************************************************)
(* The limiter blocks no client that has not earned it and none for too    *)
(* long, a request that is forwarded has passed its host's checks, a line  *)
(* of the log is kept for the time of the retention, and a client that     *)
(* pages through the log misses no line: for any clients, hosts, policies  *)
(* and requests, any threshold, window and length of a block, any length   *)
(* of an hour and of the retention, and pages of any size.                 *)
(*                                                                         *)
(* The API's reader of the log changes nothing that the first three are    *)
(* about; for the last, the log must lose no line that the reader is owed. *)
(***************************************************************************)
EXTENDS ProxyRequests, WellFoundedInduction, FiniteSetTheorems, TLAPS

LogTyped ==
    /\ clock \in Times
    /\ files \in [Hours -> Seq(Requests) \cup {NoFile}]
    /\ modified \in [Hours -> 0..MaxTime]
    /\ logger \in [key : Hours, state : {"open", "stuck"}]
    /\ stamp \in [Requests -> 0..MaxTime]
    /\ written \in [Requests -> 0..MaxTime]

LimiterTyped ==
    /\ entries \in [Clients -> Entry]
    /\ scans \in [Clients -> Nat] /\ blocks \in [Clients -> Nat]
    /\ lastScan \in [Clients -> 0..MaxTime]

HandlerTyped ==
    /\ request \in [Requests -> Request \cup {New, Done}]
    /\ policy \in [Hosts -> Policies \cup {NoRoute}] /\ policy[Dashboard] # NoRoute

\* While a host has a route, what every route of it has asked for since a
\* request arrived is among what its route asks for.
ForceCurrent ==
    \A r \in Requests : Active(r) =>
        LET p == policy[request[r].kind.host]
        IN  p # NoRoute => request[r].force \subseteq p

\* What is known of a request to the dashboard on its way through the checks.
PassedSoFar ==
    \A r \in Requests :
        /\ request[r].pc \in {"routed", "filtered", "inspected"} =>
              request[r].kind.host = Dashboard /\ ~Fails(r, "global")
        /\ request[r].pc \in {"filtered", "inspected"} =>
              ~Fails(r, "agent") /\ ("ip" \in request[r].force => ~Fails(r, "ip"))

\* The current file is there, and nothing is dated later than now.
LogDated ==
    /\ files[logger.key] # NoFile
    /\ \A r \in Requests : stamp[r] <= clock /\ written[r] <= clock
    /\ \A k \in Hours : modified[k] <= clock

\* A file is not older than its lines, and a line is there once its request
\* is done only.
LinesDated ==
    \A k \in Hours : files[k] # NoFile =>
        \A i \in 1..Len(files[k]) :
            /\ written[files[k][i]] <= modified[k]
            /\ request[files[k][i]].pc = "done"

LimiterInv == LimiterTyped /\ BlocksEarned /\ BlocksEnd
ScreenInv == ForceCurrent /\ PassedSoFar /\ Screened
LogInv == LogTyped /\ LogDated /\ LinesDated /\ RecentKept

Inv == HandlerTyped /\ LimiterInv /\ ScreenInv /\ LogInv

-----------------------------------------------------------------------------
(* Types.                                                                  *)

\* The constants are numbers, and NoFile is not a file.
LEMMA Numbers ==
    /\ MaxTime \in Nat /\ MaxTime >= 1 /\ Times = 1..MaxTime /\ Hours = 0..MaxTime
    /\ HourLength \in Nat /\ HourLength >= 1 /\ Retention \in Nat
    /\ Threshold \in Nat /\ Threshold >= 1 /\ Window \in Nat /\ BlockFor \in Nat
    /\ NoFile \notin Seq(Requests)
BY LogAssumption, RequestAssumption DEF Times, Hours

\* The file that a time belongs to is one of the directory (HourOf).
LEMMA HourTyped == \A t \in 0..MaxTime : HourOf(t) \in Hours
<1> SUFFICES ASSUME NEW t \in 0..MaxTime PROVE t \div HourLength \in 0..MaxTime
  BY Numbers DEF HourOf
<1>1. t \in Nat /\ HourLength \in Nat /\ HourLength >= 1 /\ MaxTime \in Nat /\ t <= MaxTime
  BY Numbers
<1>2. t \div HourLength \in Int /\ t \div HourLength >= 0
  BY <1>1, SMT
<1>3. t \div HourLength <= t
  BY <1>1, SMT
<1> QED BY <1>1, <1>2, <1>3

\* A goroutine that runs has a request.
LEMMA ActiveTyped ==
    ASSUME HandlerTyped, NEW r \in Requests
    PROVE  /\ Active(r) <=> request[r] \in Request
           /\ Active(r) => /\ request[r].at \in Times /\ request[r].kind \in Kinds
                           /\ request[r].kind.host \in Hosts
                           /\ request[r].kind.client \in Clients \cup {NoClient}
                           /\ request[r].force \subseteq Checks
<1>1. request[r] \in Request \cup {New, Done}
  BY DEF HandlerTyped
<1>2. request[r] \in Request => Active(r)
  BY DEF Request, Active, At
<1>3. request[r] \in {New, Done} => ~Active(r)
  BY DEF New, Done, Active, At
<1>4. request[r] \in Request =>
          /\ request[r].at \in Times /\ request[r].kind \in Kinds
          /\ request[r].force \subseteq Checks
  BY DEF Request
<1>5. \A kind \in Kinds : kind.host \in Hosts /\ kind.client \in Clients \cup {NoClient}
  BY RequestAssumption
<1> QED BY <1>1, <1>2, <1>3, <1>4, <1>5

-----------------------------------------------------------------------------
(* The limiter.                                                            *)

\* What leaves the limiter alone keeps what holds of it.
LEMMA LimiterKept == ASSUME LimiterInv, UNCHANGED limiterVars PROVE LimiterInv'
BY DEF LimiterInv, LimiterTyped, BlocksEarned, BlocksEnd, limiterVars

\* A change of the entry of one client.
LEMMA EntryKeeps ==
    ASSUME LimiterInv, NEW c \in Clients, NEW e \in Entry, entries' = [entries EXCEPT ![c] = e],
           NEW n \in Nat, NEW m \in Nat, NEW t \in 0..MaxTime,
           scans' = [scans EXCEPT ![c] = n], blocks' = [blocks EXCEPT ![c] = m],
           lastScan' = [lastScan EXCEPT ![c] = t],
           Threshold * m + e.count <= n, e.count < Threshold,
           e.blockedUntil # 0 => e.blockedUntil <= t + BlockFor
    PROVE  LimiterInv'
<1>1. LimiterTyped'
  BY DEF LimiterInv, LimiterTyped
<1>2. \A d \in Clients : /\ entries'[d] = IF d = c THEN e ELSE entries[d]
                         /\ scans'[d] = IF d = c THEN n ELSE scans[d]
                         /\ blocks'[d] = IF d = c THEN m ELSE blocks[d]
                         /\ lastScan'[d] = IF d = c THEN t ELSE lastScan[d]
  BY DEF LimiterInv, LimiterTyped
<1>3. BlocksEarned'
  <2> SUFFICES ASSUME NEW d \in Clients
               PROVE  /\ Threshold * blocks'[d] + entries'[d].count <= scans'[d]
                      /\ entries'[d].count < Threshold
    BY DEF BlocksEarned
  <2>1. CASE d = c
    BY <2>1, <1>2
  <2>2. CASE d # c
    BY <2>2, <1>2 DEF LimiterInv, BlocksEarned
  <2> QED BY <2>1, <2>2
<1>4. BlocksEnd'
  <2> SUFFICES ASSUME NEW d \in Clients, entries'[d].blockedUntil # 0
               PROVE  entries'[d].blockedUntil <= lastScan'[d] + BlockFor
    BY DEF BlocksEnd
  <2>1. CASE d = c
    BY <2>1, <1>2
  <2>2. CASE d # c
    BY <2>2, <1>2 DEF LimiterInv, BlocksEnd
  <2> QED BY <2>1, <2>2
<1> QED BY <1>1, <1>3, <1>4 DEF LimiterInv

\* IsBlocked forgets a block that has expired.
LEMMA UnblockKeeps ==
    ASSUME LimiterInv, NEW c \in Clients, NEW now \in Times,
           entries' = [entries EXCEPT ![c] = Unblocked(@, now)],
           UNCHANGED <<scans, lastScan, blocks>>
    PROVE  LimiterInv'
<1> DEFINE e == Unblocked(entries[c], now)
<1>1. /\ entries[c] \in Entry /\ scans[c] \in Nat /\ blocks[c] \in Nat /\ lastScan[c] \in 0..MaxTime
      /\ Threshold * blocks[c] + entries[c].count <= scans[c] /\ entries[c].count < Threshold
      /\ entries[c].blockedUntil # 0 => entries[c].blockedUntil <= lastScan[c] + BlockFor
      /\ entries[c].count \in Nat
  BY DEF LimiterInv, LimiterTyped, BlocksEarned, BlocksEnd, Entry
<1>2. /\ e \in Entry /\ e.count \in Nat /\ e.count <= entries[c].count
      /\ e.blockedUntil # 0 => e.blockedUntil = entries[c].blockedUntil
  BY <1>1, Numbers DEF Unblocked, Entry
<1>3. /\ entries' = [entries EXCEPT ![c] = e]
      /\ scans' = [scans EXCEPT ![c] = scans[c]] /\ blocks' = [blocks EXCEPT ![c] = blocks[c]]
      /\ lastScan' = [lastScan EXCEPT ![c] = lastScan[c]]
  BY DEF LimiterInv, LimiterTyped
<1> HIDE DEF e
<1>4. Threshold * blocks[c] \in Nat
  BY <1>1, Numbers, SMT
<1>5. Threshold * blocks[c] + e.count <= scans[c] /\ e.count < Threshold
  <2> DEFINE tb == Threshold * blocks[c]
  <2>1. tb \in Nat /\ tb + entries[c].count <= scans[c]
    BY <1>1, <1>4
  <2> HIDE DEF tb
  <2>2. tb + e.count <= scans[c]
    BY <1>1, <1>2, <2>1
  <2> QED BY <1>1, <1>2, <2>2, Numbers DEF tb
<1>6. e.blockedUntil # 0 => e.blockedUntil <= lastScan[c] + BlockFor
  BY <1>1, <1>2
<1> DEFINE n == scans[c]
           m == blocks[c]
           t == lastScan[c]
<1>7. n \in Nat /\ m \in Nat /\ t \in 0..MaxTime
  BY <1>1
<1>8. /\ scans' = [scans EXCEPT ![c] = n] /\ blocks' = [blocks EXCEPT ![c] = m]
      /\ lastScan' = [lastScan EXCEPT ![c] = t] /\ entries' = [entries EXCEPT ![c] = e]
  BY <1>3
<1>9. Threshold * m + e.count <= n /\ (e.blockedUntil # 0 => e.blockedUntil <= t + BlockFor)
  BY <1>5, <1>6
<1> HIDE DEF n, m, t
<1> QED BY <1>2, <1>5, <1>7, <1>8, <1>9, EntryKeeps

\* A suspicious request is counted for one block at most.
LEMMA SuspiciousKeeps ==
    ASSUME LimiterInv, NEW c \in Clients \cup {NoClient}, NEW now \in Times,
           RecordSuspicious(c, now)
    PROVE  LimiterInv'
<1>0. CASE c = NoClient
  BY <1>0, LimiterKept DEF RecordSuspicious
<1>n. CASE c # NoClient
  <2> DEFINE e == Suspicious(entries[c], now)
             n == scans[c] + 1
             m == IF BlockEarned(entries[c], now) THEN blocks[c] + 1 ELSE blocks[c]
             t == IF now > lastScan[c] THEN now ELSE lastScan[c]
             f == Counted(entries[c], now)
  <2>c. c \in Clients
    BY <1>n
  <2>1. /\ entries[c] \in Entry /\ scans[c] \in Nat /\ blocks[c] \in Nat
        /\ lastScan[c] \in 0..MaxTime
        /\ Threshold * blocks[c] + entries[c].count <= scans[c] /\ entries[c].count < Threshold
        /\ entries[c].blockedUntil # 0 => entries[c].blockedUntil <= lastScan[c] + BlockFor
        /\ entries[c].count \in Nat /\ entries[c].blockedUntil \in Nat
    BY <2>c DEF LimiterInv, LimiterTyped, BlocksEarned, BlocksEnd, Entry
  <2>2. /\ f \in Entry /\ f.count \in Nat /\ f.count <= entries[c].count + 1
        /\ f.blockedUntil = entries[c].blockedUntil
    <3>1. now \in 0..MaxTime /\ 1 <= entries[c].count + 1 /\ entries[c].count + 1 \in Nat
      BY <2>1, Numbers
    <3>2. CASE entries[c].windowStart = 0 \/ now > entries[c].windowStart + Window
      <4>1. f = [entries[c] EXCEPT !.windowStart = now, !.count = 1]
        BY <3>2 DEF Counted
      <4> HIDE DEF f
      <4> QED BY <4>1, <3>1, <2>1 DEF Entry
    <3>3. CASE ~(entries[c].windowStart = 0 \/ now > entries[c].windowStart + Window)
      <4>1. f = [entries[c] EXCEPT !.count = entries[c].count + 1]
        BY <3>3 DEF Counted
      <4> HIDE DEF f
      <4> QED BY <4>1, <3>1, <2>1 DEF Entry
    <3> QED BY <3>2, <3>3
  <2>3. n \in Nat /\ m \in Nat /\ t \in 0..MaxTime /\ now <= t /\ lastScan[c] <= t
    BY <2>1, Numbers
  <2>4. /\ entries' = [entries EXCEPT ![c] = e] /\ scans' = [scans EXCEPT ![c] = n]
        /\ blocks' = [blocks EXCEPT ![c] = m] /\ lastScan' = [lastScan EXCEPT ![c] = t]
    BY <1>n DEF RecordSuspicious
  <2>5. e \in Entry /\ e.count < Threshold
        /\ (BlockEarned(entries[c], now) => e.count = 0 /\ e.blockedUntil = now + BlockFor
                                            /\ Threshold <= f.count)
        /\ (~BlockEarned(entries[c], now) => e = f)
    <3>1. CASE BlockEarned(entries[c], now)
      <4>1. e = [windowStart |-> now, count |-> 0, blockedUntil |-> now + BlockFor]
        BY <3>1 DEF Suspicious
      <4>2. now \in 0..MaxTime /\ now + BlockFor \in Nat /\ 0 < Threshold
        BY Numbers
      <4>3. Threshold <= f.count
        BY <3>1, <2>2, Numbers DEF BlockEarned
      <4> HIDE DEF e
      <4> QED BY <3>1, <4>1, <4>2, <4>3 DEF Entry
    <3>2. CASE ~BlockEarned(entries[c], now)
      <4>1. e = f
        BY <3>2 DEF Suspicious
      <4>2. f.count < Threshold
        BY <3>2, <2>2, Numbers DEF BlockEarned
      <4> QED BY <3>2, <4>1, <4>2, <2>2
    <3> QED BY <3>1, <3>2
  <2>6. Threshold * m + e.count <= n
    <3> DEFINE tb == Threshold * blocks[c]
    <3>1. tb \in Nat /\ tb + entries[c].count <= scans[c]
      BY <2>1, Numbers, SMT
    <3>2. Threshold * (blocks[c] + 1) = tb + Threshold
      BY <2>1, Numbers, SMT
    <3> HIDE DEF tb, e, f
    <3>a. entries[c].count \in Nat /\ scans[c] \in Nat /\ Threshold \in Nat
      BY <2>1, Numbers
    <3>b. f.count \in Nat /\ f.count <= entries[c].count + 1
      BY <2>2
    <3>3. CASE BlockEarned(entries[c], now)
      <4>1. Threshold * m = tb + Threshold
        BY <3>2, <3>3
      <4>2. Threshold <= f.count /\ e.count = 0
        BY <3>3, <2>5
      <4>3. tb + Threshold <= scans[c] + 1
        BY <3>1, <3>a, <3>b, <4>2
      <4> HIDE DEF m
      <4> QED BY <4>1, <4>2, <4>3, <3>1, <3>a
    <3>4. CASE ~BlockEarned(entries[c], now)
      <4>1. Threshold * m = tb
        BY <3>4 DEF tb
      <4>2. tb + f.count <= scans[c] + 1
        BY <3>1, <3>a, <3>b
      <4> HIDE DEF m
      <4> QED BY <4>1, <4>2, <3>4, <2>5
    <3> QED BY <3>3, <3>4
  <2>7. e.blockedUntil # 0 => e.blockedUntil <= t + BlockFor
    <3> HIDE DEF e, f, t
    <3>1. CASE BlockEarned(entries[c], now)
      BY <3>1, <2>3, <2>5, Numbers
    <3>2. CASE ~BlockEarned(entries[c], now)
      BY <3>2, <2>1, <2>2, <2>3, <2>5, Numbers
    <3> QED BY <3>1, <3>2
  <2> HIDE DEF e, n, m, t
  <2> QED BY <2>c, <2>3, <2>4, <2>5, <2>6, <2>7, EntryKeeps
<1> QED BY <1>0, <1>n

\* A restart forgets the entries, and keeps the counts of what happened.
LEMMA ForgetKeeps ==
    ASSUME LimiterInv, entries' = [c \in Clients |-> NoEntry], UNCHANGED <<scans, lastScan, blocks>>
    PROVE  LimiterInv'
<1>1. NoEntry \in Entry /\ NoEntry.count = 0 /\ NoEntry.blockedUntil = 0
  BY Numbers DEF NoEntry, Entry
<1>2. LimiterTyped'
  BY <1>1 DEF LimiterInv, LimiterTyped
<1>3. BlocksEarned'
  <2> SUFFICES ASSUME NEW c \in Clients
               PROVE  Threshold * blocks[c] + 0 <= scans[c] /\ 0 < Threshold
    BY <1>1 DEF BlocksEarned
  <2> DEFINE tb == Threshold * blocks[c]
  <2>1. /\ tb + entries[c].count <= scans[c] /\ entries[c].count \in Nat
        /\ scans[c] \in Nat /\ blocks[c] \in Nat
    BY DEF LimiterInv, LimiterTyped, BlocksEarned, Entry
  <2>2. tb \in Nat
    BY <2>1, Numbers, SMT
  <2> HIDE DEF tb
  <2>3. tb + 0 <= scans[c]
    BY <2>1, <2>2
  <2> QED BY <2>3, Numbers DEF tb
<1>4. BlocksEnd'
  BY <1>1 DEF BlocksEnd
<1> QED BY <1>2, <1>3, <1>4 DEF LimiterInv

-----------------------------------------------------------------------------
(* The checks.                                                             *)

\* What Screened says of one request.
Applied(r) ==
    IF request[r].kind.host # Dashboard THEN {"ip", "waf", "basic", "token"}
    ELSE IF "mode" \in request[r].force THEN {"ip", "waf"} ELSE {"ip"}

PassedAll(r) ==
    \A check \in {"global", "agent"} \cup (request[r].force \cap Applied(r)) : ~Fails(r, check)

Stages == {"arrived", "admitted", "routed", "filtered", "inspected", "forwarding",
           "answered", "logging"}

\* A step of a request that leaves the routes alone.
LEMMA MoveKeeps ==
    ASSUME HandlerTyped, ScreenInv, NEW r \in Requests, Active(r), NEW pc \in Stages,
           Moves(r, pc), policy' = policy,
           pc \in {"routed", "filtered", "inspected"} =>
               request[r].kind.host = Dashboard /\ ~Fails(r, "global"),
           pc \in {"filtered", "inspected"} =>
               ~Fails(r, "agent") /\ ("ip" \in request[r].force => ~Fails(r, "ip")),
           pc = "forwarding" => PassedAll(r)
    PROVE  HandlerTyped' /\ ScreenInv'
<1>0. request[r] \in Request
  BY ActiveTyped
<1>1. /\ request' = [request EXCEPT ![r] = [request[r] EXCEPT !.pc = pc]]
      /\ [request[r] EXCEPT !.pc = pc] \in Request
  BY <1>0 DEF Moves, Request, Stages
<1>2. /\ request'[r].pc = pc /\ request'[r].kind = request[r].kind
      /\ request'[r].force = request[r].force
  BY <1>0, <1>1 DEF Request, HandlerTyped
<1>3. \A q \in Requests \ {r} : request'[q] = request[q]
  BY <1>1 DEF HandlerTyped
<1>4. HandlerTyped'
  BY <1>1 DEF HandlerTyped
<1>5. ForceCurrent'
  <2> SUFFICES ASSUME NEW q \in Requests, Active(q)', policy[request'[q].kind.host] # NoRoute
               PROVE  request'[q].force \subseteq policy[request'[q].kind.host]
    BY DEF ForceCurrent
  <2>1. CASE q = r
    BY <2>1, <1>2 DEF ScreenInv, ForceCurrent
  <2>2. CASE q # r
    <3>1. request'[q] = request[q] /\ Active(q)
      BY <2>2, <1>3 DEF Active, At
    <3> QED BY <3>1 DEF ScreenInv, ForceCurrent
  <2> QED BY <2>1, <2>2
<1>6. PassedSoFar'
  <2> SUFFICES ASSUME NEW q \in Requests
        PROVE  /\ request'[q].pc \in {"routed", "filtered", "inspected"} =>
                     request'[q].kind.host = Dashboard /\ "global" \notin request'[q].kind.fails
               /\ request'[q].pc \in {"filtered", "inspected"} =>
                     /\ "agent" \notin request'[q].kind.fails
                     /\ "ip" \in request'[q].force => "ip" \notin request'[q].kind.fails
    BY DEF PassedSoFar, Fails
  <2>1. CASE q = r
    BY <2>1, <1>2 DEF Fails
  <2>2. CASE q # r
    BY <2>2, <1>3 DEF ScreenInv, PassedSoFar, Fails
  <2> QED BY <2>1, <2>2
<1>7. Screened'
  <2> SUFFICES ASSUME NEW q \in Requests, request'[q].pc = "forwarding" PROVE PassedAll(q)'
    BY Zenon DEF Screened, PassedAll, Applied, At
  <2>1. CASE q = r
    <3>1. PassedAll(r)
      BY <2>1, <1>2
    <3> QED BY <3>1, <2>1, <1>2 DEF PassedAll, Applied, Fails
  <2>2. CASE q # r
    <3>1. request'[q] = request[q] /\ At(q, "forwarding")
      BY <2>2, <1>3 DEF At
    <3>2. PassedAll(q)
      BY <3>1, Zenon DEF ScreenInv, Screened, PassedAll, Applied
    <3> QED BY <3>1, <3>2 DEF PassedAll, Applied, Fails
  <2> QED BY <2>1, <2>2
<1> QED BY <1>4, <1>5, <1>6, <1>7 DEF ScreenInv

\* The goroutines that are none, or no more: New and Done have nothing to pass.
LEMMA OthersKeep ==
    ASSUME HandlerTyped, ScreenInv, policy' \in [Hosts -> Policies \cup {NoRoute}],
           policy'[Dashboard] # NoRoute,
           request' \in [Requests -> Request \cup {New, Done}],
           \A q \in Requests :
               \/ request'[q] = request[q] /\ (Active(q) => policy'[request[q].kind.host] =
                                                            policy[request[q].kind.host])
               \/ request'[q] = Done
    PROVE  HandlerTyped' /\ ScreenInv'
<1>1. HandlerTyped'
  BY DEF HandlerTyped
<1>2. ASSUME NEW q \in Requests, ~(request'[q] = Done)
      PROVE  request'[q] = request[q] /\ (Active(q) => policy'[request[q].kind.host] =
                                                       policy[request[q].kind.host])
  BY <1>2
<1>3. ForceCurrent'
  <2> SUFFICES ASSUME NEW q \in Requests, Active(q)', policy'[request'[q].kind.host] # NoRoute
               PROVE  request'[q].force \subseteq policy'[request'[q].kind.host]
    BY DEF ForceCurrent
  <2>1. request'[q] # Done
    BY DEF Active, At, Done
  <2>2. request'[q] = request[q] /\ Active(q) /\ policy'[request[q].kind.host] = policy[request[q].kind.host]
    BY <1>2, <2>1 DEF Active, At
  <2> QED BY <2>2 DEF ScreenInv, ForceCurrent
<1>4. PassedSoFar'
  <2> SUFFICES ASSUME NEW q \in Requests
        PROVE  /\ request'[q].pc \in {"routed", "filtered", "inspected"} =>
                     request'[q].kind.host = Dashboard /\ "global" \notin request'[q].kind.fails
               /\ request'[q].pc \in {"filtered", "inspected"} =>
                     /\ "agent" \notin request'[q].kind.fails
                     /\ "ip" \in request'[q].force => "ip" \notin request'[q].kind.fails
    BY DEF PassedSoFar, Fails
  <2>1. CASE request'[q] = Done
    BY <2>1 DEF Done
  <2>2. CASE request'[q] # Done
    BY <2>2, <1>2 DEF ScreenInv, PassedSoFar, Fails
  <2> QED BY <2>1, <2>2
<1>5. Screened'
  <2> SUFFICES ASSUME NEW q \in Requests, request'[q].pc = "forwarding" PROVE PassedAll(q)'
    BY Zenon DEF Screened, PassedAll, Applied, At
  <2>1. request'[q] # Done
    BY DEF Done
  <2>2. request'[q] = request[q] /\ At(q, "forwarding")
    BY <1>2, <2>1 DEF At
  <2>3. PassedAll(q)
    BY <2>2, Zenon DEF ScreenInv, Screened, PassedAll, Applied
  <2> QED BY <2>2, <2>3 DEF PassedAll, Applied, Fails
<1> QED BY <1>1, <1>3, <1>4, <1>5 DEF ScreenInv

\* A request that arrives (proxy).
LEMMA ArriveScreens ==
    ASSUME HandlerTyped, ScreenInv, NEW r \in Requests, NEW kind \in Kinds, Arrive(r, kind),
           clock \in Times
    PROVE  HandlerTyped' /\ ScreenInv'
<1> DEFINE p == policy[kind.host]
           new == [pc |-> "arrived", at |-> clock, kind |-> kind,
                   force |-> IF p = NoRoute THEN {} ELSE p]
<1>1. kind.host \in Hosts /\ p \in Policies \cup {NoRoute}
  BY RequestAssumption DEF HandlerTyped
<1>2. new.force \subseteq Checks
  BY <1>1, RequestAssumption
<1>3. new \in Request
  BY <1>2 DEF Request
<1>4. request' = [request EXCEPT ![r] = new] /\ policy' = policy
  BY DEF Arrive, elsewhere
<1>5. HandlerTyped' /\ \A q \in Requests : request'[q] = IF q = r THEN new ELSE request[q]
  BY <1>3, <1>4 DEF HandlerTyped
<1>6. ForceCurrent'
  <2> SUFFICES ASSUME NEW q \in Requests, Active(q)', policy[request'[q].kind.host] # NoRoute
               PROVE  request'[q].force \subseteq policy[request'[q].kind.host]
    BY <1>4 DEF ForceCurrent
  <2>1. CASE q = r
    BY <2>1, <1>5
  <2>2. CASE q # r
    <3>1. request'[q] = request[q] /\ Active(q)
      BY <2>2, <1>5 DEF Active, At
    <3> QED BY <3>1 DEF ScreenInv, ForceCurrent
  <2> QED BY <2>1, <2>2
<1>7. PassedSoFar'
  <2> SUFFICES ASSUME NEW q \in Requests
        PROVE  /\ request'[q].pc \in {"routed", "filtered", "inspected"} =>
                     request'[q].kind.host = Dashboard /\ "global" \notin request'[q].kind.fails
               /\ request'[q].pc \in {"filtered", "inspected"} =>
                     /\ "agent" \notin request'[q].kind.fails
                     /\ "ip" \in request'[q].force => "ip" \notin request'[q].kind.fails
    BY DEF PassedSoFar, Fails
  <2>1. CASE q = r
    <3>1. request'[q].pc = "arrived"
      BY <2>1, <1>5
    <3> QED BY <3>1
  <2>2. CASE q # r
    BY <2>2, <1>5 DEF ScreenInv, PassedSoFar, Fails
  <2> QED BY <2>1, <2>2
<1>8. Screened'
  <2> SUFFICES ASSUME NEW q \in Requests, request'[q].pc = "forwarding" PROVE PassedAll(q)'
    BY Zenon DEF Screened, PassedAll, Applied, At
  <2>1. q # r
    BY <1>5
  <2>2. request'[q] = request[q] /\ At(q, "forwarding")
    BY <1>5, <2>1 DEF At
  <2>3. PassedAll(q)
    BY <2>2, Zenon DEF ScreenInv, Screened, PassedAll, Applied
  <2> QED BY <2>2, <2>3 DEF PassedAll, Applied, Fails
<1> QED BY <1>5, <1>6, <1>7, <1>8 DEF ScreenInv

\* A change of the route, or of the settings, asks for what both asked for at
\* the most: what has been passed stays passed.
LEMMA ChangeScreens ==
    ASSUME HandlerTyped, ScreenInv, NEW h \in Hosts, NEW p \in Policies \cup {NoRoute},
           ChangePolicy(h, p)
    PROVE  HandlerTyped' /\ ScreenInv'
<1> DEFINE cut(q) == Active(q) /\ request[q].kind.host = h /\ p # NoRoute
<1>0. \A q \in Requests :
          request'[q] = IF cut(q) THEN [request[q] EXCEPT !.force = @ \cap p] ELSE request[q]
  BY DEF ChangePolicy
<1>1. ASSUME NEW q \in Requests, cut(q)
      PROVE  /\ request'[q] \in Request /\ request'[q].pc = request[q].pc
             /\ request'[q].kind = request[q].kind
             /\ request'[q].force = request[q].force \cap p
  <2>1. request[q] \in Request
    BY <1>1, ActiveTyped
  <2>2. request'[q] = [request[q] EXCEPT !.force = request[q].force \cap p]
    BY <1>0, <1>1
  <2>3. request[q].force \cap p \in SUBSET Checks
    BY <2>1 DEF Request
  <2> QED BY <2>1, <2>2, <2>3 DEF Request
<1>2. ASSUME NEW q \in Requests
      PROVE  /\ request'[q] \in Request \cup {New, Done}
             /\ request'[q].pc = request[q].pc
             /\ Active(q) => /\ request'[q].kind = request[q].kind
                             /\ request'[q].force \subseteq request[q].force
  <2>1. CASE cut(q)
    BY <2>1, <1>1
  <2>2. CASE ~cut(q)
    BY <2>2, <1>0 DEF HandlerTyped
  <2> QED BY <2>1, <2>2
<1>3. HandlerTyped'
  <2>1. request' \in [Requests -> Request \cup {New, Done}]
    BY <1>2 DEF ChangePolicy
  <2>2. policy' \in [Hosts -> Policies \cup {NoRoute}] /\ policy'[Dashboard] # NoRoute
    BY RequestAssumption DEF ChangePolicy, HandlerTyped
  <2> QED BY <2>1, <2>2 DEF HandlerTyped
<1>4. \A q \in Requests : Active(q)' <=> Active(q)
  BY <1>2 DEF Active, At
<1>5. ForceCurrent'
  <2> SUFFICES ASSUME NEW q \in Requests, Active(q), policy'[request'[q].kind.host] # NoRoute
               PROVE  request'[q].force \subseteq policy'[request'[q].kind.host]
    BY <1>4 DEF ForceCurrent
  <2>0. request[q].kind.host \in Hosts /\ request'[q].kind = request[q].kind
    BY <1>2, ActiveTyped
  <2>1. CASE request[q].kind.host = h
    <3>1. policy'[request[q].kind.host] = p
      BY <2>1 DEF ChangePolicy, HandlerTyped
    <3>2. cut(q)
      BY <2>0, <2>1, <3>1
    <3> QED BY <3>1, <3>2, <2>0, <1>1
  <2>2. CASE request[q].kind.host # h
    <3>1. policy'[request[q].kind.host] = policy[request[q].kind.host]
      BY <2>0, <2>2 DEF ChangePolicy, HandlerTyped
    <3>2. request'[q] = request[q]
      BY <2>2, <1>0
    <3> QED BY <3>1, <3>2 DEF ScreenInv, ForceCurrent
  <2> QED BY <2>1, <2>2
<1>6. PassedSoFar'
  <2> SUFFICES ASSUME NEW q \in Requests
        PROVE  /\ request'[q].pc \in {"routed", "filtered", "inspected"} =>
                     request'[q].kind.host = Dashboard /\ "global" \notin request'[q].kind.fails
               /\ request'[q].pc \in {"filtered", "inspected"} =>
                     /\ "agent" \notin request'[q].kind.fails
                     /\ "ip" \in request'[q].force => "ip" \notin request'[q].kind.fails
    BY DEF PassedSoFar, Fails
  <2>1. request'[q].pc \in {"routed", "filtered", "inspected"} => Active(q)
    BY <1>2 DEF Active, At
  <2> QED BY <2>1, <1>2 DEF ScreenInv, PassedSoFar, Fails
<1>7. Screened'
  <2> SUFFICES ASSUME NEW q \in Requests, request'[q].pc = "forwarding" PROVE PassedAll(q)'
    BY Zenon DEF Screened, PassedAll, Applied, At
  <2>1. At(q, "forwarding") /\ Active(q)
    BY <1>2 DEF Active, At
  <2>2. PassedAll(q)
    BY <2>1, Zenon DEF ScreenInv, Screened, PassedAll, Applied
  <2>3. request'[q].kind = request[q].kind /\ request'[q].force \subseteq request[q].force
    BY <1>2, <2>1
  <2>4. request'[q].force \cap Applied(q)' \subseteq request[q].force \cap Applied(q)
    BY <2>3 DEF Applied
  <2> QED BY <2>2, <2>3, <2>4 DEF PassedAll, Fails
<1> QED BY <1>3, <1>5, <1>6, <1>7 DEF ScreenInv

-----------------------------------------------------------------------------
(* The log.                                                                *)

\* A step that neither writes nor removes anything, although time may pass.
LEMMA LogQuiet ==
    ASSUME LogInv, UNCHANGED <<files, modified, logger, written>>,
           clock' \in Times, clock <= clock',
           stamp' \in [Requests -> 0..MaxTime],
           \A r \in Requests : stamp'[r] <= clock',
           \A r \in Requests : request[r].pc = "done" => request'[r].pc = "done"
    PROVE  LogInv'
<1>0. clock \in Nat /\ clock' \in Nat /\ Retention \in Nat
  BY Numbers DEF LogInv, LogTyped
<1>1. LogTyped'
  BY DEF LogInv, LogTyped
<1>2. LogDated'
  <2>1. \A r \in Requests : written[r] \in Nat /\ written[r] <= clock
    BY Numbers DEF LogInv, LogTyped, LogDated
  <2>2. ASSUME NEW k \in Hours PROVE modified[k] \in Nat /\ modified[k] <= clock
    <3>1. modified[k] \in 0..MaxTime
      BY DEF LogInv, LogTyped
    <3>2. modified[k] <= clock
      BY DEF LogInv, LogDated
    <3> QED BY <3>1, <3>2
  <2> QED BY <2>1, <2>2, <1>0 DEF LogInv, LogDated
<1>3. LinesDated'
  <2>1. \A k \in Hours : files[k] # NoFile =>
            files[k] \in Seq(Requests) /\ \A i \in 1..Len(files[k]) : files[k][i] \in Requests
    BY DEF LogInv, LogTyped
  <2> QED BY <2>1 DEF LogInv, LinesDated
<1>4. RecentKept'
  <2> SUFFICES ASSUME NEW r \in Requests, written[r] # 0, clock' <= written[r] + Retention
               PROVE  OnFile(r)
    BY DEF RecentKept, OnFile
  <2>1. written[r] \in Nat
    BY Numbers DEF LogInv, LogTyped
  <2>2. clock <= written[r] + Retention
    BY <2>1, <1>0
  <2> QED BY <2>2 DEF LogInv, RecentKept
<1> QED BY <1>1, <1>2, <1>3, <1>4 DEF LogInv

\* F is the directory after files were removed that are expired at now, and
\* the file of hour k was created unless it was there.
Removes(F, k, now) ==
    /\ F \in [Hours -> Seq(Requests) \cup {NoFile}]
    /\ F[k] # NoFile
    /\ \A j \in Hours :
          \/ F[j] = files[j]
          \/ F[j] = NoFile /\ modified[j] + Retention < now
          \/ j = k /\ files[j] = NoFile /\ F[j] = <<>>

\* rotateIfNeeded, when it changes files, removes expired ones only.
LEMMA RotatedRemoves ==
    ASSUME LogTyped, NEW k \in Hours, NEW now \in Nat PROVE Removes(Rotated(k, now), k, now)
<1>1. <<>> \in Seq(Requests) /\ NoFile \notin Seq(Requests)
  BY Numbers
<1>2. /\ Opened(k) \in Seq(Requests)
      /\ Opened(k) = files[k] \/ (files[k] = NoFile /\ Opened(k) = <<>>)
  <2>1. files[k] \in Seq(Requests) \cup {NoFile}
    BY DEF LogTyped
  <2> QED BY <1>1, <2>1 DEF Opened
<1>3. Rotated(k, now) \in [Hours -> Seq(Requests) \cup {NoFile}] /\ Rotated(k, now)[k] # NoFile
  BY <1>1, <1>2 DEF Rotated, LogTyped
<1>4. ASSUME NEW j \in Hours
      PROVE  \/ Rotated(k, now)[j] = files[j]
             \/ Rotated(k, now)[j] = NoFile /\ modified[j] + Retention < now
             \/ j = k /\ files[j] = NoFile /\ Rotated(k, now)[j] = <<>>
  BY <1>2 DEF Rotated, Expired
<1> QED BY <1>3, <1>4 DEF Removes

\* The same, whether it changes files or not.
LEMMA RotateRemoves ==
    ASSUME LogInv, NEW k \in Hours, NEW now \in Nat PROVE Removes(RotateIfNeeded(k, now), k, now)
<1>1. CASE k = logger.key
  BY <1>1 DEF RotateIfNeeded, Removes, LogInv, LogTyped, LogDated
<1>2. CASE k # logger.key
  BY <1>2, RotatedRemoves DEF RotateIfNeeded, LogInv
<1> QED BY <1>1, <1>2

\* A file that may be removed now has no line that must be kept.
LEMMA RecentStays ==
    ASSUME LogInv, NEW k \in Hours, NEW now \in Nat, now <= clock, NEW F, Removes(F, k, now),
           NEW r \in Requests, written[r] # 0, clock <= written[r] + Retention
    PROVE  \E j \in Hours : F[j] # NoFile /\ F[j] = files[j] /\ \E i \in 1..Len(F[j]) : F[j][i] = r
<1>1. PICK j \in Hours : files[j] # NoFile /\ \E i \in 1..Len(files[j]) : files[j][i] = r
  BY DEF LogInv, RecentKept, OnFile
<1>2. written[r] <= modified[j] /\ written[r] \in Nat /\ modified[j] \in Nat /\ clock \in Nat
  <2>1. written[r] <= modified[j]
    BY <1>1 DEF LogInv, LinesDated
  <2>2. written[r] \in 0..MaxTime /\ modified[j] \in 0..MaxTime /\ clock \in Times
    BY DEF LogInv, LogTyped
  <2> QED BY <2>1, <2>2, Numbers
<1>3. ~(modified[j] + Retention < now)
  BY <1>2, Numbers
<1>4. F[j] = files[j]
  BY <1>1, <1>3 DEF Removes
<1> QED BY <1>1, <1>4

\* A change of files that writes no line (LogFails, OpenLog).
LEMMA RemovalKeeps ==
    ASSUME LogInv, NEW k \in Hours, NEW now \in Nat, now <= clock, NEW F, Removes(F, k, now),
           files' = F, logger' \in [key : {k}, state : {"open", "stuck"}], modified' = Created(k),
           UNCHANGED <<clock, stamp, written>>,
           \A r \in Requests : request[r].pc = "done" => request'[r].pc = "done"
    PROVE  LogInv'
<1>0. clock \in Nat /\ clock \in 0..MaxTime /\ logger'.key = k
  BY Numbers DEF LogInv, LogTyped
<1>1. modified' \in [Hours -> 0..MaxTime] /\ \A j \in Hours : modified'[j] <= clock
  BY <1>0 DEF Created, LogInv, LogTyped, LogDated
<1>2. LogTyped'
  BY <1>1 DEF Removes, LogInv, LogTyped
<1>3. LogDated'
  BY <1>0, <1>1 DEF Removes, LogInv, LogDated
<1>4. LinesDated'
  <2> SUFFICES ASSUME NEW j \in Hours, F[j] # NoFile, NEW i \in 1..Len(F[j])
               PROVE  written[F[j][i]] <= modified'[j] /\ request'[F[j][i]].pc = "done"
    BY DEF LinesDated
  <2>1. F[j] = files[j] /\ files[j] \in Seq(Requests)
    <3>1. CASE F[j] = <<>>
      BY <3>1
    <3>2. CASE F[j] # <<>>
      BY <3>2 DEF Removes, LogInv, LogTyped
    <3> QED BY <3>1, <3>2
  <2>2. files[j][i] \in Requests /\ written[files[j][i]] <= modified[j] /\ request[files[j][i]].pc = "done"
    BY <2>1 DEF LogInv, LinesDated
  <2>3. modified'[j] = modified[j]
    BY <2>1 DEF Created, LogInv, LogTyped
  <2> QED BY <2>1, <2>2, <2>3
<1>5. RecentKept'
  <2> SUFFICES ASSUME NEW r \in Requests, written[r] # 0, clock <= written[r] + Retention
               PROVE  \E j \in Hours : F[j] # NoFile /\ \E i \in 1..Len(F[j]) : F[j][i] = r
    BY DEF RecentKept, OnFile
  <2> QED BY RecentStays
<1> QED BY <1>2, <1>3, <1>4, <1>5 DEF LogInv

\* The line of a request that was not logged yet.
LEMMA WriteKeeps ==
    ASSUME LogInv, NEW r \in Requests, request[r].pc # "done", WriteLine(r), clock' = clock,
           request'[r].pc = "done",
           \A q \in Requests : request[q].pc = "done" => request'[q].pc = "done"
    PROVE  LogInv'
<1> DEFINE k == HourOf(stamp[r])
           now == stamp[r]
           F == RotateIfNeeded(k, now)
<1>0. /\ now \in Nat /\ now <= clock /\ clock \in Nat /\ clock \in 0..MaxTime /\ k \in Hours
  BY Numbers, HourTyped DEF LogInv, LogTyped, LogDated
<1>1. Removes(F, k, now)
  BY <1>0, RotateRemoves
<1>2. /\ files' = [F EXCEPT ![k] = Append(F[k], r)]
      /\ modified' = [modified EXCEPT ![k] = clock]
      /\ logger' = [logger EXCEPT !.key = k]
      /\ written' = [written EXCEPT ![r] = clock]
      /\ stamp' = stamp
  BY DEF WriteLine
<1> HIDE DEF F, k, now
<1>3. /\ F \in [Hours -> Seq(Requests) \cup {NoFile}] /\ F[k] \in Seq(Requests)
      /\ \A j \in Hours : F[j] = files[j] \/ F[j] = NoFile \/ (j = k /\ F[j] = <<>>)
  BY <1>0, <1>1 DEF Removes
<1>4. /\ Append(F[k], r) \in Seq(Requests) /\ Len(Append(F[k], r)) = Len(F[k]) + 1
      /\ \A i \in 1..Len(F[k]) : Append(F[k], r)[i] = F[k][i]
      /\ Append(F[k], r)[Len(F[k]) + 1] = r
      /\ Len(F[k]) \in Nat
  BY <1>3
<1>5. /\ \A j \in Hours : files'[j] = IF j = k THEN Append(F[k], r) ELSE F[j]
      /\ \A j \in Hours : modified'[j] = IF j = k THEN clock ELSE modified[j]
      /\ \A q \in Requests : written'[q] = IF q = r THEN clock ELSE written[q]
      /\ logger'.key = k
  BY <1>0, <1>2, <1>3 DEF LogInv, LogTyped
<1>t. files'[k] = Append(F[k], r) /\ files'[k] # NoFile
  <2>1. files'[k] = Append(F[k], r)
    BY <1>0, <1>5
  <2> QED BY <2>1, <1>4, Numbers, Zenon
<1>6. LogTyped'
  <2>1. files' \in [Hours -> Seq(Requests) \cup {NoFile}]
    BY <1>2, <1>3, <1>4
  <2>2. logger' \in [key : Hours, state : {"open", "stuck"}]
    BY <1>0, <1>2 DEF LogInv, LogTyped
  <2> QED BY <2>1, <2>2, <1>0, <1>2 DEF LogInv, LogTyped
<1>7. LogDated'
  <2>1. files'[k] # NoFile
    BY <1>t
  <2>2. \A q \in Requests : stamp'[q] <= clock' /\ written'[q] <= clock'
    BY <1>0, <1>2, <1>5 DEF LogInv, LogDated
  <2>3. \A j \in Hours : modified'[j] <= clock'
    BY <1>0, <1>5 DEF LogInv, LogDated
  <2> QED BY <2>1, <2>2, <2>3, <1>5 DEF LogDated
<1>8. LinesDated'
  <2> SUFFICES ASSUME NEW j \in Hours, files'[j] # NoFile, NEW i \in 1..Len(files'[j])
               PROVE  written'[files'[j][i]] <= modified'[j] /\ request'[files'[j][i]].pc = "done"
    BY DEF LinesDated
  <2>a. ASSUME NEW l \in 1..Len(F[j]), F[j] # NoFile
        PROVE  /\ F[j][l] \in Requests /\ F[j][l] # r /\ written'[F[j][l]] <= modified'[j]
               /\ request'[F[j][l]].pc = "done"
    <3>1. F[j] = files[j] /\ files[j] \in Seq(Requests)
      <4>1. CASE F[j] = <<>>
        BY <2>a, <4>1
      <4>2. CASE F[j] # <<>>
        BY <2>a, <4>2, <1>3 DEF LogInv, LogTyped
      <4> QED BY <4>1, <4>2
    <3>2. /\ F[j][l] \in Requests /\ written[F[j][l]] <= modified[j] /\ request[F[j][l]].pc = "done"
      BY <3>1, <2>a DEF LogInv, LinesDated
    <3>3. F[j][l] # r
      BY <3>2
    <3>4. written[F[j][l]] <= modified'[j]
      <4>1. written[F[j][l]] <= clock
        BY <3>2 DEF LogInv, LogDated
      <4> QED BY <3>2, <4>1, <1>5
    <3> QED BY <3>2, <3>3, <3>4, <1>5
  <2>1. CASE j # k
    BY <2>1, <2>a, <1>5
  <2>2. CASE j = k
    <3>1. files'[j] = Append(F[k], r) /\ F[k] # NoFile
      BY <2>2, <1>5, <1>3, Numbers
    <3>2. CASE i = Len(F[k]) + 1
      <4>1. files'[j][i] = r /\ written'[r] = clock /\ modified'[j] = clock
        BY <3>1, <3>2, <2>2, <1>4, <1>5
      <4> QED BY <4>1, <1>0
    <3>3. CASE i # Len(F[k]) + 1
      <4>1. i \in 1..Len(F[k])
        BY <3>1, <3>3, <1>4
      <4>2. files'[j][i] = F[j][i]
        BY <4>1, <3>1, <1>4, <2>2
      <4> QED BY <4>1, <4>2, <3>1, <2>2, <2>a
    <3> QED BY <3>2, <3>3
  <2> QED BY <2>1, <2>2
<1>9. RecentKept'
  <2> SUFFICES ASSUME NEW q \in Requests, written'[q] # 0, clock <= written'[q] + Retention
               PROVE  \E j \in Hours : files'[j] # NoFile /\ \E i \in 1..Len(files'[j]) : files'[j][i] = q
    BY DEF RecentKept, OnFile
  <2>1. CASE q = r
    <3>1. Len(F[k]) + 1 \in 1..Len(files'[k]) /\ files'[k][Len(F[k]) + 1] = r
      BY <1>4, <1>t
    <3> QED BY <3>1, <2>1, <1>0, <1>t
  <2>2. CASE q # r
    <3>1. written'[q] = written[q]
      BY <2>2, <1>5
    <3>2. PICK j \in Hours : F[j] # NoFile /\ \E i \in 1..Len(F[j]) : F[j][i] = q
      BY <3>1, <1>0, <1>1, RecentStays
    <3>3. CASE j # k
      BY <3>2, <3>3, <1>5
    <3>4. CASE j = k
      <4>1. PICK i \in 1..Len(F[k]) : F[k][i] = q
        BY <3>2, <3>4
      <4>2. i \in 1..Len(files'[k]) /\ files'[k][i] = q
        BY <4>1, <1>4, <1>t
      <4> QED BY <4>2, <1>0, <1>t
    <3> QED BY <3>3, <3>4
  <2> QED BY <2>1, <2>2
<1> QED BY <1>6, <1>7, <1>8, <1>9 DEF LogInv

-----------------------------------------------------------------------------
(* The steps.                                                              *)

\* It holds at the start.
LEMMA InitInv == Init => Inv
<1> SUFFICES ASSUME Init PROVE Inv
  OBVIOUS
<1>1. HandlerTyped
  BY RequestAssumption DEF Init, HandlerTyped
<1>2. LimiterInv
  <2>1. NoEntry \in Entry /\ NoEntry.count = 0 /\ NoEntry.blockedUntil = 0
    BY Numbers DEF NoEntry, Entry
  <2>2. LimiterTyped
    BY <2>1, Numbers DEF Init, LimiterTyped
  <2>3. Threshold * 0 + 0 <= 0 /\ 0 < Threshold
    BY Numbers, SMT
  <2>4. BlocksEarned
    BY <2>1, <2>3 DEF Init, BlocksEarned
  <2>5. BlocksEnd
    BY <2>1 DEF Init, BlocksEnd
  <2> QED BY <2>2, <2>4, <2>5 DEF LimiterInv
<1>3. ScreenInv
  <2>1. \A r \in Requests : request[r].pc = "new"
    BY DEF Init, New
  <2> QED BY <2>1 DEF ScreenInv, ForceCurrent, PassedSoFar, Screened, Active, At
<1>4. LogInv
  <2>1. HourOf(1) \in Hours /\ 1 \in Times /\ 1 \in 0..MaxTime /\ 0 \in 0..MaxTime
    BY HourTyped, Numbers
  <2>2. \A k \in Hours : files[k] \in {<<>>, NoFile}
    BY DEF Init, LogInit
  <2>3. files[HourOf(1)] = <<>> /\ <<>> \in Seq(Requests)
    BY <2>1 DEF Init, LogInit
  <2>4. LogTyped
    BY <2>1 DEF Init, LogInit, LogTyped
  <2>5. LogDated
    <3>1. files[logger.key] # NoFile
      BY <2>3, Numbers DEF Init, LogInit
    <3> QED BY <3>1 DEF Init, LogInit, LogDated
  <2>6. LinesDated
    <3> SUFFICES ASSUME NEW k \in Hours, files[k] # NoFile, NEW i \in 1..Len(files[k]) PROVE FALSE
      BY DEF LinesDated
    <3>1. files[k] = <<>>
      BY <2>2
    <3> QED BY <3>1
  <2>7. RecentKept
    BY DEF Init, LogInit, RecentKept
  <2> QED BY <2>4, <2>5, <2>6, <2>7 DEF LogInv
<1> QED BY <1>1, <1>2, <1>3, <1>4 DEF Inv

\* No step makes a request undone.
LEMMA DoneStays ==
    ASSUME HandlerTyped, NEW r \in Requests, Active(r),
           \A q \in Requests \ {r} : request'[q] = request[q]
    PROVE  \A q \in Requests : request[q].pc = "done" => request'[q].pc = "done"
BY DEF Active, At

\* A step of the handler that leaves the log alone.
LEMMA LogAside ==
    ASSUME Inv, UNCHANGED <<clock, logVars>>,
           \A q \in Requests : request[q].pc = "done" => request'[q].pc = "done"
    PROVE  LogInv'
<1>0. UNCHANGED <<files, modified, logger, written>> /\ clock' = clock /\ stamp' = stamp
  BY DEF logVars
<1>1. clock \in Times /\ clock <= clock
  BY Numbers DEF Inv, LogInv, LogTyped
<1>2. stamp \in [Requests -> 0..MaxTime] /\ \A r \in Requests : stamp[r] <= clock
  BY DEF Inv, LogInv, LogTyped, LogDated
<1> QED BY <1>0, <1>1, <1>2, LogQuiet DEF Inv

\* The same, for a request that moves on.
LEMMA MovesAside ==
    ASSUME Inv, UNCHANGED <<clock, logVars>>, NEW r \in Requests, Active(r), NEW pc, Moves(r, pc)
    PROVE  LogInv'
<1>1. \A q \in Requests \ {r} : request'[q] = request[q]
  BY DEF Moves, Inv, HandlerTyped
<1> QED BY <1>1, DoneStays, LogAside DEF Inv

\* IsBlocked.
LEMMA AdmitKeeps == ASSUME Inv, NEW r \in Requests, Admit(r) PROVE Inv'
<1> DEFINE c == request[r].kind.client
<1>1. Active(r)
  BY DEF Admit, Active, At
<1>2. c \in Clients \cup {NoClient} /\ request[r].at \in Times
  BY <1>1, ActiveTyped DEF Inv
<1>3. PICK pc \in {"admitted", "answered"} : Moves(r, pc)
  BY DEF Admit
<1>4. HandlerTyped' /\ ScreenInv'
  <2>1. policy' = policy
    BY DEF Admit, elsewhere
  <2> QED BY <1>1, <1>3, <2>1, MoveKeeps DEF Inv, Stages
<1>5. LogInv'
  <2>1. UNCHANGED <<clock, logVars>>
    BY DEF Admit, elsewhere
  <2> QED BY <2>1, <1>1, <1>3, MovesAside
<1>6. LimiterInv'
  <2>1. UNCHANGED <<scans, lastScan, blocks>>
    BY DEF Admit
  <2>2. CASE entries' = entries
    BY <2>1, <2>2, LimiterKept DEF Inv, limiterVars
  <2>3. CASE entries' # entries
    <3>1. c \in Clients /\ entries' = [entries EXCEPT ![c] = Unblocked(@, request[r].at)]
      BY <2>3, <1>2 DEF Admit
    <3> QED BY <3>1, <2>1, <1>2, UnblockKeeps DEF Inv
  <2> QED BY <2>2, <2>3
<1> QED BY <1>4, <1>5, <1>6 DEF Inv

\* The checks of the proxy and of a deployment.
LEMMA ScreenKeeps == ASSUME Inv, NEW r \in Requests, Screen(r) PROVE Inv'
<1> DEFINE kind == request[r].kind
           p == policy[kind.host]
           scanned == ~EvaluateGlobal(r) /\ ShouldBlockPath(r)
<1>1. Active(r)
  BY DEF Screen, Active, At
<1>2. /\ kind.client \in Clients \cup {NoClient} /\ request[r].at \in Times
      /\ p # NoRoute => request[r].force \subseteq p
  BY <1>1, ActiveTyped DEF Inv, ScreenInv, ForceCurrent
<1>3. UNCHANGED <<clock, logVars, policy>>
  BY DEF Screen, elsewhere
<1>4. PICK pc \in {"answered", "routed", "forwarding"} :
          /\ Moves(r, pc)
          /\ pc = "routed" => kind.host = Dashboard /\ ~EvaluateGlobal(r)
          /\ pc = "forwarding" => /\ kind.host # Dashboard /\ ~EvaluateGlobal(r)
                                  /\ p # NoRoute /\ ~Refuses(r, p)
  BY DEF Screen
<1>5. pc = "forwarding" => PassedAll(r)
  BY <1>2, <1>4 DEF PassedAll, Applied, Refuses, EvaluateGlobal, EvaluateDeployment, AgentBlocked,
                    WAFBlocks, BasicAuthFails, TokenMissing
<1>6. HandlerTyped' /\ ScreenInv'
  BY <1>1, <1>3, <1>4, <1>5, MoveKeeps DEF Inv, Stages, EvaluateGlobal
<1>7. LogInv'
  BY <1>1, <1>3, <1>4, MovesAside
<1>8. LimiterInv'
  <2>1. RecordSuspicious(kind.client, request[r].at) \/ UNCHANGED limiterVars
    BY DEF Screen
  <2>2. CASE UNCHANGED limiterVars
    BY <2>2, LimiterKept DEF Inv
  <2>3. CASE RecordSuspicious(kind.client, request[r].at)
    BY <2>3, <1>2, SuspiciousKeeps DEF Inv
  <2> QED BY <2>1, <2>2, <2>3
<1> QED BY <1>6, <1>7, <1>8 DEF Inv

\* The checks of the dashboard, on three readings of its settings.
LEMMA DashboardKeeps ==
    ASSUME Inv, NEW r \in Requests, EvaluateDashboard(r) \/ ResolveMode(r) \/ EvaluateWAF(r)
    PROVE  Inv'
<1>1. Active(r) /\ UNCHANGED <<clock, logVars, policy>> /\ UNCHANGED limiterVars
  BY DEF EvaluateDashboard, ResolveMode, EvaluateWAF, Active, At, elsewhere
<1>2. request[r].kind.host = Dashboard /\ ~Fails(r, "global")
  BY DEF EvaluateDashboard, ResolveMode, EvaluateWAF, At, Inv, ScreenInv, PassedSoFar
<1>3. request[r].force \subseteq policy[Dashboard]
  BY <1>1, <1>2 DEF Inv, ScreenInv, ForceCurrent, HandlerTyped
<1>4. LimiterInv'
  BY <1>1, LimiterKept DEF Inv
<1>5. CASE EvaluateDashboard(r)
  <2>1. PICK pc \in {"answered", "filtered"} :
            /\ Moves(r, pc)
            /\ pc = "filtered" => /\ ~EvaluateDeployment(r, DashboardWAFConfig)
                                  /\ ~AgentBlocked(r)
    BY <1>5 DEF EvaluateDashboard
  <2>2. pc = "filtered" => ~Fails(r, "agent") /\ ("ip" \in request[r].force => ~Fails(r, "ip"))
    BY <2>1, <1>3 DEF EvaluateDeployment, AgentBlocked, DashboardWAFConfig
  <2>3. HandlerTyped' /\ ScreenInv'
    BY <2>1, <2>2, <1>1, <1>2, MoveKeeps DEF Inv, Stages
  <2> QED BY <2>1, <2>3, <1>1, <1>4, MovesAside DEF Inv
<1>6. CASE ResolveMode(r)
  <2>1. PICK pc \in {"inspected", "forwarding"} :
            Moves(r, pc) /\ (pc = "forwarding" => "mode" \notin policy[Dashboard])
    BY <1>6 DEF ResolveMode, DashboardModeIncludesWAF
  <2>2. ~Fails(r, "agent") /\ ("ip" \in request[r].force => ~Fails(r, "ip"))
    BY <1>6 DEF ResolveMode, At, Inv, ScreenInv, PassedSoFar
  <2>3. pc = "forwarding" => PassedAll(r)
    BY <2>1, <2>2, <1>2, <1>3 DEF PassedAll, Applied
  <2>4. HandlerTyped' /\ ScreenInv'
    BY <2>1, <2>2, <2>3, <1>1, <1>2, MoveKeeps DEF Inv, Stages
  <2> QED BY <2>1, <2>4, <1>1, <1>4, MovesAside DEF Inv
<1>7. CASE EvaluateWAF(r)
  <2>1. PICK pc \in {"answered", "forwarding"} :
            Moves(r, pc) /\ (pc = "forwarding" => ~WAFBlocks(r, DashboardWAFConfig))
    BY <1>7 DEF EvaluateWAF
  <2>2. ~Fails(r, "agent") /\ ("ip" \in request[r].force => ~Fails(r, "ip"))
    BY <1>7 DEF EvaluateWAF, At, Inv, ScreenInv, PassedSoFar
  <2>3. pc = "forwarding" => PassedAll(r)
    BY <2>1, <2>2, <1>2, <1>3 DEF PassedAll, Applied, WAFBlocks, DashboardWAFConfig
  <2>4. HandlerTyped' /\ ScreenInv'
    BY <2>1, <2>3, <1>1, <1>2, MoveKeeps DEF Inv, Stages
  <2> QED BY <2>1, <2>4, <1>1, <1>4, MovesAside DEF Inv
<1> QED BY <1>5, <1>6, <1>7

\* Log reads the clock.
LEMMA LogKeeps == ASSUME Inv, NEW r \in Requests, Log(r) PROVE Inv'
<1>1. Active(r) /\ Moves(r, "logging") /\ policy' = policy /\ UNCHANGED limiterVars
  BY DEF Log, Active, At
<1>2. HandlerTyped' /\ ScreenInv'
  BY <1>1, MoveKeeps DEF Inv, Stages
<1>3. LimiterInv'
  BY <1>1, LimiterKept DEF Inv
<1>4. LogInv'
  <2>1. UNCHANGED <<files, modified, logger, written>> /\ clock' = clock
        /\ stamp' = [stamp EXCEPT ![r] = clock]
    BY DEF Log, ReadClock
  <2>2. clock \in Times /\ clock <= clock /\ clock \in 0..MaxTime
    BY Numbers DEF Inv, LogInv, LogTyped
  <2>3. stamp' \in [Requests -> 0..MaxTime] /\ \A q \in Requests : stamp'[q] <= clock
    BY <2>1, <2>2 DEF Inv, LogInv, LogTyped, LogDated
  <2>4. \A q \in Requests \ {r} : request'[q] = request[q]
    BY <1>1 DEF Moves, Inv, HandlerTyped
  <2> QED BY <2>1, <2>2, <2>3, <2>4, <1>1, DoneStays, LogQuiet DEF Inv
<1> QED BY <1>2, <1>3, <1>4 DEF Inv

\* The request is served, whatever became of its line.
LEMMA ReturnKeeps ==
    ASSUME Inv, NEW r \in Requests, Return(r) \/ ReturnUnlogged(r) PROVE Inv'
<1>1. /\ request[r].pc = "logging" /\ Active(r) /\ request' = [request EXCEPT ![r] = Done]
      /\ policy' = policy /\ clock' = clock /\ UNCHANGED limiterVars
  BY DEF Return, ReturnUnlogged, Active, At
<1>2. \A q \in Requests : request'[q] = IF q = r THEN Done ELSE request[q]
  BY <1>1 DEF Inv, HandlerTyped
<1>3. HandlerTyped' /\ ScreenInv'
  <2>1. request' \in [Requests -> Request \cup {New, Done}]
    BY <1>1 DEF Inv, HandlerTyped
  <2> QED BY <2>1, <1>1, <1>2, OthersKeep DEF Inv, HandlerTyped
<1>4. LimiterInv'
  BY <1>1, LimiterKept DEF Inv
<1>5. request'[r].pc = "done" /\ \A q \in Requests : request[q].pc = "done" => request'[q].pc = "done"
  BY <1>2 DEF Done
<1>6. LogInv'
  <2> DEFINE k == HourOf(stamp[r])
  <2>0. k \in Hours /\ stamp[r] \in Nat /\ stamp[r] <= clock
    BY HourTyped DEF Inv, LogInv, LogTyped, LogDated
  <2>1. CASE WriteLine(r)
    <3>1. request[r].pc # "done"
      BY <1>1
    <3> QED BY <2>1, <3>1, <1>1, <1>5, WriteKeeps DEF Inv
  <2>2. CASE UNCHANGED logVars
    BY <2>2, <1>1, <1>5, LogAside
  <2>3. CASE LogFails(r)
    <3>1. CASE UNCHANGED <<files, modified>> /\ logger' = [logger EXCEPT !.state = "stuck"]
      <4>1. UNCHANGED <<stamp, written>>
        BY <2>3 DEF LogFails
      <4>2. LogTyped'
        BY <3>1, <4>1, <1>1 DEF Inv, LogInv, LogTyped
      <4>3. LogDated'
        BY <3>1, <4>1, <1>1 DEF Inv, LogInv, LogTyped, LogDated
      <4>4. LinesDated'
        <5>1. \A j \in Hours : files[j] # NoFile =>
                  files[j] \in Seq(Requests) /\ \A i \in 1..Len(files[j]) : files[j][i] \in Requests
          BY DEF Inv, LogInv, LogTyped
        <5> QED BY <5>1, <3>1, <4>1, <1>5 DEF Inv, LogInv, LinesDated
      <4>5. RecentKept'
        BY <3>1, <4>1, <1>1 DEF Inv, LogInv, RecentKept, OnFile
      <4> QED BY <4>2, <4>3, <4>4, <4>5 DEF LogInv
    <3>2. CASE /\ logger' = [key |-> k, state |-> "stuck"]
               /\ files' = RotateIfNeeded(k, stamp[r]) /\ modified' = Created(k)
      <4>1. Removes(RotateIfNeeded(k, stamp[r]), k, stamp[r])
        BY <2>0, RotateRemoves DEF Inv
      <4>2. logger' \in [key : {k}, state : {"open", "stuck"}]
        BY <3>2
      <4>3. UNCHANGED <<clock, stamp, written>>
        BY <2>3, <1>1 DEF LogFails
      <4> HIDE DEF k
      <4> QED BY <4>1, <4>2, <4>3, <3>2, <2>0, <1>5, RemovalKeeps DEF Inv
    <3> QED BY <2>3, <3>1, <3>2 DEF LogFails
  <2> QED BY <2>1, <2>2, <2>3 DEF Return, ReturnUnlogged, DropLine
<1> QED BY <1>3, <1>4, <1>6 DEF Inv

\* A request arrives.
LEMMA ArriveKeeps ==
    ASSUME Inv, NEW r \in Requests, NEW kind \in Kinds, Arrive(r, kind) PROVE Inv'
<1>1. UNCHANGED <<clock, logVars>> /\ UNCHANGED limiterVars /\ request[r].pc = "new"
  BY DEF Arrive, elsewhere, At
<1>2. \A q \in Requests \ {r} : request'[q] = request[q]
  BY DEF Arrive, Inv, HandlerTyped
<1>3. \A q \in Requests : request[q].pc = "done" => request'[q].pc = "done"
  BY <1>1, <1>2
<1>4. LogInv'
  BY <1>1, <1>3, LogAside
<1>5. LimiterInv'
  BY <1>1, LimiterKept DEF Inv
<1>6. HandlerTyped' /\ ScreenInv'
  BY ArriveScreens DEF Inv, LogInv, LogTyped
<1> QED BY <1>4, <1>5, <1>6 DEF Inv

\* A route or the settings change.
LEMMA ChangeKeeps ==
    ASSUME Inv, NEW h \in Hosts, NEW p \in Policies \cup {NoRoute}, ChangePolicy(h, p) PROVE Inv'
<1>1. UNCHANGED <<clock, logVars>> /\ UNCHANGED limiterVars
  BY DEF ChangePolicy
<1>2. \A q \in Requests : request[q].pc = "done" => request'[q].pc = "done"
  BY DEF ChangePolicy, Active, At
<1>3. LogInv'
  BY <1>1, <1>2, LogAside
<1>4. LimiterInv'
  BY <1>1, LimiterKept DEF Inv
<1>5. HandlerTyped' /\ ScreenInv'
  BY ChangeScreens DEF Inv
<1> QED BY <1>3, <1>4, <1>5 DEF Inv

\* The proxy restarts.
LEMMA RestartKeeps == ASSUME Inv, RestartProxy PROVE Inv'
<1>1. \A q \in Requests : request'[q] = IF Active(q) THEN Done ELSE request[q]
  BY DEF RestartProxy
<1>2. HandlerTyped' /\ ScreenInv'
  <2>1. request' \in [Requests -> Request \cup {New, Done}]
    BY <1>1 DEF RestartProxy, Inv, HandlerTyped
  <2>2. policy' \in [Hosts -> Policies \cup {NoRoute}] /\ policy'[Dashboard] # NoRoute
    BY RequestAssumption DEF RestartProxy, Inv, HandlerTyped
  <2>3. \A q \in Requests : request'[q] = Done \/ (request'[q] = request[q] /\ ~Active(q))
    BY <1>1
  <2> QED BY <2>1, <2>2, <2>3, OthersKeep DEF Inv
<1>3. LimiterInv'
  BY ForgetKeeps DEF RestartProxy, Inv
<1>4. LogInv'
  <2> DEFINE k == HourOf(clock)
  <2>0. clock \in 0..MaxTime
    BY Numbers DEF Inv, LogInv, LogTyped
  <2>1. clock \in Nat /\ clock <= clock /\ k \in Hours
    BY <2>0, HourTyped
  <2>2. Removes(Rotated(k, clock), k, clock)
    BY <2>1, RotatedRemoves DEF Inv, LogInv
  <2>3. /\ logger' = [key |-> k, state |-> "open"] /\ files' = Rotated(k, clock)
        /\ modified' = Created(k) /\ UNCHANGED <<clock, stamp, written>>
    BY DEF RestartProxy, OpenLog
  <2>4. logger' \in [key : {k}, state : {"open", "stuck"}]
    BY <2>3
  <2>5. \A q \in Requests : request[q].pc = "done" => request'[q].pc = "done"
    BY <1>1 DEF Active, At
  <2> HIDE DEF k
  <2> QED BY <2>1, <2>2, <2>3, <2>4, <2>5, RemovalKeeps DEF Inv
<1> QED BY <1>2, <1>3, <1>4 DEF Inv

\* Time passes.
LEMMA TickKeeps == ASSUME Inv, Tick PROVE Inv'
<1>1. UNCHANGED <<files, modified, logger, stamp, written>> /\ UNCHANGED limiterVars
      /\ UNCHANGED <<request, policy>> /\ clock' = clock + 1 /\ clock < MaxTime
  BY DEF Tick, logVars
<1>2. clock \in Nat /\ clock' \in Times /\ clock <= clock'
  BY <1>1, Numbers DEF Inv, LogInv, LogTyped
<1>3. stamp' \in [Requests -> 0..MaxTime] /\ \A r \in Requests : stamp'[r] <= clock'
  <2>1. ASSUME NEW r \in Requests PROVE stamp[r] <= clock'
    <3>1. stamp[r] \in 0..MaxTime /\ stamp[r] <= clock
      BY DEF Inv, LogInv, LogTyped, LogDated
    <3> QED BY <3>1, <1>1, <1>2
  <2> QED BY <2>1, <1>1 DEF Inv, LogInv, LogTyped
<1>4. LogInv'
  BY <1>1, <1>2, <1>3, LogQuiet DEF Inv
<1>5. LimiterInv'
  BY <1>1, LimiterKept DEF Inv
<1>6. HandlerTyped' /\ ScreenInv'
  BY <1>1 DEF Inv, HandlerTyped, ScreenInv, ForceCurrent, PassedSoFar, Screened, Active, At, Fails
<1> QED BY <1>4, <1>5, <1>6 DEF Inv

\* A step that changes none of this: the API reads, or nothing happens.
LEMMA QuietKeeps ==
    ASSUME Inv, UNCHANGED <<clock, logVars>>, UNCHANGED limiterVars, UNCHANGED <<request, policy>>
    PROVE  Inv'
<1>1. LogInv'
  BY LogAside
<1>2. LimiterInv'
  BY LimiterKept DEF Inv
<1>3. HandlerTyped' /\ ScreenInv'
  BY DEF Inv, HandlerTyped, ScreenInv, ForceCurrent, PassedSoFar, Screened, Active, At, Fails
<1> QED BY <1>1, <1>2, <1>3 DEF Inv

\* Every step keeps it.
LEMMA NextKeeps == Inv /\ [Next]_vars => Inv'
<1> SUFFICES ASSUME Inv, [Next]_vars PROVE Inv'
  OBVIOUS
<1>1. ASSUME NEW r \in Requests, Step(r) \/ ReturnUnlogged(r) PROVE Inv'
  BY <1>1, AdmitKeeps, ScreenKeeps, DashboardKeeps, LogKeeps, ReturnKeeps DEF Step
<1>2. ASSUME NEW r \in Requests, NEW kind \in Kinds, Arrive(r, kind) PROVE Inv'
  BY <1>2, ArriveKeeps
<1>3. ASSUME NEW h \in Hosts, NEW p \in Policies \cup {NoRoute}, ChangePolicy(h, p) PROVE Inv'
  BY <1>3, ChangeKeeps
<1>4. CASE RestartProxy
  BY <1>4, RestartKeeps
<1>5. CASE Tick
  BY <1>5, TickKeeps
<1>6. CASE Read
  <2>1. UNCHANGED <<clock, logVars>> /\ UNCHANGED limiterVars /\ UNCHANGED <<request, policy>>
    BY <1>6 DEF Read, ReaderStep, BeginReading, ListFiles, ReadFile, HasMore
  <2> QED BY <2>1, QuietKeeps
<1>7. CASE UNCHANGED vars
  <2>1. UNCHANGED <<clock, logVars>> /\ UNCHANGED limiterVars /\ UNCHANGED <<request, policy>>
    BY <1>7 DEF vars, limiterVars
  <2> QED BY <2>1, QuietKeeps
<1> QED BY <1>1, <1>2, <1>3, <1>4, <1>5, <1>6, <1>7 DEF Next

-----------------------------------------------------------------------------
(* The theorems about the limiter, the checks and the log.                 *)

\* It holds in every state.
LEMMA Invariant == Spec => []Inv
BY InitInv, NextKeeps, PTL DEF Spec

\* Every block of a client (RecordSuspicious) was earned by Threshold
\* suspicious requests of that client that count for no other block, in
\* whichever order goroutines record them and whatever expires in between.
THEOREM BlocksEarnedHolds == Spec => []BlocksEarned
<1>1. Inv => BlocksEarned
  BY DEF Inv, LimiterInv
<1> QED BY <1>1, Invariant, PTL

\* No order of recording prolongs a block past BlockFor after the arrival of
\* the client's last suspicious request (RecordSuspicious, IsBlocked).
THEOREM BlocksEndHolds == Spec => []BlocksEnd
<1>1. Inv => BlocksEnd
  BY DEF Inv, LimiterInv
<1> QED BY <1>1, Invariant, PTL

\* A request that is forwarded fails no check that its host has asked for
\* ever since it arrived, while routes and settings change under it (proxy).
THEOREM ScreenedHolds == Spec => []Screened
<1>1. Inv => Screened
  BY DEF Inv, ScreenInv
<1> QED BY <1>1, Invariant, PTL

\* A line stays on file for the time of the retention, although files are
\* removed by goroutines with an old time (Log, rotateIfNeeded, cleanup).
THEOREM RecentKeptHolds == Spec => []RecentKept
<1>1. Inv => RecentKept
  BY DEF Inv, LogInv
<1> QED BY <1>1, Invariant, PTL

-----------------------------------------------------------------------------
(* The reader of the log: what it is owed.                                 *)

\* Line i of the file of hour k is owed to the reader rd.
Owed(rd, k, i) == files[k] # NoFile /\ i \in 1..Len(files[k]) /\ files[k][i] \in rd.owed \ rd.seen

\* No such line was passed by on the way to the place c.
Ahead(rd, c) ==
    \A k \in Hours : \A i \in Nat : Owed(rd, k, i) =>
        k < c.file \/ (k = c.file /\ c.offset <= Len(files[k]) - i)

\* None is in a file that the page does not know of.
Listed(rd) == \A k \in Hours : \A i \in Nat : Owed(rd, k, i) => k \in rd.list

ReaderOK(rd) ==
    /\ rd \in Reader
    /\ \A r \in rd.owed : r \in Matching /\ request[r].pc = "done"
    /\ rd.pc = "list" /\ rd.paged => Ahead(rd, rd.cursor)
    /\ rd.pc = "read" => rd.got < PageSize /\ Listed(rd) /\ Ahead(rd, rd.at)
    /\ rd.pc = "more" => rd.paged /\ Listed(rd) /\ Ahead(rd, rd.at) /\ Ahead(rd, rd.cursor)
    /\ rd.pc = "done" => \A r \in rd.owed : OnFile(r) => r \in rd.seen

ReaderInv == ReaderOK(reader)

\* A set of naturals has a least element.
LEMMA Least ==
    ASSUME NEW T \in SUBSET Nat, T # {}
    PROVE  \E x \in T : \A y \in T : x <= y
<1>0. \E R : IsWellFoundedOn(R, Nat) /\ \A x, y \in Nat : y < x => <<y, x>> \in R
  <2> DEFINE R == OpToRel(<, Nat)
  <2>1. IsWellFoundedOn(R, Nat)
    BY NatLessThanWellFounded
  <2>2. \A x, y \in Nat : y < x => <<y, x>> \in R
    BY DEF OpToRel
  <2> QED BY <2>1, <2>2, Zenon
<1>1. PICK R : IsWellFoundedOn(R, Nat) /\ \A x, y \in Nat : y < x => <<y, x>> \in R
  BY <1>0
<1>2. PICK x \in T : \A y \in T : ~(<<y, x>> \in R)
  BY <1>1, WFMin
<1>3. \A y \in T : ~(y < x)
  BY <1>1, <1>2
<1> QED BY <1>2, <1>3

\* The newest of some files is one of them.
LEMMA NewestOf ==
    ASSUME NEW T \in SUBSET Hours, T # {}
    PROVE  Newest(T) \in T /\ \A y \in T : y <= Newest(T)
<1> DEFINE D == {MaxTime - x : x \in T}
<1>0. MaxTime \in Nat /\ \A x \in T : x \in Nat /\ x <= MaxTime
  BY Numbers
<1>1. D \in SUBSET Nat /\ D # {}
  <2>1. \A x \in T : MaxTime - x \in Nat
    BY <1>0
  <2> QED BY <2>1
<1>2. PICK d \in D : \A y \in D : d <= y
  <2> HIDE DEF D
  <2> QED BY <1>1, Least
<1>3. PICK x \in T : d = MaxTime - x
  OBVIOUS
<1>4. \A y \in T : y <= x
  BY <1>0, <1>2, <1>3
<1> HIDE DEF D
<1> QED BY <1>4 DEF Newest

\* A page that finds enough lines ends after one of them: a set of
\* naturals has a member with as many members up to it, itself included,
\* as one likes.
LEMMA RankExists ==
    ASSUME NEW S \in SUBSET Nat, IsFiniteSet(S), NEW n \in Nat, n >= 1, n <= Cardinality(S)
    PROVE  \E c \in S : Cardinality({h \in S : h <= c}) = n
<1> DEFINE UpTo(c) == {h \in S : h <= c}
           Ranks == {m \in Nat : m >= 1 /\ m <= Cardinality(S) /\ \A c \in S : Cardinality(UpTo(c)) # m}
<1>0. Cardinality(S) \in Nat
  BY FS_CardinalityType
<1>1. ASSUME NEW c \in S PROVE IsFiniteSet(UpTo(c)) /\ UpTo(c) \in SUBSET S
  BY FS_Subset
<1> SUFFICES ASSUME n \in Ranks PROVE FALSE
  OBVIOUS
<1>2. PICK m \in Ranks : \A y \in Ranks : m <= y
  <2>1. Ranks \in SUBSET Nat /\ Ranks # {}
    OBVIOUS
  <2> HIDE DEF Ranks
  <2> QED BY <2>1, Least
<1>3. m \in Nat /\ m >= 1 /\ m <= Cardinality(S) /\ \A c \in S : Cardinality(UpTo(c)) # m
  OBVIOUS
<1>4. \E x \in S : Cardinality(UpTo(x)) = m
  <2>1. CASE m = 1
    <3>1. S # {}
      <4>1. Cardinality({}) = 0
        BY FS_EmptySet
      <4> QED BY <4>1, <1>0, <1>3
    <3>2. PICK x \in S : \A y \in S : x <= y
      BY <3>1, Least
    <3>3. UpTo(x) = {x}
      <4>1. \A y \in S : y \in Nat /\ x \in Nat /\ x <= y
        BY <3>2
      <4>2. \A y \in S : y <= x => y = x
        BY <4>1
      <4>3. x \in UpTo(x)
        BY <4>1
      <4> QED BY <4>2, <4>3
    <3>4. Cardinality({x}) = 1
      BY FS_Singleton
    <3> QED BY <3>2, <3>3, <3>4, <2>1
  <2>2. CASE m # 1
    <3>1. m - 1 \in Nat /\ m - 1 >= 1 /\ m - 1 <= Cardinality(S) /\ m - 1 < Cardinality(S) /\ ~(m <= m - 1)
      BY <2>2, <1>0, <1>3
    <3>2. PICK c \in S : Cardinality(UpTo(c)) = m - 1
      BY <3>1, <1>2
    <3> DEFINE above == {h \in S : c < h}
    <3>3. above # {}
      <4> SUFFICES ASSUME above = {} PROVE FALSE
        OBVIOUS
      <4>1. UpTo(c) = S
        <5>1. \A h \in S : h \in Nat /\ c \in Nat /\ ~(c < h)
          OBVIOUS
        <5>2. \A h \in S : h <= c
          BY <5>1
        <5> QED BY <5>2
      <4> QED BY <4>1, <3>1, <3>2
    <3>4. above \in SUBSET Nat
      OBVIOUS
    <3>5. PICK x \in above : \A y \in above : x <= y
      <4> HIDE DEF above
      <4> QED BY <3>3, <3>4, Least
    <3>6. x \in S /\ c < x /\ x \in Nat /\ c \in Nat
      OBVIOUS
    <3>7. UpTo(x) = UpTo(c) \cup {x}
      <4>1. \A h \in S : h \in Nat /\ (c < h => x <= h)
        BY <3>5
      <4>2. \A h \in S : h <= x <=> h <= c \/ h = x
        BY <3>6, <4>1
      <4> HIDE DEF above
      <4> QED BY <3>6, <4>2
    <3>8. x \notin UpTo(c)
      BY <3>6
    <3>9. Cardinality(UpTo(c) \cup {x}) = Cardinality(UpTo(c)) + 1
      <4>1. IsFiniteSet(UpTo(c))
        BY <1>1
      <4> HIDE DEF UpTo
      <4> QED BY <4>1, <3>8, FS_AddElement
    <3>10. Cardinality(UpTo(x)) = m
      <4> HIDE DEF UpTo
      <4> QED BY <3>1, <3>2, <3>7, <3>9, <1>3
    <3> QED BY <3>6, <3>10
  <2> QED BY <2>1, <2>2
<1> QED BY <1>3, <1>4

-----------------------------------------------------------------------------
(* Its steps.                                                              *)

\* A step of the reader changes neither the files nor the requests.
LEMMA ReadsOK ==
    ASSUME files' = files, request' = request, ReaderOK(reader') PROVE ReaderInv'
BY DEF ReaderInv, ReaderOK, Ahead, Listed, Owed, OnFile

\* The lines of a file.
LEMMA LinesTyped ==
    ASSUME LogTyped, NEW k \in Hours, files[k] # NoFile
    PROVE  /\ files[k] \in Seq(Requests) /\ Len(files[k]) \in Nat
           /\ \A i \in 1..Len(files[k]) : files[k][i] \in Requests
<1>1. files[k] \in Seq(Requests)
  BY DEF LogTyped
<1> QED BY <1>1

\* The lines that a read of the file may take.
LEMMA HitsAre ==
    ASSUME LogTyped, reader \in Reader, files[reader.at.file] # NoFile
    PROVE  LET f == files[reader.at.file]
           IN  /\ Hits \in SUBSET Nat /\ IsFiniteSet(Hits) /\ Cardinality(Hits) \in Nat
               /\ \A c \in Hits : LineAt(c) \in Requests /\ c >= reader.at.offset
               /\ \A i \in 1..Len(f) :
                     f[i] \in Matching /\ reader.at.offset <= Len(f) - i =>
                        Len(f) - i \in Hits /\ LineAt(Len(f) - i) = f[i]
<1> DEFINE f == files[reader.at.file]
           n == Len(f)
           o == reader.at.offset
<1>1. reader.at.file \in Hours /\ o \in Nat
  BY DEF Reader, Cursor
<1>2. f \in Seq(Requests) /\ n \in Nat /\ \A i \in 1..n : f[i] \in Requests
  BY <1>1, LinesTyped
<1>3. Hits = {c \in o..(n - 1) : f[n - c] \in Matching}
  BY DEF Hits
<1>4. \A c : LineAt(c) = f[n - c]
  BY DEF LineAt
<1> HIDE DEF f, n, o
<1>5. IsFiniteSet(o..(n - 1))
  BY <1>1, <1>2, FS_Interval
<1>6. IsFiniteSet(Hits)
  <2>1. Hits \subseteq o..(n - 1)
    BY <1>3
  <2> QED BY <1>5, <2>1, FS_Subset
<1>7. Cardinality(Hits) \in Nat
  BY <1>6, FS_CardinalityType
<1>8. ASSUME NEW c \in Hits PROVE LineAt(c) \in Requests /\ c >= o /\ c \in Nat
  <2>1. c \in Nat /\ c >= o /\ c <= n - 1
    BY <1>1, <1>2, <1>3
  <2>2. n - c \in 1..n
    BY <1>2, <2>1
  <2> QED BY <1>2, <1>4, <2>1, <2>2
<1>9. ASSUME NEW i \in 1..n, f[i] \in Matching, o <= n - i
      PROVE  n - i \in Hits /\ LineAt(n - i) = f[i]
  <2>1. n - (n - i) = i /\ n - i \in o..(n - 1)
    BY <1>1, <1>2, <1>9
  <2> QED BY <1>3, <1>4, <1>9, <2>1
<1>10. Hits \in SUBSET Nat
  BY <1>8
<1> QED BY <1>6, <1>7, <1>8, <1>9, <1>10 DEF f, n, o

\* The reader has done with the file that it is at.
LEMMA NextFileOK ==
    ASSUME LogTyped, NEW rd \in Reader, rd.pc \in {"read", "more"},
           \A r \in rd.owed : r \in Matching /\ request[r].pc = "done",
           rd.pc = "read" => rd.got < PageSize,
           rd.pc = "more" => rd.paged /\ Ahead(rd, rd.cursor),
           Listed(rd),
           \A k \in Hours : \A i \in Nat : Owed(rd, k, i) => k < rd.at.file
    PROVE  ReaderOK(NextFile(rd))
<1> DEFINE rest == {k \in rd.list : k < rd.at.file}
           nx == NextFile(rd)
<1>0. rest \in SUBSET Hours
  BY DEF Reader
<1>1. \A k \in Hours : \A i \in Nat : Owed(rd, k, i) => k \in rest
  BY DEF Listed
<1> HIDE DEF rest
<1>2. CASE rest = {}
  <2>1. nx = [rd EXCEPT !.pc = "done"]
    BY <1>2 DEF NextFile, rest
  <2>2. nx \in Reader /\ nx.pc = "done" /\ nx.owed = rd.owed /\ nx.seen = rd.seen
    BY <2>1 DEF Reader
  <2> HIDE DEF nx
  <2>3. ASSUME NEW r \in rd.owed, OnFile(r) PROVE r \in rd.seen
    <3>1. PICK k \in Hours : files[k] # NoFile /\ \E i \in 1..Len(files[k]) : files[k][i] = r
      BY <2>3 DEF OnFile
    <3>2. PICK i \in 1..Len(files[k]) : files[k][i] = r
      BY <3>1
    <3>3. i \in Nat
      OBVIOUS
    <3>4. ~Owed(rd, k, i)
      BY <1>1, <1>2, <3>3
    <3> QED BY <2>3, <3>1, <3>2, <3>4 DEF Owed
  <2> QED BY <2>2, <2>3 DEF ReaderOK, nx
<1>3. CASE rest # {}
  <2> DEFINE new == Newest(rest)
  <2>1. new \in rest /\ new \in Hours /\ \A y \in rest : y <= new
    BY <1>0, <1>3, NewestOf
  <2>2. nx = [rd EXCEPT !.at = [file |-> new, offset |-> 0]]
    BY <1>3 DEF NextFile, rest
  <2> HIDE DEF new
  <2>3. [file |-> new, offset |-> 0] \in Cursor
    BY <2>1 DEF Cursor
  <2>4. /\ nx \in Reader /\ nx.pc = rd.pc /\ nx.owed = rd.owed /\ nx.seen = rd.seen /\ nx.got = rd.got
        /\ nx.paged = rd.paged /\ nx.list = rd.list /\ nx.cursor = rd.cursor
        /\ nx.at = [file |-> new, offset |-> 0]
    BY <2>2, <2>3 DEF Reader
  <2> HIDE DEF nx
  <2>5. \A k, i : Owed(nx, k, i) <=> Owed(rd, k, i)
    BY <2>4 DEF Owed
  <2>6. Listed(nx)
    BY <2>4, <2>5 DEF Listed
  <2>7. Ahead(nx, nx.at)
    <3> SUFFICES ASSUME NEW k \in Hours, NEW i \in Nat, Owed(rd, k, i)
                 PROVE  k < new \/ (k = new /\ 0 <= Len(files[k]) - i)
      BY <2>4, <2>5 DEF Ahead
    <3>1. k <= new /\ k \in Nat /\ new \in Nat
      BY <1>1, <2>1, Numbers
    <3>2. Len(files[k]) \in Nat /\ i <= Len(files[k])
      <4>1. files[k] # NoFile /\ i \in 1..Len(files[k])
        BY DEF Owed
      <4> QED BY <4>1, LinesTyped
    <3> QED BY <3>1, <3>2
  <2>8. rd.pc = "more" => nx.paged /\ Ahead(nx, nx.cursor)
    BY <2>4, <2>5 DEF Ahead
  <2> QED BY <2>4, <2>6, <2>7, <2>8 DEF ReaderOK, nx
<1> QED BY <1>2, <1>3

\* A reader begins: what it is owed is on file, and so of requests that
\* are done.
LEMMA BeginKeeps == ASSUME Inv, BeginReading PROVE ReaderOK(reader')
<1> DEFINE owed == {r \in Matching : OnFile(r)}
<1>1. reader' = [NotReading EXCEPT !.pc = "list", !.owed = owed]
  BY DEF BeginReading
<1>2. \A r \in owed : r \in Matching /\ request[r].pc = "done"
  BY DEF OnFile, Inv, LogInv, LinesDated
<1>3. Start \in Cursor
  BY Numbers DEF Start, Cursor
<1>4. owed \in SUBSET Requests
  BY LogAssumption
<1> HIDE DEF owed
<1>5. reader' \in Reader /\ reader'.pc = "list" /\ ~reader'.paged /\ reader'.owed = owed
  BY <1>1, <1>3, <1>4 DEF NotReading, Reader
<1> QED BY <1>2, <1>5 DEF ReaderOK

\* A page lists the directory: whatever is owed is in a file of the list,
\* and behind the cursor.
LEMMA ListKeeps == ASSUME Inv, ReaderInv, ListFiles PROVE ReaderOK(reader')
<1> DEFINE list == {k \in Hours : files[k] # NoFile}
           start == IF reader.paged THEN reader.cursor ELSE [file |-> Newest(list), offset |-> 0]
<1>0. reader \in Reader /\ reader.pc = "list" /\ \A r \in reader.owed : r \in Matching /\ request[r].pc = "done"
  BY DEF ReaderInv, ReaderOK, ListFiles
<1>1. CASE reader' = [reader EXCEPT !.pc = "gone"]
  <2>1. reader' \in Reader /\ reader'.pc = "gone" /\ reader'.owed = reader.owed
    BY <1>0, <1>1 DEF Reader
  <2> QED BY <1>0, <2>1 DEF ReaderOK
<1>2. CASE reader' = [reader EXCEPT !.pc = "read", !.list = list, !.got = 0, !.at = start]
  <2>1. Newest(list) \in Hours /\ \A y \in list : y <= Newest(list)
    <3>1. logger.key \in list
      BY DEF Inv, LogInv, LogTyped, LogDated
    <3>2. list \in SUBSET Hours /\ list # {}
      BY <3>1
    <3> HIDE DEF list
    <3> QED BY <3>2, NewestOf
  <2>2. start \in Cursor
    BY <1>0, <2>1 DEF Reader, Cursor
  <2>3. list \in SUBSET Hours
    OBVIOUS
  <2> HIDE DEF list, start
  <2>4. /\ reader' \in Reader /\ reader'.pc = "read" /\ reader'.owed = reader.owed
        /\ reader'.seen = reader.seen /\ reader'.list = list /\ reader'.at = start /\ reader'.got = 0
    BY <1>0, <1>2, <2>2, <2>3 DEF Reader
  <2>5. \A k, i : Owed(reader', k, i) <=> Owed(reader, k, i)
    BY <2>4 DEF Owed
  <2>6. Listed(reader')
    BY <2>4 DEF Listed, Owed, list
  <2>7. Ahead(reader', start)
    <3>1. CASE reader.paged
      <4>1. Ahead(reader, reader.cursor) /\ start = reader.cursor
        BY <1>0, <3>1 DEF ReaderInv, ReaderOK, start
      <4> QED BY <2>5, <4>1 DEF Ahead
    <3>2. CASE ~reader.paged
      <4> SUFFICES ASSUME NEW k \in Hours, NEW i \in Nat, Owed(reader', k, i)
                   PROVE  k < start.file \/ (k = start.file /\ start.offset <= Len(files[k]) - i)
        BY DEF Ahead
      <4>1. files[k] # NoFile /\ i \in 1..Len(files[k]) /\ k \in list
        BY DEF Owed, list
      <4>2. Len(files[k]) \in Nat
        BY <4>1, LinesTyped DEF Inv, LogInv
      <4>3. k <= Newest(list) /\ k \in Nat /\ Newest(list) \in Nat
        BY <2>1, <4>1, Numbers
      <4>4. start.file = Newest(list) /\ start.offset = 0
        BY <3>2 DEF start
      <4> QED BY <4>1, <4>2, <4>3, <4>4
    <3> QED BY <3>1, <3>2
  <2>8. 0 < PageSize
    BY LogAssumption
  <2> QED BY <1>0, <2>4, <2>6, <2>7, <2>8 DEF ReaderOK
<1> QED BY <1>1, <1>2 DEF ListFiles

\* A file was removed between the listing and a read of it.
LEMMA FailedKeeps ==
    ASSUME ReaderInv, reader' = [reader EXCEPT !.pc = "failed"] PROVE ReaderOK(reader')
<1>0. reader \in Reader /\ \A r \in reader.owed : r \in Matching /\ request[r].pc = "done"
  BY DEF ReaderInv, ReaderOK
<1>1. reader' \in Reader /\ reader'.pc = "failed" /\ reader'.owed = reader.owed
  BY <1>0 DEF Reader
<1> QED BY <1>0, <1>1 DEF ReaderOK

\* A page reads a file to its beginning, or until the page is full.
LEMMA ReadKeeps == ASSUME Inv, ReaderInv, ReadFile PROVE ReaderOK(reader')
<1> DEFINE f == files[reader.at.file]
           n == Len(f)
           room == PageSize - reader.got
           last == CHOOSE c \in Hits : Cardinality({h \in Hits : h <= c}) = room
           end == [file |-> reader.at.file, offset |-> last + 1]
           all == {LineAt(c) : c \in Hits}
           some == {LineAt(c) : c \in {h \in Hits : h <= last}}
<1>0. /\ reader \in Reader /\ reader.pc = "read" /\ Listed(reader) /\ Ahead(reader, reader.at)
      /\ \A r \in reader.owed : r \in Matching /\ request[r].pc = "done"
      /\ reader.got < PageSize
  BY DEF ReaderInv, ReaderOK, ReadFile
<1>1. /\ reader.at.file \in Hours /\ reader.at.offset \in Nat /\ reader.got \in Nat
      /\ PageSize \in Nat /\ reader.seen \in SUBSET Requests
  BY <1>0, LogAssumption DEF Reader, Cursor
<1>2. CASE f = NoFile
  BY <1>2, FailedKeeps DEF ReadFile
<1>3. ASSUME f # NoFile
      PROVE  /\ n \in Nat /\ Hits \in SUBSET Nat /\ IsFiniteSet(Hits) /\ Cardinality(Hits) \in Nat
             /\ \A c \in Hits : LineAt(c) \in Requests /\ c >= reader.at.offset
             /\ \A i \in 1..n : f[i] \in Matching /\ reader.at.offset <= n - i =>
                    n - i \in Hits /\ LineAt(n - i) = f[i]
  <2>1. LogTyped
    BY DEF Inv, LogInv
  <2> QED BY <1>0, <1>1, <1>3, <2>1, HitsAre, LinesTyped
\* An owed line of the file is among the hits.
<1>4. ASSUME f # NoFile, NEW i \in Nat, Owed(reader, reader.at.file, i)
      PROVE  /\ i \in 1..n /\ n - i \in Hits /\ LineAt(n - i) = f[i]
             /\ f[i] \in reader.owed \ reader.seen
  <2>1. i \in 1..n /\ f[i] \in reader.owed \ reader.seen
    BY <1>4 DEF Owed
  <2>2. reader.at.file \in Nat
    BY <1>1, Numbers
  <2>3. reader.at.offset <= n - i
    <3>1. reader.at.file < reader.at.file \/ reader.at.offset <= Len(files[reader.at.file]) - i
      BY <1>0, <1>1, <1>4 DEF Ahead
    <3> QED BY <2>2, <3>1
  <2> QED BY <1>0, <1>3, <1>4, <2>1, <2>3
<1>5. ASSUME NEW k \in Hours, NEW i \in Nat, Owed(reader, k, i), k # reader.at.file
      PROVE  k < reader.at.file
  BY <1>0, <1>5 DEF Ahead
<1>6. CASE f # NoFile /\ Cardinality(Hits) < room
  <2> DEFINE rd == [reader EXCEPT !.got = reader.got + Cardinality(Hits), !.seen = reader.seen \cup all]
  <2>1. reader' = NextFile(rd)
    BY <1>6 DEF ReadFile
  <2>2. all \in SUBSET Requests /\ Cardinality(Hits) \in Nat
    BY <1>3, <1>6
  <2>3. reader.got + Cardinality(Hits) \in Nat /\ reader.got + Cardinality(Hits) < PageSize
    BY <1>1, <1>6, <2>2
  <2> HIDE DEF all
  <2>4. /\ rd \in Reader /\ rd.pc = "read" /\ rd.owed = reader.owed /\ rd.seen = reader.seen \cup all
        /\ rd.got < PageSize /\ rd.at = reader.at /\ rd.list = reader.list
    BY <1>0, <1>1, <2>2, <2>3 DEF Reader
  <2> HIDE DEF rd
  <2>5. \A k, i : Owed(rd, k, i) => Owed(reader, k, i) /\ files[k][i] \notin all
    BY <2>4 DEF Owed
  <2>6. Listed(rd)
    BY <1>0, <2>4, <2>5 DEF Listed
  <2>7. ASSUME NEW k \in Hours, NEW i \in Nat, Owed(rd, k, i) PROVE k < rd.at.file
    <3>1. Owed(reader, k, i) /\ files[k][i] \notin all
      BY <2>5, <2>7
    <3>2. CASE k = reader.at.file
      <4>1. n - i \in Hits /\ LineAt(n - i) = f[i]
        BY <1>4, <1>6, <3>1, <3>2
      <4>2. f[i] \in all
        BY <4>1 DEF all
      <4> QED BY <3>1, <3>2, <4>2
    <3>3. CASE k # reader.at.file
      BY <1>5, <2>4, <3>1, <3>3
    <3> QED BY <3>2, <3>3
  <2>8. LogTyped
    BY DEF Inv, LogInv
  <2> QED BY <1>0, <2>1, <2>4, <2>6, <2>7, <2>8, NextFileOK
<1>7. CASE f # NoFile /\ ~(Cardinality(Hits) < room)
  <2>1. reader' = [reader EXCEPT !.pc = "more", !.cursor = end, !.at = end, !.paged = TRUE,
                                 !.seen = reader.seen \cup some]
    BY <1>7 DEF ReadFile
  <2>2. last \in Hits
    <3>1. room \in Nat /\ room >= 1 /\ room <= Cardinality(Hits)
      BY <1>0, <1>1, <1>3, <1>7
    <3>2. \E c \in Hits : Cardinality({h \in Hits : h <= c}) = room
      <4> HIDE DEF room
      <4> QED BY <1>3, <1>7, <3>1, RankExists
    <3> QED BY <3>2
  <2> HIDE DEF last
  <2>3. last \in Nat /\ last >= reader.at.offset
    BY <1>3, <1>7, <2>2
  <2>4. some \in SUBSET Requests /\ end \in Cursor
    BY <1>1, <1>3, <1>7, <2>3 DEF Cursor
  <2>5. end.file = reader.at.file /\ end.offset = last + 1
    OBVIOUS
  <2> HIDE DEF some, end
  <2>6. /\ reader' \in Reader /\ reader'.pc = "more" /\ reader'.owed = reader.owed
        /\ reader'.seen = reader.seen \cup some /\ reader'.list = reader.list
        /\ reader'.at = end /\ reader'.cursor = end /\ reader'.paged
    BY <1>0, <1>1, <2>1, <2>4 DEF Reader
  <2>7. \A k, i : Owed(reader', k, i) => Owed(reader, k, i) /\ files[k][i] \notin some
    BY <2>6 DEF Owed
  <2>8. Listed(reader')
    BY <1>0, <2>6, <2>7 DEF Listed
  <2>9. Ahead(reader', end)
    <3> SUFFICES ASSUME NEW k \in Hours, NEW i \in Nat, Owed(reader', k, i)
                 PROVE  k < end.file \/ (k = end.file /\ end.offset <= Len(files[k]) - i)
      BY DEF Ahead
    <3>1. Owed(reader, k, i) /\ files[k][i] \notin some
      BY <2>7
    <3>2. CASE k = reader.at.file
      <4>1. i \in 1..n /\ n - i \in Hits /\ LineAt(n - i) = f[i]
        BY <1>4, <1>7, <3>1, <3>2
      <4>2. ~(n - i <= last)
        <5> SUFFICES ASSUME n - i <= last PROVE FALSE
          OBVIOUS
        <5>1. f[i] \in some
          BY <4>1 DEF some
        <5> QED BY <3>1, <3>2, <5>1
      <4>3. last + 1 <= n - i
        BY <1>3, <1>7, <2>3, <4>1, <4>2
      <4> QED BY <2>5, <3>2, <4>3
    <3>3. CASE k # reader.at.file
      BY <1>5, <2>5, <3>1, <3>3
    <3> QED BY <3>2, <3>3
  <2> QED BY <1>0, <2>6, <2>8, <2>9 DEF ReaderOK
<1> QED BY <1>2, <1>6, <1>7

\* A page that is full asks whether anything is left.
LEMMA MoreKeeps == ASSUME Inv, ReaderInv, HasMore PROVE ReaderOK(reader')
<1>0. /\ reader \in Reader /\ reader.pc = "more" /\ reader.paged /\ Listed(reader)
      /\ Ahead(reader, reader.at) /\ Ahead(reader, reader.cursor)
      /\ \A r \in reader.owed : r \in Matching /\ request[r].pc = "done"
  BY DEF ReaderInv, ReaderOK, HasMore
<1>1. CASE files[reader.at.file] = NoFile
  BY <1>1, FailedKeeps DEF HasMore
<1>2. CASE reader' = [reader EXCEPT !.pc = "list"]
  <2>1. /\ reader' \in Reader /\ reader'.pc = "list" /\ reader'.owed = reader.owed
        /\ reader'.seen = reader.seen /\ reader'.cursor = reader.cursor
    BY <1>0, <1>2 DEF Reader
  <2>2. Ahead(reader', reader'.cursor)
    BY <1>0, <2>1 DEF Ahead, Owed
  <2> QED BY <1>0, <2>1, <2>2 DEF ReaderOK
<1>3. CASE files[reader.at.file] # NoFile /\ Hits = {} /\ reader' = NextFile(reader)
  <2>1. ASSUME NEW k \in Hours, NEW i \in Nat, Owed(reader, k, i) PROVE k < reader.at.file
    <3> SUFFICES ASSUME k = reader.at.file, reader.at.offset <= Len(files[k]) - i PROVE FALSE
      BY <1>0, <2>1 DEF Ahead
    <3>1. i \in 1..Len(files[k]) /\ files[k][i] \in Matching
      BY <1>0, <2>1 DEF Owed
    <3>2. Len(files[k]) - i \in Hits
      <4>1. LogTyped
        BY DEF Inv, LogInv
      <4> QED BY <1>0, <1>3, <3>1, <4>1, HitsAre
    <3> QED BY <1>3, <3>2
  <2>2. LogTyped
    BY DEF Inv, LogInv
  <2> QED BY <1>0, <1>3, <2>1, <2>2, NextFileOK
<1> QED BY <1>1, <1>2, <1>3 DEF HasMore

-----------------------------------------------------------------------------
(* The steps of the others.                                                *)

\* A step of the logger only appends to files and removes them: a line of
\* a request that was done is where it was, unless its file was removed.
LinesStay ==
    \A k \in Hours : files'[k] # NoFile =>
        \A i \in 1..Len(files'[k]) : request[files'[k][i]].pc = "done" =>
            /\ files[k] # NoFile /\ i \in 1..Len(files[k]) /\ files[k][i] = files'[k][i]
            /\ Len(files[k]) <= Len(files'[k])

DoneStay == \A r \in Requests : request[r].pc = "done" => request'[r].pc = "done"

\* While it waits for its turn, the reader loses no line that it is owed.
LEMMA ReaderWaits ==
    ASSUME LogTyped, LogTyped', ReaderInv, reader' = reader, LinesStay, DoneStay
    PROVE  ReaderInv'
<1>0. reader \in Reader /\ \A r \in reader.owed : r \in Matching /\ request[r].pc = "done"
  BY DEF ReaderInv, ReaderOK
<1>1. \A r \in reader.owed : r \in Matching /\ request'[r].pc = "done"
  BY <1>0, LogAssumption DEF DoneStay
<1>2. ASSUME NEW k \in Hours, NEW i \in Nat, Owed(reader, k, i)'
      PROVE  /\ Owed(reader, k, i) /\ Len(files[k]) <= Len(files'[k])
             /\ Len(files[k]) \in Nat /\ Len(files'[k]) \in Nat
  <2>1. files'[k] # NoFile /\ i \in 1..Len(files'[k]) /\ files'[k][i] \in reader.owed \ reader.seen
    BY <1>2 DEF Owed
  <2>2. request[files'[k][i]].pc = "done"
    BY <1>0, <2>1
  <2>3. /\ files[k] # NoFile /\ i \in 1..Len(files[k]) /\ files[k][i] = files'[k][i]
        /\ Len(files[k]) <= Len(files'[k])
    BY <2>1, <2>2 DEF LinesStay
  <2>4. files'[k] \in Seq(Requests) /\ files[k] \in Seq(Requests)
    BY <2>1, <2>3 DEF LogTyped
  <2> QED BY <2>1, <2>3, <2>4 DEF Owed
<1>3. ASSUME NEW c \in Cursor, Ahead(reader, c)
      PROVE  Ahead(reader, c)'
  <2> SUFFICES ASSUME NEW k \in Hours, NEW i \in Nat, Owed(reader, k, i)'
               PROVE  k < c.file \/ (k = c.file /\ c.offset <= Len(files'[k]) - i)
    BY DEF Ahead
  <2>1. k < c.file \/ (k = c.file /\ c.offset <= Len(files[k]) - i)
    BY <1>2, <1>3 DEF Ahead
  <2>2. c.offset \in Nat /\ Len(files[k]) <= Len(files'[k]) /\ Len(files[k]) \in Nat /\ Len(files'[k]) \in Nat
    BY <1>2 DEF Cursor
  <2> QED BY <2>1, <2>2
<1>4. Listed(reader) => Listed(reader)'
  BY <1>2 DEF Listed
<1>5. reader.at \in Cursor /\ reader.cursor \in Cursor
  BY <1>0 DEF Reader
<1>6. Ahead(reader, reader.at) => Ahead(reader, reader.at)'
  BY <1>3, <1>5
<1>7. Ahead(reader, reader.cursor) => Ahead(reader, reader.cursor)'
  BY <1>3, <1>5
<1>8. ASSUME reader.pc = "done", NEW r \in reader.owed, OnFile(r)' PROVE r \in reader.seen
  <2>1. PICK k \in Hours : files'[k] # NoFile /\ \E i \in 1..Len(files'[k]) : files'[k][i] = r
    BY <1>8 DEF OnFile
  <2>2. PICK i \in 1..Len(files'[k]) : files'[k][i] = r
    BY <2>1
  <2>3. files[k] # NoFile /\ i \in 1..Len(files[k]) /\ files[k][i] = r
    BY <1>0, <2>1, <2>2 DEF LinesStay
  <2>4. OnFile(r)
    BY <2>3 DEF OnFile
  <2> QED BY <1>8, <2>4 DEF ReaderInv, ReaderOK
<1> USE DEF ReaderInv, ReaderOK
<1>9. \A r \in reader'.owed : r \in Matching /\ request'[r].pc = "done"
  BY <1>1
<1>10. reader'.pc = "list" /\ reader'.paged => Ahead(reader, reader.cursor)'
  BY <1>7
<1>11. reader'.pc = "read" => reader'.got < PageSize /\ Listed(reader)' /\ Ahead(reader, reader.at)'
  BY <1>4, <1>6
<1>12. reader'.pc = "more" => reader'.paged /\ Listed(reader)' /\ Ahead(reader, reader.at)' /\ Ahead(reader, reader.cursor)'
  BY <1>4, <1>6, <1>7
<1>13. reader'.pc = "done" => \A r \in reader'.owed : OnFile(r)' => r \in reader'.seen
  BY <1>8
<1>14. reader' \in Reader
  BY <1>0
<1> QED BY <1>9, <1>10, <1>11, <1>12, <1>13, <1>14

\* The files stay as they are.
LEMMA SameFilesStay == ASSUME files' = files PROVE LinesStay
BY DEF LinesStay

\* Files are removed, and one is created, which is empty.
LEMMA RemovedStay ==
    ASSUME LogTyped, NEW k \in Hours, NEW now, NEW F, Removes(F, k, now), files' = F
    PROVE  LinesStay
<1> SUFFICES ASSUME NEW j \in Hours, F[j] # NoFile, NEW i \in 1..Len(F[j])
             PROVE  F[j] = files[j]
  BY DEF LinesStay, LogTyped
<1>1. CASE F[j] = <<>>
  BY <1>1
<1>2. CASE F[j] # <<>>
  BY <1>2 DEF Removes
<1> QED BY <1>1, <1>2

\* The line of a request that is not done is appended.
LEMMA WriteStays ==
    ASSUME LogInv, NEW r \in Requests, request[r].pc # "done", WriteLine(r)
    PROVE  LinesStay
<1> DEFINE k == HourOf(stamp[r])
           now == stamp[r]
           F == RotateIfNeeded(k, now)
<1>0. now \in Nat /\ k \in Hours
  BY Numbers, HourTyped DEF LogInv, LogTyped
<1>1. Removes(F, k, now)
  BY <1>0, RotateRemoves
<1>2. files' = [F EXCEPT ![k] = Append(F[k], r)]
  BY DEF WriteLine
<1> HIDE DEF F, k, now
<1>3. /\ F \in [Hours -> Seq(Requests) \cup {NoFile}] /\ F[k] \in Seq(Requests)
      /\ \A j \in Hours : F[j] = files[j] \/ F[j] = NoFile \/ (j = k /\ F[j] = <<>>)
  BY <1>0, <1>1 DEF Removes
<1>4. /\ Len(Append(F[k], r)) = Len(F[k]) + 1 /\ Len(F[k]) \in Nat
      /\ \A i \in 1..Len(F[k]) : Append(F[k], r)[i] = F[k][i]
      /\ Append(F[k], r)[Len(F[k]) + 1] = r
  BY <1>3
<1>5. \A j \in Hours : files'[j] = IF j = k THEN Append(F[k], r) ELSE F[j]
  BY <1>2, <1>3
<1> SUFFICES ASSUME NEW j \in Hours, files'[j] # NoFile, NEW i \in 1..Len(files'[j]),
                    request[files'[j][i]].pc = "done"
             PROVE  /\ files[j] # NoFile /\ i \in 1..Len(files[j]) /\ files[j][i] = files'[j][i]
                    /\ Len(files[j]) <= Len(files'[j])
  BY DEF LinesStay
<1>6. CASE j # k
  <2>1. files'[j] = F[j]
    BY <1>5, <1>6
  <2>2. files'[j] = files[j]
    <3>1. CASE F[j] = <<>>
      BY <2>1, <3>1
    <3>2. CASE F[j] # <<>>
      BY <1>3, <1>6, <2>1, <3>2
    <3> QED BY <3>1, <3>2
  <2>3. files[j] \in Seq(Requests)
    BY <2>2 DEF LogInv, LogTyped
  <2> QED BY <2>2, <2>3
<1>7. CASE j = k
  <2>1. files'[j] = Append(F[k], r)
    BY <1>5, <1>7
  <2>2. i # Len(F[k]) + 1
    BY <1>4, <2>1
  <2>3. i \in 1..Len(F[k])
    BY <1>4, <2>1, <2>2
  <2>4. F[k] # <<>> /\ F[k] # NoFile
    <3>1. F[k] # <<>>
      BY <2>3
    <3> QED BY <1>3, <3>1, Numbers
  <2>5. F[k] = files[j]
    BY <1>3, <1>7, <2>4
  <2> QED BY <1>4, <2>1, <2>3, <2>4, <2>5
<1> QED BY <1>6, <1>7

\* A request of a goroutine that runs moves: those that are done stay so.
LEMMA MovesDone ==
    ASSUME HandlerTyped, NEW r \in Requests, Active(r) \/ At(r, "new"), NEW x,
           request' = [request EXCEPT ![r] = x]
    PROVE  DoneStay
BY DEF HandlerTyped, DoneStay, Active, At

\* What the proxy does leaves the reader what it is owed.
LEMMA StepWaits ==
    ASSUME Inv, Inv', ReaderInv, NEW r \in Requests, Step(r) \/ ReturnUnlogged(r)
    PROVE  ReaderInv'
<1>0. LogTyped /\ LogTyped' /\ HandlerTyped /\ LogInv
  BY DEF Inv, LogInv
<1>1. CASE Admit(r) \/ Screen(r) \/ EvaluateDashboard(r) \/ ResolveMode(r) \/ EvaluateWAF(r) \/ Log(r)
  <2>1. files' = files /\ reader' = reader
    BY <1>1 DEF Admit, Screen, EvaluateDashboard, ResolveMode, EvaluateWAF, Log, elsewhere, logVars, ReadClock
  <2>2. Active(r) /\ \E pc : Moves(r, pc)
    BY <1>1 DEF Admit, Screen, EvaluateDashboard, ResolveMode, EvaluateWAF, Log, Active, At
  <2>3. DoneStay
    <3>1. \A q \in Requests \ {r} : request'[q] = request[q]
      BY <1>0, <2>2 DEF Moves, HandlerTyped
    <3> QED BY <1>0, <2>2, <3>1, DoneStays DEF DoneStay
  <2> QED BY <1>0, <2>1, <2>3, SameFilesStay, ReaderWaits
<1>2. CASE Return(r) \/ ReturnUnlogged(r)
  <2>1. /\ Active(r) /\ request[r].pc # "done" /\ request' = [request EXCEPT ![r] = Done]
        /\ reader' = reader
    BY <1>2 DEF Return, ReturnUnlogged, Active, At
  <2>2. DoneStay
    BY <1>0, <2>1, MovesDone
  <2>3. LinesStay
    <3>1. CASE WriteLine(r)
      BY <1>0, <2>1, <3>1, WriteStays
    <3>2. CASE files' = files
      BY <3>2, SameFilesStay
    <3>3. CASE files' = RotateIfNeeded(HourOf(stamp[r]), stamp[r])
      <4>1. HourOf(stamp[r]) \in Hours /\ stamp[r] \in Nat
        <5>1. stamp[r] \in 0..MaxTime
          BY <1>0 DEF LogTyped
        <5>2. HourOf(stamp[r]) \in Hours
          BY <5>1, HourTyped
        <5>3. stamp[r] \in Nat
          BY <5>1, Numbers
        <5> QED BY <5>2, <5>3
      <4>2. Removes(RotateIfNeeded(HourOf(stamp[r]), stamp[r]), HourOf(stamp[r]), stamp[r])
        BY <1>0, <4>1, RotateRemoves
      <4> QED BY <1>0, <3>3, <4>1, <4>2, RemovedStay
    <3> QED BY <1>2, <3>1, <3>2, <3>3 DEF Return, ReturnUnlogged, DropLine, LogFails, logVars
  <2> QED BY <1>0, <2>1, <2>2, <2>3, ReaderWaits
<1> QED BY <1>1, <1>2 DEF Step

\* Nor does what happens around it.
LEMMA AroundWaits ==
    ASSUME Inv, Inv', ReaderInv,
           \/ \E r \in Requests, kind \in Kinds : Arrive(r, kind)
           \/ \E h \in Hosts, p \in Policies \cup {NoRoute} : ChangePolicy(h, p)
           \/ RestartProxy \/ Tick \/ UNCHANGED vars
    PROVE  ReaderInv'
<1>0. LogTyped /\ LogTyped' /\ HandlerTyped /\ LogInv
  BY DEF Inv, LogInv
<1>1. ASSUME NEW r \in Requests, NEW kind \in Kinds, Arrive(r, kind) PROVE ReaderInv'
  <2>1. files' = files /\ reader' = reader /\ At(r, "new")
    BY <1>1 DEF Arrive, elsewhere, logVars
  <2>2. DoneStay
    <3>1. PICK x : request' = [request EXCEPT ![r] = x]
      BY <1>1 DEF Arrive
    <3> QED BY <1>0, <2>1, <3>1, MovesDone
  <2> QED BY <1>0, <2>1, <2>2, SameFilesStay, ReaderWaits
<1>2. ASSUME NEW h \in Hosts, NEW p \in Policies \cup {NoRoute}, ChangePolicy(h, p) PROVE ReaderInv'
  <2>1. files' = files /\ reader' = reader
    BY <1>2 DEF ChangePolicy, logVars
  <2>2. DoneStay
    BY <1>2 DEF ChangePolicy, Active, At, DoneStay
  <2> QED BY <1>0, <2>1, <2>2, SameFilesStay, ReaderWaits
<1>3. CASE RestartProxy
  <2>1. files' = Rotated(HourOf(clock), clock) /\ reader' = reader
    BY <1>3 DEF RestartProxy, OpenLog
  <2>2. HourOf(clock) \in Hours /\ clock \in Nat
    <3>1. clock \in 0..MaxTime
      BY <1>0, Numbers DEF LogTyped
    <3> QED BY <3>1, HourTyped, Numbers
  <2>3. Removes(Rotated(HourOf(clock), clock), HourOf(clock), clock)
    BY <1>0, <2>2, RotatedRemoves
  <2>4. LinesStay
    BY <1>0, <2>1, <2>2, <2>3, RemovedStay
  <2>5. DoneStay
    BY <1>3 DEF RestartProxy, Active, At, DoneStay
  <2> QED BY <1>0, <2>1, <2>4, <2>5, ReaderWaits
<1>4. CASE Tick \/ UNCHANGED vars
  <2>1. files' = files /\ reader' = reader /\ request' = request
    BY <1>4 DEF Tick, vars, logVars
  <2>2. DoneStay
    BY <2>1 DEF DoneStay
  <2> QED BY <1>0, <2>1, <2>2, SameFilesStay, ReaderWaits
<1> QED BY <1>1, <1>2, <1>3, <1>4

\* The reader's own steps.
LEMMA ReadWaits == ASSUME Inv, ReaderInv, Read PROVE ReaderInv'
<1>1. files' = files /\ request' = request
  BY DEF Read, ReaderStep, BeginReading, ListFiles, ReadFile, HasMore, logVars
<1>2. ReaderOK(reader')
  BY BeginKeeps, ListKeeps, ReadKeeps, MoreKeeps DEF Read, ReaderStep
<1> QED BY <1>1, <1>2, ReadsOK

Bounded == events \in 0..MaxEvents

\* No step goes beyond the bound.
LEMMA NextBounded == Bounded /\ [Next]_vars => Bounded'
<1> SUFFICES ASSUME Bounded, [Next]_vars PROVE Bounded'
  OBVIOUS
<1>1. Another \/ events' = events
  BY DEF Next, Step, Admit, Screen, EvaluateDashboard, ResolveMode, EvaluateWAF, Log, Return,
         ReturnUnlogged, Arrive, ChangePolicy, RestartProxy, Tick, Read, elsewhere, vars
<1>2. MaxEvents \in Nat
  BY RequestAssumption
<1> QED BY <1>1, <1>2 DEF Another, Bounded

\* At first nobody reads.
LEMMA InitReads == Init => ReaderInv /\ Bounded
<1> SUFFICES ASSUME Init PROVE ReaderInv /\ Bounded
  OBVIOUS
<1>1. reader = NotReading /\ events = 0
  BY DEF Init
<1>2. Start \in Cursor
  BY Numbers DEF Start, Cursor
<1>3. reader \in Reader /\ reader.pc = "idle" /\ reader.owed = {}
  BY <1>1, <1>2 DEF NotReading, Reader
<1>4. ReaderInv
  BY <1>3 DEF ReaderInv, ReaderOK
<1> QED BY <1>1, <1>4, RequestAssumption DEF Bounded

\* The reader's invariant holds in every state.
LEMMA ReaderInvariant == Spec => [](Inv /\ ReaderInv /\ Bounded)
<1>1. Inv /\ Inv' /\ ReaderInv /\ [Next]_vars => ReaderInv'
  <2> SUFFICES ASSUME Inv, Inv', ReaderInv, [Next]_vars PROVE ReaderInv'
    OBVIOUS
  <2>1. ASSUME NEW r \in Requests, Step(r) \/ ReturnUnlogged(r) PROVE ReaderInv'
    BY <2>1, StepWaits
  <2>2. CASE \/ \E r \in Requests, kind \in Kinds : Arrive(r, kind)
             \/ \E h \in Hosts, p \in Policies \cup {NoRoute} : ChangePolicy(h, p)
             \/ RestartProxy \/ Tick \/ UNCHANGED vars
    BY <2>2, AroundWaits
  <2>3. CASE Read
    BY <2>3, ReadWaits
  <2> QED BY <2>1, <2>2, <2>3 DEF Next
<1> QED BY Invariant, InitReads, NextBounded, <1>1, PTL DEF Spec

\* Types of the limiter, the requests, the log and its reader.
THEOREM ProxyTypeCorrect == Spec => []TypeOK
<1>1. Inv /\ ReaderInv /\ Bounded => TypeOK
  BY DEF Inv, HandlerTyped, LimiterInv, LimiterTyped, LogInv, LogTyped, ReaderInv, ReaderOK,
         Bounded, TypeOK, LogTypeOK
<1> QED BY <1>1, ReaderInvariant, PTL

\* A client that was told that there is nothing more has been sent every
\* line that was on file when it began and is so still.
THEOREM PagesCompleteHolds == Spec => []PagesComplete
<1>1. ReaderInv => PagesComplete
  BY DEF ReaderInv, ReaderOK, PagesComplete
<1> QED BY <1>1, ReaderInvariant, PTL

=============================================================================
