------------------------- MODULE PortBindingsProofs -------------------------
(***************************************************************************)
(* Proofs of the properties of PortBindings, for any set of deployments,   *)
(* any ports and requests of any length.                                   *)
(*                                                                         *)
(* parsePortSpecs, assignHostPorts and resolvedPorts are loops over data.  *)
(* The folds that model them are unrolled to a sequence g of rounds, g[k]  *)
(* being what is held after k of them, and what holds after every round is *)
(* shown by induction on k: the set of the k for which it holds contains 0 *)
(* and is closed under successor, and a set of naturals has a least        *)
(* element.  The order that resolvedPorts takes the bindings in exists     *)
(* because container ports and protocols are totally ordered.              *)
(***************************************************************************)
EXTENDS PortBindings, WellFoundedInduction, FiniteSetTheorems, TLAPS

-----------------------------------------------------------------------------
(* Naturals, and the rounds of the loops.                                  *)


(* A set of naturals has a least element.                                  *)
LEMMA Least ==
    ASSUME NEW T \in SUBSET Nat, T # {}
    PROVE  \E x \in T : \A y \in T : x <= y
<1>0. \E R : IsWellFoundedOn(R, Nat) /\ \A x, y \in Nat : y < x => <<y, x>> \in R
  <2> DEFINE R == OpToRel(<, Nat)
  <2>1. IsWellFoundedOn(R, Nat)
    BY NatLessThanWellFounded
  <2>2. \A x, y \in Nat : y < x => <<y, x>> \in R
    BY DEF OpToRel
  <2> QED
    BY <2>1, <2>2, Zenon
<1>1. PICK R : IsWellFoundedOn(R, Nat) /\ \A x, y \in Nat : y < x => <<y, x>> \in R
  BY <1>0
<1>2. PICK x \in T : \A y \in T : ~(<<y, x>> \in R)
  BY <1>1, WFMin
<1>3. \A y \in T : ~(y < x)
  BY <1>1, <1>2
<1> QED
  BY <1>2, <1>3

(* Induction over the naturals, for a set of them.                         *)
LEMMA SetInduction ==
    ASSUME NEW S \in SUBSET Nat, 0 \in S, \A n \in S : n + 1 \in S
    PROVE  S = Nat
<1> SUFFICES ASSUME Nat \ S # {} PROVE FALSE
  OBVIOUS
<1>1. PICK x \in Nat \ S : \A y \in Nat \ S : x <= y
  BY Least
<1>2. x # 0 /\ x - 1 \in Nat /\ x - 1 \in S
  BY <1>1
<1> QED
  BY <1>1, <1>2

(* Min of a set of naturals is its least element.                          *)
LEMMA MinOf ==
    ASSUME NEW T \in SUBSET Nat, T # {}
    PROVE  Min(T) \in T /\ \A y \in T : Min(T) <= y
  BY Least DEF Min

(* Max of a bounded set of naturals is its greatest element.               *)
LEMMA MaxOf ==
    ASSUME NEW T \in SUBSET Nat, NEW n \in Nat, \A x \in T : x <= n, T # {}
    PROVE  Max(T) \in T /\ \A y \in T : y <= Max(T)
<1> DEFINE D == {n - x : x \in T}
<1>1. D \in SUBSET Nat /\ D # {}
  <2>1. \A x \in T : n - x \in Nat
    OBVIOUS
  <2> QED
    BY <2>1
<1>2. PICK d \in D : \A y \in D : d <= y
  BY <1>1, Least
<1>3. PICK x \in T : d = n - x
  OBVIOUS
<1>4. \A y \in T : x >= y
  BY <1>2, <1>3
<1> HIDE DEF D
<1>5. \E z \in T : \A y \in T : z >= y
  BY <1>4
<1> QED
  BY <1>5 DEF Max

(* Max of a set that contains its bound.                                   *)
LEMMA MaxIs ==
    ASSUME NEW T \in SUBSET Nat, NEW n \in T, \A x \in T : x <= n
    PROVE  Max(T) = n
<1>1. Max(T) \in T /\ \A y \in T : y <= Max(T)
  <2>1. n \in Nat /\ T # {}
    OBVIOUS
  <2> QED
    BY <2>1, MaxOf
<1>2. Max(T) \in Nat /\ n \in Nat /\ Max(T) <= n /\ n <= Max(T)
  BY <1>1
<1> QED
  BY <1>2

(* The rounds of parsePortSpecs.                                           *)
ParseRound(acc, p) == IF Contains(acc, p) THEN acc ELSE Append(acc, p)

(* parsePortSpecs is its rounds, one after the other.                      *)
LEMMA ParseRounds ==
    ASSUME NEW n \in Nat, NEW specs, DOMAIN specs = 1..n
    PROVE  \E g : /\ g[0] = <<>>
                  /\ \A k \in 1..n : g[k] = ParseRound(g[k - 1], specs[k])
                  /\ ParsePortSpecs(specs) = g[n]
<1> DEFINE Eq(g, k) == g = [s \in SUBSET (1..k) |->
                              IF s = {} THEN <<>>
                              ELSE ParseRound(g[s \ {Max(s)}], specs[Max(s)])]
           S == {k \in Nat : \E g : Eq(g, k)}
<1>1. 0 \in S
  <2> DEFINE g == [s \in SUBSET (1..0) |-> <<>>]
  <2>1. \A s \in SUBSET (1..0) : s = {}
    OBVIOUS
  <2>2. Eq(g, 0)
    BY <2>1
  <2> QED
    BY <2>2
<1>2. ASSUME NEW k \in S PROVE k + 1 \in S
  <2>0. k \in Nat
    OBVIOUS
  <2>1. PICK f : Eq(f, k)
    OBVIOUS
  <2> DEFINE g == [s \in SUBSET (1..(k + 1)) |->
                     IF k + 1 \in s THEN ParseRound(f[s \ {k + 1}], specs[k + 1]) ELSE f[s]]
  <2>2. ASSUME NEW s \in SUBSET (1..(k + 1))
        PROVE  g[s] = IF s = {} THEN <<>> ELSE ParseRound(g[s \ {Max(s)}], specs[Max(s)])
    <3>1. CASE k + 1 \in s
      <4>1. Max(s) = k + 1
        BY <3>1, MaxIs
      <4>2. s \ {k + 1} \in SUBSET (1..k) /\ s \ {k + 1} \in SUBSET (1..(k + 1))
        OBVIOUS
      <4>3. g[s \ {k + 1}] = f[s \ {k + 1}]
        BY <4>2
      <4> HIDE DEF Eq
      <4> QED
        BY <3>1, <4>1, <4>3
    <3>2. CASE k + 1 \notin s
      <4>1. s \in SUBSET (1..k) /\ g[s] = f[s]
        BY <3>2
      <4>2. CASE s = {}
        BY <2>1, <4>1, <4>2
      <4>3. CASE s # {}
        <5>1. s \in SUBSET Nat /\ \A x \in s : x <= k + 1
          OBVIOUS
        <5>2. s \ {Max(s)} \in SUBSET (1..(k + 1)) /\ k + 1 \notin s \ {Max(s)}
          BY <3>2
        <5>3. g[s \ {Max(s)}] = f[s \ {Max(s)}]
          BY <5>2
        <5>4. f[s] = ParseRound(f[s \ {Max(s)}], specs[Max(s)])
          BY <2>1, <4>1, <4>3
        <5> HIDE DEF g
        <5> QED
          BY <4>1, <4>3, <5>3, <5>4
      <4> QED
        BY <4>2, <4>3
    <3> QED
      BY <3>1, <3>2
  <2>3. Eq(g, k + 1)
    <3>1. \A s \in SUBSET (1..(k + 1)) :
              g[s] = IF s = {} THEN <<>> ELSE ParseRound(g[s \ {Max(s)}], specs[Max(s)])
      BY <2>2
    <3>2. DOMAIN g = SUBSET (1..(k + 1)) /\ g = [s \in SUBSET (1..(k + 1)) |-> g[s]]
      OBVIOUS
    <3> HIDE DEF g
    <3> QED
      BY <3>1, <3>2
  <2> HIDE DEF Eq, g
  <2> QED
    BY <2>3
<1> HIDE DEF S, Eq
<1>3. S = Nat
  <2>1. S \in SUBSET Nat
    BY DEF S
  <2> QED
    BY <1>1, <1>2, <2>1, SetInduction
<1>4. \E f : Eq(f, n)
  BY <1>3 DEF S
<1> DEFINE iter == CHOOSE f : Eq(f, n)
<1>5. Eq(iter, n)
  BY <1>4
<1>6. ParsePortSpecs(specs) = iter[1..n]
  BY DEF ParsePortSpecs, FoldLeft, MapThenFoldSet, Eq, ParseRound
<1> HIDE DEF iter
<1> DEFINE g == [k \in 0..n |-> iter[1..k]]
<1>7. g[0] = <<>>
  <2>1. 1..0 = {} /\ {} \in SUBSET (1..n) /\ g[0] = iter[1..0]
    OBVIOUS
  <2>2. iter[{}] = <<>>
    BY <1>5, <2>1 DEF Eq
  <2> QED
    BY <2>1, <2>2
<1>8. ASSUME NEW k \in 1..n PROVE g[k] = ParseRound(g[k - 1], specs[k])
  <2>1. Max(1..k) = k
    BY MaxIs
  <2>2. (1..k) \ {k} = 1..(k - 1) /\ 1..k # {} /\ 1..k \in SUBSET (1..n)
    OBVIOUS
  <2>3. iter[1..k] = ParseRound(iter[1..(k - 1)], specs[k])
    BY <1>5, <2>1, <2>2 DEF Eq
  <2> QED
    BY <2>3
<1>9. ParsePortSpecs(specs) = g[n]
  BY <1>6
<1> HIDE DEF g
<1> QED
  BY <1>7, <1>8, <1>9

(* The rounds of assignHostPorts.                                          *)
Unassigned(others) == [used |-> UsedHostPorts(others), ports |-> <<>>, result |-> "ok"]

AssignedBy(g, others, current, requested) ==
    LET specs == ParsePortSpecs(requested)
    IN  /\ g[0] = Unassigned(others)
        /\ \A k \in 1..Len(specs) : g[k] = AssignOne(current, g[k - 1], specs[k])
        /\ AssignHostPorts(others, current, requested) = g[Len(specs)]

(* assignHostPorts is its rounds, one after the other.                     *)
LEMMA AssignRounds ==
    ASSUME NEW others, NEW current, NEW requested, ParsePortSpecs(requested) \in Seq(PortSpec)
    PROVE  \E g : AssignedBy(g, others, current, requested)
<1> DEFINE specs == ParsePortSpecs(requested)
           n == Len(specs)
<1>0. n \in Nat /\ DOMAIN specs = 1..n
  OBVIOUS
<1> HIDE DEF specs, n
<1> DEFINE start == Unassigned(others)
<1> HIDE DEF start
<1> DEFINE Eq(g, k) == g = [s \in SUBSET (1..k) |->
                              IF s = {} THEN start
                              ELSE AssignOne(current, g[s \ {Max(s)}], specs[Max(s)])]
           S == {k \in Nat : \E g : Eq(g, k)}
<1>1. 0 \in S
  <2> DEFINE g == [s \in SUBSET (1..0) |-> start]
  <2>1. \A s \in SUBSET (1..0) : s = {}
    OBVIOUS
  <2>2. Eq(g, 0)
    BY <2>1
  <2> QED
    BY <2>2
<1>2. ASSUME NEW k \in S PROVE k + 1 \in S
  <2>0. k \in Nat
    OBVIOUS
  <2>1. PICK f : Eq(f, k)
    OBVIOUS
  <2> DEFINE g == [s \in SUBSET (1..(k + 1)) |->
                     IF k + 1 \in s THEN AssignOne(current, f[s \ {k + 1}], specs[k + 1]) ELSE f[s]]
  <2>2. ASSUME NEW s \in SUBSET (1..(k + 1))
        PROVE  g[s] = IF s = {} THEN start ELSE AssignOne(current, g[s \ {Max(s)}], specs[Max(s)])
    <3>1. CASE k + 1 \in s
      <4>1. Max(s) = k + 1
        BY <3>1, MaxIs
      <4>2. s \ {k + 1} \in SUBSET (1..k) /\ s \ {k + 1} \in SUBSET (1..(k + 1))
        OBVIOUS
      <4>3. g[s \ {k + 1}] = f[s \ {k + 1}]
        BY <4>2
      <4> HIDE DEF Eq
      <4> QED
        BY <3>1, <4>1, <4>3
    <3>2. CASE k + 1 \notin s
      <4>1. s \in SUBSET (1..k) /\ g[s] = f[s]
        BY <3>2
      <4>2. CASE s = {}
        BY <2>1, <4>1, <4>2
      <4>3. CASE s # {}
        <5>1. s \in SUBSET Nat /\ \A x \in s : x <= k + 1
          OBVIOUS
        <5>2. s \ {Max(s)} \in SUBSET (1..(k + 1)) /\ k + 1 \notin s \ {Max(s)}
          BY <3>2
        <5>3. g[s \ {Max(s)}] = f[s \ {Max(s)}]
          BY <5>2
        <5>4. f[s] = AssignOne(current, f[s \ {Max(s)}], specs[Max(s)])
          BY <2>1, <4>1, <4>3
        <5> HIDE DEF g
        <5> QED
          BY <4>1, <4>3, <5>3, <5>4
      <4> QED
        BY <4>2, <4>3
    <3> QED
      BY <3>1, <3>2
  <2>3. Eq(g, k + 1)
    <3>1. \A s \in SUBSET (1..(k + 1)) :
              g[s] = IF s = {} THEN start ELSE AssignOne(current, g[s \ {Max(s)}], specs[Max(s)])
      BY <2>2
    <3>2. DOMAIN g = SUBSET (1..(k + 1)) /\ g = [s \in SUBSET (1..(k + 1)) |-> g[s]]
      OBVIOUS
    <3> HIDE DEF g
    <3> QED
      BY <3>1, <3>2
  <2> HIDE DEF Eq, g
  <2> QED
    BY <2>3
<1> HIDE DEF S, Eq
<1>3. S = Nat
  <2>1. S \in SUBSET Nat
    BY DEF S
  <2> QED
    BY <1>1, <1>2, <2>1, SetInduction
<1>4. \E f : Eq(f, n)
  BY <1>0, <1>3 DEF S
<1> DEFINE iter == CHOOSE f : Eq(f, n)
<1>5. Eq(iter, n)
  BY <1>4
<1>6. AssignHostPorts(others, current, requested) = iter[1..n]
  BY <1>0 DEF AssignHostPorts, FoldLeft, MapThenFoldSet, Eq, start, Unassigned, specs
<1> HIDE DEF iter
<1> DEFINE g == [k \in 0..n |-> iter[1..k]]
<1>7. g[0] = start
  <2>1. 1..0 = {} /\ {} \in SUBSET (1..n) /\ g[0] = iter[1..0]
    BY <1>0
  <2>2. iter[{}] = start
    BY <1>5, <2>1 DEF Eq
  <2> QED
    BY <2>1, <2>2
<1>8. ASSUME NEW k \in 1..n PROVE g[k] = AssignOne(current, g[k - 1], specs[k])
  <2>1. Max(1..k) = k
    <3>1. k \in Nat /\ k \in 1..k /\ 1..k \in SUBSET Nat /\ \A x \in 1..k : x <= k
      BY <1>0
    <3> QED
      BY <3>1, MaxIs
  <2>2. (1..k) \ {k} = 1..(k - 1) /\ 1..k # {} /\ 1..k \in SUBSET (1..n)
    <3>1. n \in Nat /\ k \in Nat /\ k <= n /\ k >= 1
      BY <1>0
    <3>2. \A x \in 1..k : x \in 1..n
      BY <3>1
    <3>3. (1..k) \ {k} = 1..(k - 1)
      BY <3>1
    <3>4. k \in 1..k
      BY <3>1
    <3> QED
      BY <3>2, <3>3, <3>4
  <2>3. iter[1..k] = AssignOne(current, iter[1..(k - 1)], specs[k])
    BY <1>5, <2>1, <2>2 DEF Eq
  <2> QED
    BY <1>0, <2>3
<1>9. AssignHostPorts(others, current, requested) = g[n]
  BY <1>0, <1>6
<1> HIDE DEF g
<1> QED
  BY <1>7, <1>8, <1>9 DEF start, AssignedBy, specs, n

-----------------------------------------------------------------------------
(* assignHostPorts.                                                        *)


(* parsePortSpecs leaves no spec out and adds none.                        *)
LEMMA ParseKeeps ==
    ASSUME NEW specs \in Seq(PortSpec)
    PROVE  /\ ParsePortSpecs(specs) \in Seq(PortSpec)
           /\ \A i \in 1..Len(specs) : \E k \in 1..Len(ParsePortSpecs(specs)) :
                    ParsePortSpecs(specs)[k] = specs[i]
<1> DEFINE n == Len(specs)
<1>0. n \in Nat /\ DOMAIN specs = 1..n /\ \A k \in 1..n : specs[k] \in PortSpec
  OBVIOUS
<1>1. PICK g : /\ g[0] = <<>>
               /\ \A k \in 1..n : g[k] = ParseRound(g[k - 1], specs[k])
               /\ ParsePortSpecs(specs) = g[n]
  BY <1>0, ParseRounds
<1> HIDE DEF n
<1> DEFINE Kept(k) == /\ g[k] \in Seq(PortSpec)
                      /\ \A i \in 1..k : \E j \in 1..Len(g[k]) : g[k][j] = specs[i]
           S == {k \in Nat : k <= n => Kept(k)}
<1>2. 0 \in S
  <2>1. g[0] \in Seq(PortSpec) /\ 1..0 = {}
    BY <1>1
  <2> QED
    BY <2>1
<1>3. ASSUME NEW k \in S PROVE k + 1 \in S
  <2> SUFFICES ASSUME k + 1 <= n PROVE Kept(k + 1)
    OBVIOUS
  <2>1. k \in Nat /\ Kept(k) /\ k + 1 \in 1..n
    BY <1>0
  <2> DEFINE acc == g[k]
             p == specs[k + 1]
  <2>2. g[k + 1] = ParseRound(acc, p) /\ p \in PortSpec
    <3>1. (k + 1) - 1 = k
      BY <2>1
    <3> QED
      BY <1>0, <1>1, <2>1, <3>1
  <2>3. acc \in Seq(PortSpec) /\ \A i \in 1..k : \E j \in 1..Len(acc) : acc[j] = specs[i]
    BY <2>1
  <2>4. /\ ParseRound(acc, p) \in Seq(PortSpec)
        /\ \A j \in 1..Len(acc) : j \in 1..Len(ParseRound(acc, p)) /\ ParseRound(acc, p)[j] = acc[j]
        /\ \E j \in 1..Len(ParseRound(acc, p)) : ParseRound(acc, p)[j] = p
    <3> HIDE DEF acc, p
    <3>1. CASE Contains(acc, p)
      BY <2>3, <3>1 DEF ParseRound, Contains
    <3>2. CASE ~Contains(acc, p)
      <4>1. /\ Append(acc, p) \in Seq(PortSpec)
            /\ Len(Append(acc, p)) = Len(acc) + 1 /\ Len(acc) \in Nat
            /\ Append(acc, p)[Len(acc) + 1] = p
            /\ \A j \in 1..Len(acc) : Append(acc, p)[j] = acc[j]
        BY <2>2, <2>3
      <4> QED
        BY <3>2, <4>1 DEF ParseRound
    <3> QED
      BY <3>1, <3>2
  <2>5. ASSUME NEW i \in 1..(k + 1)
        PROVE  \E j \in 1..Len(g[k + 1]) : g[k + 1][j] = specs[i]
    <3>1. CASE i = k + 1
      BY <2>2, <2>4, <3>1
    <3>2. CASE i \in 1..k
      <4>1. PICK j \in 1..Len(acc) : acc[j] = specs[i]
        BY <2>3, <3>2
      <4> QED
        BY <2>2, <2>4, <4>1
    <3> QED
      BY <2>1, <3>1, <3>2
  <2> QED
    BY <2>2, <2>4, <2>5
<1> HIDE DEF S, Kept
<1>4. S = Nat
  <2>1. S \in SUBSET Nat
    BY DEF S
  <2> QED
    BY <1>2, <1>3, <2>1, SetInduction
<1>5. Kept(n)
  BY <1>0, <1>4 DEF S
<1> QED
  BY <1>1, <1>5 DEF Kept, n

Hosts == HostPorts \cup (RangeMin..RangeMax)

Acc == [used : SUBSET (Nat \X {"tcp", "udp"}), ports : Seq(Binding),
        result : {"ok", "conflict", "exhausted"}]

(* A host port that a round takes.                                         *)
Taken(acc, p, h) == [used   |-> acc.used \cup {<<h, p.proto>>},
                     ports  |-> Append(acc.ports, WithHostPort(p, h)),
                     result |-> "ok"]

(* A round of assignHostPorts takes a host port that is not in use, the    *)
(* one that the spec names if it names one, or refuses the request.        *)
LEMMA RoundTakes ==
    ASSUME NEW current \in Seq(Binding), NEW acc \in Acc, NEW p \in PortSpec
    PROVE  \/ acc.result # "ok" /\ AssignOne(current, acc, p) = acc
           \/ \E e \in {"conflict", "exhausted"} :
                 AssignOne(current, acc, p) = [acc EXCEPT !.result = e]
           \/ /\ acc.result = "ok"
              /\ \E h \in Hosts : /\ <<h, p.proto>> \notin acc.used
                                  /\ p.host \in {0, h}
                                  /\ AssignOne(current, acc, p) = Taken(acc, p, h)
<1> DEFINE kept == {h \in Existing(current, p) : <<h, p.proto>> \notin acc.used}
           free == FreeHostPorts(acc.used, p.proto)
<1>1. p.host \in HostPorts \cup {0} /\ p.host \in Nat
  <2>1. p.host \in HostPorts \cup {0}
    BY DEF PortSpec
  <2>2. \A h \in HostPorts \cup {0} : h \in Nat
    BY PortsAssumption
  <2> QED
    BY <2>1, <2>2
<1>2. Hosts \subseteq Nat
  BY PortsAssumption, RangeAssumption DEF Hosts
<1>3. Existing(current, p) \subseteq Hosts
  <2> DEFINE same == {k \in DOMAIN current : ContainerKey(current[k]) = ContainerKey(p)}
  <2>1. CASE same = {}
    BY <2>1 DEF Existing
  <2>2. CASE same # {}
    <3>1. same \in SUBSET Nat /\ Len(current) \in Nat /\ \A x \in same : x <= Len(current)
      OBVIOUS
    <3>2. Max(same) \in same
      <4> HIDE DEF same
      <4> QED
        BY <2>2, <3>1, MaxOf
    <3>3. current[Max(same)] \in Binding
      BY <3>2
    <3> QED
      BY <2>2, <3>3 DEF Existing, Binding, Hosts
  <2> QED
    BY <2>1, <2>2
<1>4. kept # {} => Min(kept) \in kept
  BY <1>2, <1>3, MinOf
<1>5. free # {} => Min(free) \in free
  <2>1. free \in SUBSET Nat
    BY RangeAssumption DEF FreeHostPorts
  <2> QED
    BY <2>1, MinOf
<1>6. free \subseteq Hosts /\ \A h \in free : <<h, p.proto>> \notin acc.used
  BY DEF FreeHostPorts, Hosts
<1>7. CASE acc.result # "ok"
  BY <1>7 DEF AssignOne
<1>8. CASE acc.result = "ok" /\ p.host > 0
  <2>1. CASE HostKey(p) \in acc.used
    BY <1>8, <2>1 DEF AssignOne
  <2>2. CASE HostKey(p) \notin acc.used
    <3>1. AssignOne(current, acc, p) = Taken(acc, p, p.host)
      BY <1>8, <2>2 DEF AssignOne, Taken
    <3>2. p.host \in Hosts /\ <<p.host, p.proto>> \notin acc.used
      BY <1>1, <1>8, <2>2 DEF Hosts, HostKey
    <3> QED
      BY <1>8, <3>1, <3>2
  <2> QED
    BY <2>1, <2>2
<1>9. CASE acc.result = "ok" /\ ~(p.host > 0)
  <2>0. p.host = 0
    BY <1>1, <1>9
  <2>1. CASE kept # {}
    <3>1. AssignOne(current, acc, p) = Taken(acc, p, Min(kept))
      BY <1>9, <2>1 DEF AssignOne, Taken
    <3>2. Min(kept) \in Hosts /\ <<Min(kept), p.proto>> \notin acc.used
      BY <1>3, <1>4, <2>1
    <3> QED
      BY <1>9, <2>0, <3>1, <3>2
  <2>2. CASE kept = {} /\ free # {}
    <3>1. AssignOne(current, acc, p) = Taken(acc, p, Min(free))
      BY <1>9, <2>2 DEF AssignOne, Taken
    <3>2. Min(free) \in Hosts /\ <<Min(free), p.proto>> \notin acc.used
      BY <1>5, <1>6, <2>2
    <3> QED
      BY <1>9, <2>0, <3>1, <3>2
  <2>3. CASE kept = {} /\ free = {}
    BY <1>9, <2>3 DEF AssignOne
  <2> QED
    BY <2>1, <2>2, <2>3
<1> QED
  BY <1>7, <1>8, <1>9

(* What holds after k rounds.                                              *)
RoundsOK(others, specs, k, acc) ==
    /\ acc \in Acc
    /\ acc.used = UsedHostPorts(others) \cup {HostKey(acc.ports[l]) : l \in 1..Len(acc.ports)}
    /\ \A l, m \in 1..Len(acc.ports) : HostKey(acc.ports[l]) = HostKey(acc.ports[m]) => l = m
    /\ \A l \in 1..Len(acc.ports) : HostKey(acc.ports[l]) \notin UsedHostPorts(others)
    /\ acc.result = "ok" =>
          \A j \in 1..k : \E l \in 1..Len(acc.ports) :
              /\ ContainerKey(acc.ports[l]) = ContainerKey(specs[j])
              /\ specs[j].host \in {0, acc.ports[l].host}

(* A round that takes a host port keeps what holds.                        *)
LEMMA TakenKeeps ==
    ASSUME NEW others, NEW specs, NEW k \in Nat, NEW acc, RoundsOK(others, specs, k, acc),
           acc.result = "ok", NEW p \in PortSpec, specs[k + 1] = p, NEW h \in Hosts,
           <<h, p.proto>> \notin acc.used, p.host \in {0, h}
    PROVE  RoundsOK(others, specs, k + 1, Taken(acc, p, h))
<1> DEFINE b == WithHostPort(p, h)
           old == acc.ports
           ps == Append(old, b)
           n == Len(old)
<1>1. /\ b \in Binding /\ HostKey(b) = <<h, p.proto>> /\ ContainerKey(b) = ContainerKey(p)
      /\ b.host = h
  BY ProtocolsAssumption DEF WithHostPort, HostKey, ContainerKey, PortSpec, Binding, Hosts
<1>2. acc \in Acc
  BY DEF RoundsOK
<1>3. old \in Seq(Binding) /\ acc.used \in SUBSET (Nat \X {"tcp", "udp"})
  BY <1>2 DEF Acc
<1>4. <<h, p.proto>> \in Nat \X {"tcp", "udp"}
  <2>1. h \in Nat
    BY PortsAssumption, RangeAssumption DEF Hosts
  <2>2. p.proto \in {"tcp", "udp"}
    BY ProtocolsAssumption DEF PortSpec
  <2> QED
    BY <2>1, <2>2
<1> DEFINE t == Taken(acc, p, h)
<1>5. t.used = acc.used \cup {HostKey(b)} /\ t.ports = ps /\ t.result = "ok"
  BY <1>1 DEF Taken
<1> HIDE DEF b
<1>6. /\ ps \in Seq(Binding) /\ Len(ps) = n + 1 /\ n \in Nat
      /\ ps[n + 1] = b /\ \A l \in 1..n : ps[l] = old[l]
  BY <1>1, <1>3
<1>7. t \in Acc
  <2>1. acc.used \cup {<<h, p.proto>>} \in SUBSET (Nat \X {"tcp", "udp"})
    BY <1>3, <1>4
  <2> QED
    BY <1>6, <2>1 DEF Taken, Acc, b
<1> HIDE DEF ps, t, n
<1>8. 1..Len(ps) = 1..n \cup {n + 1} /\ n + 1 \notin 1..n
  BY <1>6
<1>9. {HostKey(ps[l]) : l \in 1..Len(ps)} = {HostKey(old[l]) : l \in 1..n} \cup {HostKey(b)}
  BY <1>6, <1>8
<1>10. acc.used = UsedHostPorts(others) \cup {HostKey(old[l]) : l \in 1..n}
  BY DEF RoundsOK, n
<1>11. t.used = UsedHostPorts(others) \cup {HostKey(t.ports[l]) : l \in 1..Len(t.ports)}
  <2> DEFINE K == {HostKey(ps[l]) : l \in 1..Len(ps)}
             J == {HostKey(old[l]) : l \in 1..n}
             U == UsedHostPorts(others)
  <2>1. K = J \cup {HostKey(b)} /\ acc.used = U \cup J
    BY <1>9, <1>10
  <2>2. {HostKey(t.ports[l]) : l \in 1..Len(t.ports)} = K
    BY <1>5
  <2> HIDE DEF K, J, U
  <2>3. t.used = U \cup K
    BY <1>5, <2>1
  <2> QED
    BY <2>2, <2>3 DEF U
<1>12. HostKey(b) \notin UsedHostPorts(others) /\ \A l \in 1..n : HostKey(old[l]) # HostKey(b)
  BY <1>1, <1>10
<1>13. \A l, m \in 1..n : HostKey(old[l]) = HostKey(old[m]) => l = m
  BY DEF RoundsOK, n
<1>14. \A l, m \in 1..Len(ps) : HostKey(ps[l]) = HostKey(ps[m]) => l = m
  BY <1>6, <1>8, <1>12, <1>13
<1>15. \A l \in 1..n : HostKey(old[l]) \notin UsedHostPorts(others)
  BY DEF RoundsOK, n
<1>16. \A l \in 1..Len(ps) : HostKey(ps[l]) \notin UsedHostPorts(others)
  BY <1>6, <1>8, <1>12, <1>15
<1>17. ASSUME NEW j \in 1..(k + 1)
       PROVE  \E l \in 1..Len(ps) : /\ ContainerKey(ps[l]) = ContainerKey(specs[j])
                                     /\ specs[j].host \in {0, ps[l].host}
  <2>1. CASE j = k + 1
    <3>1. n + 1 \in 1..Len(ps)
      BY <1>8
    <3> QED
      BY <1>1, <1>6, <2>1, <3>1
  <2>2. CASE j \in 1..k
    <3>1. PICK l \in 1..n : /\ ContainerKey(old[l]) = ContainerKey(specs[j])
                            /\ specs[j].host \in {0, old[l].host}
      BY <2>2 DEF RoundsOK, n
    <3> QED
      BY <1>6, <1>8, <3>1
  <2> QED
    BY <2>1, <2>2
<1> QED
  BY <1>5, <1>7, <1>11, <1>14, <1>16, <1>17 DEF RoundsOK, t

(* The rounds keep it, whatever they do.                                   *)
LEMMA RoundKeeps ==
    ASSUME NEW others, NEW specs, NEW k \in Nat, NEW acc, RoundsOK(others, specs, k, acc),
           specs[k + 1] \in PortSpec, NEW current \in Seq(Binding)
    PROVE  RoundsOK(others, specs, k + 1, AssignOne(current, acc, specs[k + 1]))
<1> DEFINE p == specs[k + 1]
           t == AssignOne(current, acc, p)
<1>0. acc \in Acc
  BY DEF RoundsOK
<1>1. CASE acc.result # "ok" /\ t = acc
  BY <1>1 DEF RoundsOK
<1>2. ASSUME NEW e \in {"conflict", "exhausted"}, t = [acc EXCEPT !.result = e]
      PROVE  RoundsOK(others, specs, k + 1, t)
  <2>1. t.used = acc.used /\ t.ports = acc.ports /\ t.result # "ok" /\ t \in Acc
    BY <1>0, <1>2 DEF Acc
  <2> HIDE DEF t
  <2> QED
    BY <2>1 DEF RoundsOK
<1>3. ASSUME acc.result = "ok", NEW h \in Hosts, <<h, p.proto>> \notin acc.used, p.host \in {0, h},
             t = Taken(acc, p, h)
      PROVE  RoundsOK(others, specs, k + 1, t)
  <2> HIDE DEF t
  <2>1. RoundsOK(others, specs, k + 1, Taken(acc, p, h))
    BY <1>3, TakenKeeps
  <2> QED
    BY <1>3, <2>1
<1> QED
  BY <1>0, <1>1, <1>2, <1>3, RoundTakes

(* assignHostPorts, when it accepts the request: the bindings are typed,   *)
(* share no host port with one another or with the other deployments, and  *)
(* every spec of the request is bound.                                     *)
LEMMA AssignKeeps ==
    ASSUME NEW I, NEW others \in [I -> Seq(Binding)], NEW current \in Seq(Binding),
           NEW requested \in Seq(PortSpec)
    PROVE  LET a == AssignHostPorts(others, current, requested)
           IN  /\ RoundsOK(others, ParsePortSpecs(requested), Len(ParsePortSpecs(requested)), a)
               /\ ParsePortSpecs(requested) \in Seq(PortSpec)
<1> DEFINE specs == ParsePortSpecs(requested)
           n == Len(specs)
<1>0. specs \in Seq(PortSpec)
  BY ParseKeeps
<1> HIDE DEF specs
<1>1. n \in Nat /\ DOMAIN specs = 1..n /\ \A k \in 1..n : specs[k] \in PortSpec
  BY <1>0
<1> HIDE DEF n
<1>2. PICK g : /\ g[0] = Unassigned(others)
               /\ \A k \in 1..n : g[k] = AssignOne(current, g[k - 1], specs[k])
               /\ AssignHostPorts(others, current, requested) = g[n]
  <2>1. \E g : AssignedBy(g, others, current, requested)
    BY <1>0, AssignRounds DEF specs
  <2> QED
    BY <2>1 DEF AssignedBy, specs, n
<1> DEFINE S == {k \in Nat : k <= n => RoundsOK(others, specs, k, g[k])}
<1>3. 0 \in S
  <2> DEFINE u == UsedHostPorts(others)
             a == Unassigned(others)
  <2>1. ASSUME NEW i \in I, NEW l \in DOMAIN others[i]
        PROVE  HostKey(others[i][l]) \in Nat \X {"tcp", "udp"}
    <3>1. others[i][l] \in Binding
      BY <2>1
    <3>2. others[i][l].host \in Nat /\ others[i][l].proto \in {"tcp", "udp"}
      <4>1. others[i][l].host \in Hosts /\ others[i][l].proto \in {"tcp", "udp"}
        BY <3>1 DEF Binding, Hosts
      <4>2. \A h \in Hosts : h \in Nat
        BY PortsAssumption, RangeAssumption DEF Hosts
      <4> QED
        BY <4>1, <4>2
    <3> QED
      BY <3>2 DEF HostKey
  <2>2. u \in SUBSET (Nat \X {"tcp", "udp"})
    BY <2>1 DEF UsedHostPorts, ToSet
  <2> HIDE DEF u
  <2>3. a.used = u /\ a.ports = <<>> /\ a.result = "ok"
    BY DEF Unassigned, u
  <2>4. a \in Acc
    BY <2>2 DEF Unassigned, Acc, u
  <2> HIDE DEF a
  <2>5. 1..Len(a.ports) = {} /\ 1..0 = {}
    BY <2>3
  <2>6. RoundsOK(others, specs, 0, a)
    BY <2>3, <2>4, <2>5 DEF RoundsOK, u
  <2> QED
    BY <1>2, <2>6 DEF a
<1>4. ASSUME NEW k \in S PROVE k + 1 \in S
  <2> SUFFICES ASSUME k + 1 <= n PROVE RoundsOK(others, specs, k + 1, g[k + 1])
    OBVIOUS
  <2>1. k \in Nat /\ RoundsOK(others, specs, k, g[k]) /\ k + 1 \in 1..n /\ (k + 1) - 1 = k
    BY <1>1
  <2>2. g[k + 1] = AssignOne(current, g[k], specs[k + 1]) /\ specs[k + 1] \in PortSpec
    BY <1>1, <1>2, <2>1
  <2> QED
    BY <2>1, <2>2, RoundKeeps
<1> HIDE DEF S
<1>5. S = Nat
  <2>1. S \in SUBSET Nat
    BY DEF S
  <2> QED
    BY <1>3, <1>4, <2>1, SetInduction
<1>6. RoundsOK(others, specs, n, g[n])
  BY <1>1, <1>5 DEF S
<1> QED
  BY <1>0, <1>2, <1>6 DEF specs, n

-----------------------------------------------------------------------------
(* Sorted sequences.                                                       *)


(* A finite set that a relation orders has a sequence in that order.       *)
LEMMA SortExists ==
    ASSUME NEW T, NEW R, IsFiniteSet(T),
           \A x, y \in T : x # y => <<x, y>> \in R \/ <<y, x>> \in R,
           \A x, y, z \in T : <<x, y>> \in R /\ <<y, z>> \in R => <<x, z>> \in R
    PROVE  \E o \in SetToSeqs(T) : \A i, j \in 1..Cardinality(T) : i < j => <<o[i], o[j]>> \in R
<1> DEFINE Orders(o, U, n) == /\ o \in [1..n -> U]
                              /\ \A i, j \in 1..n : i # j => o[i] # o[j]
                              /\ \A i, j \in 1..n : i < j => <<o[i], o[j]>> \in R
           S == {n \in Nat : \A U \in SUBSET T : Cardinality(U) = n => \E o : Orders(o, U, n)}
<1>1. 0 \in S
  <2> SUFFICES ASSUME NEW U \in SUBSET T, Cardinality(U) = 0 PROVE \E o : Orders(o, U, 0)
    OBVIOUS
  <2>1. 1..0 = {} /\ [x \in {} |-> x] \in [1..0 -> U]
    OBVIOUS
  <2> QED
    BY <2>1
<1>2. ASSUME NEW n \in S PROVE n + 1 \in S
  <2> SUFFICES ASSUME NEW U \in SUBSET T, Cardinality(U) = n + 1
               PROVE  \E o : Orders(o, U, n + 1)
    OBVIOUS
  <2>0. n \in Nat
    OBVIOUS
  <2>1. IsFiniteSet(U)
    BY FS_Subset
  <2>2. PICK x : x \in U
    <3>1. Cardinality({}) = 0
      BY FS_EmptySet
    <3>2. n + 1 # 0
      BY <2>0
    <3>3. U # {}
      BY <3>1, <3>2
    <3> QED
      BY <3>3
  <2>3. Cardinality(U \ {x}) = n
    <3>1. Cardinality(U \ {x}) = Cardinality(U) - 1
      BY <2>1, <2>2, FS_RemoveElement
    <3> QED
      BY <2>0, <3>1
  <2>4. PICK f : Orders(f, U \ {x}, n)
    BY <2>3
  \* x goes before the first that is to come after it.
  <2> DEFINE later == {k \in 1..(n + 1) : k = n + 1 \/ <<x, f[k]>> \in R}
  <2>5. later \in SUBSET Nat /\ n + 1 \in later
    BY <2>0
  <2>6. PICK q \in later : \A k \in later : q <= k
    BY <2>5, Least
  <2>7. q \in 1..(n + 1) /\ (\A k \in 1..n : k < q => <<x, f[k]>> \notin R)
    BY <2>0, <2>6
  <2>8. q <= n => <<x, f[q]>> \in R
    BY <2>0, <2>6
  <2> HIDE DEF later
  <2> DEFINE o == [k \in 1..(n + 1) |-> IF k < q THEN f[k] ELSE IF k = q THEN x ELSE f[k - 1]]
  <2>9. \A k \in 1..n : f[k] \in U /\ f[k] # x /\ f[k] \in T
    BY <2>4
  <2>10. \A k \in 1..n : k < q => <<f[k], x>> \in R
    BY <2>2, <2>7, <2>9
  <2>11. \A k \in 1..n : k >= q => <<x, f[k]>> \in R
    <3> SUFFICES ASSUME NEW k \in 1..n, k >= q PROVE <<x, f[k]>> \in R
      OBVIOUS
    <3>1. q \in 1..n /\ <<x, f[q]>> \in R
      BY <2>0, <2>7, <2>8
    <3>2. CASE k = q
      BY <3>1, <3>2
    <3>3. CASE q < k
      BY <2>2, <2>4, <2>9, <3>1, <3>3
    <3> QED
      BY <2>7, <3>2, <3>3
  <2>12. o \in [1..(n + 1) -> U]
    BY <2>0, <2>2, <2>7, <2>9
  <2>13. \A i, j \in 1..n : i < j => <<f[i], f[j]>> \in R /\ f[i] # f[j]
    BY <2>4
  <2>14. ASSUME NEW i \in 1..(n + 1), NEW j \in 1..(n + 1), i < j
         PROVE  <<o[i], o[j]>> \in R /\ o[i] # o[j]
    <3>1. CASE j < q
      BY <2>0, <2>7, <2>13, <2>14, <3>1
    <3>2. CASE j = q
      BY <2>0, <2>7, <2>9, <2>10, <2>14, <3>2
    <3>3. CASE q < j /\ i < q
      BY <2>0, <2>7, <2>13, <2>14, <3>3
    <3>4. CASE q < j /\ i = q
      BY <2>0, <2>7, <2>9, <2>11, <2>14, <3>4
    <3>5. CASE q < j /\ q < i
      BY <2>0, <2>7, <2>13, <2>14, <3>5
    <3> QED
      BY <2>7, <3>1, <3>2, <3>3, <3>4, <3>5
  <2>15. Orders(o, U, n + 1)
    <3> HIDE DEF o
    <3>1. \A i, j \in 1..(n + 1) : i # j => i < j \/ j < i
      BY <2>0
    <3> QED
      BY <2>12, <2>14, <3>1
  <2> HIDE DEF o, Orders
  <2> QED
    BY <2>15
<1> HIDE DEF S
<1>3. S = Nat
  <2>1. S \in SUBSET Nat
    BY DEF S
  <2> QED
    BY <1>1, <1>2, <2>1, SetInduction
<1>4. Cardinality(T) \in Nat
  BY FS_CardinalityType
<1>5. PICK o : Orders(o, T, Cardinality(T))
  BY <1>3, <1>4 DEF S
<1>6. o \in SetToSeqs(T)
  BY <1>5 DEF SetToSeqs
<1> QED
  BY <1>5, <1>6

(* Such a sequence leaves nothing out.                                     *)
LEMMA SeqsCover ==
    ASSUME NEW T, IsFiniteSet(T), NEW o \in SetToSeqs(T), NEW x \in T
    PROVE  \E i \in 1..Cardinality(T) : o[i] = x
<1> DEFINE D == 1..Cardinality(T)
           rest == T \ {x}
<1>1. Cardinality(T) \in Nat
  BY FS_CardinalityType
<1>2. o \in [D -> T] /\ \A i, j \in D : i # j => o[i] # o[j]
  BY DEF SetToSeqs
<1> SUFFICES ASSUME \A i \in D : o[i] # x PROVE FALSE
  OBVIOUS
<1>3. IsFiniteSet(rest) /\ Cardinality(rest) = Cardinality(T) - 1
  BY FS_RemoveElement
<1>4. IsFiniteSet(D) /\ Cardinality(D) = Cardinality(T)
  BY <1>1, FS_Interval
<1>5. o \in [D -> rest]
  BY <1>2
<1>6. Cardinality(rest) < Cardinality(D)
  BY <1>1, <1>3, <1>4
<1> HIDE DEF D, rest
<1>7. \E i, j \in D : i # j /\ o[i] = o[j]
  BY <1>3, <1>4, <1>5, <1>6, FS_PigeonHole, Zenon
<1> QED
  BY <1>2, <1>7

-----------------------------------------------------------------------------
(* resolvedPorts.                                                          *)


(* The bindings that resolvedPorts takes, and the order it takes them in.  *)
FirstsOf(b) == {k \in DOMAIN b :
                  \A j \in 1..(k - 1) : ContainerKey(b[j]) # ContainerKey(b[k])}

KeyBefore(b, j, k) == KeyLess(b[j], b[k])

InOrder(b, o) == \A i, j \in 1..Len(o) : i < j => KeyBefore(b, o[i], o[j])

KeyOrder(b) == CHOOSE o \in SetToSeqs(FirstsOf(b)) : InOrder(b, o)

(* resolvedPorts in these terms.                                           *)
LEMMA ResolvedIs ==
    ASSUME NEW b
    PROVE  ResolvedPorts(b) = [n \in DOMAIN KeyOrder(b) |-> [b[KeyOrder(b)[n]] EXCEPT !.proto = "tcp"]]
BY Zenon DEF ResolvedPorts, KeyOrder, FirstsOf, InOrder, KeyBefore, IsSorted

(* A stored binding's fields.                                              *)
LEMMA BindingFields ==
    ASSUME NEW b \in Seq(Binding), NEW k \in DOMAIN b
    PROVE  /\ b[k] \in Binding /\ b[k].container \in Nat /\ b[k].container \in ContainerPorts
           /\ b[k].proto \in {"tcp", "udp"} /\ k \in Nat \ {0}
<1>1. b[k] \in Binding /\ k \in Nat \ {0}
  OBVIOUS
<1>2. b[k].container \in ContainerPorts /\ b[k].proto \in {"tcp", "udp"}
  BY <1>1 DEF Binding
<1> QED
  BY <1>1, <1>2, PortsAssumption

(* A port's digits are a number.                                           *)
LEMMA DigitsTyped == ASSUME NEW p \in Nat PROVE Digits(p) \in Nat
BY DEF Digits

(* resolvedPorts takes the first binding of each container port and        *)
(* protocol, every one of them, in the order of the keys.                  *)
LEMMA OrderOK ==
    ASSUME NEW b \in Seq(Binding)
    PROVE  LET N == Cardinality(FirstsOf(b))
               o == KeyOrder(b)
           IN  /\ N \in Nat /\ o \in [1..N -> FirstsOf(b)]
               /\ \A i, j \in 1..N : i < j => KeyBefore(b, o[i], o[j])
               /\ \A x \in FirstsOf(b) : \E i \in 1..N : o[i] = x
<1> DEFINE F == FirstsOf(b)
           N == Cardinality(F)
           R == {r \in F \X F : KeyBefore(b, r[1], r[2])}
<1>1. F \subseteq DOMAIN b /\ IsFiniteSet(F)
  <2>1. F \subseteq 1..Len(b) /\ Len(b) \in Nat
    BY DEF FirstsOf
  <2>2. IsFiniteSet(1..Len(b))
    BY <2>1, FS_Interval
  <2> QED
    BY <2>1, <2>2, FS_Subset
<1>2. N \in Nat
  BY <1>1, FS_CardinalityType
<1>3. ASSUME NEW x \in F, NEW y \in F, x < y PROVE ContainerKey(b[x]) # ContainerKey(b[y])
  <2>1. x \in 1..(y - 1)
    BY <1>1, <1>3
  <2> QED
    BY <2>1 DEF FirstsOf
<1>4. \A x, y \in F : x # y => ContainerKey(b[x]) # ContainerKey(b[y])
  <2>1. \A x, y \in F : x # y => x < y \/ y < x
    BY <1>1
  <2> QED
    BY <1>3, <2>1
<1>5. \A x \in F : /\ b[x].container \in Nat /\ b[x].proto \in {"tcp", "udp"}
                   /\ Digits(b[x].container) \in Nat
  BY <1>1, BindingFields, DigitsTyped
<1>6. \A x, y \in F : <<x, y>> \in R <=> KeyBefore(b, x, y)
  OBVIOUS
<1> HIDE DEF R
<1>7. \A x, y \in F : x # y => <<x, y>> \in R \/ <<y, x>> \in R
  <2> HIDE DEF F
  <2> TAKE x, y \in F
  <2> HAVE x # y
  <2>1. b[x].container # b[y].container \/ b[x].proto # b[y].proto
    BY <1>4 DEF ContainerKey
  <2>2. KeyBefore(b, x, y) \/ KeyBefore(b, y, x)
    BY <1>5, <2>1 DEF KeyBefore, KeyLess
  <2> QED
    BY <1>6, <2>2
<1>8. \A x, y, z \in F : <<x, y>> \in R /\ <<y, z>> \in R => <<x, z>> \in R
  <2> HIDE DEF F
  <2> TAKE x, y, z \in F
  <2> HAVE <<x, y>> \in R /\ <<y, z>> \in R
  <2>1. KeyBefore(b, x, y) /\ KeyBefore(b, y, z)
    BY <1>6
  <2>2. KeyBefore(b, x, z)
    BY <1>5, <2>1 DEF KeyBefore, KeyLess
  <2> QED
    BY <1>6, <2>2
<1> HIDE DEF F
<1>9. PICK s \in SetToSeqs(F) : \A i, j \in 1..N : i < j => <<s[i], s[j]>> \in R
  BY <1>1, <1>7, <1>8, SortExists
<1>10. ASSUME NEW t \in SetToSeqs(F) PROVE t \in [1..N -> F] /\ Len(t) = N
  <2>1. t \in [1..N -> F]
    BY DEF SetToSeqs
  <2> QED
    BY <1>2, <2>1
<1>11. InOrder(b, s)
  <2>1. \A i \in 1..N : s[i] \in F
    BY <1>10
  <2> QED
    BY <1>6, <1>9, <1>10, <2>1 DEF InOrder
<1>12. KeyOrder(b) \in SetToSeqs(F) /\ InOrder(b, KeyOrder(b))
  BY <1>11, Zenon DEF KeyOrder, F
<1>13. \A x \in F : \E i \in 1..N : KeyOrder(b)[i] = x
  BY <1>1, <1>12, SeqsCover
<1> QED
  BY <1>2, <1>10, <1>12, <1>13 DEF InOrder, F

-----------------------------------------------------------------------------
(* The upstreams.                                                          *)


(* What resolvedPorts writes down: binding o[n] of the ones it read, with  *)
(* its protocol lost.                                                      *)
LEMMA ResolvedFields ==
    ASSUME NEW b \in Seq(Binding)
    PROVE  LET N == Cardinality(FirstsOf(b))
               o == KeyOrder(b)
               r == ResolvedPorts(b)
           IN  /\ r \in Seq(Binding) /\ DOMAIN r = 1..N /\ N \in Nat
               /\ \A n \in 1..N : /\ o[n] \in FirstsOf(b) /\ o[n] \in DOMAIN b
                                  /\ r[n].container = b[o[n]].container
                                  /\ r[n].host = b[o[n]].host
                                  /\ r[n].proto = "tcp"
<1> DEFINE N == Cardinality(FirstsOf(b))
           o == KeyOrder(b)
           r == ResolvedPorts(b)
<1>1. N \in Nat /\ o \in [1..N -> FirstsOf(b)]
  BY OrderOK
<1>2. r = [n \in 1..N |-> [b[o[n]] EXCEPT !.proto = "tcp"]]
  BY <1>1, ResolvedIs
<1> HIDE DEF N, o, r
<1>3. ASSUME NEW n \in 1..N
      PROVE  /\ o[n] \in FirstsOf(b) /\ o[n] \in DOMAIN b
             /\ r[n] \in Binding
             /\ r[n].container = b[o[n]].container
             /\ r[n].host = b[o[n]].host
             /\ r[n].proto = "tcp"
  <2>1. o[n] \in FirstsOf(b) /\ o[n] \in DOMAIN b
    BY <1>1 DEF FirstsOf
  <2>2. b[o[n]] \in Binding
    BY <2>1
  <2>3. r[n] = [b[o[n]] EXCEPT !.proto = "tcp"]
    BY <1>2
  <2> QED
    BY <2>1, <2>2, <2>3 DEF Binding
<1>4. r \in Seq(Binding) /\ DOMAIN r = 1..N
  <2>1. DOMAIN r = 1..N /\ \A n \in 1..N : r[n] \in Binding
    BY <1>2, <1>3
  <2>2. r \in [1..N -> Binding]
    BY <1>2, <1>3
  <2> QED
    BY <1>1, <2>1, <2>2
<1> QED
  BY <1>1, <1>3, <1>4 DEF N, o, r

(* For a container port that has a tcp binding, the poller and the         *)
(* orchestrator derive the host port of the first of them.                 *)
LEMMA UpstreamIsFirst ==
    ASSUME NEW b \in Seq(Binding), NEW q \in ContainerPorts,
           \E k \in DOMAIN b : ContainerKey(b[k]) = <<q, "tcp">>
    PROVE  LET r == ResolvedPorts(b)
               poller == UpstreamFromPorts(b, q)
           IN  UpstreamFromRuntimePorts(r, q) = poller /\ UpstreamFromPorts(r, q) = poller
<1> DEFINE T == {k \in DOMAIN b : b[k].proto = "tcp"}
           M == {k \in T : b[k].container = q}
           f == Min(M)
           N == Cardinality(FirstsOf(b))
           o == KeyOrder(b)
           r == ResolvedPorts(b)
<1>0. q \in Nat /\ q > 0 /\ q # 0
  BY PortsAssumption
<1>1. M # {} /\ M \in SUBSET Nat
  <2>1. \A k \in DOMAIN b : k \in Nat
    OBVIOUS
  <2> QED
    BY <2>1 DEF ContainerKey
<1>2. f \in M /\ \A y \in M : f <= y
  <2> HIDE DEF M
  <2> QED
    BY <1>1, MinOf
<1>3. UpstreamFromPorts(b, q) = b[f].host
  BY <1>0, <1>1 DEF UpstreamFromPorts
<1> HIDE DEF f
<1>4. f \in DOMAIN b /\ f \in Nat /\ ContainerKey(b[f]) = <<q, "tcp">>
      /\ b[f].proto = "tcp" /\ b[f].container = q
  BY <1>1, <1>2 DEF ContainerKey
<1>5. f \in FirstsOf(b)
  <2> SUFFICES ASSUME NEW j \in 1..(f - 1), ContainerKey(b[j]) = ContainerKey(b[f])
               PROVE  FALSE
    BY <1>4 DEF FirstsOf
  <2>1. j \in DOMAIN b /\ j < f /\ j \in Nat
    BY <1>4
  <2>2. j \in M
    BY <1>4, <2>1 DEF ContainerKey
  <2> QED
    BY <1>2, <1>4, <2>1, <2>2
<1>6. /\ DOMAIN r = 1..N /\ N \in Nat
      /\ \A n \in 1..N : /\ o[n] \in FirstsOf(b) /\ o[n] \in DOMAIN b
                         /\ r[n].container = b[o[n]].container
                         /\ r[n].host = b[o[n]].host
                         /\ r[n].proto = "tcp"
  BY ResolvedFields
<1>7. \A i, j \in 1..N : i < j => KeyBefore(b, o[i], o[j])
  BY OrderOK
<1>8. PICK i \in 1..N : o[i] = f
  BY <1>5, OrderOK
<1> DEFINE U == {k \in DOMAIN r : r[k].container = q}
<1> HIDE DEF N, o, r, M
<1>9. i \in U
  BY <1>4, <1>6, <1>8
<1>10. ASSUME NEW k \in U PROVE i <= k
  <2> SUFFICES ASSUME k < i PROVE FALSE
    BY <1>6, <1>9
  <2>1. k \in 1..N /\ b[o[k]].container = q
    BY <1>6
  <2>2. KeyBefore(b, o[k], f)
    BY <1>7, <1>8, <2>1
  <2> QED
    BY <1>0, <1>4, <2>1, <2>2, DigitsTyped DEF KeyBefore, KeyLess
<1>11. Min(U) = i
  <2>1. U \in SUBSET Nat /\ U # {}
    BY <1>6, <1>9
  <2>2. Min(U) \in U /\ Min(U) <= i
    <3> HIDE DEF U
    <3> QED
      BY <1>9, <2>1, MinOf
  <2>3. i <= Min(U)
    <3> HIDE DEF U
    <3> QED
      BY <1>10, <2>2
  <2>4. i \in Nat
    OBVIOUS
  <2>5. Min(U) \in Nat
    BY <2>1, <2>2
  <2> QED
    BY <2>2, <2>3, <2>4, <2>5
<1>12. r[i].host = b[f].host
  BY <1>6, <1>8
<1>13. UpstreamFromRuntimePorts(r, q) = r[i].host
  <2>1. {k \in DOMAIN r : q = 0 \/ r[k].container = q} = U
    BY <1>0
  <2>2. U # {}
    BY <1>9
  <2> HIDE DEF U
  <2> QED
    BY <1>11, <2>1, <2>2 DEF UpstreamFromRuntimePorts
<1>14. UpstreamFromPorts(r, q) = r[i].host
  <2>1. {k \in {l \in DOMAIN r : r[l].proto = "tcp"} : r[k].container = q} = U
    BY <1>6
  <2>2. U # {}
    BY <1>9
  <2> HIDE DEF U
  <2> QED
    BY <1>0, <1>11, <2>1, <2>2 DEF UpstreamFromPorts
<1> QED
  BY <1>3, <1>12, <1>13, <1>14 DEF r

-----------------------------------------------------------------------------
(* The invariant.                                                          *)

Typed ==
    /\ ports \in [IDs -> Seq(Binding)]
    /\ saved \subseteq IDs
    /\ asked \in Seq(PortSpec)

PortsInv == Typed /\ BindingsDistinct /\ RequestBound

(* It holds at the start.                                                  *)
LEMMA InitPorts == Init => PortsInv
BY DEF Init, PortsInv, Typed, BindingsDistinct, RequestBound

(* A start stores typed bindings; nothing was saved with it.               *)
LEMMA StartPorts ==
    ASSUME PortsInv, NEW i \in IDs, Start(i)
    PROVE  PortsInv'
<1>1. ports[i] \in Seq(Binding) /\ ports \in [IDs -> Seq(Binding)]
  BY DEF PortsInv, Typed
<1>2. ResolvedPorts(ports[i]) \in Seq(Binding)
  BY <1>1, ResolvedFields
<1>3. Typed'
  BY <1>1, <1>2 DEF Start, Typed
<1>4. saved' = {}
  BY DEF Start
<1> QED
  BY <1>3, <1>4 DEF PortsInv, BindingsDistinct, RequestBound

(* A request is a sequence of specs.                                       *)
LEMMA RequestsTyped ==
    ASSUME NEW specs \in Requests
    PROVE  specs \in Seq(PortSpec)
<1>1. PICK n \in 0..MaxSpecs : specs \in [1..n -> PortSpec]
  BY DEF Requests
<1>2. n \in Nat
  OBVIOUS
<1> QED
  BY <1>1, <1>2

(* A save that is accepted stores what AssignKeeps says; a refused one     *)
(* changes nothing.                                                        *)
LEMMA SavePorts ==
    ASSUME PortsInv, NEW i \in IDs, NEW specs \in Requests, Save(i, specs)
    PROVE  PortsInv'
<1> DEFINE I == IDs \ {i}
           others == [j \in I |-> ports[j]]
           a == AssignHostPorts(others, ports[i], specs)
           parsed == ParsePortSpecs(specs)
<1>1. ports \in [IDs -> Seq(Binding)] /\ ports[i] \in Seq(Binding) /\ others \in [I -> Seq(Binding)]
  BY DEF PortsInv, Typed
<1>2. specs \in Seq(PortSpec)
  BY RequestsTyped
<1>3. RoundsOK(others, parsed, Len(parsed), a) /\ parsed \in Seq(PortSpec)
  <2> HIDE DEF others, I
  <2> QED
    BY <1>1, <1>2, AssignKeeps
<1>4. \A k \in 1..Len(specs) : \E l \in 1..Len(parsed) : parsed[l] = specs[k]
  BY <1>2, ParseKeeps
<1>5. CASE a.result # "ok"
  <2>1. UNCHANGED <<ports, saved, asked>>
    BY <1>5 DEF Save
  <2> QED
    BY <2>1 DEF PortsInv, Typed, BindingsDistinct, RequestBound
<1>6. CASE a.result = "ok"
  <2>1. ports' = [ports EXCEPT ![i] = a.ports] /\ saved' = {i} /\ asked' = specs
    BY <1>6 DEF Save
  <2>2. UsedHostPorts(others) = UNION {{HostKey(b) : b \in ToSet(others[j])} : j \in I}
    BY DEF UsedHostPorts
  <2>3. \A j \in I : \A l \in DOMAIN ports[j] : HostKey(ports[j][l]) \in UsedHostPorts(others)
    BY <2>2 DEF ToSet
  <2> HIDE DEF a, parsed, others
  <2>4. a.ports \in Seq(Binding)
    BY <1>3 DEF RoundsOK, Acc
  <2> DEFINE new == a.ports
  <2>5. /\ ports'[i] = new /\ DOMAIN new = 1..Len(new)
        /\ \A j \in I : ports'[j] = ports[j]
        /\ \A k \in 1..Len(new) : new[k] \in Binding
    BY <1>1, <2>1, <2>4
  <2>6. Typed'
    <3>1. ports' \in [IDs -> Seq(Binding)]
      BY <1>1, <2>1, <2>4
    <3> QED
      BY <1>2, <2>1, <3>1 DEF Typed
  <2>7. BindingsDistinct'
    <3> SUFFICES ASSUME NEW j \in IDs, NEW k \in DOMAIN new, NEW l \in DOMAIN (ports'[j]),
                        HostKey(new[k]) = HostKey(ports'[j][l])
                 PROVE  i = j /\ k = l
      BY <2>1, <2>5 DEF BindingsDistinct
    <3>1. CASE j = i
      BY <1>3, <2>5, <3>1 DEF RoundsOK
    <3>2. CASE j \in I
      <4>1. HostKey(new[k]) \in UsedHostPorts(others)
        BY <2>3, <2>5, <3>2
      <4> QED
        BY <1>3, <2>5, <4>1 DEF RoundsOK
    <3> QED
      BY <3>1, <3>2
  <2>8. RequestBound'
    <3> SUFFICES ASSUME NEW p \in ToSet(specs)
                 PROVE  \E b \in ToSet(new) : /\ b \in Binding
                                              /\ ContainerKey(b) = ContainerKey(p)
                                              /\ p.host \in {0, b.host}
      BY <2>1, <2>5 DEF RequestBound
    <3>1. PICK k \in 1..Len(specs) : specs[k] = p
      BY <1>2 DEF ToSet
    <3>2. PICK l \in 1..Len(parsed) : parsed[l] = p
      BY <1>4, <3>1
    <3>3. PICK m \in 1..Len(new) : /\ ContainerKey(new[m]) = ContainerKey(p)
                                   /\ p.host \in {0, new[m].host}
      BY <1>3, <1>6, <3>2 DEF RoundsOK
    <3> QED
      BY <2>5, <3>3 DEF ToSet
  <2> QED
    BY <2>6, <2>7, <2>8 DEF PortsInv
<1> QED
  BY <1>5, <1>6

(* The invariant holds in every state.                                     *)
THEOREM PortsInvariant == Spec => []PortsInv
<1>1. PortsInv /\ [SaveSome \/ StartSome]_vars => PortsInv'
  <2> SUFFICES ASSUME PortsInv, [SaveSome \/ StartSome]_vars PROVE PortsInv'
    OBVIOUS
  <2>1. CASE SaveSome
    BY <2>1, SavePorts DEF SaveSome
  <2>2. CASE StartSome
    BY <2>2, StartPorts DEF StartSome
  <2>3. CASE UNCHANGED vars
    BY <2>3 DEF vars, PortsInv, Typed, BindingsDistinct, RequestBound
  <2> QED
    BY <2>1, <2>2, <2>3
<1> QED
  BY InitPorts, <1>1, PTL DEF Spec

(* What assignHostPorts stores is free of conflicts.                       *)
THEOREM BindingsDistinctHolds == Spec => []BindingsDistinct
<1>1. PortsInv => BindingsDistinct
  BY DEF PortsInv
<1> QED
  BY <1>1, PortsInvariant, PTL

(* assignHostPorts leaves no spec of an accepted request out.              *)
THEOREM RequestBoundHolds == Spec => []RequestBound
<1>1. PortsInv => RequestBound
  BY DEF PortsInv
<1> QED
  BY <1>1, PortsInvariant, PTL

(* The proxy's poller and the orchestrator agree on the upstream.          *)
THEOREM UpstreamsAgreeHolds == Spec => []UpstreamsAgree
<1>1. PortsInv => UpstreamsAgree
  <2> SUFFICES ASSUME PortsInv, NEW i \in IDs, NEW q \in ContainerPorts,
                      \E b \in ToSet(ports[i]) : ContainerKey(b) = <<q, "tcp">>
               PROVE  LET runtime == ResolvedPorts(ports[i])
                          poller  == UpstreamFromPorts(ports[i], q)
                      IN  /\ UpstreamFromRuntimePorts(runtime, q) = poller
                          /\ UpstreamFromPorts(runtime, q) = poller
    BY DEF UpstreamsAgree
  <2>1. ports[i] \in Seq(Binding)
    BY DEF PortsInv, Typed
  <2>2. \E k \in DOMAIN ports[i] : ContainerKey(ports[i][k]) = <<q, "tcp">>
    BY DEF ToSet
  <2> QED
    BY <2>1, <2>2, UpstreamIsFirst
<1> QED
  BY <1>1, PortsInvariant, PTL

=============================================================================
