------------------------- MODULE ConfigApplyProofs -------------------------
(***************************************************************************)
(* What `lotsen config apply` does and leaves undone, for any files, any   *)
(* state of the stores and any number of writes of other processes.        *)
(***************************************************************************)
EXTENDS ConfigApply, TLAPS

PCs == {"idle", "deployments", "registries", "host", "list", "entries", "run"}

Plan == [deployments : Partial(Names, Changes), registries : Partial(Prefixes, Changes),
         host : Changes, conflicts : SUBSET (Names \X Names)]

Listed == [id : IDs, status : {"deploying", "settled"}]

Keys == ({"deployment"} \X Names) \cup ({"registry"} \X Prefixes) \cup {<<"host", "host">>}

ItemType == [kind : {"deployment"}, key : Names, action : Actions,
             fields : SUBSET {"spec", "domain", "username", "host"}]
       \cup [kind : {"registry"}, key : Prefixes, action : Actions,
             fields : SUBSET {"spec", "domain", "username", "host"}]
       \cup [kind : {"host"}, key : {"host"}, action : Actions,
             fields : SUBSET {"spec", "domain", "username", "host"}]

CliType ==
    [cmd : {"none", "plan", "apply"}, pc : PCs, doc : Documents \cup {None},
     liveDeps : Partial(Names, Desired) \cup {None}, liveRegs : Partial(Prefixes, Users) \cup {None},
     plan : Plan \cup {None}, approved : Plan \cup {None},
     byName : Partial(Names, Listed) \cup {<<>>}, idByPrefix : Partial(Prefixes, RegIDs) \cup {<<>>},
     todo : SUBSET ItemType, failed : SUBSET Keys]

\* Execute is under way: the plan is approved.
Applying == cli.pc \in {"list", "entries", "run"}

\* Execute is under way, or has finished and its result is known.
Executed == Applying \/ (cli.pc = "idle" /\ cli.doc # None)

\* What the command has in hand at each stage.
CliOK ==
    /\ cli \in CliType
    /\ cli.pc # "idle" => cli.doc # None /\ cli.cmd # "none"
    /\ cli.pc = "idle" => cli.cmd = "none"
    /\ cli.pc # "idle" /\ cli.cmd = "apply" => cli.approved \in Plan
    /\ cli.pc \in {"registries", "host"} => cli.liveDeps \in Partial(Names, Desired)
    /\ cli.pc = "host" => cli.liveRegs \in Partial(Prefixes, Users)
    /\ cli.pc \in {"entries", "run"} => cli.byName \in Partial(Names, Listed)
    /\ cli.pc = "run" => cli.idByPrefix \in Partial(Prefixes, RegIDs)
    /\ cli.todo # {} => cli.pc = "run"
    /\ ~Executed => cli.failed = {}

Typed ==
    /\ deployments \in [IDs -> Deployment \cup {None}]
    /\ registries \in [RegIDs -> Registry \cup {None}]
    /\ host \in Hosts
    /\ reportedOn \in [IDs -> StoredSpecs \cup {None}]
    /\ DOMAIN pass \subseteq IDs /\ \A i \in DOMAIN pass : pass[i] \in StoredSpecs
    /\ config \in Documents
    /\ planFile \in Plan \cup {None}
    /\ touched \subseteq IDs \cup RegIDs \cup {"host"}
    /\ writes \in 0..MaxWrites
    /\ commands \in 0..MaxCommands
    /\ CliOK

\* The store's registries.
RegistriesUnique ==
    \A r \in StoredRegs :
        /\ NormalOf[registries[r].prefix] = registries[r].prefix
        /\ \A s \in StoredRegs : registries[s].prefix = registries[r].prefix => r = s

\* The actions that are still to come.
Pending ==
    IF cli.pc = "run" THEN cli.todo
    ELSE IF cli.pc \in {"list", "entries"} THEN Items(cli.plan) ELSE {}

KeyOf(item) == <<item.kind, item.key>>

\* What is not done: what failed and what is still to come.
Left == cli.failed \cup {KeyOf(item) : item \in Pending}

\* The plan is the approved one, made for the file, and every action that
\* is to come is one of it.
PlanFor(changes, desired) ==
    \A k \in DOMAIN changes :
        /\ changes[k].action \in {"create", "update"} => k \in DOMAIN desired
        /\ changes[k].action = "delete" => k \notin DOMAIN desired

PlanApproved ==
    Applying =>
        /\ cli.cmd = "apply" /\ cli.plan \in Plan /\ cli.plan = cli.approved
        /\ PlanFor(cli.plan.deployments, cli.doc.deployments)
        /\ PlanFor(cli.plan.registries, cli.doc.registries)
        /\ cli.plan.host.action \in {"noop", "update"}
        /\ cli.plan.host.action = "update" => cli.doc.host # None
        /\ Pending \subseteq Items(cli.plan)
        /\ \A item \in Pending : KeyOf(item) \notin cli.failed

\* While nobody else writes a deployment, the export still describes it.
ExportCurrent ==
    (cli.pc \in {"registries", "host"} /\ cli.cmd = "apply") =>
        /\ \A i \in Stored \ touched :
              /\ deployments[i].name \in DOMAIN cli.liveDeps
              /\ cli.liveDeps[deployments[i].name] = ExportedDeployment(deployments[i])
        /\ touched = {} => \A n \in DOMAIN cli.liveDeps : \E i \in Stored : deployments[i].name = n

RegExportCurrent ==
    (cli.pc = "host" /\ cli.cmd = "apply" /\ touched = {}) =>
        /\ \A r \in StoredRegs :
              /\ registries[r].prefix \in DOMAIN cli.liveRegs
              /\ cli.liveRegs[registries[r].prefix] = registries[r].user
        /\ \A p \in DOMAIN cli.liveRegs : \E r \in StoredRegs : registries[r].prefix = p

\* The export has only succeeded if names are unique, and they stay so.
NamesUnique ==
    (cli.cmd # "plan" /\ (Executed \/ cli.pc \in {"registries", "host"}) /\ touched = {}) =>
        \A i, j \in Stored : deployments[i].name = deployments[j].name => i = j

\* An update that asks for no redeploy does not change the spec.
SpecKept ==
    Applying =>
        \A i \in Stored \ touched : \A item \in Pending :
            (/\ item.kind = "deployment" /\ item.key = deployments[i].name
             /\ item.action = "update" /\ "spec" \notin item.fields)
                => deployments[i].spec = cli.doc.deployments[item.key].spec

\* Execute's listings hold for what nobody else has written.
ListingCurrent ==
    cli.pc \in {"entries", "run"} =>
        \A n \in DOMAIN cli.byName :
            LET i == cli.byName[n].id
            IN  (i \in Stored \ touched) =>
                    /\ deployments[i].name = n
                    /\ (/\ cli.byName[n].status = "settled"
                        /\ \E item \in Pending : KeyOf(item) = <<"deployment", n>>)
                           => deployments[i].status = "settled"

RegListingCurrent ==
    cli.pc = "run" =>
        \A p \in DOMAIN cli.idByPrefix :
            cli.idByPrefix[p] \in StoredRegs \ touched => registries[cli.idByPrefix[p]].prefix = p

\* What the file says of a resource is what the store has.
DeploymentSettled(n) ==
    /\ n \in DOMAIN cli.doc.deployments <=> \E i \in Stored : deployments[i].name = n
    /\ \A i \in Stored : (deployments[i].name = n /\ n \in DOMAIN cli.doc.deployments)
           => ExportedDeployment(deployments[i]) = cli.doc.deployments[n]

RegistrySettled(p) ==
    /\ p \in DOMAIN cli.doc.registries <=> \E r \in StoredRegs : registries[r].prefix = p
    /\ \A r \in StoredRegs : (registries[r].prefix = p /\ p \in DOMAIN cli.doc.registries)
           => registries[r].user = cli.doc.registries[p]

\* What the store has of a deployment is what it keeps of the file's.
DeploymentKept(n) ==
    /\ n \in DOMAIN cli.doc.deployments <=> \E i \in Stored : deployments[i].name = n
    /\ \A i \in Stored : (deployments[i].name = n /\ n \in DOMAIN cli.doc.deployments)
           => /\ deployments[i].spec = KeptOf[cli.doc.deployments[n].spec]
              /\ deployments[i].domain = cli.doc.deployments[n].domain

HostSettled == cli.doc.host = None \/ cli.doc.host = host

\* While nobody else writes, exactly the actions that are left are those
\* whose resources are not as the file says, but for what the store does not
\* keep of a deployment of the file.
DeploymentsLeft ==
    (Executed /\ touched = {}) =>
        \A n \in Names : /\ <<"deployment", n>> \notin Left => DeploymentKept(n)
                         /\ DeploymentSettled(n) => <<"deployment", n>> \notin Left

RegistriesLeft ==
    (Executed /\ touched = {} /\ InNormalForm(cli.doc)) =>
        \A p \in Prefixes : RegistrySettled(p) <=> <<"registry", p>> \notin Left

HostLeft ==
    (Executed /\ touched = {}) => (HostSettled <=> <<"host", "host">> \notin Left)

Inv ==
    /\ Typed
    /\ RegistriesUnique
    /\ PlanApproved
    /\ ExportCurrent /\ RegExportCurrent
    /\ NamesUnique
    /\ SpecKept
    /\ ListingCurrent /\ RegListingCurrent
    /\ DeploymentsLeft /\ RegistriesLeft /\ HostLeft

-----------------------------------------------------------------------------
(* The operators.                                                          *)

\* A partial function of a type is a function of it on its own domain.
LEMMA PartialElim ==
    ASSUME NEW S, NEW T, NEW f \in Partial(S, T)
    PROVE  DOMAIN f \subseteq S /\ f \in [DOMAIN f -> T]
  BY DEF Partial

\* A function on a part of S is a partial function on S.
LEMMA PartialIntro ==
    ASSUME NEW S, NEW T, NEW D \in SUBSET S, NEW f \in [D -> T]
    PROVE  f \in Partial(S, T)
  BY DEF Partial

\* A file that the operator may write has the parts of a file.
LEMMA DocumentParts ==
    ASSUME NEW doc \in Documents
    PROVE  /\ doc.deployments \in Partial(Names, Desired)
           /\ doc.registries \in Partial(Prefixes, Users)
           /\ doc.host \in Hosts \cup {None}
  BY DocumentsAssumption DEF Document

\* An action on a resource is a change of the type.
LEMMA ActionOnType ==
    ASSUME NEW k, NEW desired, NEW live,
           NEW fields \in SUBSET {"spec", "domain", "username", "host"}
    PROVE  ActionOn(k, desired, live, fields) \in Changes
  BY DEF ActionOn, Change, Changes, Actions

\* What the planner says of a resource: where it is, and whether it differs.
LEMMA ActionOnCases ==
    ASSUME NEW k, NEW desired, NEW live, NEW fields,
           k \in DOMAIN desired \cup DOMAIN live
    PROVE  LET a == ActionOn(k, desired, live, fields) IN
           /\ a.action = "create" <=> k \notin DOMAIN live
           /\ a.action = "delete" <=> k \in DOMAIN live /\ k \notin DOMAIN desired
           /\ a.action = "update" <=> k \in DOMAIN live /\ k \in DOMAIN desired /\ fields # {}
           /\ a.action = "noop" <=> k \in DOMAIN live /\ k \in DOMAIN desired /\ fields = {}
           /\ k \in DOMAIN live /\ k \in DOMAIN desired => a.fields = fields
  BY DEF ActionOn, Change

\* Build returns plans, for any file and any live state of the right types.
LEMMA BuildType ==
    ASSUME NEW doc \in Documents, NEW deps \in Partial(Names, Desired),
           NEW regs \in Partial(Prefixes, Users), NEW h,
           NEW plan \in Build(doc, deps, regs, h)
    PROVE  plan \in Plan
PROOF
  <1>1. PICK owner \in DomainOwners(deps) :
            plan = [deployments |-> PlanningDeployments(doc.deployments, deps),
                    registries  |-> PlanningRegistries(doc.registries, regs),
                    host        |-> PlanningHost(doc.host, h),
                    conflicts   |-> DeploymentConflicts(doc.deployments, owner)]
    BY DEF Build
  <1>2. DOMAIN doc.deployments \subseteq Names /\ DOMAIN doc.registries \subseteq Prefixes
    BY DocumentParts, PartialElim
  <1>3. DOMAIN deps \subseteq Names /\ DOMAIN regs \subseteq Prefixes
    BY PartialElim
  <1>4. PlanningDeployments(doc.deployments, deps) \in Partial(Names, Changes)
    <2>1. \A n : DiffDeployment(deps[n], doc.deployments[n]) \in SUBSET {"spec", "domain", "username", "host"}
      BY DEF DiffDeployment
    <2>2. PlanningDeployments(doc.deployments, deps)
              \in [DOMAIN doc.deployments \cup DOMAIN deps -> Changes]
      BY <2>1, ActionOnType DEF PlanningDeployments
    <2> QED
      BY <2>2, <1>2, <1>3, PartialIntro
  <1>5. PlanningRegistries(doc.registries, regs) \in Partial(Prefixes, Changes)
    <2>1. \A p : DiffRegistry(regs[p], doc.registries[p]) \in SUBSET {"spec", "domain", "username", "host"}
      BY DEF DiffRegistry
    <2>2. PlanningRegistries(doc.registries, regs)
              \in [DOMAIN doc.registries \cup DOMAIN regs -> Changes]
      BY <2>1, ActionOnType DEF PlanningRegistries
    <2> QED
      BY <2>2, <1>2, <1>3, PartialIntro
  <1>6. PlanningHost(doc.host, h) \in Changes
    BY DEF PlanningHost, DiffHost, Change, Changes, Actions
  <1>7. DeploymentConflicts(doc.deployments, owner) \in SUBSET (Names \X Names)
    BY <1>2, <1>3 DEF DeploymentConflicts
  <1> QED
    BY <1>1, <1>4, <1>5, <1>6, <1>7 DEF Plan

\* A plan as the checked type invariant states it.
LEMMA PlanIsPlan ==
    ASSUME NEW plan \in Plan
    PROVE  IsPlan(plan)
  BY PartialElim DEF Plan, IsPlan

\* The plan that Build makes is a plan for the file.
LEMMA BuildFor ==
    ASSUME NEW doc, NEW deps, NEW regs, NEW h, NEW plan \in Build(doc, deps, regs, h)
    PROVE  /\ PlanFor(plan.deployments, doc.deployments)
           /\ PlanFor(plan.registries, doc.registries)
           /\ plan.host.action \in {"noop", "update"}
           /\ plan.host.action = "update" <=> doc.host # None /\ doc.host # h
PROOF
  <1>1. /\ plan.deployments = PlanningDeployments(doc.deployments, deps)
        /\ plan.registries = PlanningRegistries(doc.registries, regs)
        /\ plan.host = PlanningHost(doc.host, h)
    BY DEF Build
  <1>2. PlanFor(PlanningDeployments(doc.deployments, deps), doc.deployments)
    BY ActionOnCases DEF PlanFor, PlanningDeployments
  <1>3. PlanFor(PlanningRegistries(doc.registries, regs), doc.registries)
    BY ActionOnCases DEF PlanFor, PlanningRegistries
  <1>4. /\ PlanningHost(doc.host, h).action \in {"noop", "update"}
        /\ PlanningHost(doc.host, h).action = "update" <=> doc.host # None /\ doc.host # h
    BY DEF PlanningHost, DiffHost, EqualHost, Change
  <1> QED
    BY <1>1, <1>2, <1>3, <1>4

\* An item is an action of its plan that does something.
LEMMA ItemsElim ==
    ASSUME NEW plan, NEW item \in Items(plan)
    PROVE  /\ item.action # "noop"
           /\ \/ /\ item.kind = "deployment" /\ item.key \in DOMAIN plan.deployments
                 /\ item = Item("deployment", item.key, plan.deployments[item.key])
              \/ /\ item.kind = "registry" /\ item.key \in DOMAIN plan.registries
                 /\ item = Item("registry", item.key, plan.registries[item.key])
              \/ /\ item.kind = "host" /\ item.key = "host"
                 /\ item = Item("host", "host", plan.host)
  BY DEF Items, Item

\* Every resource has at most one action in a plan.
LEMMA ItemsUnique ==
    ASSUME NEW plan, NEW a \in Items(plan), NEW b \in Items(plan), KeyOf(a) = KeyOf(b)
    PROVE  a = b
  BY ItemsElim DEF KeyOf

\* Items have the type of an item, and keys that of a key.
LEMMA ItemsType ==
    ASSUME NEW plan \in Plan
    PROVE  /\ Items(plan) \subseteq ItemType
           /\ \A item \in Items(plan) : KeyOf(item) \in Keys
PROOF
  <1>1. /\ DOMAIN plan.deployments \subseteq Names
        /\ \A n \in DOMAIN plan.deployments : plan.deployments[n] \in Changes
    BY PartialElim DEF Plan
  <1>2. /\ DOMAIN plan.registries \subseteq Prefixes
        /\ \A p \in DOMAIN plan.registries : plan.registries[p] \in Changes
    BY PartialElim DEF Plan
  <1>3. plan.host \in Changes
    BY DEF Plan
  <1>4. SUFFICES ASSUME NEW item \in Items(plan)
                 PROVE  item \in ItemType /\ KeyOf(item) \in Keys
    OBVIOUS
  <1>5. CASE /\ item.kind = "deployment" /\ item.key \in DOMAIN plan.deployments
             /\ item = Item("deployment", item.key, plan.deployments[item.key])
    BY <1>1, <1>5 DEF Item, ItemType, KeyOf, Keys, Changes
  <1>6. CASE /\ item.kind = "registry" /\ item.key \in DOMAIN plan.registries
             /\ item = Item("registry", item.key, plan.registries[item.key])
    BY <1>2, <1>6 DEF Item, ItemType, KeyOf, Keys, Changes
  <1>7. CASE /\ item.kind = "host" /\ item.key = "host"
             /\ item = Item("host", "host", plan.host)
    BY <1>3, <1>7 DEF Item, ItemType, KeyOf, Keys, Changes
  <1> QED
    BY <1>5, <1>6, <1>7, ItemsElim

\* The keys of a plan's items: the resources it does something to.
LEMMA ItemKeys ==
    ASSUME NEW plan
    PROVE  /\ \A n : <<"deployment", n>> \in {KeyOf(item) : item \in Items(plan)}
                        <=> n \in DOMAIN plan.deployments /\ plan.deployments[n].action # "noop"
           /\ \A p : <<"registry", p>> \in {KeyOf(item) : item \in Items(plan)}
                        <=> p \in DOMAIN plan.registries /\ plan.registries[p].action # "noop"
           /\ <<"host", "host">> \in {KeyOf(item) : item \in Items(plan)}
                        <=> plan.host.action # "noop"
PROOF
  <1>1. ASSUME NEW n
        PROVE  <<"deployment", n>> \in {KeyOf(item) : item \in Items(plan)}
                  <=> n \in DOMAIN plan.deployments /\ plan.deployments[n].action # "noop"
    <2>1. ASSUME n \in DOMAIN plan.deployments, plan.deployments[n].action # "noop"
          PROVE  /\ Item("deployment", n, plan.deployments[n]) \in Items(plan)
                 /\ KeyOf(Item("deployment", n, plan.deployments[n])) = <<"deployment", n>>
      BY <2>1 DEF Items, Item, KeyOf
    <2>2. ASSUME NEW item \in Items(plan), KeyOf(item) = <<"deployment", n>>
          PROVE  n \in DOMAIN plan.deployments /\ plan.deployments[n].action # "noop"
      BY <2>2, ItemsElim DEF KeyOf, Item
    <2> QED
      BY <2>1, <2>2
  <1>2. ASSUME NEW p
        PROVE  <<"registry", p>> \in {KeyOf(item) : item \in Items(plan)}
                  <=> p \in DOMAIN plan.registries /\ plan.registries[p].action # "noop"
    <2>1. ASSUME p \in DOMAIN plan.registries, plan.registries[p].action # "noop"
          PROVE  /\ Item("registry", p, plan.registries[p]) \in Items(plan)
                 /\ KeyOf(Item("registry", p, plan.registries[p])) = <<"registry", p>>
      BY <2>1 DEF Items, Item, KeyOf
    <2>2. ASSUME NEW item \in Items(plan), KeyOf(item) = <<"registry", p>>
          PROVE  p \in DOMAIN plan.registries /\ plan.registries[p].action # "noop"
      BY <2>2, ItemsElim DEF KeyOf, Item
    <2> QED
      BY <2>1, <2>2
  <1>3. <<"host", "host">> \in {KeyOf(item) : item \in Items(plan)} <=> plan.host.action # "noop"
    <2>1. ASSUME plan.host.action # "noop"
          PROVE  /\ Item("host", "host", plan.host) \in Items(plan)
                 /\ KeyOf(Item("host", "host", plan.host)) = <<"host", "host">>
      BY <2>1 DEF Items, Item, KeyOf
    <2>2. ASSUME NEW item \in Items(plan), KeyOf(item) = <<"host", "host">>
          PROVE  plan.host.action # "noop"
      BY <2>2, ItemsElim DEF KeyOf, Item
    <2> QED
      BY <2>1, <2>2
  <1> QED
    BY <1>1, <1>2, <1>3

-----------------------------------------------------------------------------
(* What a plan asks for, when the export describes the store.              *)

\* An export that describes the deployments of the store.
DescribesDeployments(live) ==
    /\ \A i \in Stored : /\ deployments[i].name \in DOMAIN live
                         /\ live[deployments[i].name] = ExportedDeployment(deployments[i])
    /\ \A n \in DOMAIN live : \E i \in Stored : deployments[i].name = n

DescribesRegistries(live) ==
    /\ \A r \in StoredRegs : /\ registries[r].prefix \in DOMAIN live
                             /\ live[registries[r].prefix] = registries[r].user
    /\ \A p \in DOMAIN live : \E r \in StoredRegs : registries[r].prefix = p

\* Fields that do not differ are equal.
LEMMA NoDifference ==
    ASSUME NEW live \in Desired, NEW desired \in Desired
    PROVE  /\ DiffDeployment(live, desired) = {} <=> live = desired
           /\ "spec" \notin DiffDeployment(live, desired) => live.spec = desired.spec
PROOF
  <1>1. live = [spec |-> live.spec, domain |-> live.domain]
        /\ desired = [spec |-> desired.spec, domain |-> desired.domain]
    BY DEF Desired
  <1>2. /\ "spec" \in DiffDeployment(live, desired) <=> live.spec # desired.spec
        /\ "domain" \in DiffDeployment(live, desired) <=> live.domain # desired.domain
        /\ DiffDeployment(live, desired) \subseteq {"spec", "domain"}
    BY DEF DiffDeployment, EqualField
  <1> QED
    BY <1>1, <1>2

\* The planner asks for nothing on exactly the deployments that are as the
\* file says.
LEMMA BuildDeploymentKeys ==
    ASSUME NEW live \in Partial(Names, Desired), DescribesDeployments(live),
           cli.doc \in Documents, NEW regs, NEW h,
           NEW plan \in Build(cli.doc, live, regs, h), NEW n
    PROVE  DeploymentSettled(n) <=> <<"deployment", n>> \notin {KeyOf(item) : item \in Items(plan)}
PROOF
  <1> DEFINE desired == cli.doc.deployments
  <1>1. plan.deployments = PlanningDeployments(desired, live)
    BY DEF Build
  <1>2. /\ \A m \in DOMAIN desired : desired[m] \in Desired
        /\ \A m \in DOMAIN live : live[m] \in Desired
    BY DocumentParts, PartialElim
  <1>3. n \in DOMAIN live <=> \E i \in Stored : deployments[i].name = n
    BY DEF DescribesDeployments
  <1>4. \A i \in Stored : deployments[i].name = n => live[n] = ExportedDeployment(deployments[i])
    BY DEF DescribesDeployments
  <1>5. DeploymentSettled(n) <=>
          /\ n \in DOMAIN desired <=> n \in DOMAIN live
          /\ n \in DOMAIN live /\ n \in DOMAIN desired => live[n] = desired[n]
    BY <1>3, <1>4 DEF DeploymentSettled
  <1>6. <<"deployment", n>> \in {KeyOf(item) : item \in Items(plan)}
          <=> n \in DOMAIN plan.deployments /\ plan.deployments[n].action # "noop"
    BY ItemKeys
  <1>7. /\ DOMAIN plan.deployments = DOMAIN desired \cup DOMAIN live
        /\ n \in DOMAIN desired \cup DOMAIN live =>
             plan.deployments[n] = ActionOn(n, desired, live, DiffDeployment(live[n], desired[n]))
    BY <1>1 DEF PlanningDeployments
  <1>8. n \in DOMAIN plan.deployments =>
          (plan.deployments[n].action = "noop" <=>
             n \in DOMAIN live /\ n \in DOMAIN desired /\ DiffDeployment(live[n], desired[n]) = {})
    BY <1>7, ActionOnCases
  <1>9. n \in DOMAIN live /\ n \in DOMAIN desired =>
          (DiffDeployment(live[n], desired[n]) = {} <=> live[n] = desired[n])
    BY <1>2, NoDifference
  <1> HIDE DEF desired
  <1> QED
    BY <1>5, <1>6, <1>7, <1>8, <1>9

\* The same for the registries.
LEMMA BuildRegistryKeys ==
    ASSUME NEW live, DescribesRegistries(live), cli.doc \in Documents, NEW deps, NEW h,
           NEW plan \in Build(cli.doc, deps, live, h), NEW p
    PROVE  RegistrySettled(p) <=> <<"registry", p>> \notin {KeyOf(item) : item \in Items(plan)}
PROOF
  <1> DEFINE desired == cli.doc.registries
  <1>1. plan.registries = PlanningRegistries(desired, live)
    BY DEF Build
  <1>3. p \in DOMAIN live <=> \E r \in StoredRegs : registries[r].prefix = p
    BY DEF DescribesRegistries
  <1>4. \A r \in StoredRegs : registries[r].prefix = p => live[p] = registries[r].user
    BY DEF DescribesRegistries
  <1>5. RegistrySettled(p) <=>
          /\ p \in DOMAIN desired <=> p \in DOMAIN live
          /\ p \in DOMAIN live /\ p \in DOMAIN desired => live[p] = desired[p]
    BY <1>3, <1>4 DEF RegistrySettled
  <1>6. <<"registry", p>> \in {KeyOf(item) : item \in Items(plan)}
          <=> p \in DOMAIN plan.registries /\ plan.registries[p].action # "noop"
    BY ItemKeys
  <1>7. /\ DOMAIN plan.registries = DOMAIN desired \cup DOMAIN live
        /\ p \in DOMAIN desired \cup DOMAIN live =>
             plan.registries[p] = ActionOn(p, desired, live, DiffRegistry(live[p], desired[p]))
    BY <1>1 DEF PlanningRegistries
  <1>8. p \in DOMAIN plan.registries =>
          (plan.registries[p].action = "noop" <=>
             p \in DOMAIN live /\ p \in DOMAIN desired /\ DiffRegistry(live[p], desired[p]) = {})
    BY <1>7, ActionOnCases
  <1>9. DiffRegistry(live[p], desired[p]) = {} <=> live[p] = desired[p]
    BY DEF DiffRegistry
  <1> HIDE DEF desired
  <1> QED
    BY <1>5, <1>6, <1>7, <1>8, <1>9

\* The same for the host.
LEMMA BuildHostKey ==
    ASSUME NEW deps, NEW regs, NEW plan \in Build(cli.doc, deps, regs, host)
    PROVE  HostSettled <=> <<"host", "host">> \notin {KeyOf(item) : item \in Items(plan)}
  BY BuildFor, ItemKeys DEF HostSettled

\* An update that names no spec comes from equal specs.
LEMMA BuildKeepsSpec ==
    ASSUME NEW live \in Partial(Names, Desired), NEW doc \in Documents, NEW regs, NEW h,
           NEW plan \in Build(doc, live, regs, h), NEW item \in Items(plan),
           item.kind = "deployment", item.action = "update", "spec" \notin item.fields
    PROVE  item.key \in DOMAIN live => live[item.key].spec = doc.deployments[item.key].spec
PROOF
  <1> DEFINE desired == doc.deployments
             n == item.key
  <1>1. plan.deployments = PlanningDeployments(desired, live)
    BY DEF Build
  <1>2. n \in DOMAIN plan.deployments /\ item = Item("deployment", n, plan.deployments[n])
    BY ItemsElim
  <1>3. plan.deployments[n].action = "update" /\ "spec" \notin plan.deployments[n].fields
    BY <1>2 DEF Item
  <1>4. n \in DOMAIN desired \cup DOMAIN live
        /\ plan.deployments[n] = ActionOn(n, desired, live, DiffDeployment(live[n], desired[n]))
    BY <1>1, <1>2 DEF PlanningDeployments
  <1>5. /\ n \in DOMAIN live /\ n \in DOMAIN desired
        /\ plan.deployments[n].fields = DiffDeployment(live[n], desired[n])
    BY <1>3, <1>4, ActionOnCases
  <1>6. live[n] \in Desired /\ desired[n] \in Desired
    BY <1>5, DocumentParts, PartialElim
  <1> QED
    BY <1>3, <1>5, <1>6, NoDifference

\* The export of a store with unique names describes its deployments.
LEMMA ExportDescribes ==
    ASSUME deployments \in [IDs -> Deployment \cup {None}],
           \A i, j \in Stored : deployments[i].name = deployments[j].name => i = j
    PROVE  /\ ExportedDeployments \in Partial(Names, Desired)
           /\ DescribesDeployments(ExportedDeployments)
PROOF
  <1>1. \A i \in Stored : deployments[i] \in Deployment /\ i \in IDs
    BY DEF Stored
  <1>2. \A i \in Stored : IDOfName(deployments[i].name) = i
    BY DEF IDOfName
  <1>3. \A i \in Stored : ExportedDeployment(deployments[i]) \in Desired
    BY <1>1 DEF ExportedDeployment, Deployment, Desired, StoredSpecs
  <1> DEFINE D == {deployments[i].name : i \in Stored}
  <1>4. D \subseteq Names
    BY <1>1 DEF Deployment
  <1>5. ExportedDeployments \in [D -> Desired]
    BY <1>2, <1>3 DEF ExportedDeployments
  <1>6. ExportedDeployments \in Partial(Names, Desired)
    BY <1>4, <1>5, PartialIntro
  <1>7. DescribesDeployments(ExportedDeployments)
    BY <1>2 DEF DescribesDeployments, ExportedDeployments
  <1> QED
    BY <1>6, <1>7

\* The export of the registries describes them: the store keeps a prefix once.
LEMMA ExportDescribesRegistries ==
    ASSUME registries \in [RegIDs -> Registry \cup {None}], RegistriesUnique
    PROVE  /\ ExportedRegistries \in Partial(Prefixes, Users)
           /\ DescribesRegistries(ExportedRegistries)
           /\ \A r \in StoredRegs : IDOfPrefix(registries[r].prefix) = r
PROOF
  <1>1. \A r \in StoredRegs : registries[r] \in Registry /\ r \in RegIDs
    BY DEF StoredRegs
  <1>2. \A r \in StoredRegs : IDOfPrefix(registries[r].prefix) = r
    BY DEF IDOfPrefix, RegistriesUnique
  <1> DEFINE D == {registries[r].prefix : r \in StoredRegs}
  <1>4. D \subseteq Prefixes
    BY <1>1 DEF Registry
  <1>5. ExportedRegistries \in [D -> Users]
    BY <1>1, <1>2 DEF ExportedRegistries, Registry
  <1>6. ExportedRegistries \in Partial(Prefixes, Users)
    BY <1>4, <1>5, PartialIntro
  <1>7. DescribesRegistries(ExportedRegistries)
    BY <1>2 DEF DescribesRegistries, ExportedRegistries
  <1> QED
    BY <1>2, <1>6, <1>7

-----------------------------------------------------------------------------
(* Init, and the steps of the command up to Execute.                       *)

\* A command that has only read the file, or has left, holds nothing that
\* the store could contradict.
LEMMA QuietState ==
    ASSUME Typed', RegistriesUnique',
           (cli'.pc = "idle" /\ cli'.doc = None) \/ cli'.pc = "deployments"
    PROVE  Inv'
  BY DEF Inv, Applying, Executed, PlanApproved, ExportCurrent, RegExportCurrent, NamesUnique,
         SpecKept, ListingCurrent, RegListingCurrent, DeploymentsLeft, RegistriesLeft, HostLeft

\* The state of a command that does not run.
LEMMA IdleType ==
    /\ Idle \in CliType /\ Idle.pc = "idle" /\ Idle.doc = None /\ Idle.cmd = "none"
    /\ Idle.todo = {} /\ Idle.failed = {}
  BY DEF Idle, CliType, PCs

\* The stores may hold anything at the start that satisfies the invariant.
LEMMA InitInv == Init => Inv
PROOF
  <1>1. SUFFICES ASSUME Init PROVE Inv
    OBVIOUS
  <1>2. PICK seed \in Seeds :
            /\ deployments = seed.deployments
            /\ registries = seed.registries
            /\ host = seed.host
            /\ reportedOn = [i \in IDs |-> IF seed.deployments[i] = None THEN None
                                           ELSE seed.deployments[i].spec]
    BY <1>1 DEF Init
  <1>3. cli = Idle /\ touched = {} /\ writes = 0 /\ commands = 0 /\ planFile = None /\ config \in Documents
        /\ pass = NoPass
    BY <1>1 DEF Init
  <1>4. CliOK
    BY <1>3, IdleType DEF CliOK, Executed, Applying
  <1>5. /\ deployments \in [IDs -> Deployment \cup {None}]
        /\ registries \in [RegIDs -> Registry \cup {None}]
        /\ host \in Hosts
    BY <1>2, SeedsAssumption
  <1>6. reportedOn \in [IDs -> StoredSpecs \cup {None}]
    <2>1. \A i \in IDs : seed.deployments[i] # None => seed.deployments[i].spec \in StoredSpecs
      BY <1>2, <1>5 DEF Deployment
    <2> QED
      BY <1>2, <2>1
  <1>7. Typed
    BY <1>3, <1>4, <1>5, <1>6, BoundsAssumption DEF Typed, NoPass
  <1>8. RegistriesUnique
    BY <1>2, SeedsAssumption DEF RegistriesUnique, StoredRegs
  <1> QED
    BY <1>3, <1>7, <1>8, IdleType
       DEF Inv, Applying, Executed, PlanApproved, ExportCurrent, RegExportCurrent, NamesUnique,
           SpecKept, ListingCurrent, RegListingCurrent, DeploymentsLeft, RegistriesLeft, HostLeft

\* Leaving, and whatever keeps the registries with it, preserves everything.
LEMMA LeaveStep ==
    ASSUME Inv, Leave, UNCHANGED <<store, reportedOn, pass, writes, commands>>,
           config' \in Documents, planFile' \in Plan \cup {None}
    PROVE  Inv'
PROOF
  <1>1. cli' = Idle /\ touched' = {}
    BY DEF Leave
  <1>2. CliOK'
    BY <1>1, IdleType DEF CliOK, Executed, Applying
  <1>3. Typed'
    BY <1>1, <1>2 DEF Inv, Typed, store
  <1>4. RegistriesUnique'
    BY DEF Inv, RegistriesUnique, StoredRegs, store
  <1> QED
    BY <1>1, <1>3, <1>4, IdleType, QuietState

\* Another file ends what is remembered of the last apply.
LEMMA EditConfigInv == Inv /\ EditConfig => Inv'
  BY LeaveStep DEF EditConfig, Inv, Typed

\* A command that is killed leaves the stores as they are.
LEMMA KillInv == Inv /\ Kill => Inv'
  BY LeaveStep DEF Kill, Inv, Typed

\* A command begins with the file alone, and an apply with an approved plan.
LEMMA BeginInv ==
    ASSUME Inv, NEW cmd \in {"plan", "apply"}, Begin(cmd)
    PROVE  Inv'
PROOF
  <1>1. config \in Documents /\ config # None /\ planFile \in Plan \cup {None}
    BY NoneAssumption DEF Inv, Typed
  <1>2. cli' = [Idle EXCEPT !.cmd = cmd, !.pc = "deployments", !.doc = config,
                            !.approved = IF cmd = "apply" THEN planFile ELSE None]
    BY DEF Begin
  <1>3. /\ cli' \in CliType
        /\ cli'.cmd = cmd /\ cli'.pc = "deployments" /\ cli'.doc = config
        /\ cli'.todo = {} /\ cli'.failed = {}
        /\ cmd = "apply" => cli'.approved = planFile
    BY <1>1, <1>2 DEF CliType, Idle, PCs
  <1>4. cmd = "apply" => planFile \in Plan
    BY <1>1 DEF Begin, ReadPlanFile
  <1>5. CliOK'
    BY <1>1, <1>3, <1>4 DEF CliOK, Executed, Applying
  <1>6. commands' \in 0..MaxCommands
    BY BoundsAssumption DEF Begin, Inv, Typed
  <1>7. Typed'
    BY <1>5, <1>6 DEF Begin, Inv, Typed, store
  <1>8. RegistriesUnique'
    BY DEF Begin, Inv, RegistriesUnique, StoredRegs, store
  <1> QED
    BY <1>3, <1>7, <1>8, QuietState

\* An export that validates describes the deployments.
LEMMA ExportDeploymentsInv ==
    ASSUME Inv, ExportDeployments
    PROVE  Inv'
PROOF
  <1>1. CASE ~ExportIsValid /\ Leave
    BY <1>1, LeaveStep DEF ExportDeployments, Inv, Typed
  <1>2. CASE /\ ExportIsValid
             /\ cli' = [cli EXCEPT !.pc = "registries", !.liveDeps = ExportedDeployments]
             /\ UNCHANGED touched
    <2>1. \A i, j \in Stored : deployments[i].name = deployments[j].name => i = j
      BY <1>2 DEF ExportIsValid
    <2>2. /\ ExportedDeployments \in Partial(Names, Desired)
          /\ DescribesDeployments(ExportedDeployments)
      BY <2>1, ExportDescribes DEF Inv, Typed
    <2>3. cli \in CliType /\ cli.pc = "deployments" /\ cli.doc # None /\ cli.cmd # "none"
          /\ cli.todo = {} /\ cli.failed = {} /\ (cli.cmd = "apply" => cli.approved \in Plan)
      BY DEF ExportDeployments, Inv, Typed, CliOK, Executed, Applying
    <2>4. /\ cli' \in CliType /\ cli'.pc = "registries" /\ cli'.liveDeps = ExportedDeployments
          /\ cli'.doc = cli.doc /\ cli'.cmd = cli.cmd /\ cli'.todo = {} /\ cli'.failed = {}
          /\ cli'.approved = cli.approved
      BY <1>2, <2>2, <2>3 DEF CliType, PCs
    <2>5. UNCHANGED <<deployments, registries, host, reportedOn, pass, config, planFile, touched, writes, commands>>
      BY <1>2 DEF ExportDeployments, store
    <2>6. Typed'
      BY <2>2, <2>3, <2>4, <2>5 DEF Inv, Typed, CliOK, Executed, Applying
    <2>7. RegistriesUnique'
      BY <2>5 DEF Inv, RegistriesUnique, StoredRegs
    <2>8. ExportCurrent'
      BY <2>2, <2>4, <2>5 DEF ExportCurrent, DescribesDeployments, Stored, ExportedDeployment
    <2>9. NamesUnique'
      BY <2>1, <2>5 DEF NamesUnique, Stored
    <2> QED
      BY <2>4, <2>6, <2>7, <2>8, <2>9
         DEF Inv, Applying, Executed, PlanApproved, RegExportCurrent,
             SpecKept, ListingCurrent, RegListingCurrent, DeploymentsLeft, RegistriesLeft, HostLeft
  <1> QED
    BY <1>1, <1>2 DEF ExportDeployments

\* The export of the registries describes them.
LEMMA ExportRegistriesInv ==
    ASSUME Inv, ExportRegistries
    PROVE  Inv'
PROOF
  <1>1. /\ ExportedRegistries \in Partial(Prefixes, Users)
        /\ DescribesRegistries(ExportedRegistries)
    BY ExportDescribesRegistries DEF Inv, Typed
  <1>2. cli \in CliType /\ cli.pc = "registries" /\ cli.doc # None /\ cli.cmd # "none"
        /\ cli.liveDeps \in Partial(Names, Desired)
        /\ cli.todo = {} /\ cli.failed = {} /\ (cli.cmd = "apply" => cli.approved \in Plan)
    BY DEF ExportRegistries, Inv, Typed, CliOK, Executed, Applying
  <1>3. /\ cli' \in CliType /\ cli'.pc = "host" /\ cli'.liveRegs = ExportedRegistries
        /\ cli'.doc = cli.doc /\ cli'.cmd = cli.cmd /\ cli'.todo = {} /\ cli'.failed = {}
        /\ cli'.approved = cli.approved /\ cli'.liveDeps = cli.liveDeps
    BY <1>1, <1>2 DEF ExportRegistries, CliType, PCs
  <1>4. UNCHANGED <<deployments, registries, host, reportedOn, pass, config, planFile, touched, writes, commands>>
    BY DEF ExportRegistries, store
  <1>5. Typed'
    BY <1>1, <1>2, <1>3, <1>4 DEF Inv, Typed, CliOK, Executed, Applying
  <1>6. RegistriesUnique'
    BY <1>4 DEF Inv, RegistriesUnique, StoredRegs
  <1>7. ExportCurrent'
    BY <1>2, <1>3, <1>4 DEF Inv, ExportCurrent, Stored, ExportedDeployment
  <1>8. RegExportCurrent'
    BY <1>1, <1>3, <1>4 DEF RegExportCurrent, DescribesRegistries, StoredRegs
  <1>9. NamesUnique'
    BY <1>2, <1>3, <1>4 DEF Inv, NamesUnique, Stored, Executed, Applying
  <1> QED
    BY <1>3, <1>5, <1>6, <1>7, <1>8, <1>9
       DEF Inv, Applying, Executed, PlanApproved,
           SpecKept, ListingCurrent, RegListingCurrent, DeploymentsLeft, RegistriesLeft, HostLeft

\* A plan that is made has the type of a plan.
LEMMA WritePlanInv == Inv /\ WritePlan => Inv'
PROOF
  <1>1. SUFFICES ASSUME Inv, WritePlan PROVE Inv'
    OBVIOUS
  <1>2. /\ cli.doc \in Documents /\ cli.liveDeps \in Partial(Names, Desired)
        /\ cli.liveRegs \in Partial(Prefixes, Users)
    BY <1>1 DEF WritePlan, Inv, Typed, CliOK, CliType
  <1>3. planFile' \in Plan
    BY <1>1, <1>2, BuildType DEF WritePlan
  <1> QED
    BY <1>1, <1>3, LeaveStep DEF WritePlan, Inv, Typed

\* What is settled depends on the store and on the file.
LEMMA SettledFrame ==
    ASSUME UNCHANGED deployments, cli'.doc = cli.doc, NEW n
    PROVE  /\ DeploymentSettled(n)' <=> DeploymentSettled(n)
           /\ DeploymentKept(n)' <=> DeploymentKept(n)
  BY DEF DeploymentSettled, DeploymentKept, Stored, ExportedDeployment

\* The store can only be as the file says in what it keeps.
LEMMA SettledIsKept ==
    ASSUME deployments \in [IDs -> Deployment \cup {None}], cli.doc \in Documents, NEW n
    PROVE  /\ DeploymentSettled(n) => DeploymentKept(n) /\ n \notin Lossy(cli.doc)
           /\ DeploymentKept(n) /\ n \notin Lossy(cli.doc) => DeploymentSettled(n)
PROOF
  <1> DEFINE desired == cli.doc.deployments[n]
  <1>0. n \in DOMAIN cli.doc.deployments => desired \in Desired
    BY DocumentParts, PartialElim
  <1> HIDE DEF desired
  <1>1. n \in DOMAIN cli.doc.deployments => /\ desired = [spec |-> desired.spec, domain |-> desired.domain]
                                            /\ desired.spec \in Specs
    BY <1>0 DEF Desired
  <1>2. \A i \in Stored : deployments[i].spec \in StoredSpecs
    BY DEF Stored, Deployment
  <1>3. n \in Lossy(cli.doc) <=> n \in DOMAIN cli.doc.deployments /\ KeptOf[desired.spec] # desired.spec
    BY <1>1 DEF Lossy, StoredSpecs, desired
  <1>5. ASSUME NEW i \in Stored, n \in DOMAIN cli.doc.deployments
        PROVE  ExportedDeployment(deployments[i]) = desired
                 <=> /\ deployments[i].spec = KeptOf[desired.spec]
                     /\ deployments[i].domain = desired.domain
                     /\ KeptOf[desired.spec] = desired.spec
    <2>1. ExportedDeployment(deployments[i]) = desired
            <=> deployments[i].spec = desired.spec /\ deployments[i].domain = desired.domain
      <3> DEFINE exported == [spec |-> deployments[i].spec, domain |-> deployments[i].domain]
      <3>1. ExportedDeployment(deployments[i]) = exported
        BY DEF ExportedDeployment
      <3>2. exported.spec = deployments[i].spec /\ exported.domain = deployments[i].domain
        OBVIOUS
      <3>3. desired = [spec |-> desired.spec, domain |-> desired.domain]
        BY <1>1, <1>5
      <3> QED
        BY <3>1, <3>2, <3>3
    <2>2. KeptOf[deployments[i].spec] = deployments[i].spec
      BY <1>2, <1>5 DEF StoredSpecs
    <2> QED
      BY <2>1, <2>2
  <1> QED
    BY <1>3, <1>5 DEF DeploymentSettled, DeploymentKept, desired

\* The same for a registry.
LEMMA RegistrySettledFrame ==
    ASSUME UNCHANGED registries, cli'.doc = cli.doc, NEW p
    PROVE  RegistrySettled(p)' <=> RegistrySettled(p)
  BY DEF RegistrySettled, StoredRegs

\* The approval is compared with a plan of the live state: what the plan
\* asks for is what is not as the file says.
LEMMA CheckApprovalInv ==
    ASSUME Inv, CheckApproval
    PROVE  Inv'
PROOF
  <1> DEFINE built == Build(cli.doc, cli.liveDeps, cli.liveRegs, host)
  <1>1. /\ cli \in CliType /\ cli.pc = "host" /\ cli.cmd = "apply" /\ cli.doc # None
        /\ cli.doc \in Documents /\ cli.liveDeps \in Partial(Names, Desired)
        /\ cli.liveRegs \in Partial(Prefixes, Users)
        /\ cli.todo = {} /\ cli.failed = {} /\ cli.approved \in Plan
    BY DEF CheckApproval, Inv, Typed, CliOK, CliType, Executed, Applying
  <1>2. CASE Leave
    BY <1>2, LeaveStep DEF CheckApproval, Inv, Typed
  <1>3. ASSUME NEW plan \in built, plan = cli.approved,
               cli' = [cli EXCEPT !.pc = "list", !.plan = plan, !.liveDeps = None, !.liveRegs = None],
               UNCHANGED touched
        PROVE  Inv'
    <2>1. plan \in Plan
      BY <1>1, <1>3
    <2>2. UNCHANGED <<deployments, registries, host, reportedOn, pass, config, planFile, touched, writes, commands>>
      BY <1>3 DEF CheckApproval, store
    <2>3. /\ cli' \in CliType /\ cli'.pc = "list" /\ cli'.plan = plan
          /\ cli'.doc = cli.doc /\ cli'.cmd = "apply" /\ cli'.todo = {} /\ cli'.failed = {}
          /\ cli'.approved = cli.approved
      BY <1>1, <1>3, <2>1 DEF CliType, PCs
    <2>4. Typed'
      BY <1>1, <2>2, <2>3 DEF Inv, Typed, CliOK, Executed, Applying
    <2>5. RegistriesUnique'
      BY <2>2 DEF Inv, RegistriesUnique, StoredRegs
    <2>6. Pending' = Items(plan)
      BY <2>3 DEF Pending
    <2>7. PlanApproved'
      BY <1>3, <2>1, <2>3, <2>6, BuildFor DEF PlanApproved
    <2>8. NamesUnique'
      BY <1>1, <2>2, <2>3 DEF Inv, NamesUnique, Stored, Executed, Applying
    <2>9. SpecKept'
      <3>1. SUFFICES ASSUME NEW i \in Stored \ touched, NEW item \in Items(plan),
                            item.kind = "deployment", item.key = deployments[i].name,
                            item.action = "update", "spec" \notin item.fields
                     PROVE  deployments[i].spec = cli.doc.deployments[item.key].spec
        BY <2>2, <2>3, <2>6 DEF SpecKept, Stored
      <3>2. item.key \in DOMAIN cli.liveDeps
            /\ cli.liveDeps[item.key] = ExportedDeployment(deployments[i])
        BY <1>1, <3>1 DEF Inv, ExportCurrent
      <3>3. cli.liveDeps[item.key].spec = deployments[i].spec
        BY <3>2 DEF ExportedDeployment
      <3> QED
        BY <1>1, <3>1, <3>2, <3>3, BuildKeepsSpec
    <2>10. Left' = {KeyOf(item) : item \in Items(plan)}
      BY <2>3, <2>6 DEF Left
    <2>11. DeploymentsLeft'
      <3>1. SUFFICES ASSUME touched = {}, NEW n \in Names
                     PROVE  /\ <<"deployment", n>> \notin Left' => DeploymentKept(n)'
                            /\ DeploymentSettled(n)' => <<"deployment", n>> \notin Left'
        BY <2>2 DEF DeploymentsLeft
      <3>2. DescribesDeployments(cli.liveDeps)
        BY <1>1, <3>1 DEF Inv, ExportCurrent, DescribesDeployments
      <3>3. /\ DeploymentSettled(n)' <=> DeploymentSettled(n)
            /\ DeploymentKept(n)' <=> DeploymentKept(n)
        BY <2>2, <2>3, SettledFrame
      <3>4. DeploymentSettled(n) => DeploymentKept(n)
        BY <1>1, SettledIsKept DEF Inv, Typed
      <3> QED
        BY <1>1, <1>3, <2>10, <3>2, <3>3, <3>4, BuildDeploymentKeys
    <2>12. RegistriesLeft'
      <3>1. SUFFICES ASSUME touched = {}, NEW p \in Prefixes
                     PROVE  RegistrySettled(p)' <=> <<"registry", p>> \notin Left'
        BY <2>2 DEF RegistriesLeft
      <3>2. DescribesRegistries(cli.liveRegs)
        BY <1>1, <3>1 DEF Inv, RegExportCurrent, DescribesRegistries
      <3>3. RegistrySettled(p)' <=> RegistrySettled(p)
        BY <2>2, <2>3, RegistrySettledFrame
      <3> QED
        BY <1>1, <1>3, <2>10, <3>2, <3>3, BuildRegistryKeys
    <2>13. HostLeft'
      <3>1. HostSettled' <=> HostSettled
        BY <2>2, <2>3 DEF HostSettled
      <3> QED
        BY <1>3, <2>10, <3>1, BuildHostKey DEF HostLeft
    <2> QED
      BY <2>3, <2>4, <2>5, <2>7, <2>8, <2>9, <2>11, <2>12, <2>13
         DEF Inv, ExportCurrent, RegExportCurrent, ListingCurrent, RegListingCurrent
  <1> QED
    BY <1>2, <1>3 DEF CheckApproval, Fingerprint

\* A step of the command that only reads the stores for Execute: the actions
\* that are left stay the same.
LEMMA ListingStep ==
    ASSUME Inv, Typed', Applying, Applying',
           UNCHANGED <<deployments, registries, host, touched>>,
           cli'.doc = cli.doc, cli'.cmd = cli.cmd, cli'.plan = cli.plan,
           cli'.approved = cli.approved, cli'.failed = cli.failed, Pending' = Pending
    PROVE  /\ RegistriesUnique' /\ PlanApproved' /\ NamesUnique' /\ SpecKept'
           /\ DeploymentsLeft' /\ RegistriesLeft' /\ HostLeft'
           /\ ExportCurrent' /\ RegExportCurrent'
PROOF
  <1>1. RegistriesUnique'
    BY DEF Inv, RegistriesUnique, StoredRegs
  <1>2. PlanApproved'
    BY DEF Inv, PlanApproved
  <1>3. NamesUnique'
    BY DEF Inv, NamesUnique, Stored, Executed
  <1>4. SpecKept'
    BY DEF Inv, SpecKept, Stored
  <1>5. Left' = Left
    BY DEF Left
  <1>6. DeploymentsLeft'
    BY <1>5, SettledFrame DEF Inv, DeploymentsLeft, Executed
  <1>7. RegistriesLeft'
    BY <1>5, RegistrySettledFrame DEF Inv, RegistriesLeft, Executed, InNormalForm
  <1>8. HostLeft'
    BY <1>5 DEF Inv, HostLeft, HostSettled, Executed
  <1>9. ExportCurrent' /\ RegExportCurrent'
    BY DEF ExportCurrent, RegExportCurrent, Applying
  <1> QED
    BY <1>1, <1>2, <1>3, <1>4, <1>6, <1>7, <1>8, <1>9

\* Execute's first listing finds what the store has.
LEMMA ListDeploymentsInv ==
    ASSUME Inv, ListDeployments
    PROVE  Inv'
PROOF
  <1>1. PICK byName \in [{deployments[i].name : i \in Stored} -> Stored] :
           /\ \A n \in DOMAIN byName : deployments[byName[n]].name = n
           /\ cli' = [cli EXCEPT !.pc = "entries",
                        !.byName = [n \in DOMAIN byName |->
                                        [id |-> byName[n], status |-> deployments[byName[n]].status]]]
    BY DEF ListDeployments
  <1> DEFINE listing == [n \in DOMAIN byName |->
                            [id |-> byName[n], status |-> deployments[byName[n]].status]]
  <1>2. /\ cli \in CliType /\ cli.pc = "list" /\ cli.cmd = "apply" /\ cli.doc # None
        /\ cli.todo = {} /\ cli.approved \in Plan
    BY DEF ListDeployments, Inv, Typed, CliOK, PlanApproved, Applying
  <1>3. \A i \in Stored : i \in IDs /\ deployments[i] \in Deployment
    BY DEF Inv, Typed, Stored
  <1>4. listing \in Partial(Names, Listed)
    <2>1. DOMAIN byName \subseteq Names
      BY <1>3 DEF Deployment
    <2>2. listing \in [DOMAIN byName -> Listed]
      BY <1>3 DEF Listed, Deployment
    <2> QED
      BY <2>1, <2>2, PartialIntro
  <1> HIDE DEF listing
  <1>5. /\ cli' \in CliType /\ cli'.pc = "entries" /\ cli'.byName = listing
        /\ cli'.doc = cli.doc /\ cli'.cmd = cli.cmd /\ cli'.todo = {} /\ cli'.failed = cli.failed
        /\ cli'.approved = cli.approved /\ cli'.plan = cli.plan
    BY <1>1, <1>2, <1>4 DEF CliType, PCs, listing
  <1>6. UNCHANGED <<deployments, registries, host, reportedOn, pass, config, planFile, touched, writes, commands>>
    BY DEF ListDeployments, store
  <1>7. Typed'
    BY <1>2, <1>4, <1>5, <1>6 DEF Inv, Typed, CliOK, Executed, Applying
  <1>8. Applying /\ Applying' /\ Pending' = Pending
    BY <1>2, <1>5 DEF Applying, Pending
  <1>9. ListingCurrent'
    <2>1. /\ DOMAIN listing = DOMAIN byName
          /\ \A n \in DOMAIN listing : /\ listing[n].id = byName[n]
                                       /\ listing[n].status = deployments[byName[n]].status
                                       /\ deployments[byName[n]].name = n
      BY <1>1 DEF listing
    <2> QED
      BY <1>5, <1>6, <2>1 DEF ListingCurrent, Stored
  <1>10. RegListingCurrent'
    BY <1>5 DEF RegListingCurrent
  <1> QED
    BY <1>5, <1>6, <1>7, <1>8, <1>9, <1>10, ListingStep DEF Inv

\* And so does the second.
LEMMA ListRegistriesInv ==
    ASSUME Inv, ListRegistries
    PROVE  Inv'
PROOF
  <1> DEFINE listing == [p \in {registries[r].prefix : r \in StoredRegs} |-> IDOfPrefix(p)]
  <1>1. cli' = [cli EXCEPT !.pc = "run", !.todo = Items(cli.plan), !.idByPrefix = listing]
    BY DEF ListRegistries
  <1>2. /\ cli \in CliType /\ cli.pc = "entries" /\ cli.cmd = "apply" /\ cli.doc # None
        /\ cli.todo = {} /\ cli.approved \in Plan /\ cli.plan \in Plan
        /\ cli.byName \in Partial(Names, Listed)
    BY DEF ListRegistries, Inv, Typed, CliOK, PlanApproved, Applying
  <1>3. \A r \in StoredRegs : r \in RegIDs /\ registries[r] \in Registry
    BY DEF Inv, Typed, StoredRegs
  <1>4. \A r \in StoredRegs : IDOfPrefix(registries[r].prefix) = r
    BY ExportDescribesRegistries DEF Inv, Typed
  <1>5. listing \in Partial(Prefixes, RegIDs)
    <2>1. {registries[r].prefix : r \in StoredRegs} \subseteq Prefixes
      BY <1>3 DEF Registry
    <2>2. listing \in [{registries[r].prefix : r \in StoredRegs} -> RegIDs]
      BY <1>3, <1>4
    <2> QED
      BY <2>1, <2>2, PartialIntro
  <1>6. \A p \in DOMAIN listing : registries[listing[p]].prefix = p
    BY <1>4
  <1> HIDE DEF listing
  <1>7. Items(cli.plan) \subseteq ItemType
    BY <1>2, ItemsType
  <1>8. /\ cli' \in CliType /\ cli'.pc = "run" /\ cli'.idByPrefix = listing
        /\ cli'.byName = cli.byName /\ cli'.todo = Items(cli.plan)
        /\ cli'.doc = cli.doc /\ cli'.cmd = cli.cmd /\ cli'.failed = cli.failed
        /\ cli'.approved = cli.approved /\ cli'.plan = cli.plan
    BY <1>1, <1>2, <1>5, <1>7 DEF CliType, PCs
  <1>9. UNCHANGED <<deployments, registries, host, reportedOn, pass, config, planFile, touched, writes, commands>>
    BY DEF ListRegistries, store
  <1>10. Typed'
    BY <1>2, <1>5, <1>8, <1>9 DEF Inv, Typed, CliOK, Executed, Applying
  <1>11. Applying /\ Applying' /\ Pending' = Pending
    BY <1>2, <1>8 DEF Applying, Pending
  <1>12. ListingCurrent'
    BY <1>2, <1>8, <1>9, <1>11 DEF Inv, ListingCurrent, Stored
  <1>13. RegListingCurrent'
    BY <1>6, <1>8, <1>9 DEF RegListingCurrent, StoredRegs
  <1> QED
    BY <1>8, <1>9, <1>10, <1>11, <1>12, <1>13, ListingStep DEF Inv

-----------------------------------------------------------------------------
(* The actions of Execute.                                                 *)

\* What is known of the action that Execute performs next.
LEMMA ItemFacts ==
    ASSUME Inv, NEW item, IsNext(item)
    PROVE  /\ cli \in CliType /\ cli.pc = "run" /\ cli.cmd = "apply"
           /\ cli.doc \in Documents /\ cli.doc # None /\ cli.plan \in Plan
           /\ item \in cli.todo /\ item \in Items(cli.plan) /\ item \in ItemType
           /\ KeyOf(item) \in Keys /\ KeyOf(item) \notin cli.failed
           /\ cli.todo \subseteq Items(cli.plan) /\ Pending = cli.todo
           /\ cli.plan = cli.approved
PROOF
  <1>1. /\ cli \in CliType /\ cli.pc = "run" /\ cli.doc # None /\ item \in cli.todo
        /\ cli.todo \subseteq ItemType /\ cli.doc \in Documents
    BY DEF IsNext, Inv, Typed, CliOK, CliType
  <1>2. Pending = cli.todo
    BY <1>1 DEF Pending
  <1>3. /\ cli.cmd = "apply" /\ cli.plan \in Plan /\ cli.plan = cli.approved
        /\ cli.todo \subseteq Items(cli.plan) /\ KeyOf(item) \notin cli.failed
    BY <1>1, <1>2 DEF Inv, PlanApproved, Applying
  <1> QED
    BY <1>1, <1>2, <1>3, ItemsType

\* The action on a deployment agrees with the file, and with the approval.
LEMMA DeploymentItem ==
    ASSUME Inv, NEW item, IsNext(item), item.kind = "deployment"
    PROVE  /\ item.key \in Names /\ KeyOf(item) = <<"deployment", item.key>>
           /\ item.action \in {"create", "update"} =>
                 item.key \in DOMAIN cli.doc.deployments
                 /\ cli.doc.deployments[item.key] \in Desired
           /\ item.action = "delete" => item.key \notin DOMAIN cli.doc.deployments
           /\ ApprovedFor(cli.approved.deployments, item.key, item.action)
           /\ item.fields = cli.plan.deployments[item.key].fields
PROOF
  <1>1. /\ item \in Items(cli.plan) /\ item \in ItemType /\ cli.plan = cli.approved
        /\ cli.doc \in Documents /\ cli.pc = "run"
    BY ItemFacts
  <1>2. /\ item.key \in DOMAIN cli.plan.deployments
        /\ item = Item("deployment", item.key, cli.plan.deployments[item.key])
    BY <1>1, ItemsElim
  <1>3. /\ item.action = cli.plan.deployments[item.key].action
        /\ item.fields = cli.plan.deployments[item.key].fields
    BY <1>2 DEF Item
  <1>4. PlanFor(cli.plan.deployments, cli.doc.deployments)
    BY <1>1 DEF Inv, PlanApproved, Applying
  <1>5. \A n \in DOMAIN cli.doc.deployments : cli.doc.deployments[n] \in Desired
    BY <1>1, DocumentParts, PartialElim
  <1>6. item.key \in Names
    BY <1>1 DEF ItemType
  <1> QED
    BY <1>1, <1>2, <1>3, <1>4, <1>5, <1>6 DEF PlanFor, KeyOf, ApprovedFor

\* The same for a registry.
LEMMA RegistryItem ==
    ASSUME Inv, NEW item, IsNext(item), item.kind = "registry"
    PROVE  /\ item.key \in Prefixes /\ KeyOf(item) = <<"registry", item.key>>
           /\ item.action \in {"create", "update"} =>
                 item.key \in DOMAIN cli.doc.registries
                 /\ cli.doc.registries[item.key] \in Users
           /\ item.action = "delete" => item.key \notin DOMAIN cli.doc.registries
           /\ ApprovedFor(cli.approved.registries, item.key, item.action)
PROOF
  <1>1. /\ item \in Items(cli.plan) /\ item \in ItemType /\ cli.plan = cli.approved
        /\ cli.doc \in Documents /\ cli.pc = "run"
    BY ItemFacts
  <1>2. /\ item.key \in DOMAIN cli.plan.registries
        /\ item = Item("registry", item.key, cli.plan.registries[item.key])
    BY <1>1, ItemsElim
  <1>3. item.action = cli.plan.registries[item.key].action
    BY <1>2 DEF Item
  <1>4. PlanFor(cli.plan.registries, cli.doc.registries)
    BY <1>1 DEF Inv, PlanApproved, Applying
  <1>5. \A p \in DOMAIN cli.doc.registries : cli.doc.registries[p] \in Users
    BY <1>1, DocumentParts, PartialElim
  <1>6. item.key \in Prefixes
    BY <1>1 DEF ItemType
  <1> QED
    BY <1>1, <1>2, <1>3, <1>4, <1>5, <1>6 DEF PlanFor, KeyOf, ApprovedFor

\* The same for the host.
LEMMA HostItem ==
    ASSUME Inv, NEW item, IsNext(item), item.kind = "host"
    PROVE  /\ KeyOf(item) = <<"host", "host">>
           /\ cli.doc.host \in Hosts
           /\ cli.approved.host.action = "update"
PROOF
  <1>1. /\ item \in Items(cli.plan) /\ cli.plan = cli.approved
        /\ cli.doc \in Documents /\ cli.pc = "run"
    BY ItemFacts
  <1>2. item.action # "noop" /\ item = Item("host", "host", cli.plan.host)
    BY <1>1, ItemsElim
  <1>3. item.action = cli.plan.host.action /\ item.key = "host"
    BY <1>2 DEF Item
  <1>4. cli.plan.host.action \in {"noop", "update"}
        /\ (cli.plan.host.action = "update" => cli.doc.host # None)
    BY <1>1 DEF Inv, PlanApproved, Applying
  <1>5. cli.doc.host \in Hosts \cup {None}
    BY <1>1, DocumentParts
  <1> QED
    BY <1>1, <1>2, <1>3, <1>4, <1>5 DEF KeyOf

\* A step of Execute: actions only go.
RunStep ==
    /\ cli.pc = "run" /\ cli'.pc = "run"
    /\ cli'.doc = cli.doc /\ cli'.cmd = cli.cmd /\ cli'.plan = cli.plan
    /\ cli'.approved = cli.approved
    /\ cli'.byName = cli.byName /\ cli'.idByPrefix = cli.idByPrefix
    /\ Pending' \subseteq Pending
    /\ UNCHANGED touched

\* An action that has been tried is no longer to come; it is left undone
\* only if it failed.
LEMMA DoneFacts ==
    ASSUME Inv, NEW item, IsNext(item), NEW ok \in BOOLEAN, Done(item, ok), UNCHANGED touched
    PROVE  /\ RunStep /\ CliOK' /\ PlanApproved'
           /\ \A other \in Pending' : other \in Pending /\ KeyOf(other) # KeyOf(item)
           /\ ok => \A k : k \in Left' <=> k \in Left /\ k # KeyOf(item)
           /\ ~ok => Left' = Left
           /\ KeyOf(item) \in Left
PROOF
  <1>1. /\ cli \in CliType /\ cli.pc = "run" /\ cli.cmd = "apply"
        /\ cli.doc \in Documents /\ cli.doc # None /\ cli.plan \in Plan
        /\ item \in cli.todo /\ item \in Items(cli.plan)
        /\ KeyOf(item) \in Keys /\ KeyOf(item) \notin cli.failed
        /\ cli.todo \subseteq Items(cli.plan) /\ Pending = cli.todo
    BY ItemFacts
  <1> DEFINE failed2 == IF ok THEN cli.failed ELSE cli.failed \cup {KeyOf(item)}
             todo2 == cli.todo \ {item}
  <1>2. cli' = [cli EXCEPT !.todo = todo2, !.failed = failed2]
    BY <1>1 DEF Done, KeyOf, CliType
  <1>3. failed2 \in SUBSET Keys /\ todo2 \in SUBSET ItemType
    BY <1>1 DEF CliType
  <1> HIDE DEF failed2, todo2
  <1>4. /\ cli' \in CliType
        /\ cli'.pc = "run" /\ cli'.doc = cli.doc /\ cli'.cmd = cli.cmd /\ cli'.plan = cli.plan
        /\ cli'.approved = cli.approved /\ cli'.byName = cli.byName
        /\ cli'.idByPrefix = cli.idByPrefix
        /\ cli'.todo = todo2 /\ cli'.failed = failed2
    BY <1>1, <1>2, <1>3 DEF CliType
  <1>5. Pending' = cli.todo \ {item}
    BY <1>4 DEF Pending, todo2
  <1>6. RunStep
    BY <1>1, <1>4, <1>5 DEF RunStep
  <1>7. CliOK'
    BY <1>1, <1>4 DEF CliOK, Inv, Typed, Executed, Applying
  <1>8. \A other \in Pending' : other \in Pending /\ KeyOf(other) # KeyOf(item)
    BY <1>1, <1>5, ItemsUnique
  <1>9. \A other \in Pending' : KeyOf(other) \notin cli'.failed
    <2>1. \A other \in cli.todo : KeyOf(other) \notin cli.failed
      BY <1>1 DEF Inv, PlanApproved, Applying
    <2> QED
      BY <1>1, <1>4, <1>8, <2>1 DEF failed2
  <1>10. PlanApproved'
    BY <1>1, <1>4, <1>5, <1>9 DEF Inv, PlanApproved, Applying
  <1>11. KeyOf(item) \in Left
    BY <1>1 DEF Left
  <1>12. CASE ok
    <2>1. cli'.failed = cli.failed
      BY <1>4, <1>12 DEF failed2
    <2>2. \A k : k \in Left' <=> k \in Left /\ k # KeyOf(item)
      BY <1>1, <1>5, <1>8, <2>1 DEF Left
    <2> QED
      BY <1>6, <1>7, <1>8, <1>10, <1>11, <1>12, <2>2
  <1>13. CASE ~ok
    <2>1. cli'.failed = cli.failed \cup {KeyOf(item)}
      BY <1>4, <1>13 DEF failed2
    <2>2. Left' = Left
      BY <1>1, <1>5, <2>1 DEF Left
    <2> QED
      BY <1>6, <1>7, <1>8, <1>10, <1>11, <1>13, <2>2
  <1> QED
    BY <1>12, <1>13

\* What a step of Execute leaves alone stays as it was.
LEMMA DeploymentFrame ==
    ASSUME Inv, RunStep, UNCHANGED deployments,
           \A n : <<"deployment", n>> \in Left' <=> <<"deployment", n>> \in Left
    PROVE  /\ NamesUnique' /\ SpecKept' /\ ListingCurrent' /\ DeploymentsLeft'
           /\ ExportCurrent' /\ RegExportCurrent'
PROOF
  <1>1. NamesUnique'
    BY DEF Inv, NamesUnique, Stored, Executed, Applying, RunStep
  <1>2. SpecKept'
    BY DEF Inv, SpecKept, Stored, RunStep, Applying
  <1>3. ListingCurrent'
    BY DEF Inv, ListingCurrent, Stored, RunStep
  <1>4. DeploymentsLeft'
    BY SettledFrame DEF Inv, DeploymentsLeft, Executed, Applying, RunStep
  <1>5. ExportCurrent' /\ RegExportCurrent'
    BY DEF ExportCurrent, RegExportCurrent, RunStep
  <1> QED
    BY <1>1, <1>2, <1>3, <1>4, <1>5

\* The same for the registries.
LEMMA RegistryFrame ==
    ASSUME Inv, RunStep, UNCHANGED registries,
           \A p : <<"registry", p>> \in Left' <=> <<"registry", p>> \in Left
    PROVE  RegistriesUnique' /\ RegListingCurrent' /\ RegistriesLeft'
PROOF
  <1>1. RegistriesUnique'
    BY DEF Inv, RegistriesUnique, StoredRegs
  <1>2. RegListingCurrent'
    BY DEF Inv, RegListingCurrent, StoredRegs, RunStep
  <1>3. RegistriesLeft'
    BY RegistrySettledFrame DEF Inv, RegistriesLeft, Executed, Applying, RunStep, InNormalForm
  <1> QED
    BY <1>1, <1>2, <1>3

\* The same for the host.
LEMMA HostFrame ==
    ASSUME Inv, RunStep, UNCHANGED host,
           <<"host", "host">> \in Left' <=> <<"host", "host">> \in Left
    PROVE  HostLeft'
  BY DEF Inv, HostLeft, HostSettled, Executed, Applying, RunStep

\* A failed action changes nothing and stays undone.
LEMMA FailActionInv ==
    ASSUME Inv, NEW item, FailAction(item)
    PROVE  Inv'
PROOF
  <1>1. UNCHANGED <<deployments, registries, host, reportedOn, pass, config, planFile, touched, writes, commands>>
        /\ IsNext(item) /\ Done(item, FALSE)
    BY DEF FailAction, store
  <1>2. RunStep /\ CliOK' /\ PlanApproved' /\ Left' = Left
    BY <1>1, DoneFacts
  <1>3. Typed'
    BY <1>1, <1>2 DEF Inv, Typed
  <1> QED
    BY <1>1, <1>2, <1>3, DeploymentFrame, RegistryFrame, HostFrame DEF Inv

\* What an action on a deployment that was done leaves of the invariant to
\* show.
LEMMA DeploymentStep ==
    ASSUME Inv, NEW item, IsNext(item), item.kind = "deployment", Done(item, TRUE),
           UNCHANGED <<registries, host, touched>>, Typed',
           NamesUnique', SpecKept', ListingCurrent', DeploymentsLeft'
    PROVE  Inv'
PROOF
  <1>1. KeyOf(item) = <<"deployment", item.key>>
    BY DeploymentItem
  <1>2. /\ RunStep /\ PlanApproved'
        /\ \A k : k \in Left' <=> k \in Left /\ k # KeyOf(item)
    BY DoneFacts
  <1>3. /\ \A p : <<"registry", p>> \in Left' <=> <<"registry", p>> \in Left
        /\ <<"host", "host">> \in Left' <=> <<"host", "host">> \in Left
    BY <1>1, <1>2
  <1>4. ExportCurrent' /\ RegExportCurrent'
    BY <1>2 DEF ExportCurrent, RegExportCurrent, RunStep
  <1> QED
    BY <1>2, <1>3, <1>4, RegistryFrame, HostFrame DEF Inv

\* The record that Execute stores.
LEMMA FromDesiredType ==
    ASSUME NEW n \in Names, NEW d \in Desired, NEW status \in {"deploying", "settled"}
    PROVE  /\ FromDesired(n, d, status) \in Deployment
           /\ FromDesired(n, d, status) # None
           /\ FromDesired(n, d, status).name = n
           /\ FromDesired(n, d, status).spec = KeptOf[d.spec]
           /\ FromDesired(n, d, status).domain = d.domain
           /\ FromDesired(n, d, status).status = status
PROOF
  <1>1. KeptOf[d.spec] \in StoredSpecs
    BY SpecsAssumption DEF Desired, StoredSpecs
  <1> QED
    BY <1>1, NoneAssumption DEF FromDesired, Deployment, Desired

\* A creation settles the deployment that it stores.
LEMMA CreateDeploymentInv ==
    ASSUME Inv, NEW item, CreateDeployment(item)
    PROVE  Inv'
PROOF
  <1> DEFINE n == item.key
             d == cli.doc.deployments[n]
             new == FromDesired(n, d, "deploying")
  <1>1. /\ IsNext(item) /\ item.kind = "deployment" /\ item.action = "create"
        /\ \A i \in Stored : deployments[i].name # n
        /\ Done(item, TRUE)
        /\ UNCHANGED <<registries, host, reportedOn, pass, config, planFile, touched, writes, commands>>
    BY DEF CreateDeployment
  <1>2. PICK i \in FreshID : deployments' = [deployments EXCEPT ![i] = new]
    BY DEF CreateDeployment
  <1>3. i \in IDs /\ i \notin Stored /\ i \notin touched
        /\ \A m \in DOMAIN cli.byName : cli.byName[m].id # i
    BY DEF FreshID
  <1>4. /\ n \in Names /\ n \in DOMAIN cli.doc.deployments /\ d \in Desired
        /\ KeyOf(item) = <<"deployment", n>>
    BY <1>1, DeploymentItem
  <1>5. /\ new \in Deployment /\ new # None /\ new.name = n
        /\ new.spec = KeptOf[d.spec] /\ new.domain = d.domain
    BY <1>4, FromDesiredType
  <1> HIDE DEF new, d
  <1>6. /\ deployments \in [IDs -> Deployment \cup {None}]
        /\ deployments' \in [IDs -> Deployment \cup {None}]
        /\ deployments'[i] = new /\ \A j \in IDs \ {i} : deployments'[j] = deployments[j]
    BY <1>2, <1>3, <1>5 DEF Inv, Typed
  <1>7. Stored' = Stored \cup {i}
    BY <1>3, <1>5, <1>6 DEF Stored
  <1>8. \A j \in Stored : j \in IDs /\ j # i /\ deployments'[j] = deployments[j]
    BY <1>3, <1>6 DEF Stored
  <1>9. /\ RunStep /\ CliOK'
        /\ \A other \in Pending' : other \in Pending /\ KeyOf(other) # KeyOf(item)
        /\ \A k : k \in Left' <=> k \in Left /\ k # KeyOf(item)
    BY <1>1, DoneFacts
  <1>10. Typed'
    BY <1>1, <1>6, <1>9 DEF Inv, Typed
  <1>11. NamesUnique'
    <2>1. SUFFICES ASSUME touched = {}
                   PROVE  \A j, k \in Stored \cup {i} : deployments'[j].name = deployments'[k].name => j = k
      BY <1>1, <1>7 DEF NamesUnique
    <2>2. \A j, k \in Stored : deployments[j].name = deployments[k].name => j = k
      BY <1>9, <2>1, ItemFacts, <1>1 DEF Inv, NamesUnique, Executed, Applying, RunStep
    <2> QED
      BY <1>1, <1>5, <1>6, <1>8, <2>2
  <1>12. SpecKept'
    <2>1. SUFFICES ASSUME NEW j \in (Stored \cup {i}) \ touched, NEW other \in Pending',
                          other.kind = "deployment", other.key = deployments'[j].name,
                          other.action = "update", "spec" \notin other.fields
                   PROVE  deployments'[j].spec = cli.doc.deployments[other.key].spec
      BY <1>7, <1>9 DEF SpecKept, RunStep
    <2>2. other \in Pending /\ other.key # n
      BY <1>4, <1>9, <2>1 DEF KeyOf
    <2>3. j \in Stored \ touched /\ deployments'[j] = deployments[j]
      BY <1>5, <1>6, <1>8, <2>1, <2>2
    <2> QED
      BY <1>9, <2>1, <2>2, <2>3 DEF Inv, SpecKept, Applying, RunStep
  <1>13. ListingCurrent'
    <2>1. SUFFICES ASSUME NEW m \in DOMAIN cli.byName, cli.byName[m].id \in (Stored \cup {i}) \ touched
                   PROVE  /\ deployments'[cli.byName[m].id].name = m
                          /\ (/\ cli.byName[m].status = "settled"
                              /\ \E other \in Pending' : KeyOf(other) = <<"deployment", m>>)
                                 => deployments'[cli.byName[m].id].status = "settled"
      BY <1>7, <1>9 DEF ListingCurrent, RunStep
    <2>2. cli.byName[m].id \in Stored \ touched
          /\ deployments'[cli.byName[m].id] = deployments[cli.byName[m].id]
      BY <1>3, <1>8, <2>1
    <2> QED
      BY <1>9, <2>1, <2>2 DEF Inv, ListingCurrent, RunStep
  <1>14. DeploymentsLeft'
    <2>1. SUFFICES ASSUME touched = {}, NEW m \in Names
                   PROVE  /\ <<"deployment", m>> \notin Left' => DeploymentKept(m)'
                          /\ DeploymentSettled(m)' => <<"deployment", m>> \notin Left'
      BY <1>1 DEF DeploymentsLeft
    <2>2. /\ <<"deployment", m>> \notin Left => DeploymentKept(m)
          /\ DeploymentSettled(m) => <<"deployment", m>> \notin Left
      BY <1>1, <2>1, ItemFacts DEF Inv, DeploymentsLeft, Executed, Applying
    <2>3. CASE m = n
      <3>1. <<"deployment", m>> \notin Left'
        BY <1>4, <1>9, <2>3
      <3>2. \A j \in Stored' : deployments'[j].name = n => j = i
        BY <1>1, <1>7, <1>8
      <3>3. DeploymentKept(m)'
        BY <1>4, <1>5, <1>6, <1>7, <1>9, <2>3, <3>2
           DEF DeploymentKept, RunStep, d
      <3> QED
        BY <3>1, <3>3
    <2>4. CASE m # n
      <3>1. <<"deployment", m>> \notin Left' <=> <<"deployment", m>> \notin Left
        BY <1>4, <1>9, <2>4
      <3>2. \A j : j \in Stored' /\ deployments'[j].name = m
                     <=> j \in Stored /\ deployments[j].name = m
        BY <1>5, <1>6, <1>7, <1>8, <2>4
      <3>3. /\ cli'.doc = cli.doc
            /\ \A j \in Stored : deployments'[j] = deployments[j]
        BY <1>8, <1>9 DEF RunStep
      <3>4. /\ DeploymentSettled(m)' <=> DeploymentSettled(m)
            /\ DeploymentKept(m)' <=> DeploymentKept(m)
        BY <3>2, <3>3 DEF DeploymentSettled, DeploymentKept, ExportedDeployment
      <3> QED
        BY <2>2, <3>1, <3>4
    <2> QED
      BY <2>3, <2>4
  <1> QED
    BY <1>1, <1>10, <1>11, <1>12, <1>13, <1>14, DeploymentStep

\* The record that an update or a deletion finds through the listing is the
\* one of the name, unless somebody else has written it.
LEMMA ListedName ==
    ASSUME Inv, cli.pc = "run", NEW n \in DOMAIN cli.byName, cli.byName[n].id \in Stored
    PROVE  /\ n \in Names /\ cli.byName[n].id \in IDs
           /\ cli.byName[n].status \in {"deploying", "settled"}
           /\ cli.byName[n].id \notin touched => deployments[cli.byName[n].id].name = n
           /\ (/\ cli.byName[n].id \notin touched /\ cli.byName[n].status = "settled"
               /\ \E item \in Pending : KeyOf(item) = <<"deployment", n>>)
                 => deployments[cli.byName[n].id].status = "settled"
PROOF
  <1>1. cli.byName \in Partial(Names, Listed)
    BY DEF Inv, Typed, CliOK
  <1>2. n \in Names /\ cli.byName[n] \in Listed
    BY <1>1, PartialElim
  <1>3. ListingCurrent
    BY DEF Inv
  <1> QED
    BY <1>2, <1>3 DEF ListingCurrent, Listed

\* An update settles the deployment that the listing names.
LEMMA UpdateDeploymentInv ==
    ASSUME Inv, NEW item, UpdateDeployment(item)
    PROVE  Inv'
PROOF
  <1> DEFINE n == item.key
             d == cli.doc.deployments[n]
             i == cli.byName[n].id
             new == FromDesired(n, d, UpdatedStatus(item, cli.byName[n]))
  <1>1. /\ IsNext(item) /\ item.kind = "deployment" /\ item.action = "update"
        /\ n \in DOMAIN cli.byName /\ i \in Stored
        /\ deployments' = [deployments EXCEPT ![i] = new]
        /\ Done(item, TRUE)
        /\ UNCHANGED <<registries, host, reportedOn, pass, config, planFile, touched, writes, commands>>
    BY DEF UpdateDeployment
  <1>2. cli.pc = "run"
    BY <1>1, ItemFacts
  <1>3. i \in IDs /\ cli.byName[n].status \in {"deploying", "settled"}
        /\ (i \notin touched => deployments[i].name = n)
    BY <1>1, <1>2, ListedName
  <1>4. /\ n \in Names /\ n \in DOMAIN cli.doc.deployments /\ d \in Desired
        /\ KeyOf(item) = <<"deployment", n>>
    BY <1>1, DeploymentItem
  <1>5. /\ new \in Deployment /\ new # None /\ new.name = n
        /\ new.spec = KeptOf[d.spec] /\ new.domain = d.domain
    <2>1. UpdatedStatus(item, cli.byName[n]) \in {"deploying", "settled"}
      BY <1>3 DEF UpdatedStatus
    <2> QED
      BY <1>4, <2>1, FromDesiredType
  <1> HIDE DEF new, d, i
  <1>6. /\ deployments \in [IDs -> Deployment \cup {None}]
        /\ deployments' \in [IDs -> Deployment \cup {None}]
        /\ deployments'[i] = new /\ \A j \in IDs \ {i} : deployments'[j] = deployments[j]
    BY <1>1, <1>3, <1>5 DEF Inv, Typed
  <1>7. Stored' = Stored
    BY <1>1, <1>3, <1>5, <1>6 DEF Stored
  <1>8. \A j \in Stored \ {i} : j \in IDs /\ deployments'[j] = deployments[j]
    BY <1>6 DEF Stored
  <1>9. /\ RunStep /\ CliOK'
        /\ \A other \in Pending' : other \in Pending /\ KeyOf(other) # KeyOf(item)
        /\ \A k : k \in Left' <=> k \in Left /\ k # KeyOf(item)
    BY <1>1, DoneFacts
  <1>10. Typed'
    BY <1>1, <1>6, <1>9 DEF Inv, Typed
  <1>11. touched = {} => \A j, k \in Stored : deployments[j].name = deployments[k].name => j = k
    BY <1>1, ItemFacts DEF Inv, NamesUnique, Executed, Applying
  <1>12. NamesUnique'
    <2>1. SUFFICES ASSUME touched = {}
                   PROVE  \A j, k \in Stored : deployments'[j].name = deployments'[k].name => j = k
      BY <1>1, <1>7 DEF NamesUnique
    <2>2. \A j \in Stored : deployments'[j].name = deployments[j].name
      BY <1>3, <1>5, <1>6, <1>8, <2>1
    <2> QED
      BY <1>11, <2>1, <2>2
  <1>13. SpecKept'
    <2>1. SUFFICES ASSUME NEW j \in Stored \ touched, NEW other \in Pending',
                          other.kind = "deployment", other.key = deployments'[j].name,
                          other.action = "update", "spec" \notin other.fields
                   PROVE  deployments'[j].spec = cli.doc.deployments[other.key].spec
      BY <1>1, <1>7, <1>9 DEF SpecKept, RunStep
    <2>2. other \in Pending /\ other.key # n
      BY <1>4, <1>9, <2>1 DEF KeyOf
    <2>3. deployments'[j] = deployments[j]
      BY <1>5, <1>6, <1>8, <2>1, <2>2
    <2> QED
      BY <1>2, <2>1, <2>2, <2>3 DEF Inv, SpecKept, Applying
  <1>14. ListingCurrent'
    <2>1. SUFFICES ASSUME NEW m \in DOMAIN cli.byName, cli.byName[m].id \in Stored \ touched
                   PROVE  /\ deployments'[cli.byName[m].id].name = m
                          /\ (/\ cli.byName[m].status = "settled"
                              /\ \E other \in Pending' : KeyOf(other) = <<"deployment", m>>)
                                 => deployments'[cli.byName[m].id].status = "settled"
      BY <1>1, <1>7, <1>9 DEF ListingCurrent, RunStep
    <2>2. deployments[cli.byName[m].id].name = m
      BY <1>2, <2>1, ListedName
    <2>3. CASE m = n
      BY <1>4, <1>5, <1>6, <1>9, <2>3 DEF i
    <2>4. CASE m # n
      <3>1. cli.byName[m].id # i
        BY <1>3, <2>1, <2>2, <2>4
      <3>2. deployments'[cli.byName[m].id] = deployments[cli.byName[m].id]
        BY <1>8, <2>1, <3>1
      <3> QED
        BY <1>2, <1>9, <2>1, <2>2, <3>2, ListedName
    <2> QED
      BY <2>3, <2>4
  <1>15. DeploymentsLeft'
    <2>1. SUFFICES ASSUME touched = {}, NEW m \in Names
                   PROVE  /\ <<"deployment", m>> \notin Left' => DeploymentKept(m)'
                          /\ DeploymentSettled(m)' => <<"deployment", m>> \notin Left'
      BY <1>1 DEF DeploymentsLeft
    <2>2. /\ <<"deployment", m>> \notin Left => DeploymentKept(m)
          /\ DeploymentSettled(m) => <<"deployment", m>> \notin Left
      BY <1>1, <2>1, ItemFacts DEF Inv, DeploymentsLeft, Executed, Applying
    <2>3. CASE m = n
      <3>1. <<"deployment", m>> \notin Left'
        BY <1>4, <1>9, <2>3
      <3>2. \A j \in Stored' : deployments'[j].name = n => j = i
        BY <1>1, <1>3, <1>7, <1>8, <1>11, <2>1
      <3>3. DeploymentKept(m)'
        BY <1>1, <1>4, <1>5, <1>6, <1>7, <1>9, <2>3, <3>2
           DEF DeploymentKept, RunStep, d
      <3> QED
        BY <3>1, <3>3
    <2>4. CASE m # n
      <3>1. <<"deployment", m>> \notin Left' <=> <<"deployment", m>> \notin Left
        BY <1>4, <1>9, <2>4
      <3>2. \A j \in Stored : (deployments[j].name = m \/ deployments'[j].name = m)
                                 => deployments'[j] = deployments[j]
        BY <1>3, <1>5, <1>6, <1>8, <2>1, <2>4
      <3>3. \A j : j \in Stored' /\ deployments'[j].name = m
                     <=> j \in Stored /\ deployments[j].name = m
        BY <1>7, <3>2
      <3>4. /\ DeploymentSettled(m)' <=> DeploymentSettled(m)
            /\ DeploymentKept(m)' <=> DeploymentKept(m)
        BY <1>9, <3>2, <3>3 DEF DeploymentSettled, DeploymentKept, RunStep, ExportedDeployment
      <3> QED
        BY <2>2, <3>1, <3>4
    <2> QED
      BY <2>3, <2>4
  <1> QED
    BY <1>1, <1>10, <1>12, <1>13, <1>14, <1>15, DeploymentStep

\* A deletion settles a deployment that the file does not have.
LEMMA DeleteDeploymentInv ==
    ASSUME Inv, NEW item, DeleteDeployment(item)
    PROVE  Inv'
PROOF
  <1> DEFINE n == item.key
             i == cli.byName[n].id
  <1>1. /\ IsNext(item) /\ item.kind = "deployment" /\ item.action = "delete"
        /\ n \in DOMAIN cli.byName /\ i \in Stored
        /\ deployments' = [deployments EXCEPT ![i] = None]
        /\ reportedOn' = [reportedOn EXCEPT ![i] = None]
        /\ Done(item, TRUE)
        /\ UNCHANGED <<registries, host, pass, config, planFile, touched, writes, commands>>
    BY DEF DeleteDeployment, Remove
  <1>2. cli.pc = "run"
    BY <1>1, ItemFacts
  <1>3. i \in IDs /\ (i \notin touched => deployments[i].name = n)
    BY <1>1, <1>2, ListedName
  <1>4. n \in Names /\ n \notin DOMAIN cli.doc.deployments /\ KeyOf(item) = <<"deployment", n>>
    BY <1>1, DeploymentItem
  <1> HIDE DEF i
  <1>6. /\ deployments \in [IDs -> Deployment \cup {None}]
        /\ deployments' \in [IDs -> Deployment \cup {None}]
        /\ deployments'[i] = None /\ \A j \in IDs \ {i} : deployments'[j] = deployments[j]
        /\ reportedOn' \in [IDs -> StoredSpecs \cup {None}]
    BY <1>1, <1>3 DEF Inv, Typed
  <1>7. Stored' = Stored \ {i}
    BY <1>1, <1>3, <1>6 DEF Stored
  <1>8. \A j \in Stored \ {i} : j \in IDs /\ deployments'[j] = deployments[j]
    BY <1>6 DEF Stored
  <1>9. /\ RunStep /\ CliOK'
        /\ \A other \in Pending' : other \in Pending /\ KeyOf(other) # KeyOf(item)
        /\ \A k : k \in Left' <=> k \in Left /\ k # KeyOf(item)
    BY <1>1, DoneFacts
  <1>10. Typed'
    BY <1>1, <1>6, <1>9 DEF Inv, Typed
  <1>11. touched = {} => \A j, k \in Stored : deployments[j].name = deployments[k].name => j = k
    BY <1>1, ItemFacts DEF Inv, NamesUnique, Executed, Applying
  <1>12. NamesUnique'
    BY <1>1, <1>7, <1>8, <1>11 DEF NamesUnique
  <1>13. SpecKept'
    BY <1>1, <1>2, <1>7, <1>8, <1>9 DEF Inv, SpecKept, RunStep, Applying
  <1>14. ListingCurrent'
    <2>1. SUFFICES ASSUME NEW m \in DOMAIN cli.byName, cli.byName[m].id \in (Stored \ {i}) \ touched
                   PROVE  /\ deployments'[cli.byName[m].id].name = m
                          /\ (/\ cli.byName[m].status = "settled"
                              /\ \E other \in Pending' : KeyOf(other) = <<"deployment", m>>)
                                 => deployments'[cli.byName[m].id].status = "settled"
      BY <1>1, <1>7, <1>9 DEF ListingCurrent, RunStep
    <2>2. deployments'[cli.byName[m].id] = deployments[cli.byName[m].id]
      BY <1>8, <2>1
    <2> QED
      BY <1>2, <1>9, <2>1, <2>2, ListedName
  <1>15. DeploymentsLeft'
    <2>1. SUFFICES ASSUME touched = {}, NEW m \in Names
                   PROVE  /\ <<"deployment", m>> \notin Left' => DeploymentKept(m)'
                          /\ DeploymentSettled(m)' => <<"deployment", m>> \notin Left'
      BY <1>1 DEF DeploymentsLeft
    <2>2. /\ <<"deployment", m>> \notin Left => DeploymentKept(m)
          /\ DeploymentSettled(m) => <<"deployment", m>> \notin Left
      BY <1>1, <2>1, ItemFacts DEF Inv, DeploymentsLeft, Executed, Applying
    <2>3. CASE m = n
      <3>1. <<"deployment", m>> \notin Left'
        BY <1>4, <1>9, <2>3
      <3>2. \A j \in Stored' : deployments'[j].name # n
        BY <1>1, <1>3, <1>7, <1>8, <1>11, <2>1
      <3>3. DeploymentKept(m)'
        BY <1>4, <1>9, <2>3, <3>2 DEF DeploymentKept, RunStep
      <3> QED
        BY <3>1, <3>3
    <2>4. CASE m # n
      <3>1. <<"deployment", m>> \notin Left' <=> <<"deployment", m>> \notin Left
        BY <1>4, <1>9, <2>4
      <3>2. \A j : j \in Stored' /\ deployments'[j].name = m
                     <=> j \in Stored /\ deployments[j].name = m
        BY <1>3, <1>7, <1>8, <2>1, <2>4
      <3>3. \A j \in Stored' : deployments'[j] = deployments[j]
        BY <1>7, <1>8
      <3>4. /\ DeploymentSettled(m)' <=> DeploymentSettled(m)
            /\ DeploymentKept(m)' <=> DeploymentKept(m)
        BY <1>9, <3>2, <3>3 DEF DeploymentSettled, DeploymentKept, RunStep, ExportedDeployment
      <3> QED
        BY <2>2, <3>1, <3>4
    <2> QED
      BY <2>3, <2>4
  <1> QED
    BY <1>1, <1>10, <1>12, <1>13, <1>14, <1>15, DeploymentStep

\* What an action on a registry that was done leaves of the invariant to
\* show.
LEMMA RegistryStep ==
    ASSUME Inv, NEW item, IsNext(item), item.kind = "registry", Done(item, TRUE),
           UNCHANGED <<deployments, host, reportedOn, pass, config, planFile, touched, writes, commands>>,
           registries' \in [RegIDs -> Registry \cup {None}],
           RegistriesUnique', RegListingCurrent', RegistriesLeft'
    PROVE  Inv'
PROOF
  <1>1. KeyOf(item) = <<"registry", item.key>>
    BY RegistryItem
  <1>2. /\ RunStep /\ PlanApproved' /\ CliOK'
        /\ \A k : k \in Left' <=> k \in Left /\ k # KeyOf(item)
    BY DoneFacts
  <1>3. /\ \A n : <<"deployment", n>> \in Left' <=> <<"deployment", n>> \in Left
        /\ <<"host", "host">> \in Left' <=> <<"host", "host">> \in Left
    BY <1>1, <1>2
  <1>4. Typed'
    BY <1>2 DEF Inv, Typed
  <1> QED
    BY <1>2, <1>3, <1>4, DeploymentFrame, HostFrame DEF Inv

\* The entry of a prefix, as the store keeps it.
LEMMA EntryType ==
    ASSUME NEW p \in Prefixes, NEW u \in Users
    PROVE  LET e == [prefix |-> NormalOf[p], user |-> u] IN
           /\ e \in Registry /\ e # None /\ e.prefix = NormalOf[p] /\ e.user = u
           /\ NormalOf[e.prefix] = e.prefix
  BY NormalAssumption, NoneAssumption DEF Registry

\* Writing an entry whose prefix no other entry has keeps prefixes unique.
LEMMA WriteEntry ==
    ASSUME Inv, NEW r \in RegIDs, NEW p \in Prefixes, NEW u \in Users,
           \A s \in StoredRegs \ {r} : registries[s].prefix # NormalOf[p],
           NEW e, e = [prefix |-> NormalOf[p], user |-> u],
           registries' = [registries EXCEPT ![r] = e]
    PROVE  /\ registries' \in [RegIDs -> Registry \cup {None}]
           /\ registries'[r].prefix = NormalOf[p] /\ registries'[r].user = u
           /\ StoredRegs' = StoredRegs \cup {r}
           /\ \A s \in StoredRegs \ {r} : s \in RegIDs /\ registries'[s] = registries[s]
           /\ \A s \in RegIDs \ {r} : registries'[s] = registries[s]
           /\ RegistriesUnique'
PROOF
  <1>1. /\ e \in Registry /\ e # None /\ e.prefix = NormalOf[p] /\ e.user = u
        /\ NormalOf[e.prefix] = e.prefix
    BY EntryType
  <1>3. /\ registries' \in [RegIDs -> Registry \cup {None}]
        /\ registries'[r] = e /\ \A s \in RegIDs \ {r} : registries'[s] = registries[s]
    BY <1>1 DEF Inv, Typed
  <1>4. StoredRegs' = StoredRegs \cup {r}
    BY <1>1, <1>3 DEF StoredRegs
  <1>5. \A s \in StoredRegs \ {r} : s \in RegIDs /\ registries'[s] = registries[s]
    BY <1>3 DEF StoredRegs
  <1>6. RegistriesUnique
    BY DEF Inv
  <1>7. RegistriesUnique'
    <2>1. \A s \in StoredRegs' : NormalOf[registries'[s].prefix] = registries'[s].prefix
      BY <1>1, <1>3, <1>4, <1>5, <1>6 DEF RegistriesUnique
    <2>2. \A s, t \in StoredRegs' : registries'[s].prefix = registries'[t].prefix => s = t
      BY <1>1, <1>3, <1>4, <1>5, <1>6 DEF RegistriesUnique
    <2> QED
      BY <2>1, <2>2 DEF RegistriesUnique
  <1> QED
    BY <1>1, <1>3, <1>4, <1>5, <1>7

\* Removing an entry keeps prefixes unique.
LEMMA RemoveEntry ==
    ASSUME Inv, NEW r \in RegIDs, registries' = [registries EXCEPT ![r] = None]
    PROVE  /\ registries' \in [RegIDs -> Registry \cup {None}]
           /\ StoredRegs' = StoredRegs \ {r}
           /\ \A s \in StoredRegs' : s \in RegIDs /\ registries'[s] = registries[s]
           /\ RegistriesUnique'
PROOF
  <1>1. /\ registries' \in [RegIDs -> Registry \cup {None}]
        /\ registries'[r] = None /\ \A s \in RegIDs \ {r} : registries'[s] = registries[s]
    BY DEF Inv, Typed
  <1>2. StoredRegs' = StoredRegs \ {r}
    BY <1>1 DEF StoredRegs
  <1>3. \A s \in StoredRegs' : s \in RegIDs /\ registries'[s] = registries[s]
    BY <1>1, <1>2 DEF StoredRegs
  <1>4. RegistriesUnique'
    BY <1>2, <1>3 DEF Inv, RegistriesUnique
  <1> QED
    BY <1>1, <1>2, <1>3, <1>4

\* A creation settles the registry, if the file spells it as the store does.
LEMMA CreateRegistryInv ==
    ASSUME Inv, NEW item, CreateRegistry(item)
    PROVE  Inv'
PROOF
  <1> DEFINE p == item.key
             u == cli.doc.registries[p]
             e == [prefix |-> NormalOf[p], user |-> u]
  <1>1. /\ IsNext(item) /\ item.kind = "registry" /\ item.action = "create"
        /\ \A r \in StoredRegs : registries[r].prefix # NormalOf[p]
        /\ Done(item, TRUE)
        /\ UNCHANGED <<deployments, host, reportedOn, pass, config, planFile, touched, writes, commands>>
    BY DEF CreateRegistry
  <1>2. PICK r \in FreshRegID : registries' = [registries EXCEPT ![r] = e]
    BY DEF CreateRegistry
  <1>3. r \in RegIDs /\ r \notin StoredRegs
        /\ \A q \in DOMAIN cli.idByPrefix : cli.idByPrefix[q] # r
    BY DEF FreshRegID
  <1>4. /\ p \in Prefixes /\ p \in DOMAIN cli.doc.registries /\ u \in Users
        /\ KeyOf(item) = <<"registry", p>>
    BY <1>1, RegistryItem
  <1>a. e = [prefix |-> NormalOf[p], user |-> u]
    OBVIOUS
  <1> HIDE DEF u, e, p
  <1>5. /\ registries' \in [RegIDs -> Registry \cup {None}]
        /\ registries'[r].prefix = NormalOf[p] /\ registries'[r].user = u
        /\ StoredRegs' = StoredRegs \cup {r}
        /\ \A s \in StoredRegs : s \in RegIDs /\ s # r /\ registries'[s] = registries[s]
        /\ RegistriesUnique'
    BY <1>1, <1>2, <1>3, <1>4, <1>a, WriteEntry
  <1>6. /\ RunStep
        /\ \A k : k \in Left' <=> k \in Left /\ k # KeyOf(item)
    BY <1>1, DoneFacts
  <1>7. RegListingCurrent'
    BY <1>3, <1>5, <1>6 DEF Inv, RegListingCurrent, RunStep
  <1>8. RegistriesLeft'
    <2>1. SUFFICES ASSUME touched = {}, InNormalForm(cli.doc), NEW q \in Prefixes
                   PROVE  RegistrySettled(q)' <=> <<"registry", q>> \notin Left'
      BY <1>1, <1>6 DEF RegistriesLeft, RunStep, InNormalForm
    <2>2. RegistrySettled(q) <=> <<"registry", q>> \notin Left
      BY <1>1, <2>1, ItemFacts DEF Inv, RegistriesLeft, Executed, Applying
    <2>3. NormalOf[p] = p
      BY <1>4, <2>1 DEF InNormalForm
    <2>4. CASE q = p
      <3>1. <<"registry", q>> \notin Left'
        BY <1>4, <1>6, <2>4
      <3>2. \A s \in StoredRegs' : registries'[s].prefix = p => s = r
        BY <1>1, <1>5, <2>3
      <3>3. RegistrySettled(q)'
        BY <1>4, <1>5, <1>6, <2>3, <2>4, <3>2 DEF RegistrySettled, RunStep, u
      <3> QED
        BY <3>1, <3>3
    <2>5. CASE q # p
      <3>1. <<"registry", q>> \notin Left' <=> <<"registry", q>> \notin Left
        BY <1>4, <1>6, <2>5
      <3>2. \A s : s \in StoredRegs' /\ registries'[s].prefix = q
                     <=> s \in StoredRegs /\ registries[s].prefix = q
        BY <1>5, <2>3, <2>5
      <3>3. RegistrySettled(q)' <=> RegistrySettled(q)
        BY <1>5, <1>6, <3>2 DEF RegistrySettled, RunStep
      <3> QED
        BY <2>2, <3>1, <3>3
    <2> QED
      BY <2>4, <2>5
  <1> QED
    BY <1>1, <1>5, <1>7, <1>8, RegistryStep

\* An update settles the registry that the listing names.
LEMMA UpdateRegistryInv ==
    ASSUME Inv, NEW item, UpdateRegistry(item)
    PROVE  Inv'
PROOF
  <1> DEFINE p == item.key
             u == cli.doc.registries[p]
             r == cli.idByPrefix[p]
             e == [prefix |-> NormalOf[p], user |-> u]
  <1>1. /\ IsNext(item) /\ item.kind = "registry" /\ item.action = "update"
        /\ p \in DOMAIN cli.idByPrefix /\ r \in StoredRegs
        /\ \A s \in StoredRegs \ {r} : registries[s].prefix # NormalOf[p]
        /\ registries' = [registries EXCEPT ![r] = e]
        /\ Done(item, TRUE)
        /\ UNCHANGED <<deployments, host, reportedOn, pass, config, planFile, touched, writes, commands>>
    BY DEF UpdateRegistry
  <1>2. cli.pc = "run"
    BY <1>1, ItemFacts
  <1>3. r \in RegIDs /\ (r \notin touched => registries[r].prefix = p)
    BY <1>1, <1>2 DEF StoredRegs, Inv, RegListingCurrent
  <1>4. /\ p \in Prefixes /\ p \in DOMAIN cli.doc.registries /\ u \in Users
        /\ KeyOf(item) = <<"registry", p>>
    BY <1>1, RegistryItem
  <1>5. r \notin touched => NormalOf[p] = p
    BY <1>1, <1>3 DEF Inv, RegistriesUnique
  <1>a. e = [prefix |-> NormalOf[p], user |-> u]
    OBVIOUS
  <1> HIDE DEF u, r, e, p
  <1>6. /\ registries' \in [RegIDs -> Registry \cup {None}]
        /\ registries'[r].prefix = NormalOf[p] /\ registries'[r].user = u
        /\ StoredRegs' = StoredRegs
        /\ \A s \in StoredRegs \ {r} : s \in RegIDs /\ registries'[s] = registries[s]
        /\ RegistriesUnique'
    <2>1. StoredRegs \cup {r} = StoredRegs
      BY <1>1
    <2>2. /\ r \in RegIDs /\ p \in Prefixes /\ u \in Users
          /\ \A s \in StoredRegs \ {r} : registries[s].prefix # NormalOf[p]
          /\ registries' = [registries EXCEPT ![r] = e]
      BY <1>1, <1>3, <1>4
    <2>3. /\ registries' \in [RegIDs -> Registry \cup {None}]
          /\ registries'[r].prefix = NormalOf[p] /\ registries'[r].user = u
          /\ StoredRegs' = StoredRegs \cup {r}
          /\ \A s \in StoredRegs \ {r} : s \in RegIDs /\ registries'[s] = registries[s]
          /\ RegistriesUnique'
      BY <1>a, <2>2, WriteEntry
    <2> QED
      BY <2>1, <2>3
  <1>7. /\ RunStep
        /\ \A k : k \in Left' <=> k \in Left /\ k # KeyOf(item)
    BY <1>1, DoneFacts
  <1>8. RegListingCurrent'
    <2>1. SUFFICES ASSUME NEW q \in DOMAIN cli.idByPrefix, cli.idByPrefix[q] \in StoredRegs \ touched
                   PROVE  registries'[cli.idByPrefix[q]].prefix = q
      BY <1>1, <1>6, <1>7 DEF RegListingCurrent, RunStep
    <2>2. registries[cli.idByPrefix[q]].prefix = q
      BY <1>2, <2>1 DEF Inv, RegListingCurrent
    <2> QED
      BY <1>3, <1>5, <1>6, <2>1, <2>2
  <1>9. RegistriesLeft'
    <2>1. SUFFICES ASSUME touched = {}, NEW q \in Prefixes, InNormalForm(cli.doc)
                   PROVE  RegistrySettled(q)' <=> <<"registry", q>> \notin Left'
      BY <1>1, <1>7 DEF RegistriesLeft, RunStep, InNormalForm
    <2>2. RegistrySettled(q) <=> <<"registry", q>> \notin Left
      BY <1>1, <2>1, ItemFacts DEF Inv, RegistriesLeft, Executed, Applying
    <2>3. NormalOf[p] = p /\ registries[r].prefix = p
      BY <1>3, <1>5, <2>1
    <2>4. CASE q = p
      <3>1. <<"registry", q>> \notin Left'
        BY <1>4, <1>7, <2>4
      <3>2. \A s \in StoredRegs' : registries'[s].prefix = p => s = r
        BY <1>1, <1>6, <2>3
      <3>3. RegistrySettled(q)'
        BY <1>1, <1>4, <1>6, <1>7, <2>3, <2>4, <3>2 DEF RegistrySettled, RunStep, u
      <3> QED
        BY <3>1, <3>3
    <2>5. CASE q # p
      <3>1. <<"registry", q>> \notin Left' <=> <<"registry", q>> \notin Left
        BY <1>4, <1>7, <2>5
      <3>2. \A s \in StoredRegs : (registries[s].prefix = q \/ registries'[s].prefix = q)
                                     => registries'[s] = registries[s]
        BY <1>6, <2>3, <2>5
      <3>3. RegistrySettled(q)' <=> RegistrySettled(q)
        BY <1>6, <1>7, <3>2 DEF RegistrySettled, RunStep
      <3> QED
        BY <2>2, <3>1, <3>3
    <2> QED
      BY <2>4, <2>5
  <1> QED
    BY <1>1, <1>6, <1>8, <1>9, RegistryStep

\* A deletion settles a registry that the file does not have.
LEMMA DeleteRegistryInv ==
    ASSUME Inv, NEW item, DeleteRegistry(item)
    PROVE  Inv'
PROOF
  <1> DEFINE p == item.key
             r == cli.idByPrefix[p]
  <1>1. /\ IsNext(item) /\ item.kind = "registry" /\ item.action = "delete"
        /\ p \in DOMAIN cli.idByPrefix /\ r \in StoredRegs
        /\ registries' = [registries EXCEPT ![r] = None]
        /\ Done(item, TRUE)
        /\ UNCHANGED <<deployments, host, reportedOn, pass, config, planFile, touched, writes, commands>>
    BY DEF DeleteRegistry
  <1>2. cli.pc = "run"
    BY <1>1, ItemFacts
  <1>3. r \in RegIDs /\ (r \notin touched => registries[r].prefix = p)
    BY <1>1, <1>2 DEF StoredRegs, Inv, RegListingCurrent
  <1>4. p \in Prefixes /\ p \notin DOMAIN cli.doc.registries /\ KeyOf(item) = <<"registry", p>>
    BY <1>1, RegistryItem
  <1> HIDE DEF r
  <1>5. /\ registries' \in [RegIDs -> Registry \cup {None}]
        /\ StoredRegs' = StoredRegs \ {r}
        /\ \A s \in StoredRegs' : s \in RegIDs /\ registries'[s] = registries[s]
        /\ RegistriesUnique'
    BY <1>1, <1>3, RemoveEntry
  <1>6. /\ RunStep
        /\ \A k : k \in Left' <=> k \in Left /\ k # KeyOf(item)
    BY <1>1, DoneFacts
  <1>7. RegListingCurrent'
    <2>1. SUFFICES ASSUME NEW q \in DOMAIN cli.idByPrefix, cli.idByPrefix[q] \in StoredRegs' \ touched
                   PROVE  registries'[cli.idByPrefix[q]].prefix = q
      BY <1>1, <1>6 DEF RegListingCurrent, RunStep
    <2>2. cli.idByPrefix[q] \in StoredRegs \ touched
          /\ registries'[cli.idByPrefix[q]] = registries[cli.idByPrefix[q]]
      BY <1>5, <2>1
    <2> QED
      BY <1>2, <2>1, <2>2 DEF Inv, RegListingCurrent
  <1>8. RegistriesLeft'
    <2>1. SUFFICES ASSUME touched = {}, NEW q \in Prefixes, InNormalForm(cli.doc)
                   PROVE  RegistrySettled(q)' <=> <<"registry", q>> \notin Left'
      BY <1>1, <1>6 DEF RegistriesLeft, RunStep, InNormalForm
    <2>2. RegistrySettled(q) <=> <<"registry", q>> \notin Left
      BY <1>1, <2>1, ItemFacts DEF Inv, RegistriesLeft, Executed, Applying
    <2>3. registries[r].prefix = p
      BY <1>3, <2>1
    <2>4. CASE q = p
      <3>1. <<"registry", q>> \notin Left'
        BY <1>4, <1>6, <2>4
      <3>2. \A s \in StoredRegs' : registries'[s].prefix # p
        BY <1>1, <1>5, <2>3 DEF Inv, RegistriesUnique
      <3>3. RegistrySettled(q)'
        BY <1>4, <1>6, <2>4, <3>2 DEF RegistrySettled, RunStep
      <3> QED
        BY <3>1, <3>3
    <2>5. CASE q # p
      <3>1. <<"registry", q>> \notin Left' <=> <<"registry", q>> \notin Left
        BY <1>4, <1>6, <2>5
      <3>2. \A s : s \in StoredRegs' /\ registries'[s].prefix = q
                     <=> s \in StoredRegs /\ registries[s].prefix = q
        BY <1>5, <2>3, <2>5
      <3>3. RegistrySettled(q)' <=> RegistrySettled(q)
        BY <1>5, <1>6, <3>2 DEF RegistrySettled, RunStep
      <3> QED
        BY <2>2, <3>1, <3>3
    <2> QED
      BY <2>4, <2>5
  <1> QED
    BY <1>1, <1>5, <1>7, <1>8, RegistryStep

\* The host profile is the one of the file.
LEMMA UpdateHostInv ==
    ASSUME Inv, NEW item, UpdateHost(item)
    PROVE  Inv'
PROOF
  <1>1. /\ IsNext(item) /\ item.kind = "host" /\ host' = cli.doc.host /\ Done(item, TRUE)
        /\ UNCHANGED <<deployments, registries, reportedOn, pass, config, planFile, touched, writes, commands>>
    BY DEF UpdateHost, StoreHost
  <1>2. KeyOf(item) = <<"host", "host">> /\ cli.doc.host \in Hosts
    BY <1>1, HostItem
  <1>3. /\ RunStep /\ PlanApproved' /\ CliOK'
        /\ \A k : k \in Left' <=> k \in Left /\ k # KeyOf(item)
    BY <1>1, DoneFacts
  <1>4. /\ \A n : <<"deployment", n>> \in Left' <=> <<"deployment", n>> \in Left
        /\ \A p : <<"registry", p>> \in Left' <=> <<"registry", p>> \in Left
    BY <1>2, <1>3
  <1>5. Typed'
    BY <1>1, <1>2, <1>3 DEF Inv, Typed
  <1>6. HostLeft'
    BY <1>1, <1>2, <1>3 DEF HostLeft, HostSettled, RunStep
  <1> QED
    BY <1>1, <1>3, <1>4, <1>5, <1>6, DeploymentFrame, RegistryFrame DEF Inv

\* When nothing is to come, what is left is what failed.
LEMMA FinishInv ==
    ASSUME Inv, Finish
    PROVE  Inv'
PROOF
  <1>1. /\ cli.pc = "run" /\ cli.todo = {}
        /\ UNCHANGED <<deployments, registries, host, reportedOn, pass, config, planFile, touched, writes, commands>>
    BY DEF Finish, store
  <1>2. cli \in CliType /\ cli.doc # None /\ cli.cmd = "apply"
    BY <1>1 DEF Inv, Typed, CliOK, PlanApproved, Applying
  <1>3. /\ cli' \in CliType /\ cli'.pc = "idle" /\ cli'.cmd = "none" /\ cli'.doc = cli.doc
        /\ cli'.todo = {} /\ cli'.failed = cli.failed
    BY <1>2 DEF Finish, Idle, CliType, PCs
  <1>4. Typed'
    BY <1>1, <1>2, <1>3 DEF Inv, Typed, CliOK, Executed
  <1>5. Left' = Left
    BY <1>1, <1>3 DEF Left, Pending
  <1>6. Executed /\ Executed' /\ ~Applying'
    BY <1>1, <1>2, <1>3 DEF Executed, Applying
  <1>7. RegistriesUnique'
    BY <1>1 DEF Inv, RegistriesUnique, StoredRegs
  <1>8. NamesUnique'
    BY <1>1, <1>2, <1>6 DEF Inv, NamesUnique, Stored
  <1>9. DeploymentsLeft'
    BY <1>1, <1>3, <1>5, <1>6, SettledFrame DEF Inv, DeploymentsLeft
  <1>10. RegistriesLeft'
    BY <1>1, <1>3, <1>5, <1>6, RegistrySettledFrame DEF Inv, RegistriesLeft, InNormalForm
  <1>11. HostLeft'
    BY <1>1, <1>3, <1>5, <1>6 DEF Inv, HostLeft, HostSettled
  <1> QED
    BY <1>3, <1>4, <1>6, <1>7, <1>8, <1>9, <1>10, <1>11
       DEF Inv, PlanApproved, ExportCurrent, RegExportCurrent, SpecKept, ListingCurrent, RegListingCurrent

-----------------------------------------------------------------------------
(* The other processes.                                                    *)

\* What a process other than the command leaves alone.
LEMMA CommandFrame ==
    ASSUME Inv, UNCHANGED cli
    PROVE  /\ CliOK' /\ PlanApproved' /\ Pending' = Pending /\ Left' = Left
           /\ Applying' <=> Applying
           /\ Executed' <=> Executed
           /\ Applying => cli.doc # None /\ cli.cmd = "apply"
           /\ Executed => cli.doc # None /\ cli.cmd # "plan"
           /\ cli.pc \in {"registries", "host", "entries", "run"} => cli.doc # None
PROOF
  <1>1. Pending' = Pending /\ Left' = Left /\ (Applying' <=> Applying) /\ (Executed' <=> Executed)
    BY DEF Pending, Left, Applying, Executed
  <1>2. CliOK'
    BY DEF Inv, Typed, CliOK, Executed, Applying
  <1>3. PlanApproved'
    BY <1>1 DEF Inv, PlanApproved
  <1> QED
    BY <1>1, <1>2, <1>3 DEF Inv, Typed, CliOK, PlanApproved, Executed, Applying

\* A write of another process to a deployment: Execute knows nothing of the
\* deployment any more, and everything of the others.
LEMMA OtherDeploymentWrite ==
    ASSUME Inv, NEW i \in IDs, Touch(i), Typed',
           UNCHANGED <<registries, cli>>,
           \A j \in IDs \ {i} : deployments'[j] = deployments[j]
    PROVE  Inv'
PROOF
  <1>1. /\ PlanApproved' /\ Pending' = Pending
        /\ Applying' <=> Applying
        /\ Executed' <=> Executed
        /\ Applying => cli.doc # None /\ cli.cmd = "apply"
        /\ Executed => cli.doc # None /\ cli.cmd # "plan"
        /\ cli.pc \in {"registries", "host", "entries", "run"} => cli.doc # None
    BY CommandFrame
  <1>2. cli.doc # None /\ cli.cmd # "plan" => touched' = touched \cup {i}
    BY DEF Touch
  <1>3. RegistriesUnique'
    BY DEF Inv, RegistriesUnique, StoredRegs
  <1>4. cli.doc # None /\ cli.cmd # "plan" =>
          \A j \in Stored' \ touched' : j \in Stored \ touched /\ deployments'[j] = deployments[j]
    BY <1>2 DEF Stored
  <1>5. ExportCurrent'
    BY <1>1, <1>2, <1>4 DEF Inv, ExportCurrent, ExportedDeployment
  <1>6. RegExportCurrent' /\ NamesUnique'
    BY <1>1, <1>2 DEF RegExportCurrent, NamesUnique
  <1>7. SpecKept'
    BY <1>1, <1>4 DEF Inv, SpecKept
  <1>8. ListingCurrent'
    BY <1>1, <1>4 DEF Inv, ListingCurrent, Applying
  <1>9. RegListingCurrent'
    BY <1>1, <1>2 DEF Inv, RegListingCurrent, StoredRegs, Applying
  <1>10. DeploymentsLeft' /\ RegistriesLeft' /\ HostLeft'
    BY <1>1, <1>2 DEF DeploymentsLeft, RegistriesLeft, HostLeft
  <1> QED
    BY <1>1, <1>3, <1>5, <1>6, <1>7, <1>8, <1>9, <1>10 DEF Inv

\* The same for a registry.
LEMMA OtherRegistryWrite ==
    ASSUME Inv, NEW r \in RegIDs, Touch(r), Typed', RegistriesUnique',
           UNCHANGED <<deployments, cli>>,
           \A s \in RegIDs \ {r} : registries'[s] = registries[s]
    PROVE  Inv'
PROOF
  <1>1. /\ PlanApproved' /\ Pending' = Pending
        /\ Applying' <=> Applying
        /\ Executed' <=> Executed
        /\ Applying => cli.doc # None /\ cli.cmd = "apply"
        /\ Executed => cli.doc # None /\ cli.cmd # "plan"
        /\ cli.pc \in {"registries", "host", "entries", "run"} => cli.doc # None
    BY CommandFrame
  <1>2. /\ cli.doc # None /\ cli.cmd # "plan" => touched' = touched \cup {r}
        /\ touched \subseteq touched'
    BY DEF Touch
  <1>3. cli.doc # None /\ cli.cmd # "plan" =>
          \A s \in StoredRegs' \ touched' : s \in StoredRegs \ touched /\ registries'[s] = registries[s]
    BY <1>2 DEF StoredRegs
  <1>4. ExportCurrent'
    BY <1>1, <1>2 DEF Inv, ExportCurrent, ExportedDeployment, Stored
  <1>5. RegExportCurrent' /\ NamesUnique'
    BY <1>1, <1>2 DEF RegExportCurrent, NamesUnique
  <1>6. SpecKept'
    BY <1>1, <1>2 DEF Inv, SpecKept, Stored
  <1>7. ListingCurrent'
    BY <1>1, <1>2 DEF Inv, ListingCurrent, Stored
  <1>8. RegListingCurrent'
    BY <1>1, <1>3 DEF Inv, RegListingCurrent, Applying
  <1>9. DeploymentsLeft' /\ RegistriesLeft' /\ HostLeft'
    BY <1>1, <1>2 DEF DeploymentsLeft, RegistriesLeft, HostLeft
  <1> QED
    BY <1>1, <1>4, <1>5, <1>6, <1>7, <1>8, <1>9 DEF Inv

\* Touching keeps the types.
LEMMA TouchType ==
    ASSUME Inv, NEW id \in IDs \cup RegIDs \cup {"host"}, Touch(id)
    PROVE  touched' \subseteq IDs \cup RegIDs \cup {"host"}
  BY DEF Touch, Inv, Typed

\* A write of the API keeps the types.
LEMMA WriteType ==
    ASSUME Inv, NEW id \in IDs \cup RegIDs \cup {"host"}, Write(id)
    PROVE  /\ touched' \subseteq IDs \cup RegIDs \cup {"host"}
           /\ writes' \in 0..MaxWrites /\ Touch(id)
PROOF
  <1>1. writes' \in 0..MaxWrites /\ Touch(id)
    BY BoundsAssumption DEF Write, Inv, Typed
  <1> QED
    BY <1>1, TouchType

\* The steps of the API and of the orchestrator, one by one.
LEMMA APICreateInv ==
    ASSUME Inv, NEW i \in IDs, NEW n \in Names, NEW s \in StoredSpecs,
           NEW d \in Domains \cup {NoDomain}, APICreate(i, n, s, d)
    PROVE  Inv'
PROOF
  <1>1. [name |-> n, spec |-> s, domain |-> d, status |-> "deploying"] \in Deployment
    BY DEF Deployment
  <1>2. /\ deployments' \in [IDs -> Deployment \cup {None}]
        /\ \A j \in IDs \ {i} : deployments'[j] = deployments[j]
    BY <1>1 DEF APICreate, Inv, Typed
  <1>3. Typed'
    BY <1>2, WriteType, CommandFrame DEF APICreate, Inv, Typed
  <1> QED
    BY <1>2, <1>3, OtherDeploymentWrite DEF APICreate, Write

\* A save, which may rename.
LEMMA APISaveInv ==
    ASSUME Inv, NEW i \in IDs, NEW n \in Names, NEW s \in StoredSpecs,
           NEW d \in Domains \cup {NoDomain}, APISave(i, n, s, d)
    PROVE  Inv'
PROOF
  <1> DEFINE status == IF s = deployments[i].spec THEN deployments[i].status ELSE "deploying"
             new == [name |-> n, spec |-> s, domain |-> d, status |-> status]
  <1>1. deployments[i] \in Deployment /\ deployments \in [IDs -> Deployment \cup {None}]
    BY DEF APISave, Stored, Inv, Typed
  <1>2. new \in Deployment
    BY <1>1 DEF Deployment
  <1>3. deployments' = [deployments EXCEPT ![i] = new]
    BY <1>1 DEF APISave
  <1> HIDE DEF new
  <1>4. /\ deployments' \in [IDs -> Deployment \cup {None}]
        /\ \A j \in IDs \ {i} : deployments'[j] = deployments[j]
    BY <1>1, <1>2, <1>3
  <1>5. Typed'
    BY <1>4, WriteType, CommandFrame DEF APISave, Inv, Typed
  <1> QED
    BY <1>4, <1>5, OtherDeploymentWrite DEF APISave, Write

\* A deletion by the API.
LEMMA APIDeleteInv ==
    ASSUME Inv, NEW i \in IDs, APIDelete(i)
    PROVE  Inv'
PROOF
  <1>1. /\ deployments' \in [IDs -> Deployment \cup {None}]
        /\ reportedOn' \in [IDs -> StoredSpecs \cup {None}]
        /\ \A j \in IDs \ {i} : deployments'[j] = deployments[j]
    BY DEF APIDelete, Remove, Inv, Typed
  <1>2. Typed'
    BY <1>1, WriteType, CommandFrame DEF APIDelete, Inv, Typed
  <1> QED
    BY <1>1, <1>2, OtherDeploymentWrite DEF APIDelete, Write

\* A registry that the API stores.
LEMMA APISetRegistryInv ==
    ASSUME Inv, NEW r \in RegIDs, NEW p \in Prefixes, NEW u \in Users, APISetRegistry(r, p, u)
    PROVE  Inv'
PROOF
  <1> DEFINE e == [prefix |-> NormalOf[p], user |-> u]
  <1>1. /\ \A s \in StoredRegs \ {r} : registries[s].prefix # NormalOf[p]
        /\ registries' = [registries EXCEPT ![r] = e] /\ e = [prefix |-> NormalOf[p], user |-> u]
    BY DEF APISetRegistry
  <1> HIDE DEF e
  <1>2. /\ registries' \in [RegIDs -> Registry \cup {None}]
        /\ \A s \in RegIDs \ {r} : registries'[s] = registries[s]
        /\ RegistriesUnique'
    BY <1>1, WriteEntry
  <1>3. Typed'
    BY <1>2, WriteType, CommandFrame DEF APISetRegistry, Inv, Typed
  <1> QED
    BY <1>2, <1>3, OtherRegistryWrite DEF APISetRegistry, Write

\* A registry that the API deletes.
LEMMA APIDeleteRegistryInv ==
    ASSUME Inv, NEW r \in RegIDs, APIDeleteRegistry(r)
    PROVE  Inv'
PROOF
  <1>1. /\ registries' \in [RegIDs -> Registry \cup {None}]
        /\ RegistriesUnique'
    BY RemoveEntry DEF APIDeleteRegistry
  <1>2. \A s \in RegIDs \ {r} : registries'[s] = registries[s]
    BY DEF APIDeleteRegistry, Inv, Typed
  <1>3. Typed'
    BY <1>1, WriteType, CommandFrame DEF APIDeleteRegistry, Inv, Typed
  <1> QED
    BY <1>1, <1>2, <1>3, OtherRegistryWrite DEF APIDeleteRegistry, Write

\* A host profile that the API stores.
LEMMA APISetHostInv ==
    ASSUME Inv, NEW h \in Hosts, APISetHost(h)
    PROVE  Inv'
PROOF
  <1>1. Touch("host") /\ host' = h
        /\ UNCHANGED <<deployments, registries, reportedOn, pass, config, planFile, cli, commands>>
    BY DEF APISetHost, Write, StoreHost
  <1>2. Typed'
    BY <1>1, WriteType, CommandFrame DEF APISetHost, Inv, Typed
  <1>3. /\ PlanApproved' /\ Pending' = Pending
        /\ Applying' <=> Applying
        /\ Executed' <=> Executed
        /\ Applying => cli.doc # None /\ cli.cmd = "apply"
        /\ Executed => cli.doc # None /\ cli.cmd # "plan"
        /\ cli.pc \in {"registries", "host", "entries", "run"} => cli.doc # None
    BY <1>1, CommandFrame
  <1>4. /\ cli.doc # None /\ cli.cmd # "plan" => touched' = touched \cup {"host"}
        /\ touched \subseteq touched'
    BY <1>1 DEF Touch
  <1>5. RegistriesUnique'
    BY <1>1 DEF Inv, RegistriesUnique, StoredRegs
  <1>6. ExportCurrent'
    BY <1>1, <1>3, <1>4 DEF Inv, ExportCurrent, ExportedDeployment, Stored
  <1>7. RegExportCurrent' /\ NamesUnique'
    BY <1>1, <1>3, <1>4 DEF RegExportCurrent, NamesUnique
  <1>8. SpecKept'
    BY <1>1, <1>3, <1>4 DEF Inv, SpecKept, Stored
  <1>9. ListingCurrent'
    BY <1>1, <1>3, <1>4 DEF Inv, ListingCurrent, Stored
  <1>10. RegListingCurrent'
    BY <1>1, <1>3, <1>4 DEF Inv, RegListingCurrent, StoredRegs
  <1>11. DeploymentsLeft' /\ RegistriesLeft' /\ HostLeft'
    BY <1>3, <1>4 DEF DeploymentsLeft, RegistriesLeft, HostLeft
  <1> QED
    BY <1>2, <1>3, <1>5, <1>6, <1>7, <1>8, <1>9, <1>10, <1>11 DEF Inv

\* What a report of the orchestrator writes: the status, and the ports of
\* the container that it has started.
LEMMA ReportRecord ==
    ASSUME Inv, NEW i \in IDs, NEW started \in BOOLEAN, Report(i, started), i \in Stored
    PROVE  /\ deployments[i] \in Deployment /\ deployments'[i] \in Deployment
           /\ deployments'[i].name = deployments[i].name
           /\ deployments'[i].domain = deployments[i].domain
           /\ deployments'[i].status = "settled"
           /\ Touch(i) \/ (deployments'[i].spec = deployments[i].spec /\ touched' = touched)
           /\ pass[i] = deployments[i].spec => reportedOn'[i] = deployments'[i].spec
           /\ \A j \in IDs \ {i} : deployments'[j] = deployments[j]
           /\ deployments' \in [IDs -> Deployment \cup {None}]
           /\ reportedOn' \in [IDs -> StoredSpecs \cup {None}]
           /\ \A j \in IDs \ {i} : reportedOn'[j] = reportedOn[j]
           /\ Stored' = Stored
PROOF
  <1> DEFINE old == deployments[i]
             spec == IF started THEN PortsOf[<<old.spec, pass[i]>>] ELSE old.spec
             about == IF started THEN PortsOf[<<pass[i], pass[i]>>] ELSE pass[i]
             new == [old EXCEPT !.status = "settled", !.spec = spec]
  <1>1. /\ old \in Deployment /\ deployments \in [IDs -> Deployment \cup {None}]
        /\ reportedOn \in [IDs -> StoredSpecs \cup {None}]
        /\ pass[i] \in StoredSpecs
    BY DEF Report, Stored, Inv, Typed
  <1>2. spec \in StoredSpecs /\ about \in StoredSpecs
    BY <1>1, SpecsAssumption DEF Deployment
  <1>3. /\ deployments' = [deployments EXCEPT ![i] = new]
        /\ reportedOn' = [reportedOn EXCEPT ![i] = about]
        /\ IF spec = old.spec THEN UNCHANGED touched ELSE Touch(i)
    BY <1>1 DEF Report
  <1>4. pass[i] = old.spec => about = spec
    OBVIOUS
  <1> HIDE DEF spec, about
  <1>5. /\ new \in Deployment /\ new.name = old.name /\ new.domain = old.domain
        /\ new.spec = spec /\ new.status = "settled"
    BY <1>1, <1>2 DEF Deployment
  <1> HIDE DEF new
  <1>6. /\ deployments'[i] = new /\ \A j \in IDs \ {i} : deployments'[j] = deployments[j]
        /\ deployments' \in [IDs -> Deployment \cup {None}]
    BY <1>1, <1>3, <1>5
  <1>7. /\ reportedOn'[i] = about /\ \A j \in IDs \ {i} : reportedOn'[j] = reportedOn[j]
        /\ reportedOn' \in [IDs -> StoredSpecs \cup {None}]
    BY <1>1, <1>2, <1>3
  <1>8. Stored' = Stored
    BY <1>1, <1>5, <1>6, NoneAssumption DEF Stored
  <1> QED
    BY <1>1, <1>3, <1>4, <1>5, <1>6, <1>7, <1>8

\* What the pass has still to see to is of no account to the invariant.
LEMMA PassFrame ==
    ASSUME Inv, UNCHANGED <<deployments, registries, host, cli, touched>>, Typed'
    PROVE  Inv'
  BY DEF Inv, RegistriesUnique, PlanApproved, ExportCurrent, RegExportCurrent, NamesUnique,
         SpecKept, ListingCurrent, RegListingCurrent, DeploymentsLeft, RegistriesLeft, HostLeft,
         Applying, Executed, Pending, Left, Stored, StoredRegs, DeploymentSettled, DeploymentKept,
         RegistrySettled, HostSettled, ExportedDeployment, InNormalForm

\* A pass begins with what is stored, and ends with nothing.
LEMMA PassStep == Inv /\ (StartPass \/ EndPass) => Inv'
PROOF
  <1>1. SUFFICES ASSUME Inv, StartPass \/ EndPass PROVE Inv'
    OBVIOUS
  <1>2. /\ UNCHANGED <<deployments, registries, host, reportedOn, config, planFile, cli, touched,
                       writes, commands>>
        /\ pass' = [i \in Stored |-> deployments[i].spec] \/ pass' = NoPass
    BY <1>1 DEF StartPass, EndPass, store
  <1>3. \A i \in Stored : i \in IDs /\ deployments[i].spec \in StoredSpecs
    BY <1>1 DEF Inv, Typed, Stored, Deployment
  <1>4. DOMAIN pass' \subseteq IDs /\ \A i \in DOMAIN pass' : pass'[i] \in StoredSpecs
    BY <1>2, <1>3 DEF NoPass
  <1>5. Typed'
    BY <1>1, <1>2, <1>4, CommandFrame DEF Inv, Typed
  <1> QED
    BY <1>1, <1>2, <1>5, PassFrame

\* A report that brings no new port changes only the status, which no part
\* of the invariant asks to be other than settled.
LEMMA ReportInv ==
    ASSUME Inv, NEW i \in IDs, NEW started \in BOOLEAN, Report(i, started)
    PROVE  Inv'
PROOF
  <1>1. /\ UNCHANGED <<registries, host, config, planFile, cli, writes, commands>>
        /\ pass' = [j \in DOMAIN pass \ {i} |-> pass[j]]
    BY DEF Report
  <1>2. DOMAIN pass' \subseteq IDs /\ \A j \in DOMAIN pass' : pass'[j] \in StoredSpecs
    BY <1>1 DEF Inv, Typed
  <1>3. CASE i \notin Stored
    <2>1. UNCHANGED <<deployments, reportedOn, touched>>
      BY <1>3 DEF Report
    <2>2. Typed'
      BY <1>1, <1>2, <2>1, CommandFrame DEF Inv, Typed
    <2> QED
      BY <1>1, <2>1, <2>2, PassFrame
  <1>4. CASE i \in Stored
    <2>1. /\ deployments[i] \in Deployment
          /\ deployments'[i].name = deployments[i].name
          /\ deployments'[i].domain = deployments[i].domain
          /\ deployments'[i].status = "settled"
          /\ Touch(i) \/ (deployments'[i].spec = deployments[i].spec /\ touched' = touched)
          /\ \A j \in IDs \ {i} : deployments'[j] = deployments[j]
          /\ deployments' \in [IDs -> Deployment \cup {None}]
          /\ reportedOn' \in [IDs -> StoredSpecs \cup {None}]
          /\ Stored' = Stored
      BY <1>4, ReportRecord
    <2>2. Typed'
      BY <1>1, <1>2, <2>1, TouchType, CommandFrame DEF Inv, Typed
    <2>3. CASE Touch(i)
      BY <1>1, <2>1, <2>2, <2>3, OtherDeploymentWrite
    <2>4. CASE touched' = touched /\ deployments'[i].spec = deployments[i].spec
      <3>1. \A j \in Stored : /\ deployments'[j].name = deployments[j].name
                              /\ deployments'[j].spec = deployments[j].spec
                              /\ deployments'[j].domain = deployments[j].domain
                              /\ deployments[j].status = "settled" => deployments'[j].status = "settled"
        BY <2>1, <2>4 DEF Stored
      <3>2. \A j \in Stored : ExportedDeployment(deployments'[j]) = ExportedDeployment(deployments[j])
        BY <3>1 DEF ExportedDeployment
      <3>3. /\ PlanApproved' /\ Pending' = Pending /\ Left' = Left
            /\ Applying' <=> Applying
            /\ Executed' <=> Executed
        BY <1>1, CommandFrame
      <3>4. RegistriesUnique'
        BY <1>1 DEF Inv, RegistriesUnique, StoredRegs
      <3>5. ExportCurrent'
        BY <1>1, <2>1, <2>4, <3>1, <3>2 DEF Inv, ExportCurrent, ExportedDeployment
      <3>6. RegExportCurrent'
        BY <1>1, <2>4 DEF Inv, RegExportCurrent, StoredRegs
      <3>7. NamesUnique'
        BY <1>1, <2>1, <2>4, <3>1, <3>3 DEF Inv, NamesUnique
      <3>8. SpecKept'
        BY <1>1, <2>1, <2>4, <3>1, <3>3 DEF Inv, SpecKept
      <3>9. ListingCurrent'
        BY <1>1, <2>1, <2>4, <3>1, <3>3 DEF Inv, ListingCurrent
      <3>10. RegListingCurrent'
        BY <1>1, <2>4 DEF Inv, RegListingCurrent, StoredRegs
      <3>11. \A n : /\ DeploymentSettled(n)' <=> DeploymentSettled(n)
                    /\ DeploymentKept(n)' <=> DeploymentKept(n)
        BY <1>1, <2>1, <3>1, <3>2 DEF DeploymentSettled, DeploymentKept, ExportedDeployment
      <3>12. DeploymentsLeft'
        BY <2>4, <3>3, <3>11 DEF Inv, DeploymentsLeft
      <3>13. RegistriesLeft'
        BY <1>1, <2>4, <3>3, RegistrySettledFrame DEF Inv, RegistriesLeft, InNormalForm
      <3>14. HostLeft'
        BY <1>1, <2>4, <3>3 DEF Inv, HostLeft, HostSettled
      <3> QED
        BY <2>2, <3>3, <3>4, <3>5, <3>6, <3>7, <3>8, <3>9, <3>10, <3>12, <3>13, <3>14 DEF Inv
    <2> QED
      BY <2>1, <2>3, <2>4
  <1> QED
    BY <1>3, <1>4

-----------------------------------------------------------------------------
(* The theorems.                                                           *)

\* Every step, stutters included, keeps the invariant.
LEMMA NextInv == Inv /\ [Next]_vars => Inv'
PROOF
  <1> SUFFICES ASSUME Inv, [Next]_vars
               PROVE  Inv'
    OBVIOUS
  <1>1. CASE UNCHANGED vars
    BY <1>1 DEF vars, Inv, Typed, CliOK, RegistriesUnique, PlanApproved, ExportCurrent, RegExportCurrent,
         NamesUnique, SpecKept, ListingCurrent, RegListingCurrent, DeploymentsLeft, RegistriesLeft,
         HostLeft, Applying, Executed, Pending, Left, Stored, StoredRegs, DeploymentSettled, DeploymentKept,
         RegistrySettled, HostSettled, ExportedDeployment, InNormalForm
  <1>2. CASE EditConfig
    BY <1>2, EditConfigInv
  <1>3. CASE \E cmd \in {"plan", "apply"} : Begin(cmd)
    BY <1>3, BeginInv
  <1>4. CASE ExportDeployments
    BY <1>4, ExportDeploymentsInv
  <1>5. CASE ExportRegistries
    BY <1>5, ExportRegistriesInv
  <1>6. CASE WritePlan
    BY <1>6, WritePlanInv
  <1>7. CASE CheckApproval
    BY <1>7, CheckApprovalInv
  <1>8. CASE ListDeployments
    BY <1>8, ListDeploymentsInv
  <1>9. CASE ListRegistries
    BY <1>9, ListRegistriesInv
  <1>10. CASE ExecuteStep
    BY <1>10, FailActionInv, CreateDeploymentInv, UpdateDeploymentInv, DeleteDeploymentInv,
       CreateRegistryInv, UpdateRegistryInv, DeleteRegistryInv, UpdateHostInv, FinishInv DEF ExecuteStep
  <1>11. CASE Kill
    BY <1>11, KillInv
  <1>12. CASE OtherStep
    BY <1>12, APICreateInv, APISaveInv, APIDeleteInv, ReportInv, PassStep, APISetRegistryInv,
       APIDeleteRegistryInv, APISetHostInv DEF OtherStep
  <1> QED
    BY <1>1, <1>2, <1>3, <1>4, <1>5, <1>6, <1>7, <1>8, <1>9, <1>10, <1>11, <1>12 DEF Next

\* The invariant of the configuration commands: while nobody else writes,
\* the actions that are left are exactly the differences between the file
\* and the store, and the listings describe what Execute is about to change.
THEOREM ApplyInvariant == Spec => []Inv
  BY InitInv, NextInv, PTL DEF Spec

\* Every variable of the configuration commands has its type, and the
\* command holds at every stage what the stage needs.
THEOREM ApplyTypeCorrect == Spec => []TypeOK
PROOF
  <1>1. Inv => TypeOK
    <2> SUFFICES ASSUME Inv PROVE TypeOK
      OBVIOUS
    <2>1. planFile = None \/ IsPlan(planFile)
      BY PlanIsPlan DEF Inv, Typed
    <2>2. Applying => cli.cmd = "apply" /\ IsPlan(cli.plan)
      BY PlanIsPlan DEF Inv, PlanApproved
    <2> QED
      BY <2>1, <2>2 DEF Inv, Typed, CliOK, CliType, PCs, TypeOK, Applying
  <1> QED
    BY <1>1, ApplyInvariant, PTL

\* After an apply that nobody disturbed, planning the same file again asks
\* for exactly what the apply reported failed (configapply.Execute) and for
\* the deployments of which the store does not keep every mount's attributes:
\* nothing else is applied twice, and nothing is passed over in silence.
THEOREM ApplyLeftoversReported == Spec => []LeftoversReported
PROOF
  <1>1. Inv => LeftoversReported
    <2>1. SUFFICES ASSUME Inv, cli.pc = "idle", cli.doc # None, touched = {}, InNormalForm(cli.doc),
                          NEW plan \in Build(cli.doc, ExportedDeployments, ExportedRegistries, host)
                   PROVE  {<<item.kind, item.key>> : item \in Items(plan)}
                              = cli.failed \cup {<<"deployment", n>> : n \in Lossy(cli.doc)}
      BY DEF LeftoversReported
    <2> DEFINE keys == {KeyOf(item) : item \in Items(plan)}
    <2>2. cli.doc \in Documents /\ cli.failed \subseteq Keys /\ cli.cmd = "none"
      BY <2>1 DEF Inv, Typed, CliOK, CliType
    <2>3. Executed /\ Left = cli.failed
      BY <2>1 DEF Executed, Left, Pending
    <2>4. \A i, j \in Stored : deployments[i].name = deployments[j].name => i = j
      BY <2>1, <2>2, <2>3 DEF Inv, NamesUnique
    <2>5. /\ ExportedDeployments \in Partial(Names, Desired)
          /\ DescribesDeployments(ExportedDeployments)
          /\ ExportedRegistries \in Partial(Prefixes, Users)
          /\ DescribesRegistries(ExportedRegistries)
      BY <2>1, <2>4, ExportDescribes, ExportDescribesRegistries DEF Inv, Typed
    <2>6. \A n \in Names : <<"deployment", n>> \in keys
                              <=> <<"deployment", n>> \in cli.failed \/ n \in Lossy(cli.doc)
      <3>1. \A n \in Names : DeploymentSettled(n)
                              <=> <<"deployment", n>> \notin cli.failed /\ n \notin Lossy(cli.doc)
        BY <2>1, <2>2, <2>3, SettledIsKept DEF Inv, Typed, DeploymentsLeft
      <3> QED
        BY <2>1, <2>2, <2>5, <3>1, BuildDeploymentKeys
    <2>7. \A p \in Prefixes : <<"registry", p>> \in keys <=> <<"registry", p>> \in cli.failed
      <3>1. \A p \in Prefixes : RegistrySettled(p) <=> <<"registry", p>> \notin cli.failed
        BY <2>1, <2>3 DEF Inv, RegistriesLeft
      <3> QED
        BY <2>1, <2>2, <2>5, <3>1, BuildRegistryKeys
    <2>8. <<"host", "host">> \in keys <=> <<"host", "host">> \in cli.failed
      <3>1. HostSettled <=> <<"host", "host">> \notin cli.failed
        BY <2>1, <2>3 DEF Inv, HostLeft
      <3> QED
        BY <2>1, <3>1, BuildHostKey
    <2>9. keys \subseteq Keys
      BY <2>1, <2>2, <2>5, BuildType, ItemsType
    <2> HIDE DEF keys
    <2>10. Lossy(cli.doc) \subseteq Names
      BY <2>2, DocumentParts, PartialElim DEF Lossy
    <2>11. keys = cli.failed \cup {<<"deployment", n>> : n \in Lossy(cli.doc)}
      BY <2>2, <2>6, <2>7, <2>8, <2>9, <2>10 DEF Keys
    <2> QED
      BY <2>11 DEF keys, KeyOf
  <1> QED
    BY <1>1, ApplyInvariant, PTL

\* What a step may do to the stores while Execute runs.
ChangesApproved ==
    /\ \A i \in IDs \ touched' : deployments'[i] # deployments[i] => DeploymentChangeApproved(i)
    /\ \A r \in RegIDs \ touched' : registries'[r] # registries[r] => RegistryChangeApproved(r)
    /\ host' # host /\ "host" \notin touched' => cli.approved.host.action = "update"

\* A write of another process during an apply is recorded.
LEMMA TouchRecorded ==
    ASSUME Inv, cli.pc = "run", NEW id, Touch(id)
    PROVE  id \in touched'
PROOF
  <1>1. cli.doc # None /\ cli.cmd = "apply"
    BY DEF Inv, Typed, CliOK, PlanApproved, Applying
  <1> QED
    BY <1>1 DEF Touch

\* An action on a deployment changes the record that was approved for it.
LEMMA DeploymentActionsApproved ==
    ASSUME Inv, NEW item,
           CreateDeployment(item) \/ UpdateDeployment(item) \/ DeleteDeployment(item)
    PROVE  ChangesApproved
PROOF
  <1>1. /\ IsNext(item) /\ item.kind = "deployment"
        /\ UNCHANGED <<registries, host, touched>>
        /\ deployments \in [IDs -> Deployment \cup {None}]
    BY DEF CreateDeployment, UpdateDeployment, DeleteDeployment, Inv, Typed
  <1>2. cli.pc = "run"
    BY <1>1, ItemFacts
  <1>3. /\ item.key \in Names
        /\ item.action \in {"create", "update"} => cli.doc.deployments[item.key] \in Desired
        /\ ApprovedFor(cli.approved.deployments, item.key, item.action)
    BY <1>1, DeploymentItem
  <1>4. SUFFICES ASSUME NEW i \in IDs \ touched, deployments'[i] # deployments[i]
                 PROVE  DeploymentChangeApproved(i)
    BY <1>1 DEF ChangesApproved
  <1>5. CASE CreateDeployment(item)
    <2> DEFINE new == FromDesired(item.key, cli.doc.deployments[item.key], "deploying")
    <2>1. PICK k \in FreshID : deployments' = [deployments EXCEPT ![k] = new]
      BY <1>5 DEF CreateDeployment
    <2>2. item.action = "create" /\ new.name = item.key
      BY <1>3, <1>5, FromDesiredType DEF CreateDeployment
    <2> HIDE DEF new
    <2>3. i = k /\ deployments[i] = None /\ deployments'[i] = new
      BY <1>1, <1>4, <2>1 DEF FreshID, Stored
    <2> QED
      BY <1>3, <2>2, <2>3 DEF DeploymentChangeApproved
  <1>6. CASE UpdateDeployment(item)
    <2> DEFINE k == cli.byName[item.key].id
               new == FromDesired(item.key, cli.doc.deployments[item.key],
                                  UpdatedStatus(item, cli.byName[item.key]))
    <2>1. /\ deployments' = [deployments EXCEPT ![k] = new]
          /\ item.action = "update" /\ item.key \in DOMAIN cli.byName /\ k \in Stored
      BY <1>6 DEF UpdateDeployment
    <2>2. (k \notin touched => deployments[k].name = item.key)
          /\ cli.byName[item.key].status \in {"deploying", "settled"}
      BY <1>2, <2>1, ListedName
    <2>3. UpdatedStatus(item, cli.byName[item.key]) \in {"deploying", "settled"}
      BY <2>2 DEF UpdatedStatus
    <2>4. new # None /\ new.name = item.key
      BY <1>3, <2>1, <2>3, FromDesiredType
    <2> HIDE DEF new, k
    <2>5. i = k /\ deployments'[i] = new /\ deployments[i] # None
      BY <1>1, <1>4, <2>1 DEF Stored
    <2> QED
      BY <1>3, <1>4, <2>1, <2>2, <2>4, <2>5 DEF DeploymentChangeApproved
  <1>7. CASE DeleteDeployment(item)
    <2> DEFINE k == cli.byName[item.key].id
    <2>1. /\ deployments' = [deployments EXCEPT ![k] = None]
          /\ item.action = "delete" /\ item.key \in DOMAIN cli.byName /\ k \in Stored
      BY <1>7 DEF DeleteDeployment, Remove
    <2>2. k \notin touched => deployments[k].name = item.key
      BY <1>2, <2>1, ListedName
    <2> HIDE DEF k
    <2>3. i = k /\ deployments'[i] = None /\ deployments[i] # None
      BY <1>1, <1>4, <2>1 DEF Stored
    <2> QED
      BY <1>3, <1>4, <2>1, <2>2, <2>3 DEF DeploymentChangeApproved
  <1> QED
    BY <1>5, <1>6, <1>7

\* The same for a registry.
LEMMA RegistryActionsApproved ==
    ASSUME Inv, NEW item,
           CreateRegistry(item) \/ UpdateRegistry(item) \/ DeleteRegistry(item)
    PROVE  ChangesApproved
PROOF
  <1>1. /\ IsNext(item) /\ item.kind = "registry"
        /\ UNCHANGED <<deployments, host, touched>>
        /\ registries \in [RegIDs -> Registry \cup {None}]
    BY DEF CreateRegistry, UpdateRegistry, DeleteRegistry, Inv, Typed
  <1>2. cli.pc = "run"
    BY <1>1, ItemFacts
  <1>3. /\ item.key \in Prefixes
        /\ ApprovedFor(cli.approved.registries, item.key, item.action)
    BY <1>1, RegistryItem
  <1>4. SUFFICES ASSUME NEW r \in RegIDs \ touched, registries'[r] # registries[r]
                 PROVE  RegistryChangeApproved(r)
    BY <1>1 DEF ChangesApproved
  <1>5. CASE CreateRegistry(item)
    <2> DEFINE e == [prefix |-> NormalOf[item.key], user |-> cli.doc.registries[item.key]]
    <2>1. PICK k \in FreshRegID : registries' = [registries EXCEPT ![k] = e]
      BY <1>5 DEF CreateRegistry
    <2>2. item.action = "create" /\ e.prefix = NormalOf[item.key]
      BY <1>5 DEF CreateRegistry
    <2> HIDE DEF e
    <2>3. r = k /\ registries[r] = None /\ registries'[r] = e
      BY <1>1, <1>4, <2>1 DEF FreshRegID, StoredRegs
    <2> QED
      BY <1>3, <2>2, <2>3 DEF RegistryChangeApproved
  <1>6. CASE UpdateRegistry(item) \/ DeleteRegistry(item)
    <2> DEFINE k == cli.idByPrefix[item.key]
    <2>1. /\ item.key \in DOMAIN cli.idByPrefix /\ k \in StoredRegs
          /\ item.action \in {"update", "delete"}
      BY <1>6 DEF UpdateRegistry, DeleteRegistry
    <2>2. k \notin touched => registries[k].prefix = item.key
      BY <1>2, <2>1 DEF Inv, RegListingCurrent
    <2>3. \A s \in RegIDs : s # k => registries'[s] = registries[s]
      BY <1>1, <1>6 DEF UpdateRegistry, DeleteRegistry
    <2>4. item.action = "delete" => registries'[k] = None
      BY <1>1, <1>6, <2>1 DEF UpdateRegistry, DeleteRegistry, StoredRegs
    <2>5. item.action = "update" => registries'[k] # None
      <3>1. SUFFICES ASSUME item.action = "update" PROVE registries'[k] # None
        OBVIOUS
      <3>2. UpdateRegistry(item)
        BY <1>6, <3>1 DEF DeleteRegistry
      <3>3. registries'[k] = [prefix |-> NormalOf[item.key], user |-> cli.doc.registries[item.key]]
        BY <1>1, <2>1, <3>2 DEF UpdateRegistry, StoredRegs
      <3>4. cli.doc.registries[item.key] \in Users
        BY <1>1, <3>1, RegistryItem
      <3> QED
        BY <1>3, <3>3, <3>4, EntryType
    <2> HIDE DEF k
    <2>6. r = k /\ registries[r] # None /\ registries[r].prefix = item.key
      BY <1>4, <2>1, <2>2, <2>3 DEF StoredRegs
    <2> QED
      BY <1>3, <2>1, <2>4, <2>5, <2>6 DEF RegistryChangeApproved
  <1> QED
    BY <1>5, <1>6

\* The steps of other processes during an apply are recorded, or they only
\* settle a status.
LEMMA OtherStepsApproved ==
    ASSUME Inv, cli.pc = "run", OtherStep
    PROVE  ChangesApproved
PROOF
  <1>1. ASSUME NEW i \in IDs, Touch(i), UNCHANGED <<registries, host>>,
               \A j \in IDs \ {i} : deployments'[j] = deployments[j]
        PROVE  ChangesApproved
    BY <1>1, TouchRecorded DEF ChangesApproved
  <1>2. ASSUME NEW r \in RegIDs, Touch(r), UNCHANGED <<deployments, host>>,
               \A s \in RegIDs \ {r} : registries'[s] = registries[s]
        PROVE  ChangesApproved
    BY <1>2, TouchRecorded DEF ChangesApproved
  <1>3. ASSUME NEW i \in IDs, NEW n \in Names, NEW s \in StoredSpecs, NEW d \in Domains \cup {NoDomain},
               APICreate(i, n, s, d) \/ APISave(i, n, s, d)
        PROVE  ChangesApproved
    <2>1. /\ Touch(i) /\ UNCHANGED <<registries, host>>
      BY <1>3 DEF APICreate, APISave, Write
    <2>2. \A j \in IDs \ {i} : deployments'[j] = deployments[j]
      BY <1>3 DEF APICreate, APISave, Inv, Typed
    <2> QED
      BY <1>1, <2>1, <2>2
  <1>4. ASSUME NEW i \in IDs, APIDelete(i)
        PROVE  ChangesApproved
    <2>1. \A j \in IDs \ {i} : deployments'[j] = deployments[j]
      BY <1>4 DEF APIDelete, Remove, Inv, Typed
    <2> QED
      BY <1>1, <1>4, <2>1 DEF APIDelete, Write
  <1>5. ASSUME NEW i \in IDs, NEW started \in BOOLEAN, Report(i, started)
        PROVE  ChangesApproved
    <2>1. UNCHANGED <<registries, host>>
      BY <1>5 DEF Report
    <2>2. CASE i \notin Stored
      BY <1>5, <2>1, <2>2 DEF Report, ChangesApproved
    <2>3. CASE i \in Stored
      <3>1. /\ deployments[i] \in Deployment /\ deployments'[i] \in Deployment
            /\ deployments'[i].name = deployments[i].name
            /\ deployments'[i].domain = deployments[i].domain
            /\ \A j \in IDs \ {i} : deployments'[j] = deployments[j]
            /\ Touch(i) \/ deployments'[i].spec = deployments[i].spec
        BY <1>5, <2>3, ReportRecord
      <3>2. CASE Touch(i)
        BY <1>1, <2>1, <3>1, <3>2
      <3>3. CASE deployments'[i].spec = deployments[i].spec
        <4>1. [deployments[i] EXCEPT !.status = deployments'[i].status] = deployments'[i]
          BY <3>1, <3>3 DEF Deployment
        <4>2. deployments[i] # None /\ deployments'[i] # None
          BY <3>1, NoneAssumption
        <4>3. DeploymentChangeApproved(i)
          BY <4>1, <4>2 DEF DeploymentChangeApproved
        <4> QED
          BY <2>1, <3>1, <4>3 DEF ChangesApproved
      <3> QED
        BY <3>1, <3>2, <3>3
    <2> QED
      BY <2>2, <2>3
  <1>6. ASSUME NEW r \in RegIDs, NEW p \in Prefixes, NEW u \in Users, APISetRegistry(r, p, u)
        PROVE  ChangesApproved
    <2>1. \A s \in RegIDs \ {r} : registries'[s] = registries[s]
      BY <1>6 DEF APISetRegistry, Inv, Typed
    <2> QED
      BY <1>2, <1>6, <2>1 DEF APISetRegistry, Write
  <1>7. ASSUME NEW r \in RegIDs, APIDeleteRegistry(r)
        PROVE  ChangesApproved
    <2>1. \A s \in RegIDs \ {r} : registries'[s] = registries[s]
      BY <1>7 DEF APIDeleteRegistry, Inv, Typed
    <2> QED
      BY <1>2, <1>7, <2>1 DEF APIDeleteRegistry, Write
  <1>8. ASSUME NEW h \in Hosts, APISetHost(h)
        PROVE  ChangesApproved
    BY <1>8, TouchRecorded DEF APISetHost, Write, ChangesApproved
  <1>9. CASE StartPass \/ EndPass
    BY <1>9 DEF StartPass, EndPass, ChangesApproved, store
  <1> QED
    BY <1>3, <1>4, <1>5, <1>6, <1>7, <1>8, <1>9 DEF OtherStep

\* Whatever changes in the stores while an apply runs was approved under
\* that very action, or was written by another process.
THEOREM ApplyOnlyApproved == Spec => OnlyApproved
PROOF
  <1>1. Inv /\ [Next]_vars => (cli.pc = "run" => ChangesApproved)
    <2> SUFFICES ASSUME Inv, [Next]_vars, cli.pc = "run"
                 PROVE  ChangesApproved
      OBVIOUS
    <2>1. ASSUME UNCHANGED <<deployments, registries, host>>
          PROVE  ChangesApproved
      BY <2>1 DEF ChangesApproved
    <2>2. CASE UNCHANGED vars
      BY <2>1, <2>2 DEF vars
    <2>3. CASE Kill
      BY <2>1, <2>3 DEF Kill, store
    <2>4. CASE OtherStep
      BY <2>4, OtherStepsApproved
    <2>5. CASE ExecuteStep
      <3>1. ASSUME NEW item, FailAction(item)
            PROVE  ChangesApproved
        BY <2>1, <3>1 DEF FailAction, store
      <3>2. CASE Finish
        BY <2>1, <3>2 DEF Finish, store
      <3>3. ASSUME NEW item, UpdateHost(item)
            PROVE  ChangesApproved
        BY <3>3, HostItem DEF UpdateHost, ChangesApproved
      <3> QED
        BY <2>5, <3>1, <3>2, <3>3, DeploymentActionsApproved, RegistryActionsApproved DEF ExecuteStep
    <2> QED
      BY <2>2, <2>3, <2>4, <2>5 DEF Next, EditConfig, Begin, ExportDeployments, ExportRegistries,
         WritePlan, CheckApproval, ListDeployments, ListRegistries
  <1>2. (cli.pc = "run" => ChangesApproved) <=>
        (cli.pc = "run" =>
           /\ \A i \in IDs \ touched' : deployments'[i] # deployments[i] => DeploymentChangeApproved(i)
           /\ \A r \in RegIDs \ touched' : registries'[r] # registries[r] => RegistryChangeApproved(r)
           /\ host' # host /\ "host" \notin touched' => cli.approved.host.action = "update")
    BY DEF ChangesApproved
  <1> QED
    BY <1>1, <1>2, ApplyInvariant, PTL DEF Spec, OnlyApproved

\* The phases that the order of the loops gives to the actions on a
\* deployment.
LEMMA PhaseValues ==
    ASSUME NEW item, item.kind = "deployment"
    PROVE  /\ item.action = "create" => Phase(item) = 3
           /\ item.action = "delete" => Phase(item) = 6
  BY DEF Phase

\* What one step may not do to the status of a deployment.
StaysCurrent ==
    \A i \in IDs \ touched' : StatusOfItsSpec(i) /\ ~InStalePass(i) => StatusOfItsSpec(i)'

\* An update writes back the status of the listing only when the record is
\* still settled and keeps its spec.
LEMMA UpdateStaysCurrent ==
    ASSUME Inv, NEW item, UpdateDeployment(item)
    PROVE  StaysCurrent
PROOF
  <1> DEFINE n == item.key
             k == cli.byName[n].id
             new == FromDesired(n, cli.doc.deployments[n], UpdatedStatus(item, cli.byName[n]))
  <1>1. /\ IsNext(item) /\ item.kind = "deployment" /\ item.action = "update"
        /\ n \in DOMAIN cli.byName /\ k \in Stored
        /\ deployments' = [deployments EXCEPT ![k] = new]
        /\ UNCHANGED <<reportedOn, touched>>
        /\ deployments \in [IDs -> Deployment \cup {None}]
    BY DEF UpdateDeployment, Inv, Typed
  <1>2. cli.pc = "run" /\ item \in Pending
    BY <1>1, ItemFacts
  <1>3. /\ n \in Names /\ cli.doc.deployments[n] \in Desired /\ KeyOf(item) = <<"deployment", n>>
    BY <1>1, DeploymentItem
  <1>4. /\ k \in IDs /\ cli.byName[n].status \in {"deploying", "settled"}
        /\ k \notin touched => deployments[k].name = n
        /\ k \notin touched /\ cli.byName[n].status = "settled" => deployments[k].status = "settled"
    BY <1>1, <1>2, <1>3, ListedName
  <1>5. /\ new.spec = KeptOf[cli.doc.deployments[n].spec]
        /\ new.status = UpdatedStatus(item, cli.byName[n])
    <2>1. UpdatedStatus(item, cli.byName[n]) \in {"deploying", "settled"}
      BY <1>4 DEF UpdatedStatus
    <2> QED
      BY <1>3, <2>1, FromDesiredType
  <1> HIDE DEF new
  <1>6. SUFFICES ASSUME NEW i \in IDs \ touched, StatusOfItsSpec(i), i \in Stored', deployments'[i].status = "settled"
                 PROVE  reportedOn[i] = deployments'[i].spec
    BY <1>1 DEF StaysCurrent, StatusOfItsSpec
  <1>7. CASE i # k
    <2>1. deployments'[i] = deployments[i]
      BY <1>1, <1>7
    <2> QED
      BY <1>6, <2>1 DEF StatusOfItsSpec, Stored
  <1>8. CASE i = k
    <2>1. deployments'[k] = new
      BY <1>1, <1>4
    <2>2. "spec" \notin item.fields /\ cli.byName[n].status = "settled"
      BY <1>5, <1>6, <1>8, <2>1 DEF UpdatedStatus, RedeployRequired
    <2>3. deployments[k].name = n /\ deployments[k].status = "settled"
      BY <1>4, <1>6, <1>8, <2>2
    <2>4. deployments[k].spec = cli.doc.deployments[n].spec
      BY <1>1, <1>2, <1>6, <1>8, <2>2, <2>3 DEF Inv, SpecKept, Applying
    <2>6. deployments[k].spec \in StoredSpecs
      BY <1>1, <1>4 DEF Stored, Deployment
    <2>5. reportedOn[k] = deployments[k].spec
      BY <1>1, <1>6, <1>8, <2>3 DEF StatusOfItsSpec
    <2> QED
      BY <1>5, <1>8, <2>1, <2>4, <2>5, <2>6 DEF StoredSpecs
  <1> QED
    BY <1>7, <1>8

\* The other writers: a new record waits for a deploy, a save keeps a status
\* only with the spec, and a report of a pass that is not stale is about the
\* record's own spec.
LEMMA OthersStayCurrent ==
    ASSUME Inv, OtherStep
    PROVE  StaysCurrent
PROOF
  <1>1. deployments \in [IDs -> Deployment \cup {None}] /\ reportedOn \in [IDs -> StoredSpecs \cup {None}]
    BY DEF Inv, Typed
  <1>2. ASSUME NEW i \in IDs, \A j \in IDs \ {i} : deployments'[j] = deployments[j],
               \A j \in IDs \ {i} : reportedOn'[j] = reportedOn[j],
               StatusOfItsSpec(i) /\ ~InStalePass(i) => StatusOfItsSpec(i)'
        PROVE  StaysCurrent
    <2>1. \A j \in IDs \ {i} : StatusOfItsSpec(j) => StatusOfItsSpec(j)'
      BY <1>2 DEF StatusOfItsSpec, Stored
    <2> QED
      BY <1>2, <2>1 DEF StaysCurrent
  <1>3. ASSUME NEW i \in IDs, NEW n \in Names, NEW s \in StoredSpecs, NEW d \in Domains \cup {NoDomain},
               APICreate(i, n, s, d)
        PROVE  StaysCurrent
    <2>1. /\ deployments'[i] = [name |-> n, spec |-> s, domain |-> d, status |-> "deploying"]
          /\ \A j \in IDs \ {i} : deployments'[j] = deployments[j]
          /\ UNCHANGED reportedOn
      BY <1>1, <1>3 DEF APICreate
    <2>2. StatusOfItsSpec(i)'
      BY <2>1 DEF StatusOfItsSpec
    <2> QED
      BY <1>2, <2>1, <2>2
  <1>4. ASSUME NEW i \in IDs, NEW n \in Names, NEW s \in StoredSpecs, NEW d \in Domains \cup {NoDomain},
               APISave(i, n, s, d)
        PROVE  StaysCurrent
    <2> DEFINE status == IF s = deployments[i].spec THEN deployments[i].status ELSE "deploying"
    <2>1. /\ deployments'[i] = [name |-> n, spec |-> s, domain |-> d, status |-> status]
          /\ \A j \in IDs \ {i} : deployments'[j] = deployments[j]
          /\ UNCHANGED reportedOn /\ i \in Stored
      BY <1>1, <1>4 DEF APISave
    <2>2. StatusOfItsSpec(i) => StatusOfItsSpec(i)'
      BY <2>1 DEF StatusOfItsSpec
    <2> QED
      BY <1>2, <2>1, <2>2
  <1>5. ASSUME NEW i \in IDs, APIDelete(i)
        PROVE  StaysCurrent
    <2>1. /\ deployments'[i] = None
          /\ \A j \in IDs \ {i} : deployments'[j] = deployments[j]
          /\ \A j \in IDs \ {i} : reportedOn'[j] = reportedOn[j]
      BY <1>1, <1>5 DEF APIDelete, Remove
    <2>2. StatusOfItsSpec(i)'
      BY <2>1 DEF StatusOfItsSpec, Stored
    <2> QED
      BY <1>2, <2>1, <2>2
  <1>6. ASSUME NEW i \in IDs, NEW started \in BOOLEAN, Report(i, started), i \in Stored
        PROVE  StaysCurrent
    <2>1. /\ \A j \in IDs \ {i} : deployments'[j] = deployments[j]
          /\ \A j \in IDs \ {i} : reportedOn'[j] = reportedOn[j]
          /\ pass[i] = deployments[i].spec => reportedOn'[i] = deployments'[i].spec
      BY <1>6, ReportRecord
    <2>2. ~InStalePass(i) => StatusOfItsSpec(i)'
      BY <1>6, <2>1 DEF StatusOfItsSpec, InStalePass, Report
    <2> QED
      BY <1>2, <2>1, <2>2
  <1>7. ASSUME UNCHANGED <<deployments, reportedOn>>
        PROVE  StaysCurrent
    BY <1>7 DEF StaysCurrent, StatusOfItsSpec, Stored
  <1>8. ASSUME NEW r \in RegIDs, NEW p \in Prefixes, NEW u \in Users, APISetRegistry(r, p, u)
        PROVE  StaysCurrent
    BY <1>7, <1>8 DEF APISetRegistry
  <1>9. ASSUME NEW r \in RegIDs, APIDeleteRegistry(r)
        PROVE  StaysCurrent
    BY <1>7, <1>9 DEF APIDeleteRegistry
  <1>10. ASSUME NEW h \in Hosts, APISetHost(h)
         PROVE  StaysCurrent
    BY <1>7, <1>10 DEF APISetHost
  <1>11. ASSUME NEW i \in IDs, NEW started \in BOOLEAN, Report(i, started), i \notin Stored
         PROVE  StaysCurrent
    BY <1>7, <1>11 DEF Report
  <1>12. CASE StartPass \/ EndPass
    BY <1>7, <1>12 DEF StartPass, EndPass, store
  <1> QED
    BY <1>3, <1>4, <1>5, <1>6, <1>8, <1>9, <1>10, <1>11, <1>12 DEF OtherStep

\* No step of the command, of the API or of the orchestrator gives a
\* deployment a status that is about another configuration (apply.go:176,
\* handler_update_deployment.go:97), unless another process has written the
\* deployment since the apply began, or a pass under way holds an older one.
THEOREM ApplyStatusIsCurrent == Spec => StatusIsCurrent
PROOF
  <1>1. Inv /\ [Next]_vars => StaysCurrent
    <2> SUFFICES ASSUME Inv, [Next]_vars
                 PROVE  StaysCurrent
      OBVIOUS
    <2>1. ASSUME UNCHANGED <<deployments, reportedOn>>
          PROVE  StaysCurrent
      BY <2>1 DEF StaysCurrent, StatusOfItsSpec, Stored
    <2>2. CASE UNCHANGED vars
      BY <2>1, <2>2 DEF vars
    <2>3. CASE OtherStep
      BY <2>3, OthersStayCurrent
    <2>4. CASE ExecuteStep
      <3>1. deployments \in [IDs -> Deployment \cup {None}]
        BY DEF Inv, Typed
      <3>2. ASSUME NEW item, CreateDeployment(item)
            PROVE  StaysCurrent
        <4> DEFINE new == FromDesired(item.key, cli.doc.deployments[item.key], "deploying")
        <4>1. PICK k \in FreshID : deployments' = [deployments EXCEPT ![k] = new]
          BY <3>2 DEF CreateDeployment
        <4>2. new.status = "deploying"
          BY DEF FromDesired
        <4> HIDE DEF new
        <4>3. deployments'[k] = new /\ k \in IDs /\ \A j \in IDs \ {k} : deployments'[j] = deployments[j]
          BY <3>1, <4>1 DEF FreshID
        <4>4. UNCHANGED reportedOn
          BY <3>2 DEF CreateDeployment
        <4> QED
          BY <4>2, <4>3, <4>4 DEF StaysCurrent, StatusOfItsSpec, Stored
      <3>3. ASSUME NEW item, DeleteDeployment(item)
            PROVE  StaysCurrent
        <4> DEFINE k == cli.byName[item.key].id
        <4>1. /\ deployments' = [deployments EXCEPT ![k] = None]
              /\ reportedOn' = [reportedOn EXCEPT ![k] = None]
              /\ reportedOn \in [IDs -> StoredSpecs \cup {None}]
          BY <3>3 DEF DeleteDeployment, Remove, Inv, Typed
        <4> HIDE DEF k
        <4> QED
          BY <3>1, <4>1 DEF StaysCurrent, StatusOfItsSpec, Stored
      <3>4. ASSUME NEW item, FailAction(item) \/ CreateRegistry(item) \/ UpdateRegistry(item)
                               \/ DeleteRegistry(item) \/ UpdateHost(item)
            PROVE  StaysCurrent
        BY <2>1, <3>4 DEF FailAction, CreateRegistry, UpdateRegistry, DeleteRegistry, UpdateHost, store
      <3>5. CASE Finish
        BY <2>1, <3>5 DEF Finish, store
      <3> QED
        BY <2>4, <3>2, <3>3, <3>4, <3>5, UpdateStaysCurrent DEF ExecuteStep
    <2> QED
      BY <2>1, <2>2, <2>3, <2>4 DEF Next, EditConfig, Begin, ExportDeployments, ExportRegistries,
         WritePlan, CheckApproval, ListDeployments, ListRegistries, Kill, store
  <1>2. StaysCurrent <=>
          \A i \in IDs \ touched' : StatusOfItsSpec(i) /\ ~InStalePass(i) => StatusOfItsSpec(i)'
    BY DEF StaysCurrent
  <1> QED
    BY <1>1, <1>2, ApplyInvariant, PTL DEF Spec, StatusIsCurrent

\* What a step may not do to the domain of a deployment it removes.
DomainHandedOver ==
    \A i \in IDs :
        /\ cli.pc = "run" /\ deployments[i] # None /\ deployments'[i] = None
        /\ touched' = {} /\ cli.failed = {}
        /\ \E n \in DOMAIN cli.doc.deployments :
               /\ cli.doc.deployments[n].domain = deployments[i].domain
               /\ ApprovedFor(cli.plan.deployments, n, "create")
        => \E j \in IDs : deployments'[j] # None /\ deployments'[j].domain = deployments[i].domain

\* When a deletion is next, every creation has been tried; if none failed,
\* what the file adds is stored.
LEMMA DeletionAfterCreation ==
    ASSUME Inv, NEW item, IsNext(item), item.kind = "deployment", item.action = "delete",
           touched = {}, cli.failed = {}, NEW n \in DOMAIN cli.doc.deployments,
           ApprovedFor(cli.plan.deployments, n, "create")
    PROVE  \E j \in Stored : /\ deployments[j].name = n
                             /\ deployments[j].domain = cli.doc.deployments[n].domain
PROOF
  <1>1. /\ cli.pc = "run" /\ cli.doc \in Documents /\ item \in cli.todo
        /\ cli.todo \subseteq Items(cli.plan) /\ Pending = cli.todo
    BY ItemFacts
  <1>2. n \in Names
    BY <1>1, DocumentParts, PartialElim
  <1>3. \A other \in cli.todo : Phase(item) <= Phase(other)
    BY DEF IsNext
  <1>4. ASSUME NEW other \in cli.todo, KeyOf(other) = <<"deployment", n>>
        PROVE  FALSE
    <2>1. other.kind = "deployment" /\ other.key = n
      BY <1>4 DEF KeyOf
    <2>2. other = Item("deployment", n, cli.plan.deployments[n])
      BY <1>1, <1>4, <2>1, ItemsElim
    <2>3. other.action = "create"
      BY <2>2 DEF Item, ApprovedFor
    <2>4. Phase(item) = 6 /\ Phase(other) = 3
      BY <2>1, <2>3, PhaseValues
    <2> QED
      BY <1>3, <1>4, <2>4
  <1>5. <<"deployment", n>> \notin Left
    BY <1>1, <1>4 DEF Left
  <1>6. DeploymentKept(n)
    BY <1>1, <1>2, <1>5 DEF Inv, DeploymentsLeft, Executed, Applying
  <1> QED
    BY <1>6 DEF DeploymentKept

\* An apply that moves a domain from a deployment that the file drops to one
\* that it adds removes the old one only when the new one is stored.
THEOREM ApplyHandoverKeepsDomain == Spec => HandoverKeepsDomain
PROOF
  <1>1. Inv /\ [Next]_vars => DomainHandedOver
    <2>1. SUFFICES ASSUME Inv, [Next]_vars, NEW i \in IDs,
                          cli.pc = "run", deployments[i] # None, deployments'[i] = None,
                          touched' = {}, cli.failed = {},
                          NEW n \in DOMAIN cli.doc.deployments,
                          cli.doc.deployments[n].domain = deployments[i].domain,
                          ApprovedFor(cli.plan.deployments, n, "create")
                   PROVE  \E j \in IDs : deployments'[j] # None /\ deployments'[j].domain = deployments[i].domain
      BY DEF DomainHandedOver
    <2>2. deployments \in [IDs -> Deployment \cup {None}]
      BY <2>1 DEF Inv, Typed
    <2>3. deployments' # deployments
      BY <2>1
    <2>4. ASSUME NEW item, DeleteDeployment(item)
          PROVE  \E j \in IDs : deployments'[j] # None /\ deployments'[j].domain = deployments[i].domain
      <3> DEFINE k == cli.byName[item.key].id
      <3>1. /\ IsNext(item) /\ item.kind = "deployment" /\ item.action = "delete"
            /\ item.key \in DOMAIN cli.byName /\ k \in Stored
            /\ deployments' = [deployments EXCEPT ![k] = None] /\ touched' = touched
        BY <2>4 DEF DeleteDeployment, Remove
      <3>2. deployments[k].name = item.key
        BY <2>1, <3>1, ListedName
      <3>3. item.key \notin DOMAIN cli.doc.deployments
        BY <2>1, <3>1, DeploymentItem
      <3>4. PICK j \in Stored : /\ deployments[j].name = n
                                /\ deployments[j].domain = cli.doc.deployments[n].domain
        BY <2>1, <3>1, DeletionAfterCreation
      <3> HIDE DEF k
      <3>5. j \in IDs /\ deployments[j] # None /\ j # k
        BY <2>1, <3>2, <3>3, <3>4 DEF Stored
      <3>6. deployments'[j] = deployments[j]
        BY <2>2, <3>1, <3>5
      <3>7. deployments[j].domain = deployments[i].domain
        BY <2>1, <3>4
      <3> QED
        BY <3>5, <3>6, <3>7
    <2>5. CASE OtherStep
      <3>1. ASSUME NEW k \in IDs, APIDelete(k)
            PROVE  FALSE
        BY <2>1, <3>1, TouchRecorded DEF APIDelete, Write
      <3>2. ASSUME NEW k \in IDs, NEW m \in Names, NEW s \in StoredSpecs, NEW d \in Domains \cup {NoDomain},
                   APICreate(k, m, s, d) \/ APISave(k, m, s, d)
            PROVE  FALSE
        BY <2>1, <3>2, TouchRecorded DEF APICreate, APISave, Write
      <3>3. ASSUME NEW k \in IDs, NEW started \in BOOLEAN, Report(k, started)
            PROVE  FALSE
        <4>1. CASE k \in Stored
          <5>1. Stored' = Stored
            BY <2>1, <3>3, <4>1, ReportRecord
          <5> QED
            BY <2>1, <5>1 DEF Stored
        <4>2. CASE k \notin Stored
          BY <2>3, <3>3, <4>2 DEF Report
        <4> QED
          BY <4>1, <4>2
      <3> QED
        BY <2>3, <2>5, <3>1, <3>2, <3>3 DEF OtherStep, APISetRegistry, APIDeleteRegistry, APISetHost,
           StartPass, EndPass, store
    <2>6. CASE ExecuteStep
      <3>1. ASSUME NEW item, CreateDeployment(item)
            PROVE  FALSE
        <4> DEFINE new == FromDesired(item.key, cli.doc.deployments[item.key], "deploying")
        <4>1. PICK k \in FreshID : deployments' = [deployments EXCEPT ![k] = new]
          BY <3>1 DEF CreateDeployment
        <4> HIDE DEF new
        <4> QED
          BY <2>1, <2>2, <4>1 DEF FreshID, Stored
      <3>2. ASSUME NEW item, UpdateDeployment(item)
            PROVE  FALSE
        <4> DEFINE k == cli.byName[item.key].id
                   status == UpdatedStatus(item, cli.byName[item.key])
                   new == FromDesired(item.key, cli.doc.deployments[item.key], status)
        <4>1. /\ deployments' = [deployments EXCEPT ![k] = new] /\ IsNext(item)
              /\ item.kind = "deployment" /\ item.action = "update"
              /\ item.key \in DOMAIN cli.byName /\ k \in Stored
          BY <3>2 DEF UpdateDeployment
        <4>2. status \in {"deploying", "settled"}
          BY <2>1, <4>1, ListedName DEF UpdatedStatus
        <4>3. item.key \in Names /\ cli.doc.deployments[item.key] \in Desired
          BY <2>1, <4>1, DeploymentItem
        <4>4. new # None
          BY <4>2, <4>3, FromDesiredType
        <4> HIDE DEF new, k
        <4> QED
          BY <2>1, <2>2, <4>1, <4>4
      <3>3. ASSUME NEW item, FailAction(item) \/ CreateRegistry(item) \/ UpdateRegistry(item)
                               \/ DeleteRegistry(item) \/ UpdateHost(item)
            PROVE  FALSE
        BY <2>3, <3>3 DEF FailAction, CreateRegistry, UpdateRegistry, DeleteRegistry, UpdateHost, store
      <3>4. CASE Finish
        BY <2>3, <3>4 DEF Finish, store
      <3> QED
        BY <2>4, <2>6, <3>1, <3>2, <3>3, <3>4 DEF ExecuteStep
    <2> QED
      BY <2>1, <2>3, <2>5, <2>6 DEF Next, EditConfig, Begin, ExportDeployments, ExportRegistries,
         WritePlan, CheckApproval, ListDeployments, ListRegistries, Kill, store, vars
  <1> QED
    BY <1>1, ApplyInvariant, PTL DEF Spec, HandoverKeepsDomain, DomainHandedOver

=============================================================================
