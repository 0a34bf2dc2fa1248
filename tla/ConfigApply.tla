---------------------------- MODULE ConfigApply ----------------------------
(***************************************************************************)
(* The declarative configuration commands, `lotsen config plan` and        *)
(* `lotsen config apply` (api/cmd/lotsen/config.go, internal/configplan,   *)
(* internal/configapply).  plan exports the live state, compares it with   *)
(* the configuration file and writes what would be done, with a            *)
(* fingerprint; apply takes an approved fingerprint, plans again, refuses  *)
(* when the fingerprint differs, and then performs the plan one store call *)
(* at a time.  The command is a process of its own: between any two of its *)
(* store calls the API may write the store and the orchestrator may finish *)
(* a deployment.  Each store call is atomic (module JSONStore).            *)
(*                                                                         *)
(* The fields of a deployment are grouped by how the code treats them:     *)
(* "spec" stands for the ones whose change asks for a redeploy (image,     *)
(* env, ports, proxy port, volumes, basic auth), "domain" for the ones     *)
(* that do not (domain, public, security).  Secrets are left out, because  *)
(* a file and an export hold nothing but placeholders and two placeholders *)
(* count as equal, and so are file mounts, which no plan compares.  The    *)
(* status "settled" stands for every status but "deploying" that the       *)
(* orchestrator reports; the commands carry it along unseen.               *)
(***************************************************************************)
EXTENDS Naturals, FiniteSets

CONSTANTS
    IDs,          \* ids of deployments, as newID draws them
    RegIDs,       \* ids of registries
    Names,        \* deployment names
    Specs, Domains, NoDomain,
    KeptOf,       \* volumeBindingsFromMounts: what the store keeps of a spec of a file
    PortsOf,      \* <<s, t>> -> s with the ports of a container started from t
    Prefixes,     \* registry prefixes as they may be written in a file
    NormalOf,     \* normalizeRegistryPrefix, on Prefixes
    Users, Hosts,
    Documents,    \* the configuration files that the operator may write
    Seeds,        \* what the stores may hold at the start
    None,         \* no record, no plan, no host section
    MaxWrites,    \* bound on the writes of the API
    MaxCommands   \* bound on the commands of the operator

\* The bindings of a record have no owner and no mode for a managed
\* directory, and no upper case in "managed"; the mounts of a file may.
StoredSpecs == {s \in Specs : KeptOf[s] = s}

Deployment == [name : Names, spec : StoredSpecs, domain : Domains \cup {NoDomain},
               status : {"deploying", "settled"}]

Registry == [prefix : Prefixes, user : Users]

\* A deployment of a configuration file.
Desired == [spec : Specs, domain : Domains \cup {NoDomain}]

Partial(S, T) == UNION {[D -> T] : D \in SUBSET S}

\* A configuration file that decodes: the order of its lists is of no
\* account, and one that repeats a name or a prefix does not validate.
Document == [deployments : Partial(Names, Desired), registries : Partial(Prefixes, Users),
             host : Hosts \cup {None}]

ASSUME NormalAssumption ==
    /\ NormalOf \in [Prefixes -> Prefixes]
    /\ \A p \in Prefixes : NormalOf[NormalOf[p]] = NormalOf[p]

ASSUME SpecsAssumption ==
    /\ KeptOf \in [Specs -> Specs]
    /\ \A s \in Specs : KeptOf[KeptOf[s]] = KeptOf[s]
    /\ PortsOf \in [StoredSpecs \X StoredSpecs -> StoredSpecs]

ASSUME DocumentsAssumption == Documents \subseteq Document

\* The store keeps every prefix in its normal form and at most once (module
\* JSONStore, PrefixesUnique).
ASSUME SeedsAssumption ==
    \A seed \in Seeds :
        /\ seed.deployments \in [IDs -> Deployment \cup {None}]
        /\ seed.registries \in [RegIDs -> Registry \cup {None}]
        /\ seed.host \in Hosts
        /\ \A r \in RegIDs : seed.registries[r] # None =>
              /\ NormalOf[seed.registries[r].prefix] = seed.registries[r].prefix
              /\ \A q \in RegIDs :
                    /\ seed.registries[q] # None
                    /\ seed.registries[q].prefix = seed.registries[r].prefix
                    => q = r

ASSUME BoundsAssumption == MaxWrites \in Nat /\ MaxCommands \in Nat

\* None is none of what it stands in for.
ASSUME NoneAssumption ==
    /\ None \notin Deployment \cup Registry \cup Hosts /\ None \notin Documents

VARIABLES
    deployments,  \* the store: id -> record or None
    registries,   \* the store: id -> record or None
    host,         \* the host profile file
    reportedOn,   \* the spec of a deployment that the orchestrator last reported on
    pass,         \* what the orchestrator's pass has still to see to: id -> its snapshot
    config,       \* the operator's configuration file
    planFile,     \* the plan file, or None
    cli,          \* the running command
    touched,      \* what other processes wrote since an apply began
    writes,       \* how often the API has written
    commands      \* how many commands the operator has run

vars == <<deployments, registries, host, reportedOn, pass, config, planFile, cli, touched, writes, commands>>

store == <<deployments, registries, host>>

NoPass == [i \in {} |-> None]

Stored == {i \in IDs : deployments[i] # None}
StoredRegs == {r \in RegIDs : registries[r] # None}

\* What the command has in hand: the document and the exported state, the
\* plan, the ids of Execute's listings, the actions left and those failed.
Idle == [cmd |-> "none", pc |-> "idle", doc |-> None, liveDeps |-> None, liveRegs |-> None,
         plan |-> None, approved |-> None, byName |-> <<>>, idByPrefix |-> <<>>,
         todo |-> {}, failed |-> {}]

-----------------------------------------------------------------------------
(* Build: the plan as a pure function of the file and the exported state.  *)

Change(action, fields) == [action |-> action, fields |-> fields]

\* The comparisons of a field: they trim what is written, and take any two
\* placeholders of secrets for equal.
EqualField(live, desired, f) == live[f] = desired[f]

DiffDeployment(live, desired) ==
    {f \in {"spec", "domain"} : ~EqualField(live, desired, f)}

DiffRegistry(live, desired) == IF live = desired THEN {} ELSE {"username"}

\* The action on resource k, by where it is and which fields differ.
ActionOn(k, desired, live, fields) ==
    IF k \notin DOMAIN live THEN Change("create", {})
    ELSE IF k \notin DOMAIN desired THEN Change("delete", {})
    ELSE Change(IF fields = {} THEN "noop" ELSE "update", fields)

PlanningDeployments(desired, live) ==
    [n \in DOMAIN desired \cup DOMAIN live |->
        ActionOn(n, desired, live, DiffDeployment(live[n], desired[n]))]

PlanningRegistries(desired, live) ==
    [p \in DOMAIN desired \cup DOMAIN live |->
        ActionOn(p, desired, live, DiffRegistry(live[p], desired[p]))]

\* Mutant: a file without a host section is taken for an empty section.
PlanningHostMissing(desired, live) ==
    IF desired = live THEN Change("noop", {}) ELSE Change("update", {"host"})

\* The host's settings are compared in their normal form.
EqualHost(live, desired) == live = desired

DiffHost(live, desired) == IF EqualHost(live, desired) THEN {} ELSE {"host"}

\* A file without a host section leaves the host alone.
PlanningHost(desired, live) ==
    IF desired = None \/ DiffHost(live, desired) = {}
    THEN Change("noop", {})
    ELSE Change("update", DiffHost(live, desired))

\* The deployment that claims each live domain is the first one in the
\* iteration order of a Go map, so any of them.
DomainOwners(live) ==
    LET claimed == {live[n].domain : n \in DOMAIN live}
    IN  {owner \in [claimed -> DOMAIN live] : \A d \in claimed : live[owner[d]].domain = d}

DeploymentConflicts(desired, owner) ==
    {<<n, owner[desired[n].domain]>> :
        n \in {m \in DOMAIN desired :
                /\ desired[m].domain \in DOMAIN owner
                /\ owner[desired[m].domain] # m
                /\ owner[desired[m].domain] \in DOMAIN desired}}

\* A hash of the whole plan in canonical order: names and changed fields,
\* no values.  It identifies the plan.
Fingerprint(plan) == plan

\* The plans Build may return.
Build(doc, deps, regs, h) ==
    {[deployments |-> PlanningDeployments(doc.deployments, deps),
      registries  |-> PlanningRegistries(doc.registries, regs),
      host        |-> PlanningHost(doc.host, h),
      conflicts   |-> DeploymentConflicts(doc.deployments, owner)] : owner \in DomainOwners(deps)}

-----------------------------------------------------------------------------
(* The export of the live state, validated like a file.                    *)

\* A deployment needs a domain; what Validate asks of the other fields holds
\* of every spec here.
ValidDeployment(desired) == desired.domain # NoDomain

\* The mounts of an export are made from the bindings of the record, which
\* hold all that is left of them.
ExportedDeployment(d) == [spec |-> d.spec, domain |-> d.domain]

ExportIsValid ==
    /\ \A i \in Stored : ValidDeployment(ExportedDeployment(deployments[i]))
    /\ \A i, j \in Stored : deployments[i].name = deployments[j].name => i = j

IDOfName(n) == CHOOSE i \in Stored : deployments[i].name = n
IDOfPrefix(p) == CHOOSE r \in StoredRegs : registries[r].prefix = p

ExportedDeployments ==
    [n \in {deployments[i].name : i \in Stored} |-> ExportedDeployment(deployments[IDOfName(n)])]

ExportedRegistries ==
    [p \in {registries[r].prefix : r \in StoredRegs} |-> registries[IDOfPrefix(p)].user]

-----------------------------------------------------------------------------
Init ==
    /\ \E seed \in Seeds :
          /\ deployments = seed.deployments
          /\ registries = seed.registries
          /\ host = seed.host
          /\ reportedOn = [i \in IDs |-> IF seed.deployments[i] = None THEN None
                                         ELSE seed.deployments[i].spec]
    /\ pass = NoPass
    /\ config \in Documents
    /\ planFile = None
    /\ cli = Idle
    /\ touched = {}
    /\ writes = 0
    /\ commands = 0

\* The command exits without a result, and nobody remembers one.
Leave == cli' = Idle /\ touched' = {}

\* The operator writes another configuration file.
EditConfig ==
    /\ cli.pc = "idle"
    /\ config' \in Documents \ {config}
    /\ Leave
    /\ UNCHANGED <<store, reportedOn, pass, planFile, writes, commands>>

\* readPlanFile: an apply needs a plan that decodes.
ReadPlanFile(cmd) == cmd = "apply" => planFile # None

\* Both commands read and validate the file and then export the live state.
Begin(cmd) ==
    /\ cli.pc = "idle"
    /\ \A n \in DOMAIN config.deployments : ValidDeployment(config.deployments[n])
    /\ commands < MaxCommands
    /\ commands' = commands + 1
    /\ ReadPlanFile(cmd)
    /\ cli' = [Idle EXCEPT !.cmd = cmd, !.pc = "deployments", !.doc = config,
                           !.approved = IF cmd = "apply" THEN planFile ELSE None]
    /\ touched' = {}
    /\ UNCHANGED <<store, reportedOn, pass, config, planFile, writes>>

\* The export lists the deployments; an export that does not validate ends
\* the command, which has changed nothing.
ExportDeployments ==
    /\ cli.pc = "deployments"
    /\ \/ /\ ExportIsValid
          /\ cli' = [cli EXCEPT !.pc = "registries", !.liveDeps = ExportedDeployments]
          /\ UNCHANGED touched
       \/ ~ExportIsValid /\ Leave
    /\ UNCHANGED <<store, reportedOn, pass, config, planFile, writes, commands>>

ExportRegistries ==
    /\ cli.pc = "registries"
    /\ cli' = [cli EXCEPT !.pc = "host", !.liveRegs = ExportedRegistries]
    /\ UNCHANGED <<store, reportedOn, pass, config, planFile, touched, writes, commands>>

\* config plan writes the plan to the file that is later approved.
WritePlan ==
    /\ cli.pc = "host" /\ cli.cmd = "plan"
    /\ planFile' \in Build(cli.doc, cli.liveDeps, cli.liveRegs, host)
    /\ Leave
    /\ UNCHANGED <<store, reportedOn, pass, config, writes, commands>>

\* Mutant: the plan is made again and the approval is not compared with it.
CheckApprovalNot ==
    /\ cli.pc = "host" /\ cli.cmd = "apply"
    /\ \E plan \in Build(cli.doc, cli.liveDeps, cli.liveRegs, host) :
           cli' = [cli EXCEPT !.pc = "list", !.plan = plan,
                              !.liveDeps = None, !.liveRegs = None]
    /\ UNCHANGED <<store, reportedOn, pass, config, planFile, touched, writes, commands>>

\* config apply plans again and refuses a stale approval.
CheckApproval ==
    /\ cli.pc = "host" /\ cli.cmd = "apply"
    /\ \E plan \in Build(cli.doc, cli.liveDeps, cli.liveRegs, host) :
          \/ /\ Fingerprint(plan) = Fingerprint(cli.approved)
             /\ cli' = [cli EXCEPT !.pc = "list", !.plan = plan,
                                   !.liveDeps = None, !.liveRegs = None]
             /\ UNCHANGED touched
          \/ Fingerprint(plan) # Fingerprint(cli.approved) /\ Leave
    /\ UNCHANGED <<store, reportedOn, pass, config, planFile, writes, commands>>

-----------------------------------------------------------------------------
(* Execute.                                                                *)

\* The host profile's file is replaced like the deployments file, under a
\* lock and by a rename (module JSONStore).
StoreHost(profile) == host' = profile

\* Execute lists the deployments again; a later one of the same name hides
\* an earlier one.
ListDeployments ==
    /\ cli.pc = "list"
    /\ \E byName \in [{deployments[i].name : i \in Stored} -> Stored] :
           /\ \A n \in DOMAIN byName : deployments[byName[n]].name = n
           /\ cli' = [cli EXCEPT !.pc = "entries",
                        !.byName = [n \in DOMAIN byName |->
                                        [id |-> byName[n], status |-> deployments[byName[n]].status]]]
    /\ UNCHANGED <<store, reportedOn, pass, config, planFile, touched, writes, commands>>

Item(kind, key, change) == [kind |-> kind, key |-> key, action |-> change.action, fields |-> change.fields]

\* The actions of a plan that do something.
Items(plan) ==
    {item \in {Item("deployment", n, plan.deployments[n]) : n \in DOMAIN plan.deployments}
         \cup {Item("registry", p, plan.registries[p]) : p \in DOMAIN plan.registries}
         \cup {Item("host", "host", plan.host)} : item.action # "noop"}

ListRegistries ==
    /\ cli.pc = "entries"
    /\ cli' = [cli EXCEPT !.pc = "run", !.todo = Items(cli.plan),
                 !.idByPrefix = [p \in {registries[r].prefix : r \in StoredRegs} |-> IDOfPrefix(p)]]
    /\ UNCHANGED <<store, reportedOn, pass, config, planFile, touched, writes, commands>>

\* Mutant: deletions make room first.
PhaseDeletesFirst(item) ==
    CASE item.action = "delete"     -> 1
      [] item.kind = "registry"     -> 2
      [] item.kind = "deployment"   -> 3
      [] item.kind = "host"         -> 4

\* Registries before the deployments that pull from them, deletions last.
Phase(item) ==
    CASE item.kind = "registry"   /\ item.action = "create" -> 1
      [] item.kind = "registry"   /\ item.action = "update" -> 2
      [] item.kind = "deployment" /\ item.action = "create" -> 3
      [] item.kind = "deployment" /\ item.action = "update" -> 4
      [] item.kind = "host"                                 -> 5
      [] item.kind = "deployment" /\ item.action = "delete" -> 6
      [] item.kind = "registry"   /\ item.action = "delete" -> 7

IsNext(item) ==
    /\ cli.pc = "run"
    /\ item \in cli.todo
    /\ \A other \in cli.todo : Phase(item) <= Phase(other)

\* appendOutcome: the loop goes on after a failed action.
Done(item, ok) ==
    cli' = [cli EXCEPT !.todo = @ \ {item},
                       !.failed = IF ok THEN @ ELSE @ \cup {<<item.kind, item.key>>}]

\* Ids are random: a new one is in no table and in no listing.
FreshID == IDs \ (Stored \cup touched \cup DOMAIN pass
                  \cup {cli.byName[n].id : n \in DOMAIN cli.byName})
FreshRegID == RegIDs \ (StoredRegs \cup touched \cup {cli.idByPrefix[p] : p \in DOMAIN cli.idByPrefix})

\* deploymentFromDesired: the record of a deployment of the file.
FromDesired(n, d, status) ==
    [name |-> n, spec |-> KeptOf[d.spec], domain |-> d.domain, status |-> status]

RedeployRequired(fields) == "spec" \in fields

\* An action whose store call fails, with an I/O error or because of what
\* another process did to the resource.
FailAction(item) ==
    /\ IsNext(item)
    /\ Done(item, FALSE)
    /\ UNCHANGED <<store, reportedOn, pass, config, planFile, touched, writes, commands>>

CreateDeployment(item) ==
    /\ IsNext(item) /\ item.kind = "deployment" /\ item.action = "create"
    /\ \A i \in Stored : deployments[i].name # item.key
    /\ \E i \in FreshID :
           deployments' = [deployments EXCEPT
                             ![i] = FromDesired(item.key, cli.doc.deployments[item.key], "deploying")]
    /\ Done(item, TRUE)
    /\ UNCHANGED <<registries, host, reportedOn, pass, config, planFile, touched, writes, commands>>

\* Mutant: the status of the listing is kept whatever has changed.
StatusKept(item, existing) == existing.status

\* The status of an updated record: the one of the listing, or a redeploy.
UpdatedStatus(item, existing) ==
    IF RedeployRequired(item.fields) THEN "deploying" ELSE existing.status

UpdateDeployment(item) ==
    /\ IsNext(item) /\ item.kind = "deployment" /\ item.action = "update"
    /\ item.key \in DOMAIN cli.byName
    /\ LET existing == cli.byName[item.key]
       IN  /\ existing.id \in Stored
           /\ deployments' = [deployments EXCEPT
                                ![existing.id] = FromDesired(item.key, cli.doc.deployments[item.key],
                                                             UpdatedStatus(item, existing))]
    /\ Done(item, TRUE)
    /\ UNCHANGED <<registries, host, reportedOn, pass, config, planFile, touched, writes, commands>>

\* A record goes; its container is the orchestrator's to remove.
Remove(i) ==
    /\ deployments' = [deployments EXCEPT ![i] = None]
    /\ reportedOn' = [reportedOn EXCEPT ![i] = None]

\* Mutant: a removal that finds nothing to remove counts as applied, and so
\* does one that the store refuses.
DeleteDeploymentLeniently(item) ==
    /\ IsNext(item) /\ item.kind = "deployment" /\ item.action = "delete"
    /\ \/ /\ item.key \in DOMAIN cli.byName
          /\ Remove(cli.byName[item.key].id)
       \/ UNCHANGED <<deployments, reportedOn>>
    /\ Done(item, TRUE)
    /\ UNCHANGED <<registries, host, pass, config, planFile, touched, writes, commands>>

DeleteDeployment(item) ==
    /\ IsNext(item) /\ item.kind = "deployment" /\ item.action = "delete"
    /\ item.key \in DOMAIN cli.byName
    /\ cli.byName[item.key].id \in Stored
    /\ Remove(cli.byName[item.key].id)
    /\ Done(item, TRUE)
    /\ UNCHANGED <<registries, host, pass, config, planFile, touched, writes, commands>>

\* The store keeps the normal form of a prefix and refuses a second entry.
CreateRegistry(item) ==
    /\ IsNext(item) /\ item.kind = "registry" /\ item.action = "create"
    /\ \A r \in StoredRegs : registries[r].prefix # NormalOf[item.key]
    /\ \E r \in FreshRegID :
           registries' = [registries EXCEPT ![r] = [prefix |-> NormalOf[item.key],
                                                    user   |-> cli.doc.registries[item.key]]]
    /\ Done(item, TRUE)
    /\ UNCHANGED <<deployments, host, reportedOn, pass, config, planFile, touched, writes, commands>>

UpdateRegistry(item) ==
    /\ IsNext(item) /\ item.kind = "registry" /\ item.action = "update"
    /\ item.key \in DOMAIN cli.idByPrefix
    /\ LET id == cli.idByPrefix[item.key]
       IN  /\ id \in StoredRegs
           /\ \A r \in StoredRegs \ {id} : registries[r].prefix # NormalOf[item.key]
           /\ registries' = [registries EXCEPT ![id] = [prefix |-> NormalOf[item.key],
                                                        user   |-> cli.doc.registries[item.key]]]
    /\ Done(item, TRUE)
    /\ UNCHANGED <<deployments, host, reportedOn, pass, config, planFile, touched, writes, commands>>

DeleteRegistry(item) ==
    /\ IsNext(item) /\ item.kind = "registry" /\ item.action = "delete"
    /\ item.key \in DOMAIN cli.idByPrefix
    /\ cli.idByPrefix[item.key] \in StoredRegs
    /\ registries' = [registries EXCEPT ![cli.idByPrefix[item.key]] = None]
    /\ Done(item, TRUE)
    /\ UNCHANGED <<deployments, host, reportedOn, pass, config, planFile, touched, writes, commands>>

UpdateHost(item) ==
    /\ IsNext(item) /\ item.kind = "host"
    /\ StoreHost(cli.doc.host)
    /\ Done(item, TRUE)
    /\ UNCHANGED <<deployments, registries, reportedOn, pass, config, planFile, touched, writes, commands>>

\* The result lists the failed actions; there is an error when there are any.
Finish ==
    /\ cli.pc = "run" /\ cli.todo = {}
    /\ cli' = [Idle EXCEPT !.doc = cli.doc, !.failed = cli.failed]
    /\ UNCHANGED <<store, reportedOn, pass, config, planFile, touched, writes, commands>>

\* The command is killed between two of its store calls.
Kill ==
    /\ cli.pc # "idle"
    /\ Leave
    /\ UNCHANGED <<store, reportedOn, pass, config, planFile, writes, commands>>

ExecuteStep ==
    \/ \E item \in cli.todo :
          \/ FailAction(item)
          \/ CreateDeployment(item) \/ UpdateDeployment(item) \/ DeleteDeployment(item)
          \/ CreateRegistry(item) \/ UpdateRegistry(item) \/ DeleteRegistry(item)
          \/ UpdateHost(item)
    \/ Finish

-----------------------------------------------------------------------------
(* The other processes: the handlers of the API, a write of which is one   *)
(* step here, and the orchestrator, which reads the store at the start of  *)
(* a pass and writes what comes of each deployment minutes later.          *)

Touch(id) ==
    touched' = IF cli.doc = None \/ cli.cmd = "plan" THEN touched ELSE touched \cup {id}

Write(id) ==
    /\ writes < MaxWrites
    /\ writes' = writes + 1
    /\ Touch(id)

APICreate(i, n, s, d) ==
    /\ Write(i)
    /\ i \in FreshID
    /\ \A j \in Stored : deployments[j].name # n
    /\ deployments' = [deployments EXCEPT ![i] = [name |-> n, spec |-> s, domain |-> d,
                                                  status |-> "deploying"]]
    /\ UNCHANGED <<registries, host, reportedOn, pass, config, planFile, cli, commands>>

\* A save may rename; it keeps the status unless it asks for a redeploy.
APISave(i, n, s, d) ==
    /\ Write(i)
    /\ i \in Stored
    /\ deployments' = [deployments EXCEPT
                         ![i] = [name |-> n, spec |-> s, domain |-> d,
                                 status |-> IF s = @.spec THEN @.status ELSE "deploying"]]
    /\ UNCHANGED <<registries, host, reportedOn, pass, config, planFile, cli, commands>>

APIDelete(i) ==
    /\ Write(i)
    /\ i \in Stored
    /\ Remove(i)
    /\ UNCHANGED <<registries, host, pass, config, planFile, cli, commands>>

APISetRegistry(r, p, u) ==
    /\ Write(r)
    /\ r \in StoredRegs \cup FreshRegID
    /\ \A s \in StoredRegs \ {r} : registries[s].prefix # NormalOf[p]
    /\ registries' = [registries EXCEPT ![r] = [prefix |-> NormalOf[p], user |-> u]]
    /\ UNCHANGED <<deployments, host, reportedOn, pass, config, planFile, cli, commands>>

APIDeleteRegistry(r) ==
    /\ Write(r)
    /\ r \in StoredRegs
    /\ registries' = [registries EXCEPT ![r] = None]
    /\ UNCHANGED <<deployments, host, reportedOn, pass, config, planFile, cli, commands>>

APISetHost(h) ==
    /\ Write("host")
    /\ StoreHost(h)
    /\ UNCHANGED <<deployments, registries, reportedOn, pass, config, planFile, cli, commands>>

\* A pass of the orchestrator begins with a snapshot of the store.
StartPass ==
    /\ DOMAIN pass = {}
    /\ pass' = [i \in Stored |-> deployments[i].spec]
    /\ UNCHANGED <<store, reportedOn, config, planFile, cli, touched, writes, commands>>

\* The outcome of a deployment of the snapshot is written into whatever the
\* store holds by then, and so are the ports of a container that started.
Report(i, started) ==
    /\ i \in DOMAIN pass
    /\ pass' = [j \in DOMAIN pass \ {i} |-> pass[j]]
    /\ IF i \in Stored
       THEN LET spec == deployments[i].spec
                reported == IF started THEN PortsOf[<<spec, pass[i]>>] ELSE spec
            IN  /\ deployments' = [deployments EXCEPT ![i].status = "settled",
                                                      ![i].spec = reported]
                /\ reportedOn' = [reportedOn EXCEPT
                                     ![i] = IF started THEN PortsOf[<<pass[i], pass[i]>>] ELSE pass[i]]
                /\ IF reported = spec THEN UNCHANGED touched ELSE Touch(i)
       ELSE UNCHANGED <<deployments, reportedOn, touched>>
    /\ UNCHANGED <<registries, host, config, planFile, cli, writes, commands>>

\* Nothing is to be done for the rest, or the orchestrator is killed.
EndPass ==
    /\ DOMAIN pass # {}
    /\ pass' = NoPass
    /\ UNCHANGED <<store, reportedOn, config, planFile, cli, touched, writes, commands>>

OtherStep ==
    \/ \E i \in IDs :
          \/ \E n \in Names, s \in StoredSpecs, d \in Domains \cup {NoDomain} :
                APICreate(i, n, s, d) \/ APISave(i, n, s, d)
          \/ APIDelete(i)
          \/ \E started \in BOOLEAN : Report(i, started)
    \/ \E r \in RegIDs :
          \/ \E p \in Prefixes, u \in Users : APISetRegistry(r, p, u)
          \/ APIDeleteRegistry(r)
    \/ \E h \in Hosts : APISetHost(h)
    \/ StartPass \/ EndPass

Next ==
    \/ EditConfig
    \/ \E cmd \in {"plan", "apply"} : Begin(cmd)
    \/ ExportDeployments \/ ExportRegistries
    \/ WritePlan \/ CheckApproval
    \/ ListDeployments \/ ListRegistries
    \/ ExecuteStep
    \/ Kill
    \/ OtherStep

Spec == Init /\ [][Next]_vars

-----------------------------------------------------------------------------
(* Properties.                                                             *)

Actions == {"create", "update", "delete", "noop"}

Changes == [action : Actions, fields : SUBSET {"spec", "domain", "username", "host"}]

IsPlan(plan) ==
    /\ DOMAIN plan.deployments \subseteq Names
    /\ DOMAIN plan.registries \subseteq Prefixes
    /\ plan.host \in Changes
    /\ plan.conflicts \subseteq Names \X Names

\* Every variable has its type, and the command has in hand what the stage
\* it is in needs: a plan from the check on, and actions only in Execute.
TypeOK ==
    /\ deployments \in [IDs -> Deployment \cup {None}]
    /\ registries \in [RegIDs -> Registry \cup {None}]
    /\ host \in Hosts
    /\ reportedOn \in [IDs -> StoredSpecs \cup {None}]
    /\ DOMAIN pass \subseteq IDs /\ \A i \in DOMAIN pass : pass[i] \in StoredSpecs
    /\ config \in Documents
    /\ planFile = None \/ IsPlan(planFile)
    /\ cli.pc \in {"idle", "deployments", "registries", "host", "list", "entries", "run"}
    /\ cli.pc \in {"list", "entries", "run"} => cli.cmd = "apply" /\ IsPlan(cli.plan)
    /\ cli.todo # {} => cli.pc = "run"
    /\ touched \subseteq IDs \cup RegIDs \cup {"host"}
    /\ writes \in 0..MaxWrites
    /\ commands \in 0..MaxCommands

\* The file gives every registry prefix in the form the store keeps.
InNormalForm(doc) == \A p \in DOMAIN doc.registries : NormalOf[p] = p

\* The deployments of a file with mounts of which the store keeps less.
Lossy(doc) == {n \in DOMAIN doc.deployments : doc.deployments[n].spec \notin StoredSpecs}

\* After an apply that nobody else's write disturbed, a new plan for the
\* same file asks for exactly the actions that the apply reported failed,
\* and for the deployments whose mounts have an owner or a mode: a
\* successful apply leaves nothing else to do, a partial one hides nothing,
\* and applying again finishes the rest (TestRunConfigApply_EndToEndAndIdempotentRerun).
\* A prefix that the file spells in another way than the store is planned
\* again and again, and so is a port that the orchestrator has filled in,
\* which counts as a write of another process.
LeftoversReported ==
    cli.pc = "idle" /\ cli.doc # None /\ touched = {} /\ InNormalForm(cli.doc) =>
        \A plan \in Build(cli.doc, ExportedDeployments, ExportedRegistries, host) :
            {<<item.kind, item.key>> : item \in Items(plan)}
                = cli.failed \cup {<<"deployment", n>> : n \in Lossy(cli.doc)}

\* What was approved for a deployment, a registry and the host.
ApprovedFor(changes, k, action) == k \in DOMAIN changes /\ changes[k].action = action

DeploymentChangeApproved(i) ==
    LET old == deployments[i]
        new == deployments'[i]
        approved == cli.approved.deployments
    IN  /\ old = None /\ new # None => ApprovedFor(approved, new.name, "create")
        /\ old # None /\ new = None => ApprovedFor(approved, old.name, "delete")
        /\ (old # None /\ new # None) /\ [old EXCEPT !.status = new.status] # new =>
               old.name = new.name /\ ApprovedFor(approved, old.name, "update")

RegistryChangeApproved(r) ==
    LET old == registries[r]
        new == registries'[r]
        approved == cli.approved.registries
    IN  /\ old = None /\ new # None =>
               \E p \in Prefixes : NormalOf[p] = new.prefix /\ ApprovedFor(approved, p, "create")
        /\ old # None /\ new = None => ApprovedFor(approved, old.prefix, "delete")
        /\ old # None /\ new # None /\ old # new => ApprovedFor(approved, old.prefix, "update")

\* What the command itself creates, changes or deletes was in the plan that
\* the operator approved, under that very action: a live state that drifted
\* after the approval never leads to another change (the stale fingerprint
\* check of runConfigApply).  A resource that another process has written
\* since the apply began is left out: the listings may then be stale.
OnlyApproved ==
    [][cli.pc = "run" =>
       /\ \A i \in IDs \ touched' : deployments'[i] # deployments[i] => DeploymentChangeApproved(i)
       /\ \A r \in RegIDs \ touched' : registries'[r] # registries[r] => RegistryChangeApproved(r)
       /\ host' # host /\ "host" \notin touched' => cli.approved.host.action = "update"]_vars

\* The status of a settled deployment is about the record that it is in.
StatusOfItsSpec(i) ==
    i \in Stored /\ deployments[i].status = "settled" => reportedOn[i] = deployments[i].spec

\* The orchestrator's pass has another configuration of the deployment.
InStalePass(i) ==
    i \in DOMAIN pass /\ i \in Stored /\ pass[i] # deployments[i].spec

\* No step lets the status of a deployment speak for a configuration that
\* the orchestrator never dealt with: an apply that changes what is deployed
\* asks for the redeploy, though it writes back a status that it read
\* before the orchestrator's last report (apply.go:176).  Left out are a
\* deployment that the API saved, or the orchestrator gave its ports, during
\* the apply, whose record is overwritten with the status of a stale
\* listing; and one that a pass has in an older configuration, whose report
\* the store accepts.
StatusIsCurrent ==
    [][\A i \in IDs \ touched' :
          StatusOfItsSpec(i) /\ ~InStalePass(i) => StatusOfItsSpec(i)']_vars

\* When the file moves a domain from a deployment it drops to one it adds,
\* the old deployment goes only after the new one is stored, unless an
\* action has failed (the order of the loops of Execute).
HandoverKeepsDomain ==
    [][\A i \in IDs :
          /\ cli.pc = "run" /\ deployments[i] # None /\ deployments'[i] = None
          /\ touched' = {} /\ cli.failed = {}
          /\ \E n \in DOMAIN cli.doc.deployments :
                 /\ cli.doc.deployments[n].domain = deployments[i].domain
                 /\ ApprovedFor(cli.plan.deployments, n, "create")
          => \E j \in IDs : deployments'[j] # None /\ deployments'[j].domain = deployments[i].domain]_vars

=============================================================================
