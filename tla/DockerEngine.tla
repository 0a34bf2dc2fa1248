---------------------------- MODULE DockerEngine ----------------------------
(***************************************************************************)
(* The Docker daemon as orchestrator/internal/docker uses it: the managed  *)
(* containers, each labelled with the id of its deployment.  The daemon is *)
(* external; what it does is taken from the calls docker.go makes and the  *)
(* errors it distinguishes.  A container never restarts by itself: no      *)
(* restart policy is set when it is created.                               *)
(***************************************************************************)
EXTENDS Deployments

CONSTANTS
    CIDs,           \* container ids
    CNames,         \* container names
    NextName,       \* NextName[n] is n with the suffix "-next"
    NoContainer     \* what an unused container id holds

ASSUME NextNameAssumption ==
    /\ Names \subseteq CNames
    /\ NextName \in [Names -> CNames]
    /\ \A n \in Names : NextName[n] # n

Container == [dep     : IDs,             \* label lotsen.id
              image   : Images,
              ports   : SUBSET Ports,    \* the host ports it is to bind
              name    : CNames,
              running : BOOLEAN]

ASSUME NoContainerAssumption == NoContainer \notin Container

VARIABLE containers     \* [CIDs -> Container \cup {NoContainer}]

ContainersTypeOK == containers \in [CIDs -> Container \cup {NoContainer}]

ContainersInit == containers = [c \in CIDs |-> NoContainer]

Existing(cs) == {c \in CIDs : cs[c] # NoContainer}

Running(cs, c) == cs[c] # NoContainer /\ cs[c].running

NameTaken(cs, n) == \E c \in Existing(cs) : cs[c].name = n

\* The daemon binds a host port for one running container at a time.
PortsBound(cs, c) == IF Running(cs, c) THEN cs[c].ports ELSE {}

PortsFree(cs, ports) == \A c \in Existing(cs) : PortsBound(cs, c) \cap ports = {}

\* ContainerCreate; the caller has seen that the name is free.
Created(cs, c, id, d, name) ==
    [cs EXCEPT ![c] = [dep |-> id, image |-> d.image, ports |-> d.ports,
                       name |-> name, running |-> FALSE]]

Started(cs, c) == [cs EXCEPT ![c].running = TRUE]

\* ContainerStop on a container that does not exist is not an error.
Stopped(cs, c) ==
    IF cs[c] = NoContainer THEN cs ELSE [cs EXCEPT ![c].running = FALSE]

Removed(cs, c) == [cs EXCEPT ![c] = NoContainer]

Renamed(cs, c, n) ==
    IF cs[c] = NoContainer \/ NameTaken(cs, n) THEN cs ELSE [cs EXCEPT ![c].name = n]

\* The containers after StopAndRemove fails: the stop failed, or the stop
\* succeeded and the remove failed.
StopAndRemoveFailed(cs, c) == {cs, Stopped(cs, c)}

=============================================================================
