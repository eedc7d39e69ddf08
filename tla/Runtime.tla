------------------------------ MODULE Runtime ------------------------------
(***************************************************************************)
(* The container runtime (docker, podman, nerdctl) as jardiniere drives it *)
(* through its CLI: containers, internal networks, home volumes.  It is    *)
(* outside the repository, so everything here is modelled from what        *)
(* internal/runner relies on: which commands it issues and which error     *)
(* messages it tells apart ("no such", "already exists", "is not           *)
(* connected").                                                            *)
(*                                                                         *)
(* Containers are keyed by what follows "jard-" in their name, and a       *)
(* sandbox's network (jard-<name>-net) and home volume (jard-<name>-home)  *)
(* by the sandbox's name: the three prefixes and suffixes are injective.   *)
(* Each command is one atomic step, since the runtime's daemon serialises  *)
(* them.                                                                   *)
(***************************************************************************)

CONSTANTS
  Names,        \* sandbox names
  Relay,        \* the name whose container is "jard-relay"; usually not in Names
  Ids,          \* container ids the runtime can give out (its hashes)
  ByName,       \* the handle that is the container's name rather than an id
  Addrs,        \* addresses the egress proxy can be reached at
  NoContainer,  \* no container has this name
  NoAddr        \* a container that forwards to no proxy: not a relay

ASSUME ByNameAssumption == ByName \notin Ids
ASSUME NoAddrAssumption == NoAddr \notin Addrs

VARIABLES
  containers,   \* container name -> the container, or NoContainer
  networks,     \* the sandboxes whose internal network exists
  volumes       \* the sandboxes whose home volume exists

runtimeVars == <<containers, networks, volumes>>

ContainerNames == Names \cup {Relay}
Handles == Ids \cup {ByName}

\* nets: the sandbox networks a container was attached to with "network
\* connect"; upstream: the address in the arguments of a relay.
Container == [id       : Ids,
              status   : {"created", "running", "stopped"},
              nets     : SUBSET Names,
              upstream : Addrs \cup {NoAddr}]

ASSUME NoContainerAssumption == NoContainer \notin Container

RuntimeTypeOK ==
  /\ containers \in [ContainerNames -> Container \cup {NoContainer}]
  /\ networks \subseteq Names
  /\ volumes \subseteq Names

RuntimeInit ==
  /\ containers = [m \in ContainerNames |-> NoContainer]
  /\ networks = {}
  /\ volumes = {}

Exists(m)  == containers[m] # NoContainer
Running(m) == Exists(m) /\ containers[m].status = "running"

\* A handle is good for one container: by name, for whichever has the name
\* now; by id, only for the container that was given that id.
Resolves(m, cid) == Exists(m) /\ cid \in {ByName, containers[m].id}

\* "network rm" is refused while a running container is on the network.
HasEndpoints(n) ==
  \/ Running(n)
  \/ \E m \in ContainerNames : Running(m) /\ n \in containers[m].nets

AddContainer(m, id, status, upstream) ==
  containers' = [containers EXCEPT ![m] =
                   [id |-> id, status |-> status, nets |-> {}, upstream |-> upstream]]

DropContainer(m) == containers' = [containers EXCEPT ![m] = NoContainer]

SetStatus(m, status) == containers' = [containers EXCEPT ![m].status = status]

Attach(m, n) == containers' = [containers EXCEPT ![m].nets = @ \cup {n}]

\* Disconnecting what is not there, or not connected, changes nothing.
Detach(m, n) ==
  containers' = IF Exists(m) THEN [containers EXCEPT ![m].nets = @ \ {n}] ELSE containers
=============================================================================
