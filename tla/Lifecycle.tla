----------------------------- MODULE Lifecycle -----------------------------
(***************************************************************************)
(* The life of a sandbox: internal/api/direct over internal/runner's OCI   *)
(* runner and internal/store's record files.                               *)
(*                                                                         *)
(* Each client runs one request at a time.  A request is a sequence of     *)
(* steps, one per store access or runtime command, in the order of the     *)
(* code; nothing in the code holds a lock across two of them, so the steps *)
(* of two requests interleave freely (goroutines of the daemon, or         *)
(* separate in-process commands).  pc[c] names the next step.  The first   *)
(* step of a request includes the read of the store that every handler     *)
(* begins with.                                                            *)
(***************************************************************************)
EXTENDS Runtime, Naturals

CONSTANTS
  Clients,      \* the callers of the service
  NoRecord,     \* the store holds no record file under this name
  EgressModes,  \* whether the runner has an egress upstream: {TRUE}, {FALSE} or both
  Disruptions,  \* which disruptions the environment may cause
  MaxDisruptions, \* bound on how many of them a behaviour has
  Promises      \* what the callers promise about overlapping requests

ASSUME EgressModesAssumption == EgressModes \subseteq BOOLEAN
ASSUME PromisesAssumption == Promises \subseteq {"sandbox", "start"}
ASSUME DisruptionsAssumption ==
  /\ Disruptions \subseteq {"call", "inspect", "restart", "relay"}
  /\ MaxDisruptions \in Nat

VARIABLES
  records,      \* the store: sandbox name -> record, or NoRecord
  pc,           \* client -> its request's next step, or "idle"
  op,           \* client -> the kind of its current or latest request
  name,         \* client -> the sandbox the request is about
  force,        \* client -> the force flag of a Remove
  sb,           \* client -> the copy of the record the handler works on
  outcome,      \* client -> "ok" or "failed" once the request has returned
  egress,       \* oci.egressUpstream # "", fixed when the service is opened
  proxyAddr,    \* the upstream the daemon gives the relay
  disruptions   \* how many disruptions there have been

requestVars == <<pc, op, name, force, sb, outcome>>
vars == <<runtimeVars, records, requestVars, egress, proxyAddr, disruptions>>

\* The part of api.State the handlers act on.
Record == [status : {"created", "running", "stopped", "missing"}, cid : Handles]

ASSUME NoRecordAssumption == NoRecord \notin Record

Steps == {"idle",
          "ensureNetwork", "createContainer", "putNew",
          "relayRunning", "rmRelay", "runRelay", "connectRelay",
          "startContainer", "stopContainer", "observe", "put",
          "checkRunning", "rmContainer", "rmVolume", "disconnectRelay", "rmNetwork",
          "deleteRecord"}

RequestTypeOK ==
  /\ pc \in [Clients -> Steps]
  /\ op \in [Clients -> {"none", "create", "start", "stop", "remove"}]
  /\ name \in [Clients -> Names]
  /\ force \in [Clients -> BOOLEAN]
  /\ sb \in [Clients -> Record]
  /\ outcome \in [Clients -> {"none", "ok", "failed"}]

TypeOK ==
  /\ RuntimeTypeOK
  /\ RequestTypeOK
  /\ records \in [Names -> Record \cup {NoRecord}]
  /\ egress \in BOOLEAN
  /\ proxyAddr \in Addrs
  /\ disruptions \in 0..MaxDisruptions

\* The record of a sandbox that has just been created, and the value of a
\* local variable nothing has been read into.
NewRecord == [status |-> "created", cid |-> ByName]

Init ==
  /\ RuntimeInit
  /\ records = [n \in Names |-> NoRecord]
  /\ pc = [c \in Clients |-> "idle"]
  /\ op = [c \in Clients |-> "none"]
  /\ \E n \in Names : name = [c \in Clients |-> n]
  /\ force = [c \in Clients |-> FALSE]
  /\ sb = [c \in Clients |-> NewRecord]
  /\ outcome = [c \in Clients |-> "none"]
  /\ egress \in EgressModes
  /\ proxyAddr \in Addrs
  /\ disruptions = 0
-----------------------------------------------------------------------------
(***************************************************************************)
(* How a request moves on.                                                 *)
(***************************************************************************)
Begin(c, kind, n, f, step, copy) ==
  /\ op' = [op EXCEPT ![c] = kind]
  /\ name' = [name EXCEPT ![c] = n]
  /\ force' = [force EXCEPT ![c] = f]
  /\ pc' = [pc EXCEPT ![c] = step]
  /\ sb' = [sb EXCEPT ![c] = copy]
  /\ outcome' = [outcome EXCEPT ![c] = "none"]

Refuse(c, kind, n) ==
  /\ op' = [op EXCEPT ![c] = kind]
  /\ name' = [name EXCEPT ![c] = n]
  /\ outcome' = [outcome EXCEPT ![c] = "failed"]
  /\ UNCHANGED <<pc, force, sb>>

Goto(c, step) ==
  /\ pc' = [pc EXCEPT ![c] = step]
  /\ UNCHANGED <<op, name, force, sb, outcome>>

Return(c, result) ==
  /\ pc' = [pc EXCEPT ![c] = "idle"]
  /\ force' = [force EXCEPT ![c] = FALSE]
  /\ sb' = [sb EXCEPT ![c] = NewRecord]
  /\ outcome' = [outcome EXCEPT ![c] = result]
  /\ UNCHANGED <<op, name>>

\* The runtime never gives out an id that anything still refers to.
IdsInUse ==
  {containers[m].id : m \in {k \in ContainerNames : Exists(k)}}
    \cup {records[n].cid : n \in {k \in Names : records[k] # NoRecord}}
    \cup {sb[c].cid : c \in Clients}

Target(c) == name[c]
Mine(c) == Resolves(name[c], sb[c].cid)
-----------------------------------------------------------------------------
(***************************************************************************)
(* Create: refuse a name on record, make the network, make the container,  *)
(* write the record.                                                       *)
(***************************************************************************)
\* Mutant: a record whose container is missing may be created over.
CreateBeginOverMissing(c, n) ==
  /\ pc[c] = "idle"
  /\ IF records[n] # NoRecord /\ records[n].status # "missing"
     THEN Refuse(c, "create", n)
     ELSE Begin(c, "create", n, FALSE,
                IF egress THEN "ensureNetwork" ELSE "createContainer", NewRecord)
  /\ UNCHANGED <<runtimeVars, records>>

CreateBegin(c, n) ==
  /\ pc[c] = "idle"
  /\ IF records[n] # NoRecord
     THEN Refuse(c, "create", n)
     ELSE Begin(c, "create", n, FALSE,
                IF egress THEN "ensureNetwork" ELSE "createContainer", NewRecord)
  /\ UNCHANGED <<runtimeVars, records>>

EnsureNetwork(c) ==
  /\ pc[c] = "ensureNetwork"
  /\ networks' = networks \cup {Target(c)}
  /\ Goto(c, "createContainer")
  /\ UNCHANGED <<containers, volumes, records>>

\* With egress control a container is created on its sandbox's network, and the
\* runtime can neither create nor start it without.
NetworkReady(c) == egress => Target(c) \in networks

\* The runtime makes the named volume along with the container.
CreateContainer(c) ==
  /\ pc[c] = "createContainer"
  /\ ~Exists(Target(c)) /\ NetworkReady(c)
  /\ \E i \in Ids :
       /\ i \notin IdsInUse
       /\ AddContainer(Target(c), i, "created", NoAddr)
  /\ volumes' = volumes \cup {Target(c)}
  /\ Goto(c, "putNew")
  /\ UNCHANGED <<networks, records>>

CreateContainerFails(c) ==
  /\ pc[c] = "createContainer"
  /\ Exists(Target(c)) \/ ~NetworkReady(c)
  /\ Return(c, "failed")
  /\ UNCHANGED <<runtimeVars, records>>

PutNew(c) ==
  /\ pc[c] = "putNew"
  /\ records' = [records EXCEPT ![Target(c)] = NewRecord]
  /\ Return(c, "ok")
  /\ UNCHANGED runtimeVars
-----------------------------------------------------------------------------
(***************************************************************************)
(* act: resolve the record, do something to its container, observe it,     *)
(* write the record back.  Start with an egress upstream first brings the  *)
(* relay up and attaches it to the sandbox's network.                      *)
(***************************************************************************)
\* Mutant: what is not on record is acted on under its name.
ActBeginUnrecorded(c, kind, n, step) ==
  /\ pc[c] = "idle"
  /\ Begin(c, kind, n, FALSE, step, IF records[n] = NoRecord THEN NewRecord ELSE records[n])
  /\ UNCHANGED <<runtimeVars, records>>

ActBegin(c, kind, n, step) ==
  /\ pc[c] = "idle"
  /\ IF records[n] = NoRecord
     THEN Refuse(c, kind, n)
     ELSE Begin(c, kind, n, FALSE, step, records[n])
  /\ UNCHANGED <<runtimeVars, records>>

StartBegin(c, n) == ActBegin(c, "start", n, IF egress THEN "relayRunning" ELSE "startContainer")
StopBegin(c, n)  == ActBegin(c, "stop", n, "stopContainer")

\* Mutant: a relay that is already up is taken to be attached already.
RelayRunningIsEnough(c) ==
  /\ pc[c] = "relayRunning"
  /\ Goto(c, IF Running(Relay) THEN "startContainer" ELSE "rmRelay")
  /\ UNCHANGED <<runtimeVars, records>>

\* ensureEgressNetwork comes first; it makes jard-egress, which nothing ever
\* removes, so it leaves no state worth keeping.
RelayRunning(c) ==
  /\ pc[c] = "relayRunning"
  /\ Goto(c, IF Running(Relay) THEN "connectRelay" ELSE "rmRelay")
  /\ UNCHANGED <<runtimeVars, records>>

RmRelay(c) ==
  /\ pc[c] = "rmRelay"
  /\ DropContainer(Relay)
  /\ Goto(c, "runRelay")
  /\ UNCHANGED <<networks, volumes, records>>

RunRelay(c) ==
  /\ pc[c] = "runRelay"
  /\ ~Exists(Relay)
  /\ \E i \in Ids :
       /\ i \notin IdsInUse
       /\ AddContainer(Relay, i, "running", proxyAddr)
  /\ Goto(c, "connectRelay")
  /\ UNCHANGED <<networks, volumes, records>>

\* Two requests both found the relay down, and the other ran it first: the
\* name is taken.
RunRelayFails(c) ==
  /\ pc[c] = "runRelay"
  /\ Exists(Relay)
  /\ Return(c, "failed")
  /\ UNCHANGED <<runtimeVars, records>>

\* OCI.Start names the network after its id argument: the handle with "jard-"
\* trimmed.  That is the sandbox's name only when the handle is a name; no
\* network is called after an id.
NetworkToJoin(c) == IF sb[c].cid = ByName THEN {Target(c)} ELSE {}

ConnectRelay(c) ==
  /\ pc[c] = "connectRelay"
  /\ Exists(Relay)
  /\ \E n \in NetworkToJoin(c) \cap networks : Attach(Relay, n)
  /\ Goto(c, "startContainer")
  /\ UNCHANGED <<networks, volumes, records>>

ConnectRelayFails(c) ==
  /\ pc[c] = "connectRelay"
  /\ ~Exists(Relay) \/ NetworkToJoin(c) \cap networks = {}
  /\ Return(c, "failed")
  /\ UNCHANGED <<runtimeVars, records>>

CanStart(c) == Mine(c) /\ NetworkReady(c)

StartContainer(c) ==
  /\ pc[c] = "startContainer"
  /\ CanStart(c)
  /\ SetStatus(Target(c), "running")
  /\ Goto(c, "observe")
  /\ UNCHANGED <<networks, volumes, records>>

StartContainerFails(c) ==
  /\ pc[c] = "startContainer"
  /\ ~CanStart(c)
  /\ Return(c, "failed")
  /\ UNCHANGED <<runtimeVars, records>>

\* A container that is gone is as good as stopped; one that never ran is left
\* as it is.
StopContainer(c) ==
  /\ pc[c] = "stopContainer"
  /\ IF Mine(c) /\ Running(Target(c))
     THEN SetStatus(Target(c), "stopped")
     ELSE UNCHANGED containers
  /\ Goto(c, "observe")
  /\ UNCHANGED <<networks, volumes, records>>

\* parseInspect: what a container is asked for is its status and its own id.
Inspected(n) == [status |-> containers[n].status, cid |-> containers[n].id]

\* Mutant: observe keeps the empty handle inspect gives for a missing container.
ObservedWithoutHandle(c) ==
  IF Mine(c)
  THEN Inspected(Target(c))
  ELSE [status |-> "missing", cid |-> NoContainer]

\* inspect answers with the container's own id, whatever handle it was asked
\* by; a missing container keeps the handle on record.
Observed(c) ==
  IF Mine(c)
  THEN Inspected(Target(c))
  ELSE [sb[c] EXCEPT !.status = "missing"]

Observe(c) ==
  /\ pc[c] = "observe"
  /\ sb' = [sb EXCEPT ![c] = Observed(c)]
  /\ pc' = [pc EXCEPT ![c] = "put"]
  /\ UNCHANGED <<runtimeVars, records, op, name, force, outcome>>

Put(c) ==
  /\ pc[c] = "put"
  /\ records' = [records EXCEPT ![Target(c)] = sb[c]]
  /\ Return(c, "ok")
  /\ UNCHANGED runtimeVars
-----------------------------------------------------------------------------
(***************************************************************************)
(* Remove: refuse a running sandbox unless forced, then container, volume, *)
(* network and, last, the record.                                          *)
(***************************************************************************)
RemoveBegin(c, n, f) ==
  /\ pc[c] = "idle"
  /\ IF records[n] = NoRecord
     THEN Refuse(c, "remove", n)
     ELSE Begin(c, "remove", n, f, IF f THEN "rmContainer" ELSE "checkRunning", records[n])
  /\ UNCHANGED <<runtimeVars, records>>

CheckRunning(c) ==
  /\ pc[c] = "checkRunning"
  /\ IF Observed(c).status = "running" THEN Return(c, "failed") ELSE Goto(c, "rmContainer")
  /\ UNCHANGED <<runtimeVars, records>>

\* Mutant: rm is always given --force.
AlwaysMayRemove(c) == TRUE

\* The runtime itself refuses to remove a running container without --force.
MayRemove(c) == Mine(c) => (force[c] \/ ~Running(Target(c)))

RmContainer(c) ==
  /\ pc[c] = "rmContainer"
  /\ MayRemove(c)
  /\ IF Mine(c) THEN DropContainer(Target(c)) ELSE UNCHANGED containers
  /\ Goto(c, "rmVolume")
  /\ UNCHANGED <<networks, volumes, records>>

RmContainerFails(c) ==
  /\ pc[c] = "rmContainer"
  /\ ~MayRemove(c)
  /\ Return(c, "failed")
  /\ UNCHANGED <<runtimeVars, records>>

AfterVolume == IF egress THEN "disconnectRelay" ELSE "deleteRecord"

\* Mutant: the volume is named after the handle, so one that is an id names
\* none and the removal succeeds against nothing.
RmVolumeOfHandle(c) ==
  /\ pc[c] = "rmVolume"
  /\ ~Exists(Target(c))
  /\ volumes' = IF sb[c].cid = ByName THEN volumes \ {Target(c)} ELSE volumes
  /\ Goto(c, AfterVolume)
  /\ UNCHANGED <<containers, networks, records>>

RmVolume(c) ==
  /\ pc[c] = "rmVolume"
  /\ ~Exists(Target(c))
  /\ volumes' = volumes \ {Target(c)}
  /\ Goto(c, AfterVolume)
  /\ UNCHANGED <<containers, networks, records>>

\* The runtime refuses to remove a volume a container uses.
RmVolumeFails(c) ==
  /\ pc[c] = "rmVolume"
  /\ Exists(Target(c))
  /\ Return(c, "failed")
  /\ UNCHANGED <<runtimeVars, records>>

\* Mutant: the network is removed with the relay still on it.
NoDisconnect(c) ==
  /\ pc[c] = "disconnectRelay"
  /\ Goto(c, "rmNetwork")
  /\ UNCHANGED <<runtimeVars, records>>

DisconnectRelay(c) ==
  /\ pc[c] = "disconnectRelay"
  /\ Detach(Relay, Target(c))
  /\ Goto(c, "rmNetwork")
  /\ UNCHANGED <<networks, volumes, records>>

RmNetwork(c) ==
  /\ pc[c] = "rmNetwork"
  /\ Target(c) \in networks => ~HasEndpoints(Target(c))
  /\ networks' = networks \ {Target(c)}
  /\ Goto(c, "deleteRecord")
  /\ UNCHANGED <<containers, volumes, records>>

RmNetworkFails(c) ==
  /\ pc[c] = "rmNetwork"
  /\ Target(c) \in networks /\ HasEndpoints(Target(c))
  /\ Return(c, "failed")
  /\ UNCHANGED <<runtimeVars, records>>

\* Deleting a record that is already gone is an error.
DeleteRecord(c) ==
  /\ pc[c] = "deleteRecord"
  /\ records' = [records EXCEPT ![Target(c)] = NoRecord]
  /\ Return(c, IF records[Target(c)] = NoRecord THEN "failed" ELSE "ok")
  /\ UNCHANGED runtimeVars
-----------------------------------------------------------------------------
(***************************************************************************)
(* What the environment may do: a runtime command or a store write fails   *)
(* without effect (or its context is cancelled), inspect fails, the        *)
(* daemon dies and another is started, the relay is removed by hand, a     *)
(* sandbox's idle process ends.                                            *)
(***************************************************************************)
Disrupt(kind) ==
  /\ kind \in Disruptions
  /\ disruptions < MaxDisruptions
  /\ disruptions' = disruptions + 1
  /\ UNCHANGED egress

\* Every step but the two inspects of observe returns the error it gets.
CallFails(c) ==
  /\ Disrupt("call")
  /\ pc[c] \notin {"idle", "observe", "checkRunning"}
  /\ Return(c, "failed")
  /\ UNCHANGED <<runtimeVars, records, proxyAddr>>

\* observe falls back to the state on record.
InspectFails(c) ==
  /\ Disrupt("inspect")
  /\ \/ pc[c] = "observe" /\ Goto(c, "put")
     \/ /\ pc[c] = "checkRunning"
        /\ IF sb[c].status = "running" THEN Return(c, "failed") ELSE Goto(c, "rmContainer")
  /\ UNCHANGED <<runtimeVars, records, proxyAddr>>

\* Every request in flight dies with the daemon; the next one may have its
\* proxy somewhere else.
Restart ==
  /\ Disrupt("restart")
  /\ proxyAddr' \in Addrs
  /\ pc' = [c \in Clients |-> "idle"]
  /\ force' = [c \in Clients |-> FALSE]
  /\ sb' = [c \in Clients |-> NewRecord]
  /\ outcome' = [c \in Clients |-> IF pc[c] = "idle" THEN outcome[c] ELSE "failed"]
  /\ UNCHANGED <<runtimeVars, records, op, name>>

RelayRemovedByHand ==
  /\ Disrupt("relay")
  /\ Exists(Relay)
  /\ DropContainer(Relay)
  /\ UNCHANGED <<networks, volumes, records, requestVars, proxyAddr>>

SandboxExits(n) ==
  /\ Running(n)
  /\ SetStatus(n, "stopped")
  /\ UNCHANGED <<networks, volumes, records, requestVars, egress, proxyAddr, disruptions>>
-----------------------------------------------------------------------------
CreateStep(c) == EnsureNetwork(c) \/ CreateContainer(c) \/ CreateContainerFails(c) \/ PutNew(c)

EnsureRelay(c) ==
  \/ RelayRunning(c) \/ RmRelay(c) \/ RunRelay(c) \/ RunRelayFails(c)
  \/ ConnectRelay(c) \/ ConnectRelayFails(c)

ActStep(c) ==
  \/ EnsureRelay(c)
  \/ StartContainer(c) \/ StartContainerFails(c) \/ StopContainer(c)
  \/ Observe(c) \/ Put(c)

RemoveStep(c) ==
  \/ CheckRunning(c) \/ RmContainer(c) \/ RmContainerFails(c)
  \/ RmVolume(c) \/ RmVolumeFails(c)
  \/ DisconnectRelay(c) \/ RmNetwork(c) \/ RmNetworkFails(c)
  \/ DeleteRecord(c)

HandlerStep(c) ==
  /\ CreateStep(c) \/ ActStep(c) \/ RemoveStep(c)
  /\ UNCHANGED <<egress, proxyAddr, disruptions>>

\* The code itself never makes one request wait for another.  What may be
\* asked of the callers: at most one request per sandbox at a time, and at
\* most one Start at a time.
InFlight(c) == pc[c] # "idle"
OnePerSandbox(n) == "sandbox" \in Promises => \A c \in Clients : InFlight(c) => name[c] # n
OneStart == "start" \in Promises => \A c \in Clients : InFlight(c) => op[c] # "start"

Request(c, n) ==
  /\ OnePerSandbox(n)
  /\ \/ CreateBegin(c, n) \/ StopBegin(c, n)
     \/ OneStart /\ StartBegin(c, n)
     \/ \E f \in BOOLEAN : RemoveBegin(c, n, f)
  /\ UNCHANGED <<egress, proxyAddr, disruptions>>

Environment ==
  \/ \E c \in Clients : CallFails(c) \/ InspectFails(c)
  \/ Restart
  \/ RelayRemovedByHand
  \/ \E n \in Names : SandboxExits(n)

Next ==
  \/ \E c \in Clients : HandlerStep(c) \/ \E n \in Names : Request(c, n)
  \/ Environment

Spec == Init /\ [][Next]_vars
-----------------------------------------------------------------------------
(***************************************************************************)
(* Properties.                                                             *)
(***************************************************************************)
IsSandbox(n) == Exists(n) /\ containers[n].upstream = NoAddr

\* No step takes away a running sandbox's container except a Remove of that
\* very sandbox whose caller asked for force: what Remove observed can be out
\* of date by the time it acts, and the relay's rm --force is never aimed at
\* a sandbox.
UnforcedRemoveSparesRunning ==
  [][\A n \in Names :
       IsSandbox(n) /\ Running(n) /\ containers'[n] = NoContainer =>
         \E c \in Clients : op[c] = "remove" /\ force[c] /\ name[c] = n]_vars

\* When a record is deleted nothing of the sandbox is left: no container, no
\* home volume, no network.  Whatever fails on the way leaves the record, so
\* the Remove can be repeated.
RemoveIsComplete ==
  [][\A n \in Names :
       records[n] # NoRecord /\ records'[n] = NoRecord =>
         ~Exists(n)' /\ n \notin volumes' /\ n \notin networks']_vars

\* However an earlier request failed, a forced Remove of a sandbox on record
\* goes through unless a runtime command or a store write fails under it.
ForcedRemoveSucceeds ==
  [][\A c \in Clients :
       InFlight(c) /\ op[c] = "remove" /\ force[c] /\ disruptions' = disruptions =>
         outcome'[c] # "failed"]_vars

\* The handle on record reaches the sandbox's container whenever there is
\* one: an act or a Remove never takes a container that exists for missing.
HandleResolves ==
  \A n \in Names : records[n] # NoRecord /\ Exists(n) => Resolves(n, records[n].cid)

\* Every running sandbox has its way out: between Starts, the relay is up and
\* attached to the network of each running sandbox.
RelayOnEveryRunningNetwork ==
  egress /\ (\A c \in Clients : InFlight(c) => op[c] # "start") =>
    \A n \in Names : Running(n) => Running(Relay) /\ n \in containers[Relay].nets

\* Start boots a created or stopped sandbox: once it has found the record, it
\* does not fail of itself while the container is there.
StartBoots ==
  [][\A c \in Clients :
       InFlight(c) /\ op[c] = "start" /\ Exists(name[c]) /\ disruptions' = disruptions =>
         outcome'[c] # "failed"]_vars

\* A record comes into being only when a sandbox is created: as long as the
\* requests for a sandbox do not overlap, a removed one stays removed, whatever
\* has failed and however often the daemon has died.
RemovedStaysRemoved ==
  [][\A n \in Names :
       records[n] = NoRecord /\ records'[n] # NoRecord =>
         \E c \in Clients : op[c] = "create" /\ name[c] = n]_vars
=============================================================================
