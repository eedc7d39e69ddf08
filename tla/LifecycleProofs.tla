-------------------------- MODULE LifecycleProofs --------------------------
(***************************************************************************)
(* Theorems about Lifecycle, for every set of names, clients, ids and      *)
(* addresses.  The first hold whatever the callers promise and the         *)
(* environment does; those of the second part as long as the requests for  *)
(* one sandbox do not overlap; the last one, about the relay, as long as   *)
(* the Starts do not overlap either and nobody removes the relay by hand.  *)
(***************************************************************************)
EXTENDS Lifecycle, TLAPS

\* A request that begins, is refused, moves on or returns keeps its control
\* state in its type.
LEMMA BeginType ==
  ASSUME RequestTypeOK, NEW c \in Clients, NEW n \in Names, NEW f \in BOOLEAN,
         NEW kind \in {"create", "start", "stop", "remove"},
         NEW step \in Steps, NEW copy \in Record,
         Begin(c, kind, n, f, step, copy)
  PROVE  RequestTypeOK'
  BY DEF RequestTypeOK, Begin

LEMMA RefuseType ==
  ASSUME RequestTypeOK, NEW c \in Clients, NEW n \in Names,
         NEW kind \in {"create", "start", "stop", "remove"},
         Refuse(c, kind, n)
  PROVE  RequestTypeOK'
  BY DEF RequestTypeOK, Refuse

LEMMA GotoType ==
  ASSUME RequestTypeOK, NEW c \in Clients, NEW step \in Steps, Goto(c, step)
  PROVE  RequestTypeOK'
  BY DEF RequestTypeOK, Goto

LEMMA NewRecordType == NewRecord \in Record
  BY DEF NewRecord, Record, Handles

LEMMA ReturnType ==
  ASSUME RequestTypeOK, NEW c \in Clients, NEW result \in {"ok", "failed"}, Return(c, result)
  PROVE  RequestTypeOK'
  BY NewRecordType DEF RequestTypeOK, Return, Steps

\* The runtime's commands keep the table of containers in its type.
LEMMA AddContainerType ==
  ASSUME RuntimeTypeOK, NEW m \in ContainerNames, NEW i \in Ids,
         NEW status \in {"created", "running", "stopped"}, NEW upstream \in Addrs \cup {NoAddr},
         AddContainer(m, i, status, upstream)
  PROVE  containers' \in [ContainerNames -> Container \cup {NoContainer}]
  BY DEF RuntimeTypeOK, AddContainer, Container

LEMMA DropContainerType ==
  ASSUME RuntimeTypeOK, NEW m \in ContainerNames, DropContainer(m)
  PROVE  containers' \in [ContainerNames -> Container \cup {NoContainer}]
  BY DEF RuntimeTypeOK, DropContainer

LEMMA SetStatusType ==
  ASSUME RuntimeTypeOK, NEW m \in ContainerNames, Exists(m),
         NEW status \in {"created", "running", "stopped"}, SetStatus(m, status)
  PROVE  containers' \in [ContainerNames -> Container \cup {NoContainer}]
  BY DEF RuntimeTypeOK, SetStatus, Exists, Container

LEMMA AttachType ==
  ASSUME RuntimeTypeOK, NEW m \in ContainerNames, Exists(m), NEW n \in Names, Attach(m, n)
  PROVE  containers' \in [ContainerNames -> Container \cup {NoContainer}]
  BY DEF RuntimeTypeOK, Attach, Exists, Container

LEMMA DetachType ==
  ASSUME RuntimeTypeOK, NEW m \in ContainerNames, NEW n \in Names, Detach(m, n)
  PROVE  containers' \in [ContainerNames -> Container \cup {NoContainer}]
  BY DEF RuntimeTypeOK, Detach, Exists, Container

\* What observe hands back is a record.
LEMMA ObservedType ==
  ASSUME RuntimeTypeOK, RequestTypeOK, NEW c \in Clients
  PROVE  Observed(c) \in Record
  <1>1. name[c] \in ContainerNames /\ sb[c] \in Record
    BY DEF RequestTypeOK, ContainerNames
  <1>2. CASE Mine(c)
    BY <1>1, <1>2 DEF RuntimeTypeOK, Observed, Inspected, Mine, Resolves, Exists, Target,
       Record, Container, Handles
  <1>3. CASE ~Mine(c)
    BY <1>1, <1>3 DEF Observed, Record
  <1>4. QED BY <1>2, <1>3
-----------------------------------------------------------------------------
\* Each step of a handler keeps the store, the runtime and the requests in type.
LEMMA CreateStepType ==
  ASSUME TypeOK, NEW c \in Clients, CreateStep(c)
  PROVE  RequestTypeOK' /\ RuntimeTypeOK' /\ records' \in [Names -> Record \cup {NoRecord}]
  <1>a. name[c] \in Names /\ name[c] \in ContainerNames /\ Relay \in ContainerNames /\ sb[c] \in Record
    BY DEF TypeOK, RequestTypeOK, ContainerNames
  <1>1. CASE EnsureNetwork(c)
    BY <1>a, <1>1, GotoType
       DEF EnsureNetwork, TypeOK, RuntimeTypeOK, runtimeVars, Target, Steps
  <1>2. CASE CreateContainer(c)
    BY <1>a, <1>2, GotoType, AddContainerType
       DEF CreateContainer, TypeOK, RuntimeTypeOK, runtimeVars, Target, Steps
  <1>3. CASE CreateContainerFails(c)
    BY <1>a, <1>3, ReturnType
       DEF CreateContainerFails, TypeOK, RuntimeTypeOK, runtimeVars
  <1>4. CASE PutNew(c)
    BY <1>a, <1>4, ReturnType, NewRecordType
       DEF PutNew, TypeOK, RuntimeTypeOK, runtimeVars, Target
  <1>5. QED BY <1>1, <1>2, <1>3, <1>4 DEF CreateStep

\* The same of the steps that bring the relay up.
LEMMA EnsureRelayType ==
  ASSUME TypeOK, NEW c \in Clients, EnsureRelay(c)
  PROVE  RequestTypeOK' /\ RuntimeTypeOK' /\ records' \in [Names -> Record \cup {NoRecord}]
  <1>a. name[c] \in Names /\ name[c] \in ContainerNames /\ Relay \in ContainerNames /\ sb[c] \in Record
    BY DEF TypeOK, RequestTypeOK, ContainerNames
  <1>1. CASE RelayRunning(c)
    BY <1>a, <1>1, GotoType
       DEF RelayRunning, TypeOK, RuntimeTypeOK, runtimeVars, Steps
  <1>2. CASE RmRelay(c)
    BY <1>a, <1>2, GotoType, DropContainerType
       DEF RmRelay, TypeOK, RuntimeTypeOK, runtimeVars, Steps
  <1>3. CASE RunRelay(c)
    BY <1>a, <1>3, GotoType, AddContainerType
       DEF RunRelay, TypeOK, RuntimeTypeOK, runtimeVars, Steps
  <1>4. CASE RunRelayFails(c)
    BY <1>a, <1>4, ReturnType
       DEF RunRelayFails, TypeOK, RuntimeTypeOK, runtimeVars
  <1>5. CASE ConnectRelay(c)
    BY <1>a, <1>5, GotoType, AttachType
       DEF ConnectRelay, TypeOK, RuntimeTypeOK, runtimeVars, Steps
  <1>6. CASE ConnectRelayFails(c)
    BY <1>a, <1>6, ReturnType
       DEF ConnectRelayFails, TypeOK, RuntimeTypeOK, runtimeVars
  <1>7. QED BY <1>1, <1>2, <1>3, <1>4, <1>5, <1>6 DEF EnsureRelay

\* The same of the rest of Start and of Stop.
LEMMA ActStepType ==
  ASSUME TypeOK, NEW c \in Clients, ActStep(c)
  PROVE  RequestTypeOK' /\ RuntimeTypeOK' /\ records' \in [Names -> Record \cup {NoRecord}]
  <1>a. name[c] \in Names /\ name[c] \in ContainerNames /\ Relay \in ContainerNames /\ sb[c] \in Record
    BY DEF TypeOK, RequestTypeOK, ContainerNames
  <1>1. CASE EnsureRelay(c)
    BY <1>a, <1>1, EnsureRelayType
       DEF EnsureRelay, TypeOK, RuntimeTypeOK, runtimeVars
  <1>2. CASE StartContainer(c)
    BY <1>a, <1>2, GotoType, SetStatusType
       DEF StartContainer, TypeOK, RuntimeTypeOK, runtimeVars, Steps, Target, CanStart, Mine, Resolves
  <1>3. CASE StartContainerFails(c)
    BY <1>a, <1>3, ReturnType
       DEF StartContainerFails, TypeOK, RuntimeTypeOK, runtimeVars
  <1>4. CASE StopContainer(c)
    BY <1>a, <1>4, GotoType, SetStatusType
       DEF StopContainer, TypeOK, RuntimeTypeOK, runtimeVars, Steps, Target, Running
  <1>5. CASE Observe(c)
    BY <1>a, <1>5, ObservedType
       DEF Observe, TypeOK, RuntimeTypeOK, runtimeVars, RequestTypeOK, Steps
  <1>6. CASE Put(c)
    BY <1>a, <1>6, ReturnType
       DEF Put, TypeOK, RuntimeTypeOK, runtimeVars, Target
  <1>7. QED BY <1>1, <1>2, <1>3, <1>4, <1>5, <1>6 DEF ActStep

\* The same of the steps of Remove.
LEMMA RemoveStepType ==
  ASSUME TypeOK, NEW c \in Clients, RemoveStep(c)
  PROVE  RequestTypeOK' /\ RuntimeTypeOK' /\ records' \in [Names -> Record \cup {NoRecord}]
  <1>a. name[c] \in Names /\ name[c] \in ContainerNames /\ Relay \in ContainerNames /\ sb[c] \in Record
    BY DEF TypeOK, RequestTypeOK, ContainerNames
  <1>1. CASE CheckRunning(c)
    BY <1>a, <1>1, GotoType, ReturnType
       DEF CheckRunning, TypeOK, RuntimeTypeOK, runtimeVars, Steps
  <1>2. CASE RmContainer(c)
    BY <1>a, <1>2, GotoType, DropContainerType
       DEF RmContainer, TypeOK, RuntimeTypeOK, runtimeVars, Steps, Target
  <1>3. CASE RmContainerFails(c)
    BY <1>a, <1>3, ReturnType
       DEF RmContainerFails, TypeOK, RuntimeTypeOK, runtimeVars
  <1>4. CASE RmVolume(c)
    BY <1>a, <1>4, GotoType
       DEF RmVolume, TypeOK, RuntimeTypeOK, runtimeVars, Steps, AfterVolume
  <1>5. CASE RmVolumeFails(c)
    BY <1>a, <1>5, ReturnType
       DEF RmVolumeFails, TypeOK, RuntimeTypeOK, runtimeVars
  <1>6. CASE DisconnectRelay(c)
    BY <1>a, <1>6, GotoType, DetachType
       DEF DisconnectRelay, TypeOK, RuntimeTypeOK, runtimeVars, Steps, Target
  <1>7. CASE RmNetwork(c)
    BY <1>a, <1>7, GotoType
       DEF RmNetwork, TypeOK, RuntimeTypeOK, runtimeVars, Steps
  <1>8. CASE RmNetworkFails(c)
    BY <1>a, <1>8, ReturnType
       DEF RmNetworkFails, TypeOK, RuntimeTypeOK, runtimeVars
  <1>9. CASE DeleteRecord(c)
    BY <1>a, <1>9, ReturnType
       DEF DeleteRecord, TypeOK, RuntimeTypeOK, runtimeVars, Target
  <1>10. QED BY <1>1, <1>2, <1>3, <1>4, <1>5, <1>6, <1>7, <1>8, <1>9 DEF RemoveStep

\* The same of the step that begins a request.
LEMMA RequestType ==
  ASSUME TypeOK, NEW c \in Clients, NEW n \in Names, Request(c, n)
  PROVE  RequestTypeOK' /\ RuntimeTypeOK' /\ records' \in [Names -> Record \cup {NoRecord}]
  <1>1. RuntimeTypeOK' /\ records' = records
    BY DEF Request, CreateBegin, StartBegin, StopBegin, ActBegin, RemoveBegin,
       TypeOK, RuntimeTypeOK, runtimeVars
  <1>2. records[n] # NoRecord => records[n] \in Record
    BY DEF TypeOK
  <1>3. ASSUME CreateBegin(c, n) PROVE RequestTypeOK'
    <2>1. CASE records[n] # NoRecord
      <3>1. Refuse(c, "create", n)
        BY <1>3, <2>1 DEF CreateBegin
      <3>2. QED BY <3>1, RefuseType DEF TypeOK
    <2>2. CASE records[n] = NoRecord
      <3>1. PICK step \in Steps : Begin(c, "create", n, FALSE, step, NewRecord)
        BY <1>3, <2>2 DEF CreateBegin, Steps
      <3>2. QED BY <1>2, <2>2, <3>1, BeginType, NewRecordType DEF TypeOK
    <2>3. QED BY <2>1, <2>2
  <1>4. ASSUME StartBegin(c, n) PROVE RequestTypeOK'
    <2>1. CASE records[n] = NoRecord
      <3>1. Refuse(c, "start", n)
        BY <1>4, <2>1 DEF StartBegin, ActBegin
      <3>2. QED BY <3>1, RefuseType DEF TypeOK
    <2>2. CASE records[n] # NoRecord
      <3>1. PICK step \in Steps : Begin(c, "start", n, FALSE, step, records[n])
        BY <1>4, <2>2 DEF StartBegin, ActBegin, Steps
      <3>2. QED BY <1>2, <2>2, <3>1, BeginType, NewRecordType DEF TypeOK
    <2>3. QED BY <2>1, <2>2
  <1>5. ASSUME StopBegin(c, n) PROVE RequestTypeOK'
    <2>1. CASE records[n] = NoRecord
      <3>1. Refuse(c, "stop", n)
        BY <1>5, <2>1 DEF StopBegin, ActBegin
      <3>2. QED BY <3>1, RefuseType DEF TypeOK
    <2>2. CASE records[n] # NoRecord
      <3>1. PICK step \in Steps : Begin(c, "stop", n, FALSE, step, records[n])
        BY <1>5, <2>2 DEF StopBegin, ActBegin, Steps
      <3>2. QED BY <1>2, <2>2, <3>1, BeginType, NewRecordType DEF TypeOK
    <2>3. QED BY <2>1, <2>2
  <1>6. ASSUME NEW f \in BOOLEAN, RemoveBegin(c, n, f)
        PROVE  RequestTypeOK'
    <2>1. CASE records[n] = NoRecord
      <3>1. Refuse(c, "remove", n)
        BY <1>6, <2>1 DEF RemoveBegin
      <3>2. QED BY <3>1, RefuseType DEF TypeOK
    <2>2. CASE records[n] # NoRecord
      <3>1. PICK step \in Steps : Begin(c, "remove", n, f, step, records[n])
        BY <1>6, <2>2 DEF RemoveBegin, Steps
      <3>2. QED BY <1>2, <2>2, <3>1, BeginType, NewRecordType DEF TypeOK
    <2>3. QED BY <2>1, <2>2
  <1>7. QED BY <1>1, <1>3, <1>4, <1>5, <1>6 DEF Request, TypeOK

\* The same of what the environment does.
LEMMA EnvironmentType ==
  ASSUME TypeOK, Environment
  PROVE  TypeOK'
  <1>1. ASSUME NEW kind \in Disruptions, Disrupt(kind)
        PROVE  disruptions' \in 0..MaxDisruptions /\ egress' \in BOOLEAN
    BY <1>1, DisruptionsAssumption DEF Disrupt, TypeOK
  <1>2. ASSUME NEW c \in Clients, CallFails(c)
        PROVE  TypeOK'
    BY <1>1, <1>2, ReturnType DEF CallFails, Disrupt, TypeOK, RuntimeTypeOK, runtimeVars
  <1>3. ASSUME NEW c \in Clients, InspectFails(c)
        PROVE  TypeOK'
    BY <1>1, <1>3, GotoType, ReturnType
       DEF InspectFails, Disrupt, TypeOK, RuntimeTypeOK, runtimeVars, Steps
  <1>4. CASE Restart
    <2>1. RequestTypeOK'
      BY <1>4, NewRecordType DEF Restart, TypeOK, RequestTypeOK, Steps
    <2>2. QED
      BY <1>1, <1>4, <2>1 DEF Restart, Disrupt, TypeOK, RuntimeTypeOK, runtimeVars
  <1>5. CASE RelayRemovedByHand
    BY <1>1, <1>5, DropContainerType
       DEF RelayRemovedByHand, Disrupt, TypeOK, RuntimeTypeOK, RequestTypeOK, requestVars,
           ContainerNames
  <1>6. ASSUME NEW n \in Names, SandboxExits(n)
        PROVE  TypeOK'
    BY <1>6, SetStatusType
       DEF SandboxExits, Running, TypeOK, RuntimeTypeOK, RequestTypeOK, requestVars,
           ContainerNames
  <1>7. QED BY <1>2, <1>3, <1>4, <1>5, <1>6 DEF Environment

\* Every reachable state is well typed: a record always has a status and a
\* handle, and each request is at a step of its handler.
THEOREM TypeCorrect == Spec => []TypeOK
  <1>1. ASSUME Init PROVE TypeOK
    BY <1>1, NewRecordType, EgressModesAssumption, DisruptionsAssumption
       DEF Init, RuntimeInit, TypeOK, RuntimeTypeOK, RequestTypeOK, Steps
  <1>2. ASSUME TypeOK, [Next]_vars PROVE TypeOK'
    <2>1. ASSUME NEW c \in Clients, HandlerStep(c)
          PROVE  TypeOK'
      BY <1>2, <2>1, CreateStepType, ActStepType, RemoveStepType DEF HandlerStep, TypeOK
    <2>2. ASSUME NEW c \in Clients, NEW n \in Names, Request(c, n)
          PROVE  TypeOK'
      <3>1. UNCHANGED <<egress, proxyAddr, disruptions>>
        BY <2>2 DEF Request
      <3>2. QED BY <1>2, <2>2, <3>1, RequestType DEF TypeOK
    <2>3. CASE Environment
      BY <1>2, <2>3, EnvironmentType
    <2>4. CASE UNCHANGED vars
      BY <1>2, <2>4
         DEF vars, runtimeVars, requestVars, TypeOK, RuntimeTypeOK, RequestTypeOK
    <2>5. QED BY <1>2, <2>1, <2>2, <2>3, <2>4 DEF Next
  <1>3. QED BY <1>1, <1>2, PTL DEF Spec
-----------------------------------------------------------------------------
\* Only a Remove gets to the steps of Remove.
RemoveSteps == {"checkRunning", "rmContainer", "rmVolume", "disconnectRelay", "rmNetwork",
                "deleteRecord"}
RemoveStepsAreRemoves == \A c \in Clients : pc[c] \in RemoveSteps => op[c] = "remove"

\* A handler keeps its kind, and reaches the steps of Remove from no others.
LEMMA HandlerKeepsKind ==
  ASSUME TypeOK, RemoveStepsAreRemoves, NEW c \in Clients, HandlerStep(c)
  PROVE  RemoveStepsAreRemoves'
  <1>1. ASSUME NEW step \in Steps, Goto(c, step), step \in RemoveSteps => pc[c] \in RemoveSteps
        PROVE  RemoveStepsAreRemoves'
    BY <1>1 DEF TypeOK, RequestTypeOK, RemoveStepsAreRemoves, Goto
  <1>2. ASSUME NEW result \in {"ok", "failed"}, Return(c, result)
        PROVE  RemoveStepsAreRemoves'
    BY <1>2 DEF TypeOK, RequestTypeOK, RemoveStepsAreRemoves, Return, RemoveSteps
  <1>3. CASE CreateStep(c)
    BY <1>1, <1>2, <1>3
       DEF CreateStep, EnsureNetwork, CreateContainer, CreateContainerFails, PutNew,
           Steps, RemoveSteps
  <1>4. CASE EnsureRelay(c)
    BY <1>1, <1>2, <1>4
       DEF EnsureRelay, RelayRunning, RmRelay, RunRelay, RunRelayFails, ConnectRelay,
           ConnectRelayFails, Steps, RemoveSteps
  <1>5. CASE Observe(c)
    BY <1>5 DEF Observe, TypeOK, RequestTypeOK, RemoveStepsAreRemoves, RemoveSteps
  <1>6. CASE StartContainer(c) \/ StartContainerFails(c) \/ StopContainer(c) \/ Put(c)
    BY <1>1, <1>2, <1>6
       DEF StartContainer, StartContainerFails, StopContainer, Put, Steps, RemoveSteps
  <1>7. CASE RemoveStep(c)
    BY <1>1, <1>2, <1>7
       DEF RemoveStep, CheckRunning, RmContainer, RmContainerFails, RmVolume, RmVolumeFails,
           AfterVolume, DisconnectRelay, RmNetwork, RmNetworkFails, DeleteRecord,
           Steps, RemoveSteps
  <1>8. QED BY <1>3, <1>4, <1>5, <1>6, <1>7 DEF HandlerStep, ActStep

\* The steps of Remove are only ever reached by requests that began as one.
LEMMA RemoveStepsInvariant == Spec => []RemoveStepsAreRemoves
  <1>1. ASSUME Init PROVE RemoveStepsAreRemoves
    BY <1>1 DEF Init, RemoveStepsAreRemoves, RemoveSteps
  <1>2. ASSUME TypeOK, RemoveStepsAreRemoves, [Next]_vars PROVE RemoveStepsAreRemoves'
    <2>1. ASSUME NEW c \in Clients, HandlerStep(c)
          PROVE  RemoveStepsAreRemoves'
      BY <1>2, <2>1, HandlerKeepsKind
    <2>2. ASSUME NEW c \in Clients, NEW n \in Names, Request(c, n)
          PROVE  RemoveStepsAreRemoves'
      <3>1. CASE CreateBegin(c, n)
        BY <1>2, <3>1 DEF CreateBegin, Begin, Refuse, TypeOK, RequestTypeOK,
           RemoveStepsAreRemoves, RemoveSteps
      <3>2. CASE StartBegin(c, n) \/ StopBegin(c, n)
        BY <1>2, <3>2 DEF StartBegin, StopBegin, ActBegin, Begin, Refuse, TypeOK, RequestTypeOK,
           RemoveStepsAreRemoves, RemoveSteps
      <3>3. CASE \E f \in BOOLEAN : RemoveBegin(c, n, f)
        BY <1>2, <3>3 DEF RemoveBegin, Begin, Refuse, TypeOK, RequestTypeOK,
           RemoveStepsAreRemoves, RemoveSteps
      <3>4. QED BY <2>2, <3>1, <3>2, <3>3 DEF Request
    <2>3. CASE Environment
      <3>1. ASSUME NEW c \in Clients, CallFails(c) \/ InspectFails(c)
            PROVE  RemoveStepsAreRemoves'
        BY <1>2, <3>1 DEF CallFails, InspectFails, Goto, Return, TypeOK, RequestTypeOK,
           RemoveStepsAreRemoves, RemoveSteps
      <3>2. CASE Restart
        BY <3>2 DEF Restart, RemoveStepsAreRemoves, RemoveSteps
      <3>3. CASE RelayRemovedByHand \/ \E n \in Names : SandboxExits(n)
        BY <1>2, <3>3 DEF RelayRemovedByHand, SandboxExits, requestVars, RemoveStepsAreRemoves
      <3>4. QED BY <2>3, <3>1, <3>2, <3>3 DEF Environment
    <2>4. CASE UNCHANGED vars
      BY <1>2, <2>4 DEF vars, requestVars, RemoveStepsAreRemoves
    <2>5. QED BY <1>2, <2>1, <2>2, <2>3, <2>4 DEF Next
  <1>3. QED BY <1>1, <1>2, TypeCorrect, PTL DEF Spec

\* Of all the steps only two take a container away: rm on behalf of a Remove,
\* and the removal of the relay's.
LEMMA WhatDropsContainers ==
  ASSUME TypeOK, Next, NEW n \in ContainerNames, Exists(n), containers'[n] = NoContainer
  PROVE  n = Relay \/ \E c \in Clients : RmContainer(c) /\ Mine(c) /\ name[c] = n
  <1>1. containers' # containers
    BY DEF Exists
  <1>2. ASSUME NEW m \in ContainerNames, NEW i \in Ids,
               NEW status \in {"created", "running", "stopped"},
               NEW upstream \in Addrs \cup {NoAddr}, AddContainer(m, i, status, upstream)
        PROVE  FALSE
    <2>1. [id |-> i, status |-> status, nets |-> {}, upstream |-> upstream] # NoContainer
      BY NoContainerAssumption DEF Container
    <2>2. QED BY <1>2, <2>1 DEF AddContainer, TypeOK, RuntimeTypeOK, Exists
  <1>3. ASSUME NEW m \in ContainerNames, Exists(m), NEW status \in {"created", "running", "stopped"},
               SetStatus(m, status)
        PROVE  FALSE
    <2>1. [containers[m] EXCEPT !.status = status] \in Container
      BY <1>3 DEF TypeOK, RuntimeTypeOK, Exists, Container
    <2>2. QED BY <1>3, <2>1, NoContainerAssumption DEF SetStatus, TypeOK, RuntimeTypeOK, Exists
  <1>4. ASSUME NEW m \in ContainerNames, NEW k \in Names, (Exists(m) /\ Attach(m, k)) \/ Detach(m, k)
        PROVE  FALSE
    <2>1. CASE Exists(m)
      <3>1. /\ [containers[m] EXCEPT !.nets = @ \cup {k}] \in Container
            /\ [containers[m] EXCEPT !.nets = @ \ {k}] \in Container
        BY <2>1 DEF TypeOK, RuntimeTypeOK, Exists, Container
      <3>2. QED BY <1>4, <2>1, <3>1, NoContainerAssumption
               DEF Attach, Detach, TypeOK, RuntimeTypeOK, Exists
    <2>2. CASE ~Exists(m)
      BY <1>1, <1>4, <2>2 DEF Detach
    <2>3. QED BY <2>1, <2>2
  <1>5. ASSUME NEW m \in ContainerNames, DropContainer(m)
        PROVE  n = m
    BY <1>5 DEF DropContainer, TypeOK, RuntimeTypeOK, Exists
  <1>6. /\ Relay \in ContainerNames
        /\ \A c \in Clients : name[c] \in Names /\ name[c] \in ContainerNames
        /\ Names \subseteq ContainerNames
    BY DEF ContainerNames, TypeOK, RequestTypeOK
  <1>7. ASSUME NEW c \in Clients, HandlerStep(c)
        PROVE  n = Relay \/ (RmContainer(c) /\ Mine(c) /\ name[c] = n)
    <2>1. CASE CreateStep(c)
      BY <1>1, <1>2, <1>6, <2>1
         DEF CreateStep, EnsureNetwork, CreateContainer, CreateContainerFails, PutNew,
             runtimeVars, Target
    <2>2. CASE EnsureRelay(c)
      <3>1. CASE RmRelay(c)
        BY <1>5, <1>6, <3>1 DEF RmRelay
      <3>2. CASE RunRelay(c)
        BY <1>2, <1>6, <3>2 DEF RunRelay, TypeOK
      <3>3. CASE ConnectRelay(c)
        BY <1>4, <1>6, <3>3 DEF ConnectRelay, NetworkToJoin, Target
      <3>4. QED
        BY <1>1, <2>2, <3>1, <3>2, <3>3
           DEF EnsureRelay, RelayRunning, RunRelayFails, ConnectRelayFails, runtimeVars
    <2>3. CASE StartContainer(c) \/ StartContainerFails(c) \/ StopContainer(c)
      BY <1>1, <1>3, <1>6, <2>3
         DEF StartContainer, StartContainerFails, StopContainer, CanStart, Mine, Resolves,
             Running, Target, runtimeVars
    <2>4. CASE Observe(c) \/ Put(c)
      BY <1>1, <2>4 DEF Observe, Put, runtimeVars
    <2>5. CASE RmContainer(c)
      BY <1>1, <1>5, <1>6, <2>5 DEF RmContainer, Target
    <2>6. CASE RemoveStep(c) /\ ~RmContainer(c)
      BY <1>1, <1>4, <1>6, <2>6
         DEF RemoveStep, CheckRunning, RmContainerFails, RmVolume, RmVolumeFails,
             DisconnectRelay, RmNetwork, RmNetworkFails, DeleteRecord, runtimeVars, Target
    <2>7. QED BY <1>7, <2>1, <2>2, <2>3, <2>4, <2>5, <2>6 DEF HandlerStep, ActStep
  <1>8. ASSUME NEW c \in Clients, NEW k \in Names, Request(c, k)
        PROVE  FALSE
    BY <1>1, <1>8 DEF Request, CreateBegin, StartBegin, StopBegin, ActBegin, RemoveBegin,
       runtimeVars
  <1>9. CASE Environment
    BY <1>1, <1>3, <1>5, <1>6, <1>9
       DEF Environment, CallFails, InspectFails, Restart, RelayRemovedByHand, SandboxExits,
           Running, runtimeVars
  <1>10. QED BY <1>7, <1>8, <1>9 DEF Next

\* Unless a sandbox is itself called what the relay is, nothing but a forced
\* Remove of it takes away a running sandbox's container.
THEOREM RunningIsSpared ==
  ASSUME Relay \notin Names
  PROVE  Spec => UnforcedRemoveSparesRunning
  <1>1. ASSUME TypeOK, RemoveStepsAreRemoves, [Next]_vars,
               NEW n \in Names, Running(n), containers'[n] = NoContainer
        PROVE  \E c \in Clients : op[c] = "remove" /\ force[c] /\ name[c] = n
    <2>1. Next
      BY <1>1 DEF vars, runtimeVars, Running, Exists
    <2>2. n # Relay /\ n \in ContainerNames /\ Exists(n)
      BY <1>1 DEF ContainerNames, Running
    <2>3. PICK c \in Clients : RmContainer(c) /\ Mine(c) /\ name[c] = n
      BY <1>1, <2>1, <2>2, WhatDropsContainers
    <2>4. force[c]
      BY <1>1, <2>3 DEF RmContainer, MayRemove, Target
    <2>5. op[c] = "remove"
      BY <1>1, <2>3 DEF RmContainer, RemoveStepsAreRemoves, RemoveSteps
    <2>6. QED BY <2>3, <2>4, <2>5
  <1>2. ASSUME TypeOK, RemoveStepsAreRemoves, [Next]_vars
        PROVE  [\A n \in Names :
                  IsSandbox(n) /\ Running(n) /\ containers'[n] = NoContainer =>
                    \E c \in Clients : op[c] = "remove" /\ force[c] /\ name[c] = n]_vars
    BY <1>1, <1>2
  <1>3. QED BY <1>2, TypeCorrect, RemoveStepsInvariant, PTL
            DEF Spec, UnforcedRemoveSparesRunning
-----------------------------------------------------------------------------
(***************************************************************************)
(* What a command does to the containers, seen one container at a time.    *)
(***************************************************************************)
Others(m) == \A k \in ContainerNames : k # m => containers'[k] = containers[k]

\* A container that is made exists, with the id it was given and on no network.
LEMMA AddEffect ==
  ASSUME TypeOK, NEW m \in ContainerNames, NEW i \in Ids,
         NEW status \in {"created", "running", "stopped"}, NEW upstream \in Addrs \cup {NoAddr},
         AddContainer(m, i, status, upstream)
  PROVE  /\ Exists(m)' /\ containers'[m].id = i /\ containers'[m].status = status
         /\ containers'[m].nets = {} /\ Others(m)
  <1> DEFINE new == [id |-> i, status |-> status, nets |-> {}, upstream |-> upstream]
  <1>1. new # NoContainer
    BY NoContainerAssumption DEF Container
  <1>2. containers' = [containers EXCEPT ![m] = new] /\ containers'[m] = new
    BY DEF AddContainer, TypeOK, RuntimeTypeOK
  <1>3. QED BY <1>1, <1>2 DEF Exists, Others, TypeOK, RuntimeTypeOK

\* One that is removed is gone, and nothing else is.
LEMMA DropEffect ==
  ASSUME TypeOK, NEW m \in ContainerNames, DropContainer(m)
  PROVE  ~Exists(m)' /\ Others(m)
  BY DEF DropContainer, Exists, Others, TypeOK, RuntimeTypeOK

\* One that is started or stopped keeps its id and its networks.
LEMMA StatusEffect ==
  ASSUME TypeOK, NEW m \in ContainerNames, Exists(m),
         NEW status \in {"created", "running", "stopped"}, SetStatus(m, status)
  PROVE  /\ Exists(m)' /\ containers'[m].id = containers[m].id /\ containers'[m].status = status
         /\ containers'[m].nets = containers[m].nets /\ Others(m)
  <1> DEFINE new == [containers[m] EXCEPT !.status = status]
  <1>1. containers[m] \in Container
    BY DEF TypeOK, RuntimeTypeOK, Exists
  <1>2. new # NoContainer /\ new.id = containers[m].id /\ new.status = status
        /\ new.nets = containers[m].nets
    BY <1>1, NoContainerAssumption DEF Container
  <1>3. containers' = [containers EXCEPT ![m] = new] /\ containers'[m] = new
    BY DEF SetStatus, TypeOK, RuntimeTypeOK
  <1>4. QED BY <1>2, <1>3 DEF Exists, Others, TypeOK, RuntimeTypeOK

\* One that is attached or detached keeps its id and its status.
LEMMA AttachEffect ==
  ASSUME TypeOK, NEW m \in ContainerNames, Exists(m), NEW n \in Names, Attach(m, n)
  PROVE  /\ Exists(m)' /\ containers'[m].id = containers[m].id
         /\ containers'[m].status = containers[m].status
         /\ containers'[m].nets = containers[m].nets \cup {n} /\ Others(m)
  <1> DEFINE new == [containers[m] EXCEPT !.nets = @ \cup {n}]
  <1>1. containers[m] \in Container
    BY DEF TypeOK, RuntimeTypeOK, Exists
  <1>2. new # NoContainer /\ new.id = containers[m].id /\ new.status = containers[m].status
        /\ new.nets = containers[m].nets \cup {n}
    BY <1>1, NoContainerAssumption DEF Container
  <1>3. containers' = [containers EXCEPT ![m] = new] /\ containers'[m] = new
    BY DEF Attach, TypeOK, RuntimeTypeOK
  <1>4. QED BY <1>2, <1>3 DEF Exists, Others, TypeOK, RuntimeTypeOK

\* The same of one that is detached, if it is there.
LEMMA DetachEffect ==
  ASSUME TypeOK, NEW m \in ContainerNames, NEW n \in Names, Detach(m, n)
  PROVE  /\ Exists(m)' <=> Exists(m)
         /\ Exists(m) => /\ containers'[m].id = containers[m].id
                         /\ containers'[m].status = containers[m].status
                         /\ containers'[m].nets = containers[m].nets \ {n}
         /\ Others(m)
  <1>1. CASE ~Exists(m)
    BY <1>1 DEF Detach, Exists, Others
  <1>2. CASE Exists(m)
    <2> DEFINE new == [containers[m] EXCEPT !.nets = @ \ {n}]
    <2>1. containers[m] \in Container
      BY <1>2 DEF TypeOK, RuntimeTypeOK, Exists
    <2>2. new # NoContainer /\ new.id = containers[m].id /\ new.status = containers[m].status
          /\ new.nets = containers[m].nets \ {n}
      BY <2>1, NoContainerAssumption DEF Container
    <2>3. containers' = [containers EXCEPT ![m] = new] /\ containers'[m] = new
      BY <1>2 DEF Detach, TypeOK, RuntimeTypeOK
    <2>4. QED BY <1>2, <2>2, <2>3 DEF Exists, Others, TypeOK, RuntimeTypeOK
  <1>3. QED BY <1>1, <1>2

\* The step of another request leaves this one where it is.
SameRequest(d) ==
  /\ pc'[d] = pc[d] /\ op'[d] = op[d] /\ name'[d] = name[d]
  /\ force'[d] = force[d] /\ sb'[d] = sb[d] /\ outcome'[d] = outcome[d]

\* Where a request is that has moved on.
LEMMA GotoEffect ==
  ASSUME TypeOK, NEW c \in Clients, NEW step, Goto(c, step)
  PROVE  /\ pc'[c] = step /\ op'[c] = op[c] /\ name'[c] = name[c]
         /\ force'[c] = force[c] /\ sb'[c] = sb[c] /\ outcome'[c] = outcome[c]
         /\ \A d \in Clients : d # c => SameRequest(d)
  BY DEF Goto, SameRequest, TypeOK, RequestTypeOK

\* And where one is that has returned.
LEMMA ReturnEffect ==
  ASSUME TypeOK, NEW c \in Clients, NEW result, Return(c, result)
  PROVE  /\ pc'[c] = "idle" /\ op'[c] = op[c] /\ name'[c] = name[c] /\ outcome'[c] = result
         /\ \A d \in Clients : d # c => SameRequest(d)
  BY DEF Return, SameRequest, TypeOK, RequestTypeOK
-----------------------------------------------------------------------------
(***************************************************************************)
(* What holds while the requests for a sandbox do not overlap.             *)
(***************************************************************************)
CreateSteps == {"ensureNetwork", "createContainer", "putNew"}
StartSteps == {"relayRunning", "rmRelay", "runRelay", "connectRelay", "startContainer"}
ActSteps == {"stopContainer", "observe", "put"}

\* A Remove that has taken the container away, and one that has the volume too.
Emptied == {"rmVolume", "disconnectRelay", "rmNetwork", "deleteRecord"}
Bared == {"disconnectRelay", "rmNetwork", "deleteRecord"}

Attached(n) == Exists(Relay) /\ n \in containers[Relay].nets

Alone == \A c, d \in Clients : InFlight(c) /\ InFlight(d) /\ name[c] = name[d] => c = d

\* A step belongs to its kind of request, which has not returned yet.
KindOK(c) ==
  /\ pc[c] \in CreateSteps => op[c] = "create"
  /\ pc[c] \in StartSteps => op[c] = "start"
  /\ pc[c] \in ActSteps => op[c] \in {"start", "stop"}
  /\ pc[c] \in RemoveSteps => op[c] = "remove"
  /\ InFlight(c) => outcome[c] = "none"
  /\ pc[c] = "checkRunning" => ~force[c]

\* The handler's copy has the handle on record, or the one it has observed.
CopyOK(c) ==
  /\ pc[c] \in CreateSteps => records[name[c]] = NoRecord
  /\ InFlight(c) /\ pc[c] \notin CreateSteps => records[name[c]] # NoRecord
  /\ InFlight(c) /\ pc[c] \notin CreateSteps \cup {"put"} => sb[c].cid = records[name[c]].cid
  /\ pc[c] = "put" /\ Exists(name[c]) => Resolves(name[c], sb[c].cid)

\* What a Remove has taken away stays away until it is done.
RemovedOK(c) ==
  /\ pc[c] \in Emptied => ~Exists(name[c])
  /\ pc[c] \in Bared => name[c] \notin volumes
  /\ pc[c] = "rmNetwork" => ~Attached(name[c])
  /\ pc[c] = "deleteRecord" => name[c] \notin networks

Sound(c) == KindOK(c) /\ CopyOK(c) /\ RemovedOK(c)

\* Only the relay is ever attached to a network, and without egress there is none.
NetsOK ==
  /\ \A m \in Names : Exists(m) => containers[m].nets = {}
  /\ ~egress => networks = {}
  /\ \A c \in Clients : pc[c] = "ensureNetwork" => egress

HandleOK(n) == records[n] # NoRecord /\ Exists(n) => Resolves(n, records[n].cid)

SandboxInv ==
  /\ Alone
  /\ \A c \in Clients : Sound(c)
  /\ NetsOK
  /\ \A n \in Names : HandleOK(n)

\* A request that is over claims nothing.
LEMMA IdleIsSound ==
  ASSUME NEW c \in Clients, pc'[c] = "idle"
  PROVE  Sound(c)'
  BY DEF Sound, KindOK, CopyOK, RemovedOK, InFlight, CreateSteps, StartSteps, ActSteps,
         RemoveSteps, Emptied, Bared

\* What the steps for another sandbox leave of this one as it is.
Spared(n) ==
  /\ records'[n] = records[n]
  /\ Exists(n)' <=> Exists(n)
  /\ Exists(n) => containers'[n].id = containers[n].id
  /\ n \in volumes' <=> n \in volumes
  /\ n \in networks' <=> n \in networks
  /\ Attached(n)' => Attached(n)

\* A request is as sound as it was if neither it nor its sandbox is touched.
LEMMA SparedIsSound ==
  ASSUME NEW d \in Clients, NEW n \in Names, name[d] = n, Sound(d), SameRequest(d), Spared(n)
  PROVE  Sound(d)'
  <1>1. KindOK(d)'
    BY DEF Sound, KindOK, SameRequest, InFlight
  <1>2. CopyOK(d)'
    BY DEF Sound, CopyOK, SameRequest, Spared, InFlight, Resolves
  <1>3. RemovedOK(d)'
    BY DEF Sound, RemovedOK, SameRequest, Spared
  <1>4. QED BY <1>1, <1>2, <1>3 DEF Sound

\* A handler's step for the sandbox n, and what it keeps.
Keeps(c, n) ==
  /\ name'[c] = n
  /\ \A d \in Clients : d # c => SameRequest(d)
  /\ \A m \in Names : m # n => Spared(m)
  /\ \A m \in Names : Exists(m)' => containers'[m].nets = {}
  /\ ~egress => networks' = {}
  /\ pc'[c] # "ensureNetwork"
  /\ HandleOK(n)'
  /\ Sound(c)'

\* A step of a request in flight starts from what the invariant says of it.
LEMMA StepGives ==
  ASSUME TypeOK, SandboxInv, NEW c \in Clients
  PROVE  /\ name[c] \in Names /\ name[c] \in ContainerNames /\ Relay \in ContainerNames
         /\ Sound(c) /\ HandleOK(name[c]) /\ sb[c] \in Record
         /\ records[name[c]] # NoRecord => records[name[c]] \in Record
         /\ Exists(name[c]) => containers[name[c]] \in Container
         /\ \A m \in Names : Exists(m) => containers[m].nets = {}
         /\ ~egress => networks = {}
  BY DEF TypeOK, RequestTypeOK, RuntimeTypeOK, ContainerNames, SandboxInv, NetsOK, Exists

\* A step that leaves the runtime and the store alone disturbs nothing there.
LEMMA QuietSpares ==
  ASSUME TypeOK, SandboxInv, UNCHANGED <<runtimeVars, records>>
  PROVE  /\ \A m \in Names : Spared(m) /\ HandleOK(m)'
         /\ \A m \in Names : Exists(m)' => containers'[m].nets = {}
         /\ ~egress => networks' = {}
  BY DEF runtimeVars, Spared, SandboxInv, HandleOK, Resolves, NetsOK, Exists, Attached


\* A request that fails or is done, once it has let go of everything.
LEMMA QuietReturn ==
  ASSUME TypeOK, SandboxInv, NEW c \in Clients, NEW n \in Names, name[c] = n, NEW result,
         Return(c, result), UNCHANGED <<runtimeVars, records>>
  PROVE  Keeps(c, n)
  <1>1. pc'[c] = "idle" /\ name'[c] = n /\ \A d \in Clients : d # c => SameRequest(d)
    BY ReturnEffect
  <1>2. Sound(c)'
    BY <1>1, IdleIsSound
  <1>3. QED BY <1>1, <1>2, QuietSpares DEF Keeps

\* One that moves on without touching anything keeps what its next step needs.
LEMMA QuietGoto ==
  ASSUME TypeOK, SandboxInv, NEW c \in Clients, NEW n \in Names, name[c] = n,
         NEW step, step # "ensureNetwork",
         Goto(c, step), UNCHANGED <<runtimeVars, records>>, Sound(c)'
  PROVE  Keeps(c, n)
  BY GotoEffect, QuietSpares DEF Keeps


\* A command on the sandbox's own container spares the others.
LEMMA OwnContainerSpares ==
  ASSUME TypeOK, SandboxInv, Relay \notin Names, NEW n \in Names, Others(n),
         UNCHANGED records, Exists(n)' => containers'[n].nets = {},
         \A m \in Names : m # n => (m \in volumes' <=> m \in volumes),
         \A m \in Names : m # n => (m \in networks' <=> m \in networks)
  PROVE  /\ \A m \in Names : m # n => Spared(m)
         /\ \A m \in Names : Exists(m)' => containers'[m].nets = {}
         /\ Attached(n)' <=> Attached(n)
  BY DEF Others, Spared, Exists, Attached, ContainerNames, SandboxInv, NetsOK

\* So does a command on the relay that attaches it to no other network.
LEMMA RelaySpares ==
  ASSUME TypeOK, SandboxInv, Relay \notin Names, NEW n \in Names, Others(Relay),
         UNCHANGED records,
         \A m \in Names : m # n /\ Attached(m)' => Attached(m),
         UNCHANGED <<networks, volumes>>
  PROVE  /\ \A m \in Names : m # n => Spared(m)
         /\ \A m \in Names : Exists(m)' => containers'[m].nets = {}
         /\ containers'[n] = containers[n]
         /\ Exists(n)' <=> Exists(n)
         /\ HandleOK(n)'
         /\ ~egress => networks' = {}
  BY DEF Others, Spared, Exists, ContainerNames, SandboxInv, NetsOK, HandleOK, Resolves

\* What the steps of Create keep.
LEMMA CreateKeeps ==
  ASSUME TypeOK, SandboxInv, Relay \notin Names, NEW c \in Clients, NEW n \in Names, name[c] = n,
         CreateStep(c)
  PROVE  Keeps(c, n)
  <1> USE StepGives
  <1>1. CASE EnsureNetwork(c)
    <2>1. /\ pc[c] = "ensureNetwork" /\ networks' = networks \cup {n} /\ Goto(c, "createContainer")
          /\ UNCHANGED <<containers, volumes, records>>
      BY <1>1 DEF EnsureNetwork, Target
    <2>2. Sound(c)'
      BY <2>1, GotoEffect DEF Sound, KindOK, CopyOK, RemovedOK, CreateSteps, StartSteps, ActSteps,
         RemoveSteps, Emptied, Bared, InFlight
    <2>3. egress
      BY <2>1 DEF SandboxInv, NetsOK
    <2>4. HandleOK(n)'
      BY <2>1 DEF HandleOK, Resolves, Exists
    <2>5. /\ \A m \in Names : m # n => Spared(m)
          /\ \A m \in Names : Exists(m)' => containers'[m].nets = {}
      BY <2>1 DEF Spared, Exists, Attached
    <2>6. QED BY <2>1, <2>2, <2>3, <2>4, <2>5, GotoEffect DEF Keeps
  <1>2. CASE CreateContainer(c)
    <2>1. PICK i \in Ids : AddContainer(n, i, "created", NoAddr)
      BY <1>2 DEF CreateContainer, Target
    <2>2. /\ pc[c] = "createContainer" /\ volumes' = volumes \cup {n} /\ Goto(c, "putNew")
          /\ UNCHANGED <<networks, records>>
      BY <1>2 DEF CreateContainer, Target
    <2>3. Exists(n)' /\ containers'[n].nets = {} /\ Others(n)
      BY <2>1, AddEffect
    <2>4. records[n] = NoRecord
      BY <2>2 DEF Sound, CopyOK, CreateSteps
    <2>5. Sound(c)'
      BY <2>2, <2>4, GotoEffect DEF Sound, KindOK, CopyOK, RemovedOK, CreateSteps, StartSteps, ActSteps,
         RemoveSteps, Emptied, Bared, InFlight
    <2>6. HandleOK(n)'
      BY <2>2, <2>4 DEF HandleOK
    <2>7. QED BY <2>2, <2>3, <2>5, <2>6, GotoEffect, OwnContainerSpares DEF Keeps
  <1>3. CASE CreateContainerFails(c)
    BY <1>3, QuietReturn DEF CreateContainerFails
  <1>4. CASE PutNew(c)
    <2>1. /\ pc[c] = "putNew" /\ records' = [records EXCEPT ![n] = NewRecord]
          /\ Return(c, "ok") /\ UNCHANGED runtimeVars
      BY <1>4 DEF PutNew, Target
    <2>2. records'[n] = NewRecord /\ \A m \in Names : m # n => records'[m] = records[m]
      BY <2>1 DEF TypeOK
    <2>3. Sound(c)'
      BY <2>1, ReturnEffect, IdleIsSound
    <2>4. HandleOK(n)'
      BY <2>1, <2>2 DEF HandleOK, Resolves, Exists, NewRecord
    <2>5. /\ \A m \in Names : m # n => Spared(m)
          /\ \A m \in Names : Exists(m)' => containers'[m].nets = {}
      BY <2>1, <2>2 DEF Spared, Exists, Attached, runtimeVars
    <2>6. QED BY <2>1, <2>3, <2>4, <2>5, ReturnEffect DEF Keeps, runtimeVars
  <1>5. QED BY <1>1, <1>2, <1>3, <1>4 DEF CreateStep

\* What the steps that bring the relay up keep.
LEMMA EnsureRelayKeeps ==
  ASSUME TypeOK, SandboxInv, Relay \notin Names, NEW c \in Clients, NEW n \in Names, name[c] = n,
         EnsureRelay(c)
  PROVE  Keeps(c, n)
  <1> USE StepGives
  <1>a. ASSUME NEW step \in StartSteps, pc[c] \in StartSteps, Goto(c, step),
               records' = records, Exists(n)' <=> Exists(n), containers'[n] = containers[n]
        PROVE  Sound(c)' /\ pc'[c] # "ensureNetwork"
    BY <1>a, GotoEffect DEF Sound, KindOK, CopyOK, RemovedOK, CreateSteps, StartSteps, ActSteps,
         RemoveSteps, Emptied, Bared, InFlight
  <1>1. CASE RelayRunning(c)
    <2>1. PICK step \in StartSteps : Goto(c, step)
      BY <1>1 DEF RelayRunning, StartSteps
    <2>2. pc[c] \in StartSteps /\ UNCHANGED <<runtimeVars, records>>
      BY <1>1 DEF RelayRunning, StartSteps
    <2>3. Sound(c)'
      BY <1>a, <2>1, <2>2 DEF runtimeVars, Exists
    <2>4. QED BY <2>1, <2>2, <2>3, QuietGoto DEF StartSteps
  <1>2. CASE RmRelay(c)
    <2>1. ~Exists(Relay)' /\ Others(Relay)
      BY <1>2, DropEffect DEF RmRelay
    <2>2. pc[c] \in StartSteps /\ "runRelay" \in StartSteps /\ Goto(c, "runRelay")
          /\ UNCHANGED <<networks, volumes, records>>
      BY <1>2 DEF RmRelay, StartSteps
    <2>3. \A m \in Names : ~Attached(m)'
      BY <2>1 DEF Attached
    <2>4. QED BY <1>a, <2>1, <2>2, <2>3, RelaySpares, GotoEffect DEF Keeps
  <1>3. CASE RunRelay(c)
    <2>1. PICK i \in Ids : AddContainer(Relay, i, "running", proxyAddr)
      BY <1>3 DEF RunRelay
    <2>2. Exists(Relay)' /\ containers'[Relay].nets = {} /\ Others(Relay)
      BY <2>1, AddEffect DEF TypeOK
    <2>3. pc[c] \in StartSteps /\ "connectRelay" \in StartSteps /\ Goto(c, "connectRelay")
          /\ UNCHANGED <<networks, volumes, records>>
      BY <1>3 DEF RunRelay, StartSteps
    <2>4. \A m \in Names : ~Attached(m)'
      BY <2>2 DEF Attached
    <2>5. QED BY <1>a, <2>2, <2>3, <2>4, RelaySpares, GotoEffect DEF Keeps
  <1>4. CASE RunRelayFails(c)
    BY <1>4, QuietReturn DEF RunRelayFails
  <1>5. CASE ConnectRelay(c)
    <2>1. Exists(Relay) /\ Attach(Relay, n)
      BY <1>5 DEF ConnectRelay, NetworkToJoin, Target
    <2>2. Exists(Relay)' /\ containers'[Relay].nets = containers[Relay].nets \cup {n} /\ Others(Relay)
      BY <2>1, AttachEffect
    <2>3. pc[c] \in StartSteps /\ "startContainer" \in StartSteps /\ Goto(c, "startContainer")
          /\ UNCHANGED <<networks, volumes, records>>
      BY <1>5 DEF ConnectRelay, StartSteps
    <2>4. \A m \in Names : m # n /\ Attached(m)' => Attached(m)
      BY <2>1, <2>2 DEF Attached
    <2>5. QED BY <1>a, <2>2, <2>3, <2>4, RelaySpares, GotoEffect DEF Keeps
  <1>6. CASE ConnectRelayFails(c)
    BY <1>6, QuietReturn DEF ConnectRelayFails
  <1>7. QED BY <1>1, <1>2, <1>3, <1>4, <1>5, <1>6 DEF EnsureRelay

\* A request that acts on the record it read finds the container by it.
LEMMA MineIsThere ==
  ASSUME SandboxInv, NEW c \in Clients, NEW n \in Names, name[c] = n,
         InFlight(c), pc[c] \notin CreateSteps \cup {"put"}
  PROVE  Exists(n) <=> Mine(c)
  BY DEF SandboxInv, Sound, CopyOK, HandleOK, Mine, Resolves

\* What the rest of the steps of Start and Stop keep.
LEMMA ActKeeps ==
  ASSUME TypeOK, SandboxInv, Relay \notin Names, NEW c \in Clients, NEW n \in Names, name[c] = n,
         ActStep(c)
  PROVE  Keeps(c, n)
  <1> USE StepGives
  <1>a. ASSUME pc[c] \in {"startContainer", "stopContainer"}, Goto(c, "observe"), records' = records
        PROVE  Sound(c)'
    BY <1>a, GotoEffect DEF Sound, KindOK, CopyOK, RemovedOK, CreateSteps, StartSteps, ActSteps,
       RemoveSteps, Emptied, Bared, InFlight
  <1>b. ASSUME Exists(n), NEW status \in {"created", "running", "stopped"}, SetStatus(n, status),
               pc[c] \in {"startContainer", "stopContainer"}, Goto(c, "observe"),
               UNCHANGED <<networks, volumes, records>>
        PROVE  Keeps(c, n)
    <2>1. /\ Exists(n)' /\ containers'[n].id = containers[n].id
          /\ containers'[n].nets = {} /\ Others(n)
      BY <1>b, StatusEffect
    <2>2. HandleOK(n)'
      BY <1>b, <2>1 DEF HandleOK, Resolves
    <2>3. QED BY <1>a, <1>b, <2>1, <2>2, GotoEffect, OwnContainerSpares DEF Keeps
  <1>1. CASE EnsureRelay(c)
    BY <1>1, EnsureRelayKeeps
  <1>2. CASE StartContainer(c)
    BY <1>2, <1>b DEF StartContainer, CanStart, Mine, Resolves, Target
  <1>3. CASE StartContainerFails(c)
    BY <1>3, QuietReturn DEF StartContainerFails
  <1>4. CASE StopContainer(c)
    <2>1. CASE Mine(c) /\ Running(n)
      BY <1>4, <2>1, <1>b DEF StopContainer, Target, Running
    <2>2. CASE ~(Mine(c) /\ Running(n))
      BY <1>4, <1>a, <2>2, QuietGoto DEF StopContainer, Target, runtimeVars
    <2>3. QED BY <2>1, <2>2
  <1>5. CASE Observe(c)
    <2>1. /\ pc[c] = "observe" /\ pc' = [pc EXCEPT ![c] = "put"]
          /\ sb' = [sb EXCEPT ![c] = Observed(c)]
          /\ UNCHANGED <<runtimeVars, records, op, name, force, outcome>>
      BY <1>5 DEF Observe
    <2>2. pc'[c] = "put" /\ sb'[c] = Observed(c) /\ \A d \in Clients : d # c => SameRequest(d)
      BY <2>1 DEF TypeOK, RequestTypeOK, SameRequest
    <2>3. Exists(n) => Resolves(n, Observed(c).cid)
      BY <2>1, MineIsThere DEF Observed, Inspected, Target, Resolves, InFlight, CreateSteps
    <2>4. KindOK(c)' /\ RemovedOK(c)'
      BY <2>1, <2>2 DEF Sound, KindOK, RemovedOK, CreateSteps, StartSteps, ActSteps, RemoveSteps,
         Emptied, Bared, InFlight
    <2>5. CopyOK(c)'
      BY <2>1, <2>2, <2>3 DEF Sound, CopyOK, CreateSteps, InFlight, runtimeVars, Exists, Resolves
    <2>6. QED BY <2>1, <2>2, <2>4, <2>5, QuietSpares DEF Keeps, Sound
  <1>6. CASE Put(c)
    <2>1. /\ pc[c] = "put" /\ records' = [records EXCEPT ![n] = sb[c]]
          /\ Return(c, "ok") /\ UNCHANGED runtimeVars
      BY <1>6 DEF Put, Target
    <2>2. records'[n] = sb[c] /\ \A m \in Names : m # n => records'[m] = records[m]
      BY <2>1 DEF TypeOK
    <2>3. HandleOK(n)'
      BY <2>1, <2>2 DEF HandleOK, Sound, CopyOK, Resolves, Exists, runtimeVars
    <2>4. /\ \A m \in Names : m # n => Spared(m)
          /\ \A m \in Names : Exists(m)' => containers'[m].nets = {}
      BY <2>1, <2>2 DEF Spared, Exists, Attached, runtimeVars
    <2>5. QED BY <2>1, <2>3, <2>4, ReturnEffect, IdleIsSound DEF Keeps, runtimeVars
  <1>7. QED BY <1>1, <1>2, <1>3, <1>4, <1>5, <1>6 DEF ActStep

\* What the steps of Remove keep.
LEMMA RemoveKeeps ==
  ASSUME TypeOK, SandboxInv, Relay \notin Names, NEW c \in Clients, NEW n \in Names, name[c] = n,
         RemoveStep(c)
  PROVE  Keeps(c, n)
  <1> USE StepGives
  <1>1. CASE CheckRunning(c)
    <2>1. CASE Goto(c, "rmContainer")
      <3>1. Sound(c)'
        BY <1>1, <2>1, GotoEffect DEF CheckRunning, Sound, KindOK, CopyOK, RemovedOK, CreateSteps,
           StartSteps, ActSteps, RemoveSteps, Emptied, Bared, InFlight
      <3>2. QED BY <1>1, <2>1, <3>1, QuietGoto DEF CheckRunning
    <2>2. CASE Return(c, "failed")
      BY <1>1, <2>2, QuietReturn DEF CheckRunning
    <2>3. QED BY <1>1, <2>1, <2>2 DEF CheckRunning
  <1>2. CASE RmContainer(c)
    <2>1. /\ pc[c] = "rmContainer" /\ Goto(c, "rmVolume")
          /\ UNCHANGED <<networks, volumes, records>>
          /\ IF Mine(c) THEN DropContainer(n) ELSE UNCHANGED containers
      BY <1>2 DEF RmContainer, Target
    <2>2. ~Exists(n)' /\ Others(n)
      <3>1. CASE Mine(c)
        BY <2>1, <3>1, DropEffect
      <3>2. CASE ~Mine(c)
        BY <2>1, <3>2, MineIsThere DEF InFlight, CreateSteps, Others, Exists
      <3>3. QED BY <3>1, <3>2
    <2>3. Sound(c)'
      BY <2>1, <2>2, GotoEffect DEF Sound, KindOK, CopyOK, RemovedOK, CreateSteps,
         StartSteps, ActSteps, RemoveSteps, Emptied, Bared, InFlight
    <2>4. QED BY <2>1, <2>2, <2>3, GotoEffect, OwnContainerSpares DEF Keeps, HandleOK
  <1>3. CASE RmContainerFails(c)
    BY <1>3, QuietReturn DEF RmContainerFails
  <1>4. CASE RmVolume(c)
    <2>1. PICK step \in {"disconnectRelay", "deleteRecord"} :
            Goto(c, step) /\ (step = "deleteRecord" => ~egress)
      BY <1>4 DEF RmVolume, AfterVolume
    <2>2. /\ pc[c] = "rmVolume" /\ ~Exists(n) /\ volumes' = volumes \ {n}
          /\ UNCHANGED <<containers, networks, records>>
      BY <1>4 DEF RmVolume, Target
    <2>3. Sound(c)'
      BY <2>1, <2>2, GotoEffect DEF Sound, KindOK, CopyOK, RemovedOK, CreateSteps,
         StartSteps, ActSteps, RemoveSteps, Emptied, Bared, InFlight, Exists
    <2>4. HandleOK(n)'
      BY <2>2 DEF HandleOK, Exists
    <2>5. /\ \A m \in Names : m # n => Spared(m)
          /\ \A m \in Names : Exists(m)' => containers'[m].nets = {}
      BY <2>2 DEF Spared, Exists, Attached
    <2>6. QED BY <2>1, <2>2, <2>3, <2>4, <2>5, GotoEffect DEF Keeps
  <1>5. CASE RmVolumeFails(c)
    BY <1>5, QuietReturn DEF RmVolumeFails
  <1>6. CASE DisconnectRelay(c)
    <2>1. /\ pc[c] = "disconnectRelay" /\ Detach(Relay, n) /\ Goto(c, "rmNetwork")
          /\ UNCHANGED <<networks, volumes, records>>
      BY <1>6 DEF DisconnectRelay, Target
    <2>2. /\ Others(Relay) /\ ~Attached(n)' /\ \A m \in Names : Attached(m)' => Attached(m)
      BY <2>1, DetachEffect DEF Attached
    <2>3. containers'[n] = containers[n] /\ (Exists(n)' <=> Exists(n))
      BY <2>2 DEF Others, Exists
    <2>4. Sound(c)'
      BY <2>1, <2>2, <2>3, GotoEffect DEF Sound, KindOK, CopyOK, RemovedOK, CreateSteps,
         StartSteps, ActSteps, RemoveSteps, Emptied, Bared, InFlight
    <2>5. QED BY <2>1, <2>2, <2>4, GotoEffect, RelaySpares DEF Keeps
  <1>7. CASE RmNetwork(c)
    <2>1. /\ pc[c] = "rmNetwork" /\ networks' = networks \ {n} /\ Goto(c, "deleteRecord")
          /\ UNCHANGED <<containers, volumes, records>>
      BY <1>7 DEF RmNetwork, Target
    <2>2. Sound(c)'
      BY <2>1, GotoEffect DEF Sound, KindOK, CopyOK, RemovedOK, CreateSteps,
         StartSteps, ActSteps, RemoveSteps, Emptied, Bared, InFlight, Exists
    <2>3. HandleOK(n)'
      BY <2>1 DEF HandleOK, Exists, Resolves
    <2>4. /\ \A m \in Names : m # n => Spared(m)
          /\ \A m \in Names : Exists(m)' => containers'[m].nets = {}
      BY <2>1 DEF Spared, Exists, Attached
    <2>5. QED BY <2>1, <2>2, <2>3, <2>4, GotoEffect DEF Keeps
  <1>8. CASE RmNetworkFails(c)
    BY <1>8, QuietReturn DEF RmNetworkFails
  <1>9. CASE DeleteRecord(c)
    <2>1. PICK result \in {"ok", "failed"} : Return(c, result)
      BY <1>9 DEF DeleteRecord
    <2>2. records' = [records EXCEPT ![n] = NoRecord] /\ UNCHANGED runtimeVars
      BY <1>9 DEF DeleteRecord, Target
    <2>3. records'[n] = NoRecord /\ \A m \in Names : m # n => records'[m] = records[m]
      BY <2>2 DEF TypeOK
    <2>4. /\ \A m \in Names : m # n => Spared(m)
          /\ \A m \in Names : Exists(m)' => containers'[m].nets = {}
      BY <2>2, <2>3 DEF Spared, Exists, Attached, runtimeVars
    <2>5. QED BY <2>1, <2>2, <2>3, <2>4, ReturnEffect, IdleIsSound DEF Keeps, runtimeVars, HandleOK
  <1>10. QED BY <1>1, <1>2, <1>3, <1>4, <1>5, <1>6, <1>7, <1>8, <1>9 DEF RemoveStep

\* A handler's step, seen from the requests for all sandboxes.
LEMMA KeepsIsInductive ==
  ASSUME TypeOK, SandboxInv, NEW c \in Clients, NEW n \in Names, name[c] = n, InFlight(c),
         Keeps(c, n), egress' = egress
  PROVE  SandboxInv'
  <1>1. \A d \in Clients : name'[d] = name[d] /\ (InFlight(d)' => InFlight(d))
    BY DEF Keeps, SameRequest, InFlight
  <1>2. Alone'
    BY <1>1 DEF Alone, SandboxInv
  <1>3. ASSUME NEW d \in Clients PROVE Sound(d)'
    <2>1. CASE d = c
      BY <2>1 DEF Keeps
    <2>2. CASE d # c /\ pc[d] = "idle"
      BY <2>2, IdleIsSound DEF Keeps, SameRequest
    <2>3. CASE d # c /\ InFlight(d)
      <3>1. PICK m \in Names : name[d] = m /\ m # n
        BY <2>3 DEF TypeOK, RequestTypeOK, SandboxInv, Alone
      <3>2. Spared(m) /\ SameRequest(d) /\ Sound(d)
        BY <2>3, <3>1 DEF Keeps, SandboxInv
      <3>3. QED BY <3>1, <3>2, SparedIsSound
    <2>4. QED BY <2>1, <2>2, <2>3 DEF InFlight
  <1>4. NetsOK'
    BY DEF NetsOK, Keeps, SameRequest, SandboxInv
  <1>5. ASSUME NEW m \in Names PROVE HandleOK(m)'
    BY DEF Keeps, HandleOK, Spared, SandboxInv, Resolves
  <1>6. QED BY <1>2, <1>3, <1>4, <1>5 DEF SandboxInv

\* A handler's step keeps the invariant.
LEMMA HandlerKeepsSandboxInv ==
  ASSUME TypeOK, SandboxInv, Relay \notin Names, NEW c \in Clients, HandlerStep(c)
  PROVE  SandboxInv'
  <1>1. PICK n \in Names : name[c] = n
    BY DEF TypeOK, RequestTypeOK
  <1>2. Keeps(c, n)
    BY <1>1, CreateKeeps, ActKeeps, RemoveKeeps DEF HandlerStep
  <1>3. InFlight(c)
    BY DEF InFlight, HandlerStep, CreateStep, ActStep, EnsureRelay, RemoveStep, EnsureNetwork,
       CreateContainer, CreateContainerFails, PutNew, RelayRunning, RmRelay, RunRelay,
       RunRelayFails, ConnectRelay, ConnectRelayFails, StartContainer, StartContainerFails,
       StopContainer, Observe, Put, CheckRunning, RmContainer, RmContainerFails, RmVolume,
       RmVolumeFails, DisconnectRelay, RmNetwork, RmNetworkFails, DeleteRecord
  <1>4. QED BY <1>1, <1>2, <1>3, KeepsIsInductive DEF HandlerStep

\* Begin and Refuse touch one request.
LEMMA BeginEffect ==
  ASSUME TypeOK, NEW c \in Clients, NEW kind, NEW n \in Names, NEW f, NEW step, NEW copy,
         Begin(c, kind, n, f, step, copy)
  PROVE  /\ op'[c] = kind /\ name'[c] = n /\ force'[c] = f /\ pc'[c] = step /\ sb'[c] = copy
         /\ outcome'[c] = "none"
         /\ \A d \in Clients : d # c => SameRequest(d)
  BY DEF Begin, SameRequest, TypeOK, RequestTypeOK

\* A request that is refused leaves its caller idle.
LEMMA RefuseEffect ==
  ASSUME TypeOK, NEW c \in Clients, NEW kind, NEW n \in Names, Refuse(c, kind, n)
  PROVE  /\ op'[c] = kind /\ pc'[c] = pc[c] /\ outcome'[c] = "failed" /\ force'[c] = force[c]
         /\ \A d \in Clients : d # c => SameRequest(d)
  BY DEF Refuse, SameRequest, TypeOK, RequestTypeOK

\* A request that begins, or is refused, is the only one of its sandbox.
LEMMA RequestKeepsSandboxInv ==
  ASSUME TypeOK, SandboxInv, "sandbox" \in Promises, NEW c \in Clients, NEW n \in Names,
         Request(c, n)
  PROVE  SandboxInv'
  <1>1. pc[c] = "idle" /\ UNCHANGED <<runtimeVars, records, egress>>
    BY DEF Request, CreateBegin, StartBegin, StopBegin, ActBegin, RemoveBegin
  <1> DEFINE Begun == /\ \A d \in Clients : d # c => SameRequest(d)
                      /\ InFlight(c)' => name'[c] = n
                      /\ Sound(c)'
                      /\ pc'[c] = "ensureNetwork" => egress
  <1>2. Begun
    <2>1. ASSUME NEW kind, Refuse(c, kind, n)
          PROVE  /\ \A d \in Clients : d # c => SameRequest(d)
                 /\ pc'[c] = "idle" /\ ~InFlight(c)' /\ Sound(c)'
      BY <1>1, <2>1, RefuseEffect, IdleIsSound DEF InFlight
    <2>2. CASE CreateBegin(c, n)
      <3>1. CASE records[n] # NoRecord
        BY <2>1, <2>2, <3>1 DEF CreateBegin
      <3>2. CASE records[n] = NoRecord
        <4>1. PICK step \in {"ensureNetwork", "createContainer"} :
                 /\ Begin(c, "create", n, FALSE, step, NewRecord)
                 /\ step = "ensureNetwork" => egress
          BY <2>2, <3>2 DEF CreateBegin
        <4>2. /\ op'[c] = "create" /\ name'[c] = n /\ force'[c] = FALSE /\ pc'[c] = step
              /\ sb'[c] = NewRecord /\ outcome'[c] = "none"
              /\ \A d \in Clients : d # c => SameRequest(d)
          BY <4>1, BeginEffect
        <4>3. KindOK(c)'
          BY <4>1, <4>2 DEF KindOK, CreateSteps, StartSteps, ActSteps, RemoveSteps, InFlight
        <4>4. CopyOK(c)' /\ RemovedOK(c)'
          BY <1>1, <3>2, <4>1, <4>2 DEF CopyOK, RemovedOK, CreateSteps, StartSteps, ActSteps,
             Emptied, Bared, InFlight
        <4>5. QED BY <4>1, <4>2, <4>3, <4>4 DEF Sound, StartSteps, ActSteps
      <3>3. QED BY <3>1, <3>2
    <2>3. ASSUME NEW kind \in {"start", "stop"}, NEW step \in (StartSteps \cup ActSteps) \ {"put"},
                 ActBegin(c, kind, n, step), step \in StartSteps => kind = "start"
          PROVE  Begun
      <3>1. CASE records[n] = NoRecord
        BY <2>1, <2>3, <3>1 DEF ActBegin
      <3>2. CASE records[n] # NoRecord
        <4>1. Begin(c, kind, n, FALSE, step, records[n])
          BY <2>3, <3>2 DEF ActBegin
        <4>2. /\ op'[c] = kind /\ name'[c] = n /\ force'[c] = FALSE /\ pc'[c] = step
              /\ sb'[c] = records[n] /\ outcome'[c] = "none"
              /\ \A d \in Clients : d # c => SameRequest(d)
          BY <4>1 DEF Begin, TypeOK, RequestTypeOK, SameRequest
        <4>3. KindOK(c)'
          BY <2>3, <4>1, <4>2 DEF KindOK, CreateSteps, StartSteps, ActSteps, RemoveSteps, InFlight
        <4>4. CopyOK(c)' /\ RemovedOK(c)'
          BY <1>1, <3>2, <2>3, <4>1, <4>2 DEF CopyOK, RemovedOK, CreateSteps, StartSteps, ActSteps,
             Emptied, Bared, InFlight
        <4>5. QED BY <2>3, <4>1, <4>2, <4>3, <4>4 DEF Sound, StartSteps, ActSteps
      <3>3. QED BY <3>1, <3>2
    <2>4. CASE StartBegin(c, n)
      BY <2>3, <2>4 DEF StartBegin, StartSteps, ActSteps
    <2>5. CASE StopBegin(c, n)
      BY <2>3, <2>5 DEF StopBegin, StartSteps, ActSteps
    <2>6. ASSUME NEW f \in BOOLEAN, RemoveBegin(c, n, f)
          PROVE  Begun
      <3>1. CASE records[n] = NoRecord
        BY <2>1, <2>6, <3>1 DEF RemoveBegin
      <3>2. CASE records[n] # NoRecord
        <4>1. PICK step \in {"rmContainer", "checkRunning"} :
                /\ Begin(c, "remove", n, f, step, records[n])
                /\ step = "checkRunning" => ~f
          BY <2>6, <3>2 DEF RemoveBegin
        <4>2. /\ op'[c] = "remove" /\ name'[c] = n /\ force'[c] = f /\ pc'[c] = step
              /\ sb'[c] = records[n] /\ outcome'[c] = "none"
              /\ \A d \in Clients : d # c => SameRequest(d)
          BY <4>1, BeginEffect
        <4>3. KindOK(c)'
          BY <4>1, <4>2 DEF KindOK, CreateSteps, StartSteps, ActSteps, RemoveSteps, InFlight
        <4>4. CopyOK(c)' /\ RemovedOK(c)'
          BY <1>1, <3>2, <4>1, <4>2 DEF CopyOK, RemovedOK, CreateSteps, StartSteps, ActSteps,
             Emptied, Bared, InFlight
        <4>5. QED BY <4>1, <4>2, <4>3, <4>4 DEF Sound, StartSteps, ActSteps
      <3>3. QED BY <3>1, <3>2
    <2>7. QED BY <2>2, <2>4, <2>5, <2>6 DEF Request
  <1>3. Alone'
    <2>1. ASSUME NEW d \in Clients, d # c, InFlight(d)'
          PROVE  InFlight(d) /\ name'[d] = name[d] /\ name[d] # n
      BY <1>2, <2>1 DEF SameRequest, InFlight, Request, OnePerSandbox
    <2>2. QED BY <1>2, <2>1 DEF Alone, SandboxInv
  <1>4. ASSUME NEW d \in Clients PROVE Sound(d)'
    <2>1. CASE d = c
      BY <1>2, <2>1
    <2>2. CASE d # c
      <3>1. PICK m \in Names : name[d] = m
        BY DEF TypeOK, RequestTypeOK
      <3>2. QED BY <1>1, <1>2, <2>2, <3>1, SparedIsSound, QuietSpares DEF SandboxInv
    <2>3. QED BY <2>1, <2>2
  <1>5. NetsOK'
    BY <1>1, <1>2, QuietSpares DEF NetsOK, SameRequest, SandboxInv
  <1>6. QED BY <1>1, <1>3, <1>4, <1>5, QuietSpares DEF SandboxInv

\* So does what the environment does.
LEMMA EnvironmentKeepsSandboxInv ==
  ASSUME TypeOK, SandboxInv, Relay \notin Names, Environment
  PROVE  SandboxInv'
  <1>a. ASSUME NEW c \in Clients, NEW result, Return(c, result), InFlight(c),
               UNCHANGED <<runtimeVars, records, egress>>
        PROVE  SandboxInv'
    <2>1. PICK n \in Names : name[c] = n
      BY DEF TypeOK, RequestTypeOK
    <2>2. QED BY <1>a, <2>1, QuietReturn, KeepsIsInductive
  <1>1. ASSUME NEW c \in Clients, CallFails(c) PROVE SandboxInv'
    BY <1>a, <1>1 DEF CallFails, Disrupt, InFlight
  <1>2. ASSUME NEW c \in Clients, InspectFails(c) PROVE SandboxInv'
    <2>0. PICK n \in Names : name[c] = n
      BY DEF TypeOK, RequestTypeOK
    <2>1. /\ pc[c] \in {"observe", "checkRunning"} /\ InFlight(c)
          /\ UNCHANGED <<runtimeVars, records, egress>>
      BY <1>2 DEF InspectFails, Disrupt, InFlight
    <2>2. CASE pc[c] = "observe" /\ Goto(c, "put")
      <3>1. Sound(c)'
        BY <2>0, <2>1, <2>2, GotoEffect, StepGives DEF Sound, KindOK, CopyOK, RemovedOK,
           CreateSteps, StartSteps, ActSteps, RemoveSteps, Emptied, Bared, InFlight, HandleOK,
           Resolves, Exists, runtimeVars
      <3>2. QED BY <2>0, <2>1, <2>2, <3>1, QuietGoto, KeepsIsInductive
    <2>3. CASE pc[c] = "checkRunning" /\ Goto(c, "rmContainer")
      <3>1. Sound(c)'
        BY <2>0, <2>1, <2>3, GotoEffect, StepGives DEF Sound, KindOK, CopyOK, RemovedOK,
           CreateSteps, StartSteps, ActSteps, RemoveSteps, Emptied, Bared, InFlight
      <3>2. QED BY <2>0, <2>1, <2>3, <3>1, QuietGoto, KeepsIsInductive
    <2>4. CASE Return(c, "failed")
      BY <1>a, <2>1, <2>4
    <2>5. QED BY <1>2, <2>2, <2>3, <2>4 DEF InspectFails
  <1>3. CASE Restart
    <2>1. /\ \A d \in Clients : pc'[d] = "idle"
          /\ UNCHANGED <<runtimeVars, records, egress>>
      BY <1>3 DEF Restart, Disrupt
    <2>2. Alone'
      BY <2>1 DEF Alone, InFlight
    <2>3. QED BY <2>1, <2>2, IdleIsSound, QuietSpares DEF SandboxInv, NetsOK
  <1>b. ASSUME UNCHANGED <<networks, volumes, records, requestVars, egress>>,
               \A m \in Names : Spared(m) /\ HandleOK(m)',
               \A m \in Names : Exists(m)' => containers'[m].nets = {}
        PROVE  SandboxInv'
    <2>1. Alone'
      BY <1>b DEF SandboxInv, Alone, InFlight, requestVars
    <2>2. ASSUME NEW d \in Clients PROVE Sound(d)'
      <3>1. PICK m \in Names : name[d] = m
        BY DEF TypeOK, RequestTypeOK
      <3>2. SameRequest(d) /\ Sound(d)
        BY <1>b DEF requestVars, SameRequest, SandboxInv
      <3>3. QED BY <1>b, <3>1, <3>2, SparedIsSound
    <2>3. QED BY <1>b, <2>1, <2>2 DEF SandboxInv, NetsOK, requestVars
  <1>4. CASE RelayRemovedByHand
    <2>1. DropContainer(Relay) /\ UNCHANGED <<networks, volumes, records, requestVars, egress>>
      BY <1>4 DEF RelayRemovedByHand, Disrupt
    <2>2. ~Exists(Relay)' /\ Others(Relay)
      BY <2>1, DropEffect DEF ContainerNames
    <2>3. /\ \A m \in Names : Spared(m) /\ HandleOK(m)'
          /\ \A m \in Names : Exists(m)' => containers'[m].nets = {}
      BY <2>1, <2>2 DEF Others, Spared, Exists, Attached, ContainerNames, SandboxInv, NetsOK,
         HandleOK, Resolves
    <2>4. QED BY <1>b, <2>1, <2>3
  <1>5. ASSUME NEW n \in Names, SandboxExits(n) PROVE SandboxInv'
    <2>1. /\ Exists(n) /\ SetStatus(n, "stopped")
          /\ UNCHANGED <<networks, volumes, records, requestVars, egress>>
      BY <1>5 DEF SandboxExits, Running
    <2>2. /\ Exists(n)' /\ containers'[n].id = containers[n].id
          /\ containers'[n].nets = containers[n].nets /\ Others(n)
      BY <2>1, StatusEffect DEF ContainerNames
    <2>3. /\ \A m \in Names : Spared(m) /\ HandleOK(m)'
          /\ \A m \in Names : Exists(m)' => containers'[m].nets = {}
      BY <2>1, <2>2 DEF Others, Spared, Exists, Attached, ContainerNames, SandboxInv, NetsOK,
         HandleOK, Resolves
    <2>4. QED BY <1>b, <2>1, <2>3
  <1>6. QED BY <1>1, <1>2, <1>3, <1>4, <1>5 DEF Environment

\* While the requests for a sandbox do not overlap, the invariant is reached
\* and kept, whatever fails and however often the daemon dies.
THEOREM SandboxInvariant ==
  ASSUME Relay \notin Names, "sandbox" \in Promises
  PROVE  Spec => []SandboxInv
  <1>1. ASSUME Init PROVE SandboxInv
    BY <1>1 DEF Init, RuntimeInit, SandboxInv, Alone, InFlight, Sound, KindOK, CopyOK, RemovedOK,
       CreateSteps, StartSteps, ActSteps, RemoveSteps, Emptied, Bared, NetsOK, HandleOK, Exists,
       ContainerNames
  <1>2. ASSUME TypeOK, SandboxInv, [Next]_vars PROVE SandboxInv'
    <2>1. ASSUME NEW c \in Clients, HandlerStep(c) PROVE SandboxInv'
      BY <1>2, <2>1, HandlerKeepsSandboxInv
    <2>2. ASSUME NEW c \in Clients, NEW n \in Names, Request(c, n) PROVE SandboxInv'
      BY <1>2, <2>2, RequestKeepsSandboxInv
    <2>3. CASE Environment
      BY <1>2, <2>3, EnvironmentKeepsSandboxInv
    <2>4. CASE UNCHANGED vars
      BY <1>2, <2>4 DEF vars, runtimeVars, requestVars, SandboxInv, Alone, InFlight, Sound,
         KindOK, CopyOK, RemovedOK, NetsOK, HandleOK, Exists, Resolves, Attached
    <2>5. QED BY <1>2, <2>1, <2>2, <2>3, <2>4 DEF Next
  <1>3. QED BY <1>1, <1>2, TypeCorrect, PTL DEF Spec

\* A record that is on file always reaches the container, if it is there.
THEOREM HandlesResolve ==
  ASSUME Relay \notin Names, "sandbox" \in Promises
  PROVE  Spec => []HandleResolves
  <1>1. SandboxInv => HandleResolves
    BY DEF SandboxInv, HandleOK, HandleResolves
  <1>2. QED BY <1>1, SandboxInvariant, PTL

\* Only three steps write to the store.
LEMMA WhatWritesRecords ==
  ASSUME TypeOK, Next, NEW n \in Names, records'[n] # records[n]
  PROVE  \E c \in Clients : name[c] = n /\ (PutNew(c) \/ Put(c) \/ DeleteRecord(c))
  <1>1. records' # records
    OBVIOUS
  <1>2. ASSUME NEW c \in Clients, HandlerStep(c)
        PROVE  PutNew(c) \/ Put(c) \/ DeleteRecord(c)
    BY <1>1, <1>2
       DEF HandlerStep, CreateStep, ActStep, EnsureRelay, RemoveStep, EnsureNetwork,
       CreateContainer, CreateContainerFails, RelayRunning, RmRelay, RunRelay,
       RunRelayFails, ConnectRelay, ConnectRelayFails, StartContainer, StartContainerFails,
       StopContainer, Observe, CheckRunning, RmContainer, RmContainerFails, RmVolume,
       RmVolumeFails, DisconnectRelay, RmNetwork, RmNetworkFails
  <1>3. ASSUME NEW c \in Clients, PutNew(c) \/ Put(c) \/ DeleteRecord(c) PROVE name[c] = n
    BY <1>3 DEF PutNew, Put, DeleteRecord, Target, TypeOK
  <1>4. ~Environment
    BY <1>1 DEF Environment, CallFails, InspectFails, Restart, RelayRemovedByHand, SandboxExits
  <1>5. ASSUME NEW c \in Clients, NEW k \in Names PROVE ~Request(c, k)
    BY <1>1 DEF Request, CreateBegin, StartBegin, StopBegin, ActBegin, RemoveBegin
  <1>6. QED BY <1>2, <1>3, <1>4, <1>5 DEF Next

\* Whatever has failed on the way, a record that goes leaves nothing behind.
THEOREM RemovalIsComplete ==
  ASSUME Relay \notin Names, "sandbox" \in Promises
  PROVE  Spec => RemoveIsComplete
  <1>1. ASSUME TypeOK, SandboxInv, [Next]_vars,
               NEW n \in Names, records[n] # NoRecord, records'[n] = NoRecord
        PROVE  ~Exists(n)' /\ n \notin volumes' /\ n \notin networks'
    <2>1. Next
      BY <1>1 DEF vars
    <2>2. PICK c \in Clients : name[c] = n /\ (PutNew(c) \/ Put(c) \/ DeleteRecord(c))
      BY <1>1, <2>1, WhatWritesRecords
    <2>3. ~PutNew(c) /\ ~Put(c)
      BY <1>1, <2>2, NewRecordType, NoRecordAssumption
         DEF PutNew, Put, Target, TypeOK, RequestTypeOK
    <2>4. pc[c] = "deleteRecord" /\ UNCHANGED runtimeVars
      BY <2>2, <2>3 DEF DeleteRecord
    <2>5. ~Exists(n) /\ n \notin volumes /\ n \notin networks
      BY <1>1, <2>2, <2>4 DEF SandboxInv, Sound, RemovedOK, Emptied, Bared
    <2>6. QED BY <2>4, <2>5 DEF runtimeVars, Exists
  <1>2. ASSUME TypeOK, SandboxInv, [Next]_vars
        PROVE  [\A n \in Names : records[n] # NoRecord /\ records'[n] = NoRecord =>
                  ~Exists(n)' /\ n \notin volumes' /\ n \notin networks']_vars
    BY <1>1, <1>2
  <1>3. QED BY <1>2, TypeCorrect, SandboxInvariant, PTL DEF Spec, RemoveIsComplete

\* No request but a Create puts a sandbox on record that was not there.
THEOREM RemovedIsForGood ==
  ASSUME Relay \notin Names, "sandbox" \in Promises
  PROVE  Spec => RemovedStaysRemoved
  <1>1. ASSUME TypeOK, SandboxInv, [Next]_vars,
               NEW n \in Names, records[n] = NoRecord, records'[n] # NoRecord
        PROVE  \E c \in Clients : op[c] = "create" /\ name[c] = n
    <2>1. Next
      BY <1>1 DEF vars
    <2>2. PICK c \in Clients : name[c] = n /\ (PutNew(c) \/ Put(c) \/ DeleteRecord(c))
      BY <1>1, <2>1, WhatWritesRecords
    <2>3. ~DeleteRecord(c)
      BY <1>1, <2>2 DEF DeleteRecord, Target, TypeOK
    <2>4. ~Put(c)
      BY <1>1, <2>2 DEF Put, SandboxInv, Sound, CopyOK, InFlight, CreateSteps
    <2>5. op[c] = "create"
      BY <1>1, <2>2, <2>3, <2>4 DEF PutNew, SandboxInv, Sound, KindOK, CreateSteps
    <2>6. QED BY <2>2, <2>5
  <1>2. ASSUME TypeOK, SandboxInv, [Next]_vars
        PROVE  [\A n \in Names : records[n] = NoRecord /\ records'[n] # NoRecord =>
                  \E c \in Clients : op[c] = "create" /\ name[c] = n]_vars
    BY <1>1, <1>2
  <1>3. QED BY <1>2, TypeCorrect, SandboxInvariant, PTL DEF Spec, RemovedStaysRemoved

\* A forced Remove that gets to a step finds nothing in its way.
LEMMA ForcedRemoveMovesOn ==
  ASSUME TypeOK, SandboxInv, Relay \notin Names, NEW c \in Clients, InFlight(c), op[c] = "remove",
         force[c], HandlerStep(c)
  PROVE  outcome'[c] # "failed"
  <1> DEFINE n == name[c]
  <1> USE StepGives
  <1>1. outcome[c] = "none"
    BY DEF Sound, KindOK
  <1>2. ASSUME NEW step, Goto(c, step) PROVE outcome'[c] # "failed"
    BY <1>1, <1>2, GotoEffect
  <1>3. ~CreateStep(c) /\ ~EnsureRelay(c)
    BY DEF Sound, KindOK, CreateSteps, StartSteps, CreateStep, EnsureNetwork,
       CreateContainer, CreateContainerFails, PutNew, EnsureRelay, RelayRunning, RmRelay,
       RunRelay, RunRelayFails, ConnectRelay, ConnectRelayFails
  <1>4. ~ActStep(c)
    BY <1>3 DEF Sound, KindOK, ActSteps, StartSteps, ActStep, StartContainer,
       StartContainerFails, StopContainer, Observe, Put
  <1>5. ~CheckRunning(c)
    BY DEF CheckRunning, Sound, KindOK
  <1>6. ~RmContainerFails(c)
    BY DEF RmContainerFails, MayRemove
  <1>7. ~RmVolumeFails(c)
    BY DEF RmVolumeFails, Target, Sound, RemovedOK, Emptied
  <1>8. ~RmNetworkFails(c)
    <2>1. SUFFICES ASSUME pc[c] = "rmNetwork", HasEndpoints(n) PROVE FALSE
      BY DEF RmNetworkFails, Target
    <2>2. ~Exists(n) /\ ~Attached(n)
      BY <2>1 DEF Sound, RemovedOK, Emptied
    <2>3. PICK m \in ContainerNames : Running(m) /\ n \in containers[m].nets
      BY <2>1, <2>2 DEF HasEndpoints, Running
    <2>4. QED BY <2>2, <2>3 DEF Attached, Running, ContainerNames
  <1>9. ASSUME DeleteRecord(c) PROVE outcome'[c] = "ok"
    <2>1. records[n] # NoRecord
      BY <1>9 DEF DeleteRecord, Sound, CopyOK, InFlight, CreateSteps
    <2>2. Return(c, "ok")
      BY <1>9, <2>1 DEF DeleteRecord, Target
    <2>3. QED BY <2>2, ReturnEffect
  <1>10. RemoveStep(c)
    BY <1>3, <1>4 DEF HandlerStep
  <1>11. QED BY <1>2, <1>5, <1>6, <1>7, <1>8, <1>9, <1>10
             DEF RemoveStep, RmContainer, RmVolume, DisconnectRelay, RmNetwork

\* A forced Remove fails only when a command or a write fails under it.
THEOREM ForcedRemovesSucceed ==
  ASSUME Relay \notin Names, "sandbox" \in Promises
  PROVE  Spec => ForcedRemoveSucceeds
  <1>1. ASSUME TypeOK, SandboxInv, [Next]_vars, NEW c \in Clients,
               InFlight(c), op[c] = "remove", force[c], disruptions' = disruptions
        PROVE  outcome'[c] # "failed"
    <2>1. outcome[c] = "none"
      BY <1>1 DEF SandboxInv, Sound, KindOK
    <2>2. CASE UNCHANGED vars
      BY <2>1, <2>2 DEF vars, requestVars
    <2>3. ASSUME NEW d \in Clients, HandlerStep(d) PROVE outcome'[c] # "failed"
      <3>1. CASE d = c
        BY <1>1, <2>3, <3>1, ForcedRemoveMovesOn
      <3>2. CASE d # c
        <4>1. PICK n \in Names : name[d] = n
          BY <1>1 DEF TypeOK, RequestTypeOK
        <4>2. Keeps(d, n)
          BY <1>1, <2>3, <4>1, CreateKeeps, ActKeeps, RemoveKeeps DEF HandlerStep
        <4>3. QED BY <2>1, <3>2, <4>2 DEF Keeps, SameRequest
      <3>3. QED BY <3>1, <3>2
    <2>4. ASSUME NEW d \in Clients, NEW n \in Names, Request(d, n) PROVE outcome'[c] # "failed"
      <3>1. d # c
        BY <1>1, <2>4 DEF InFlight, Request, CreateBegin, StartBegin, StopBegin, ActBegin, RemoveBegin
      <3>2. outcome'[c] = outcome[c]
        BY <1>1, <2>4, <3>1 DEF Request, CreateBegin, StartBegin, StopBegin, ActBegin, RemoveBegin,
           Begin, Refuse, TypeOK, RequestTypeOK
      <3>3. QED BY <2>1, <3>2
    <2>5. CASE Environment
      <3>1. ASSUME NEW kind, Disrupt(kind) PROVE FALSE
        BY <1>1, <3>1, DisruptionsAssumption DEF Disrupt, TypeOK
      <3>2. PICK n \in Names : SandboxExits(n)
        BY <2>5, <3>1 DEF Environment, CallFails, InspectFails, Restart, RelayRemovedByHand
      <3>3. QED BY <2>1, <3>2 DEF SandboxExits, requestVars
    <2>6. QED BY <1>1, <2>2, <2>3, <2>4, <2>5 DEF Next
  <1>2. ASSUME TypeOK, SandboxInv, [Next]_vars
        PROVE  [\A c \in Clients :
                 InFlight(c) /\ op[c] = "remove" /\ force[c] /\ disruptions' = disruptions =>
                   outcome'[c] # "failed"]_vars
    BY <1>1, <1>2
  <1>3. QED BY <1>2, TypeCorrect, SandboxInvariant, PTL DEF Spec, ForcedRemoveSucceeds
-----------------------------------------------------------------------------
(***************************************************************************)
(* What holds of the relay while, besides, the Starts do not overlap and   *)
(* nobody removes the relay by hand.                                       *)
(***************************************************************************)
AloneStarting ==
  \A c, d \in Clients :
    InFlight(c) /\ InFlight(d) /\ op[c] = "start" /\ op[d] = "start" => c = d

\* The relay is up whenever it is there, and the one Start that may be making
\* it has it on its sandbox's network before the container is started.
RelayInv ==
  /\ AloneStarting
  /\ Exists(Relay) => Running(Relay)
  /\ \A c \in Clients : pc[c] \in {"rmRelay", "runRelay"} => ~Exists(Relay)
  /\ \A c \in Clients : egress /\ pc[c] = "startContainer" => Attached(name[c])
  /\ egress => \A n \in Names : Running(n) => Attached(n)

\* The steps about the relay, and the one that needs it.
RelaySteps == {"rmRelay", "runRelay", "startContainer"}

\* A step that leaves the relay alone and starts no sandbox that is not attached.
LEMMA RelayUntouched ==
  ASSUME RelayInv, egress' = egress, AloneStarting',
         containers'[Relay] = containers[Relay],
         \A n \in Names : Running(n)' => Running(n) \/ (egress => Attached(n)),
         \A d \in Clients : pc'[d] \in RelaySteps /\ (pc'[d] = "startContainer" => egress) =>
                              pc'[d] = pc[d] /\ name'[d] = name[d]
  PROVE  RelayInv'
  BY DEF RelayInv, Exists, Running, Attached, RelaySteps

\* A step of a request leaves the Starts as far apart as they were.
LEMMA StepKeepsApart ==
  ASSUME RelayInv, \A d \in Clients : (InFlight(d)' => InFlight(d)) /\ op'[d] = op[d]
  PROVE  AloneStarting'
  BY DEF RelayInv, AloneStarting

\* What a step that goes on, or returns, does to the requests.
LEMMA MovesOn ==
  ASSUME TypeOK, RelayInv, NEW c \in Clients, InFlight(c), NEW step \in Steps,
         Goto(c, step) \/ Return(c, "ok") \/ Return(c, "failed")
  PROVE  /\ AloneStarting'
         /\ name' = name /\ \A d \in Clients : d # c => pc'[d] = pc[d]
         /\ pc'[c] \in {step, "idle"}
  <1>1. /\ \A d \in Clients : (InFlight(d)' => InFlight(d)) /\ op'[d] = op[d]
        /\ name' = name /\ \A d \in Clients : d # c => pc'[d] = pc[d]
        /\ pc'[c] \in {step, "idle"}
    BY DEF Goto, Return, InFlight, TypeOK, RequestTypeOK
  <1>2. QED BY <1>1, StepKeepsApart

\* A Start has no rival while it brings the relay up.
LEMMA OnlyStart ==
  ASSUME SandboxInv, RelayInv, NEW c \in Clients, NEW d \in Clients, d # c, pc[c] \in StartSteps
  PROVE  pc[d] \notin StartSteps
  BY DEF SandboxInv, RelayInv, AloneStarting, Sound, KindOK, StartSteps, InFlight

\* Bringing the relay up never drops one that serves another sandbox.
LEMMA EnsureRelayKeepsRelay ==
  ASSUME TypeOK, SandboxInv, RelayInv, Relay \notin Names, NEW c \in Clients, EnsureRelay(c),
         egress' = egress
  PROVE  RelayInv'
  <1>a. /\ pc[c] \in StartSteps /\ InFlight(c) /\ Relay \in ContainerNames
        /\ \A d \in Clients : d # c => pc[d] \notin StartSteps
    BY OnlyStart DEF EnsureRelay, RelayRunning, RmRelay, RunRelay, RunRelayFails, ConnectRelay,
       ConnectRelayFails, StartSteps, InFlight, ContainerNames
  <1>b. Running(Relay) <=> Exists(Relay)
    BY DEF RelayInv, Running
  <1>c. ASSUME NEW result \in {"ok", "failed"}, Return(c, result), UNCHANGED runtimeVars
        PROVE  RelayInv'
    <2>1. /\ AloneStarting' /\ name' = name /\ \A d \in Clients : d # c => pc'[d] = pc[d]
          /\ pc'[c] = "idle"
      BY <1>a, <1>c, MovesOn DEF Steps
    <2>2. QED BY <1>c, <2>1, RelayUntouched DEF runtimeVars, Running, Exists, RelaySteps
  <1>1. CASE RelayRunning(c)
    <2>1. PICK step \in {"connectRelay", "rmRelay"} : Goto(c, step)
      BY <1>1 DEF RelayRunning
    <2>2. step = "rmRelay" => ~Exists(Relay)
      BY <1>1, <1>b, <2>1 DEF RelayRunning, Goto, TypeOK, RequestTypeOK
    <2>3. /\ AloneStarting' /\ name' = name /\ \A d \in Clients : d # c => pc'[d] = pc[d]
          /\ pc'[c] = step
      BY <1>a, <2>1, MovesOn, GotoEffect DEF Steps
    <2>4. containers' = containers
      BY <1>1 DEF RelayRunning, runtimeVars
    <2>5. QED BY <1>1, <2>2, <2>3, <2>4 DEF RelayRunning, RelayInv, Exists, Running, Attached
  <1>2. CASE RmRelay(c)
    <2>1. /\ pc[c] = "rmRelay" /\ DropContainer(Relay) /\ Goto(c, "runRelay")
      BY <1>2 DEF RmRelay
    <2>2. ~Exists(Relay) /\ ~Exists(Relay)' /\ Others(Relay)
      BY <1>a, <2>1, DropEffect DEF RelayInv
    <2>3. /\ AloneStarting' /\ name' = name /\ \A d \in Clients : d # c => pc'[d] = pc[d]
          /\ pc'[c] = "runRelay"
      BY <1>a, <2>1, MovesOn, GotoEffect DEF Steps
    <2>4. \A n \in Names : Running(n)' <=> Running(n)
      BY <2>2 DEF Others, Running, Exists, ContainerNames
    <2>5. QED BY <1>a, <2>2, <2>3, <2>4 DEF RelayInv, Attached, StartSteps
  <1>3. CASE RunRelay(c)
    <2>1. PICK i \in Ids : AddContainer(Relay, i, "running", proxyAddr)
      BY <1>3 DEF RunRelay
    <2>2. /\ ~Exists(Relay) /\ Goto(c, "connectRelay")
      BY <1>3 DEF RunRelay
    <2>3. Exists(Relay)' /\ containers'[Relay].status = "running" /\ Others(Relay)
      BY <1>a, <2>1, AddEffect DEF TypeOK
    <2>4. /\ AloneStarting' /\ name' = name /\ \A d \in Clients : d # c => pc'[d] = pc[d]
          /\ pc'[c] = "connectRelay"
      BY <1>a, <2>2, MovesOn, GotoEffect DEF Steps
    <2>5. \A n \in Names : Running(n)' <=> Running(n)
      BY <2>3 DEF Others, Running, Exists, ContainerNames
    <2>6. QED BY <1>a, <2>2, <2>3, <2>4, <2>5 DEF RelayInv, Attached, StartSteps, Running
  <1>4. CASE RunRelayFails(c)
    BY <1>4, <1>c DEF RunRelayFails
  <1>5. CASE ConnectRelay(c)
    <2>0. PICK k \in Names : name[c] = k
      BY DEF TypeOK, RequestTypeOK
    <2>1. Exists(Relay) /\ Attach(Relay, k) /\ Goto(c, "startContainer")
      BY <1>5, <2>0 DEF ConnectRelay, NetworkToJoin, Target
    <2>2. /\ Exists(Relay)' /\ containers'[Relay].status = containers[Relay].status
          /\ containers'[Relay].nets = containers[Relay].nets \cup {k} /\ Others(Relay)
      BY <1>a, <2>1, AttachEffect
    <2>3. /\ AloneStarting' /\ name' = name /\ \A d \in Clients : d # c => pc'[d] = pc[d]
          /\ pc'[c] = "startContainer"
      BY <1>a, <2>1, MovesOn, GotoEffect DEF Steps
    <2>4. \A n \in Names : Running(n)' <=> Running(n)
      BY <2>2 DEF Others, Running, Exists, ContainerNames
    <2>5. Attached(k)' /\ \A n \in Names : Attached(n) => Attached(n)'
      BY <2>2 DEF Attached
    <2>6. Running(Relay)'
      BY <1>b, <2>1, <2>2 DEF Running
    <2>7. QED BY <1>a, <2>0, <2>3, <2>4, <2>5, <2>6 DEF RelayInv, StartSteps
  <1>6. CASE ConnectRelayFails(c)
    BY <1>6, <1>c DEF ConnectRelayFails
  <1>7. QED BY <1>1, <1>2, <1>3, <1>4, <1>5, <1>6 DEF EnsureRelay

\* No other step of a request takes the relay off a running sandbox's network.
LEMMA HandlerKeepsRelay ==
  ASSUME TypeOK, SandboxInv, RelayInv, Relay \notin Names, NEW c \in Clients, HandlerStep(c)
  PROVE  RelayInv'
  <1>0. PICK n \in Names : name[c] = n
    BY DEF TypeOK, RequestTypeOK
  <1>a. n \in ContainerNames /\ Relay \in ContainerNames /\ n # Relay /\ egress' = egress
    BY DEF ContainerNames, HandlerStep
  <1>b. ASSUME InFlight(c), NEW step \in Steps \ RelaySteps,
               Goto(c, step) \/ Return(c, "ok") \/ Return(c, "failed"),
               containers'[Relay] = containers[Relay],
               \A m \in Names : Running(m)' => Running(m) \/ (egress => Attached(m))
        PROVE  RelayInv'
    <2>1. /\ AloneStarting' /\ name' = name /\ \A d \in Clients : d # c => pc'[d] = pc[d]
          /\ pc'[c] \in {step, "idle"}
      BY <1>b, MovesOn
    <2>2. QED BY <1>a, <1>b, <2>1, RelayUntouched DEF RelaySteps
  <1>c. ASSUME InFlight(c), NEW step \in Steps \ RelaySteps,
               Goto(c, step) \/ Return(c, "ok") \/ Return(c, "failed"), containers' = containers
        PROVE  RelayInv'
    BY <1>b, <1>c DEF Running, Exists
  <1>d. ASSUME InFlight(c), NEW step \in Steps \ RelaySteps, Goto(c, step), Others(n),
               Running(n)' => (egress => Attached(n))
        PROVE  RelayInv'
    BY <1>a, <1>b, <1>d DEF Others, Running, Exists, ContainerNames
  <1>1. CASE CreateStep(c)
    <2>1. CASE CreateContainer(c)
      <3>1. PICK i \in Ids : AddContainer(n, i, "created", NoAddr)
        BY <1>0, <2>1 DEF CreateContainer, Target
      <3>2. ~Running(n)' /\ Others(n)
        BY <1>a, <3>1, AddEffect DEF Running
      <3>3. InFlight(c) /\ Goto(c, "putNew")
        BY <2>1 DEF CreateContainer, InFlight
      <3>4. QED BY <1>d, <3>2, <3>3 DEF Steps, RelaySteps
    <2>2. CASE EnsureNetwork(c) \/ CreateContainerFails(c) \/ PutNew(c)
      BY <1>c, <2>2 DEF EnsureNetwork, CreateContainerFails, PutNew, runtimeVars, InFlight,
         Steps, RelaySteps
    <2>3. QED BY <1>1, <2>1, <2>2 DEF CreateStep
  <1>2. CASE EnsureRelay(c)
    BY <1>2, <1>a, EnsureRelayKeepsRelay
  <1>3. CASE StartContainer(c)
    <2>1. /\ InFlight(c) /\ pc[c] = "startContainer" /\ Goto(c, "observe")
          /\ Exists(n) /\ SetStatus(n, "running")
      BY <1>0, <1>3 DEF StartContainer, CanStart, Mine, Resolves, Target, InFlight
    <2>2. Others(n)
      BY <1>a, <2>1, StatusEffect
    <2>3. egress => Attached(n)
      BY <1>0, <2>1 DEF RelayInv
    <2>4. QED BY <1>d, <2>1, <2>2, <2>3 DEF Steps, RelaySteps
  <1>4. CASE StartContainerFails(c) \/ Put(c)
    BY <1>c, <1>4 DEF StartContainerFails, Put, runtimeVars, InFlight, Steps, RelaySteps
  <1>5. CASE StopContainer(c)
    <2>1. InFlight(c) /\ Goto(c, "observe")
      BY <1>5 DEF StopContainer, InFlight
    <2>2. CASE Mine(c) /\ Running(n)
      <3>1. Exists(n) /\ SetStatus(n, "stopped")
        BY <1>0, <1>5, <2>2 DEF StopContainer, Target, Running
      <3>2. Others(n) /\ ~Running(n)'
        BY <1>a, <3>1, StatusEffect DEF Running
      <3>3. QED BY <1>d, <2>1, <3>2 DEF Steps, RelaySteps
    <2>3. CASE ~(Mine(c) /\ Running(n))
      BY <1>0, <1>c, <1>5, <2>1, <2>3 DEF StopContainer, Target, Steps, RelaySteps
    <2>4. QED BY <2>2, <2>3
  <1>6. CASE Observe(c)
    <2>1. /\ pc' = [pc EXCEPT ![c] = "put"] /\ InFlight(c) /\ containers' = containers
          /\ UNCHANGED <<op, name>>
      BY <1>6 DEF Observe, runtimeVars, InFlight
    <2>2. /\ \A d \in Clients : d # c => pc'[d] = pc[d]
          /\ pc'[c] = "put"
      BY <2>1 DEF TypeOK, RequestTypeOK
    <2>3. AloneStarting'
      BY <2>1, <2>2, StepKeepsApart DEF InFlight
    <2>4. QED BY <1>a, <2>1, <2>2, <2>3, RelayUntouched DEF RelaySteps, Running, Exists
  <1>7. CASE RmContainer(c)
    <2>1. InFlight(c) /\ Goto(c, "rmVolume")
      BY <1>7 DEF RmContainer, InFlight
    <2>2. CASE Mine(c)
      <3>1. Others(n) /\ ~Exists(n)'
        BY <1>0, <1>a, <1>7, <2>2, DropEffect DEF RmContainer, Target
      <3>2. QED BY <1>d, <2>1, <3>1 DEF Steps, RelaySteps, Running
    <2>3. CASE ~Mine(c)
      BY <1>c, <1>7, <2>1, <2>3 DEF RmContainer, Steps, RelaySteps
    <2>4. QED BY <2>2, <2>3
  <1>8. CASE DisconnectRelay(c)
    <2>1. /\ InFlight(c) /\ Goto(c, "rmNetwork") /\ Detach(Relay, n) /\ pc[c] = "disconnectRelay"
      BY <1>0, <1>8 DEF DisconnectRelay, InFlight, Target
    <2>2. /\ AloneStarting' /\ name' = name /\ \A d \in Clients : d # c => pc'[d] = pc[d]
          /\ pc'[c] = "rmNetwork"
      BY <2>1, MovesOn, GotoEffect DEF Steps
    <2>3. /\ Exists(Relay)' <=> Exists(Relay)
          /\ Exists(Relay) => /\ containers'[Relay].status = containers[Relay].status
                              /\ containers'[Relay].nets = containers[Relay].nets \ {n}
          /\ Others(Relay)
      BY <1>a, <2>1, DetachEffect
    <2>4. \A m \in Names : Running(m)' <=> Running(m)
      BY <1>a, <2>3 DEF Others, Running, Exists, ContainerNames
    <2>5. \A m \in Names : m # n /\ Attached(m) => Attached(m)'
      BY <2>3 DEF Attached
    <2>6. ~Running(n)
      BY <1>0, <2>1 DEF SandboxInv, Sound, RemovedOK, Emptied, Running
    <2>7. Exists(Relay)' => Running(Relay)'
      BY <2>3 DEF RelayInv, Running
    <2>8. ASSUME NEW d \in Clients, pc'[d] = "startContainer", egress
          PROVE  Attached(name[d])'
      <3>1. d # c /\ pc[d] = "startContainer" /\ InFlight(d) /\ Attached(name[d])
        BY <2>2, <2>8 DEF RelayInv, InFlight
      <3>2. name[d] # n /\ name[d] \in Names
        BY <1>0, <2>1, <3>1 DEF SandboxInv, Alone, TypeOK, RequestTypeOK
      <3>3. PICK m \in Names : m = name[d] /\ m = name'[d]
        BY <2>2, <3>2
      <3>4. QED BY <2>5, <3>1, <3>2, <3>3 DEF Attached
    <2>9. ASSUME NEW d \in Clients, pc'[d] \in {"rmRelay", "runRelay"} PROVE ~Exists(Relay)'
      BY <2>2, <2>3, <2>9 DEF RelayInv
    <2>10. QED BY <1>a, <2>2, <2>4, <2>5, <2>6, <2>7, <2>8, <2>9 DEF RelayInv
  <1>9. CASE RemoveStep(c) /\ ~RmContainer(c) /\ ~DisconnectRelay(c)
    BY <1>c, <1>9 DEF RemoveStep, CheckRunning, RmContainerFails, RmVolume, AfterVolume,
       RmVolumeFails, RmNetwork, RmNetworkFails, DeleteRecord, runtimeVars, InFlight, Steps,
       RelaySteps
  <1>10. QED BY <1>1, <1>2, <1>3, <1>4, <1>5, <1>6, <1>7, <1>8, <1>9 DEF HandlerStep, ActStep

\* A Start that begins is the only one, and begins before any of the relay's steps.
LEMMA RequestKeepsRelay ==
  ASSUME TypeOK, RelayInv, "start" \in Promises, NEW c \in Clients, NEW n \in Names,
         Request(c, n)
  PROVE  RelayInv'
  <1>1. pc[c] = "idle" /\ UNCHANGED <<containers, egress>>
    BY DEF Request, CreateBegin, StartBegin, StopBegin, ActBegin, RemoveBegin, runtimeVars
  <1> DEFINE Begun == /\ \A d \in Clients : d # c => SameRequest(d)
                      /\ pc'[c] \in RelaySteps => ~egress /\ pc'[c] = "startContainer"
                      /\ InFlight(c)' /\ op'[c] = "start" => OneStart
  <1>2. Begun
    <2>1. ASSUME NEW kind, Refuse(c, kind, n)
          PROVE  /\ \A d \in Clients : d # c => SameRequest(d)
                 /\ pc'[c] = "idle"
      BY <1>1, <2>1, RefuseEffect
    <2>2. ASSUME NEW kind, NEW f \in BOOLEAN, NEW step, NEW copy, Begin(c, kind, n, f, step, copy)
          PROVE  /\ \A d \in Clients : d # c => SameRequest(d)
                 /\ pc'[c] = step /\ op'[c] = kind
      BY <2>2 DEF Begin, TypeOK, RequestTypeOK, SameRequest
    <2>3. CASE CreateBegin(c, n)
      <3>1. CASE records[n] # NoRecord
        BY <2>1, <2>3, <3>1 DEF CreateBegin, InFlight, RelaySteps
      <3>2. CASE records[n] = NoRecord
        <4>1. PICK step \in {"ensureNetwork", "createContainer"} :
                 Begin(c, "create", n, FALSE, step, NewRecord)
          BY <2>3, <3>2 DEF CreateBegin
        <4>2. /\ \A d \in Clients : d # c => SameRequest(d)
              /\ pc'[c] = step /\ op'[c] = "create"
          BY <4>1 DEF Begin, TypeOK, RequestTypeOK, SameRequest
        <4>3. QED BY <4>1, <4>2 DEF RelaySteps
      <3>3. QED BY <3>1, <3>2
    <2>4. CASE OneStart /\ StartBegin(c, n)
      <3>1. CASE records[n] = NoRecord
        BY <2>1, <2>4, <3>1 DEF StartBegin, ActBegin, InFlight, RelaySteps
      <3>2. CASE records[n] # NoRecord
        <4>1. PICK step \in {"relayRunning", "startContainer"} :
                /\ Begin(c, "start", n, FALSE, step, records[n])
                /\ step = "startContainer" => ~egress
          BY <2>4, <3>2 DEF StartBegin, ActBegin
        <4>2. QED BY <2>2, <2>4, <4>1 DEF RelaySteps
      <3>3. QED BY <3>1, <3>2
    <2>5. CASE StopBegin(c, n)
      <3>1. CASE records[n] = NoRecord
        BY <2>1, <2>5, <3>1 DEF StopBegin, ActBegin, InFlight, RelaySteps
      <3>2. CASE records[n] # NoRecord
        <4>1. Begin(c, "stop", n, FALSE, "stopContainer", records[n])
          BY <2>5, <3>2 DEF StopBegin, ActBegin
        <4>2. /\ \A d \in Clients : d # c => SameRequest(d)
              /\ pc'[c] = "stopContainer" /\ op'[c] = "stop"
          BY <4>1 DEF Begin, TypeOK, RequestTypeOK, SameRequest
        <4>3. QED BY <4>1, <4>2 DEF RelaySteps
      <3>3. QED BY <3>1, <3>2
    <2>6. ASSUME NEW f \in BOOLEAN, RemoveBegin(c, n, f) PROVE Begun
      <3>1. CASE records[n] = NoRecord
        BY <2>1, <2>6, <3>1 DEF RemoveBegin, InFlight, RelaySteps
      <3>2. CASE records[n] # NoRecord
        <4>1. PICK step \in {"rmContainer", "checkRunning"} :
                Begin(c, "remove", n, f, step, records[n])
          BY <2>6, <3>2 DEF RemoveBegin
        <4>2. QED BY <2>2, <4>1 DEF RelaySteps
      <3>3. QED BY <3>1, <3>2
    <2>7. QED BY <2>3, <2>4, <2>5, <2>6 DEF Request
  <1>3. AloneStarting'
    <2>1. ASSUME NEW d \in Clients, d # c, InFlight(d)', op'[d] = "start"
          PROVE  InFlight(d) /\ op[d] = "start"
      BY <1>2, <2>1 DEF SameRequest, InFlight
    <2>2. QED BY <1>2, <2>1 DEF AloneStarting, RelayInv, OneStart
  <1>4. QED BY <1>1, <1>2, <1>3, RelayUntouched DEF SameRequest, Running, Exists, RelaySteps

\* Whatever fails, a Start moves on or ends; only a removal by hand takes the
\* relay away.
LEMMA EnvironmentKeepsRelay ==
  ASSUME TypeOK, RelayInv, Relay \notin Names, "relay" \notin Disruptions, Environment
  PROVE  RelayInv'
  <1>a. egress' = egress
    BY DEF Environment, CallFails, InspectFails, Restart, RelayRemovedByHand, SandboxExits, Disrupt
  <1>b. ASSUME NEW c \in Clients, InFlight(c), NEW step \in Steps \ RelaySteps,
               Goto(c, step) \/ Return(c, "ok") \/ Return(c, "failed"), containers' = containers
        PROVE  RelayInv'
    <2>1. /\ AloneStarting' /\ name' = name /\ \A d \in Clients : d # c => pc'[d] = pc[d]
          /\ pc'[c] \in {step, "idle"}
      BY <1>b, MovesOn
    <2>2. QED BY <1>a, <1>b, <2>1, RelayUntouched DEF RelaySteps, Running, Exists
  <1>1. ASSUME NEW c \in Clients, CallFails(c) PROVE RelayInv'
    BY <1>b, <1>1 DEF CallFails, InFlight, Steps, RelaySteps, runtimeVars
  <1>2. ASSUME NEW c \in Clients, InspectFails(c) PROVE RelayInv'
    BY <1>b, <1>2 DEF InspectFails, InFlight, Steps, RelaySteps, runtimeVars
  <1>3. CASE Restart
    <2>1. /\ \A d \in Clients : pc'[d] = "idle"
          /\ containers' = containers /\ op' = op
      BY <1>3 DEF Restart, runtimeVars
    <2>2. AloneStarting'
      BY <2>1 DEF AloneStarting, InFlight
    <2>3. QED BY <1>a, <2>1, <2>2, RelayUntouched DEF RelaySteps, Running, Exists
  <1>4. ~RelayRemovedByHand
    BY DEF RelayRemovedByHand, Disrupt
  <1>5. ASSUME NEW n \in Names, SandboxExits(n) PROVE RelayInv'
    <2>1. /\ Exists(n) /\ SetStatus(n, "stopped") /\ UNCHANGED requestVars
      BY <1>5 DEF SandboxExits, Running
    <2>2. containers'[n].status = "stopped" /\ Others(n)
      BY <2>1, StatusEffect DEF ContainerNames
    <2>3. /\ containers'[Relay] = containers[Relay]
          /\ \A m \in Names : Running(m)' => Running(m)
      BY <2>2 DEF Others, Running, Exists, ContainerNames
    <2>4. AloneStarting'
      BY <2>1 DEF requestVars, RelayInv, AloneStarting, InFlight
    <2>5. QED BY <1>a, <2>1, <2>3, <2>4, RelayUntouched DEF requestVars
  <1>6. QED BY <1>1, <1>2, <1>3, <1>4, <1>5 DEF Environment

\* With egress control every running sandbox has its way out: as long as the
\* requests for a sandbox and the Starts do not overlap and the relay is not
\* removed by hand, the relay is up and attached to each one's network, even
\* while another sandbox is being started.
THEOREM EveryRunningSandboxHasItsRelay ==
  ASSUME Relay \notin Names, "sandbox" \in Promises, "start" \in Promises,
         "relay" \notin Disruptions
  PROVE  Spec => []RelayOnEveryRunningNetwork
  <1>1. ASSUME Init PROVE RelayInv
    BY <1>1 DEF Init, RuntimeInit, RelayInv, AloneStarting, InFlight, Exists, Running, ContainerNames
  <1>2. ASSUME TypeOK, SandboxInv, RelayInv, [Next]_vars PROVE RelayInv'
    <2>1. ASSUME NEW c \in Clients, HandlerStep(c) PROVE RelayInv'
      BY <1>2, <2>1, HandlerKeepsRelay
    <2>2. ASSUME NEW c \in Clients, NEW n \in Names, Request(c, n) PROVE RelayInv'
      BY <1>2, <2>2, RequestKeepsRelay
    <2>3. CASE Environment
      BY <1>2, <2>3, EnvironmentKeepsRelay
    <2>4. CASE UNCHANGED vars
      BY <1>2, <2>4 DEF vars, runtimeVars, requestVars, RelayInv, AloneStarting, InFlight,
         Exists, Running, Attached
    <2>5. QED BY <1>2, <2>1, <2>2, <2>3, <2>4 DEF Next
  <1>3. RelayInv => RelayOnEveryRunningNetwork
    BY DEF RelayInv, RelayOnEveryRunningNetwork, Attached
  <1>4. QED BY <1>1, <1>2, <1>3, TypeCorrect, SandboxInvariant, PTL DEF Spec
=============================================================================
