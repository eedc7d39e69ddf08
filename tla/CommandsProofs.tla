--------------------------- MODULE CommandsProofs ---------------------------
(***************************************************************************)
(* Theorems about Wire: what a command sends to the daemon, and what it is *)
(* answered, is what the other side reads, and an error arrives as the     *)
(* sentinel it wraps.  And about the commands, for any number of them and  *)
(* any command lines: what they find, make, list and run in.               *)
(***************************************************************************)
EXTENDS Commands, SequenceTheorems, WellFoundedInduction, TLAPS

\* A time that is told in UTC; a port or an exit status that fits.
Times == [at : Int, zone : {UTC}]
Numbers == {n \in Int : Fits(n)}
Ports == [host : Numbers, sandbox : Numbers, proto : {"", "tcp", "udp"}]
Workspaces == [host : Dirs, readOnly : BOOLEAN]

IsSpec(s) ==
  /\ s = [name |-> s.name, agent |-> s.agent, image |-> s.image, workspaces |-> s.workspaces,
          cpus |-> s.cpus, memory |-> s.memory, env |-> s.env, ports |-> s.ports,
          createdAt |-> s.createdAt]
  /\ s.workspaces \in Seq(Workspaces) /\ s.ports \in Seq(Ports) /\ s.createdAt \in Times
IsState(st) ==
  /\ st = [status |-> st.status, containerId |-> st.containerId,
           startedAt |-> st.startedAt, exitCode |-> st.exitCode]
  /\ st.startedAt \in Times /\ st.exitCode \in Numbers
IsSandbox(sb) == sb = [spec |-> sb.spec, state |-> sb.state] /\ IsSpec(sb.spec) /\ IsState(sb.state)

\* Policies and decisions of the log, whatever texts there are.
Rules(Texts) == [pattern : Texts, allow : BOOLEAN]
Targets(Texts) == [host : Texts, port : Numbers]
Decisions(Texts) ==
  [seq : Nat, at : Times, target : Targets(Texts), allowed : BOOLEAN, reason : Texts, sandbox : Texts]

\* A port or a size in range comes out of its int32 as it went in.
LEMMA NumberSurvives == \A n \in Numbers : Int32(n) = n
  BY HalfAssumption DEF Numbers, Fits, Int32

\* A time comes back as it was, the one that was never set included.
LEMMA TimeSurvives == \A t \in Times : ApiTime(ProtoTime(t)) = t
  BY DEF Absent, Times, ProtoTime, ApiTime, ZeroTime, UTC

\* Published ports come back in their order.
LEMMA PortsSurvive ==
  ASSUME NEW ports \in Seq(Ports)
  PROVE  [i \in 1..Len(ports) |-> ApiPort([j \in 1..Len(ports) |-> ProtoPort(ports[j])][i])] = ports
<1>1. ASSUME NEW p \in Ports PROVE ApiPort(ProtoPort(p)) = p
  BY NumberSurvives DEF Ports, ProtoPort, ApiPort
<1>2. \A i \in 1..Len(ports) : ports[i] \in Ports
  OBVIOUS
<1>3. \A i \in 1..Len(ports) :
        ApiPort([j \in 1..Len(ports) |-> ProtoPort(ports[j])][i]) = ports[i]
  BY <1>1, <1>2
<1>4. ports = [i \in 1..Len(ports) |-> ports[i]]
  OBVIOUS
<1> QED
  BY <1>3, <1>4

\* Workspaces come back with their paths and whether they may be written.
LEMMA WorkspacesSurvive ==
  ASSUME NEW ws \in Seq(Workspaces)
  PROVE  [i \in 1..Len(ws) |-> [host |-> ws[i].host, readOnly |-> ws[i].readOnly]] = ws
<1>1. \A i \in 1..Len(ws) : [host |-> ws[i].host, readOnly |-> ws[i].readOnly] = ws[i]
  <2>1. \A i \in 1..Len(ws) : ws[i] \in Workspaces
    OBVIOUS
  <2>2. \A w \in Workspaces : [host |-> w.host, readOnly |-> w.readOnly] = w
    BY DEF Workspaces
  <2> QED BY <2>1, <2>2
<1>2. ws = [i \in 1..Len(ws) |-> ws[i]]
  OBVIOUS
<1> QED
  BY <1>1, <1>2

\* What a client asks for is what the daemon builds: a specification that has been
\* through protoSpec and apiSpec (convert.go) is the one that was sent.
THEOREM SpecSurvives == \A s : IsSpec(s) => ApiSpec(ProtoSpec(s)) = s
<1> SUFFICES ASSUME NEW s, IsSpec(s) PROVE ApiSpec(ProtoSpec(s)) = s
  OBVIOUS
<1> DEFINE p == ProtoSpec(s)
<1>1. /\ p # Absent /\ p.resources # Absent
      /\ p.resources.cpus = s.cpus /\ p.resources.memory = s.memory
      /\ p.name = s.name /\ p.agent = s.agent /\ p.image = s.image /\ p.env = s.env
  BY DEF ProtoSpec, Absent
<1>2. ApiTime(p.createdAt) = s.createdAt
  BY TimeSurvives DEF ProtoSpec, IsSpec
<1>3. [i \in 1..Len(p.workspaces) |->
          [host |-> p.workspaces[i].host, readOnly |-> p.workspaces[i].readOnly]] = s.workspaces
  <2>1. s.workspaces \in Seq(Workspaces)
    BY DEF IsSpec
  <2>2. p.workspaces = s.workspaces
    BY <2>1, WorkspacesSurvive DEF ProtoSpec
  <2> QED
    BY <2>1, <2>2, WorkspacesSurvive
<1>4. [i \in 1..Len(p.ports) |-> ApiPort(p.ports[i])] = s.ports
  <2>1. s.ports \in Seq(Ports)
    BY DEF IsSpec
  <2>2. p.ports = [i \in 1..Len(s.ports) |-> ProtoPort(s.ports[i])]
    BY DEF ProtoSpec
  <2>3. Len(p.ports) = Len(s.ports)
    BY <2>1, <2>2
  <2> QED
    BY <2>1, <2>2, <2>3, PortsSurvive
<1>5. s = [name |-> s.name, agent |-> s.agent, image |-> s.image, workspaces |-> s.workspaces,
           cpus |-> s.cpus, memory |-> s.memory, env |-> s.env, ports |-> s.ports,
           createdAt |-> s.createdAt]
  BY DEF IsSpec
<1> HIDE DEF p
<1>6. ApiSpec(p) = [name |-> s.name, agent |-> s.agent, image |-> s.image, workspaces |-> s.workspaces,
                    cpus |-> s.cpus, memory |-> s.memory, env |-> s.env, ports |-> s.ports,
                    createdAt |-> s.createdAt]
  BY <1>1, <1>2, <1>3, <1>4 DEF ApiSpec
<1> QED
  BY <1>5, <1>6 DEF p

\* What create is asked is what the service creates; what inspect, list and create
\* answer is what the command shows and goes on with: the sandbox's name, its
\* directory, its agent and whether it runs (convert.go's pairs of conversions).
THEOREM SandboxSurvives == \A sb : IsSandbox(sb) => ApiSandbox(ProtoSandbox(sb)) = sb
<1> SUFFICES ASSUME NEW sb, IsSandbox(sb)
             PROVE  ApiSandbox(ProtoSandbox(sb)) = sb
  OBVIOUS
<1>1. ApiSpec(ProtoSpec(sb.spec)) = sb.spec
  BY SpecSurvives DEF IsSandbox
<1>2. ApiState(ProtoState(sb.state)) = sb.state
  <2> DEFINE st == sb.state
  <2>1. IsState(st)
    BY DEF IsSandbox
  <2> HIDE DEF st
  <2>2. ApiTime(ProtoTime(st.startedAt)) = st.startedAt /\ Int32(st.exitCode) = st.exitCode
    BY <2>1, TimeSurvives, NumberSurvives DEF IsState
  <2>3. st = [status |-> st.status, containerId |-> st.containerId,
              startedAt |-> st.startedAt, exitCode |-> st.exitCode]
    BY <2>1 DEF IsState
  <2>4. ApiState(ProtoState(st)) = [status |-> st.status, containerId |-> st.containerId,
                                    startedAt |-> st.startedAt, exitCode |-> st.exitCode]
    BY <2>2 DEF ProtoState, ApiState, Absent
  <2> QED
    BY <2>3, <2>4 DEF st
<1>3. ProtoSandbox(sb) # Absent
  BY DEF ProtoSandbox, Absent
<1>4. sb = [spec |-> sb.spec, state |-> sb.state]
  BY DEF IsSandbox
<1> HIDE DEF IsSandbox
<1>5. ApiSandbox(ProtoSandbox(sb)) = [spec |-> ApiSpec(ProtoSpec(sb.spec)), state |-> ApiState(ProtoState(sb.state))]
  BY <1>3 DEF ProtoSandbox, ApiSandbox
<1> QED
  BY <1>1, <1>2, <1>4, <1>5

\* What a command asks for is what the service is asked for: the sandbox, the two
\* ends of a copy, and what to exec, where and as whom.
THEOREM RequestsSurvive ==
  /\ \A r : r = [name |-> r.name, path |-> r.path] => ApiRef(ProtoRef(r)) = r
  /\ \A q : q = [sandbox |-> q.sandbox, path |-> q.path] => ApiPath(ProtoPath(q)) = q
  /\ \A x : x = [cmd |-> x.cmd, env |-> x.env, workdir |-> x.workdir, user |-> x.user,
                 interactive |-> x.interactive, tty |-> x.tty]
           => ApiExecRequest(ProtoExecRequest(x)) = x
<1>1. ASSUME NEW r PROVE ApiRef(ProtoRef(r)) = [name |-> r.name, path |-> r.path]
  BY DEF ProtoRef, ApiRef, Absent
<1>2. ASSUME NEW q PROVE ApiPath(ProtoPath(q)) = [sandbox |-> q.sandbox, path |-> q.path]
  BY DEF ProtoPath, ApiPath, Absent
<1>3. ASSUME NEW x
      PROVE  ApiExecRequest(ProtoExecRequest(x)) =
               [cmd |-> x.cmd, env |-> x.env, workdir |-> x.workdir, user |-> x.user,
                interactive |-> x.interactive, tty |-> x.tty]
  BY DEF ProtoExecRequest, ApiExecRequest, Absent
<1> QED
  BY <1>1, <1>2, <1>3

\* The policy the dashboard edits is the one on disk, rule by rule and in order,
\* and what it shows of a decision is what the log has of it.
THEOREM PolicyAndLogSurvive ==
  ASSUME NEW Texts
  PROVE  /\ \A p \in [preset : Texts, rules : Seq(Rules(Texts))] : ApiPolicy(ProtoPolicy(p)) = p
         /\ \A e \in Decisions(Texts) : ApiDecision(ProtoDecision(e)) = e
<1>1. ASSUME NEW rules \in Seq(Rules(Texts))
      PROVE  [i \in 1..Len(rules) |-> [pattern |-> rules[i].pattern, allow |-> rules[i].allow]] = rules
  <2>1. \A i \in 1..Len(rules) : rules[i] \in Rules(Texts)
    OBVIOUS
  <2>2. \A r \in Rules(Texts) : [pattern |-> r.pattern, allow |-> r.allow] = r
    BY DEF Rules
  <2>3. rules = [i \in 1..Len(rules) |-> rules[i]]
    OBVIOUS
  <2> QED
    BY <2>1, <2>2, <2>3
<1>2. ASSUME NEW p \in [preset : Texts, rules : Seq(Rules(Texts))] PROVE ApiPolicy(ProtoPolicy(p)) = p
  <2>1. ProtoPolicy(p) = [preset |-> p.preset, rules |-> p.rules]
    BY <1>1 DEF ProtoPolicy
  <2>2. ApiPolicy([preset |-> p.preset, rules |-> p.rules]) = [preset |-> p.preset, rules |-> p.rules]
    BY <1>1 DEF ApiPolicy, Absent
  <2> QED
    BY <2>1, <2>2
<1>3. ASSUME NEW e \in Decisions(Texts) PROVE ApiDecision(ProtoDecision(e)) = e
  <2>1. /\ ApiTime(ProtoTime(e.at)) = e.at /\ Int32(e.target.port) = e.target.port
        /\ e.target = [host |-> e.target.host, port |-> e.target.port]
    BY TimeSurvives, NumberSurvives DEF Decisions, Targets
  <2>2. e = [seq |-> e.seq, at |-> e.at, target |-> e.target, allowed |-> e.allowed,
             reason |-> e.reason, sandbox |-> e.sandbox]
    BY DEF Decisions
  <2>3. ApiDecision(ProtoDecision(e)) =
          [seq |-> e.seq, at |-> e.at, target |-> e.target, allowed |-> e.allowed,
           reason |-> e.reason, sandbox |-> e.sandbox]
    BY <2>1 DEF ProtoDecision, ApiDecision, Absent
  <2> QED
    BY <2>2, <2>3
<1> QED
  BY <1>2, <1>3

\* The sentinels and their codes, one by one.
LEMMA SentinelTable ==
  /\ DOMAIN sentinels = 1..7
  /\ Sentinel = {sentinels[i].err : i \in 1..7}
  /\ \A i \in 1..7 : sentinels[i].err \in Sentinel /\ sentinels[i].code # "Unknown"
  /\ \A i, j \in 1..7 : sentinels[i].code = sentinels[j].code => i = j
  BY DEF sentinels, Sentinel

\* An error that is some sentinel has a first one in the table.
LEMMA FirstExists ==
  ASSUME NEW S \in SUBSET (1..7), S # {}
  PROVE  \E i \in 1..7 : First(i, S)
<1>1. 1 \in S \/ 2 \in S \/ 3 \in S \/ 4 \in S \/ 5 \in S \/ 6 \in S \/ 7 \in S
  <2>1. PICK x \in S : TRUE
    OBVIOUS
  <2>2. x \in 1..7
    OBVIOUS
  <2>3. x = 1 \/ x = 2 \/ x = 3 \/ x = 4 \/ x = 5 \/ x = 6 \/ x = 7
    BY <2>2
  <2> QED
    BY <2>3
<1> QED
  BY <1>1 DEF First

\* An error arrives as one of the sentinels it wraps, as none if it wraps none: no
\* caller acts on an error the service did not have (errors.go: "errors.Is behaves
\* identically either side of the socket").  It holds while no two codes of the
\* table are the same.
THEOREM ErrorsSurvive ==
  \A err : /\ localError(wireError(err)) \subseteq err
           /\ (localError(wireError(err)) = {}) <=> (err \cap Sentinel = {})
<1> SUFFICES ASSUME NEW err
             PROVE  /\ localError(wireError(err)) \subseteq err
                    /\ (localError(wireError(err)) = {}) <=> (err \cap Sentinel = {})
  OBVIOUS
<1>1. Wrapped(err) = {i \in 1..7 : sentinels[i].err \in err}
  BY SentinelTable DEF Wrapped
<1>2. \A code : Coded(code) = {i \in 1..7 : sentinels[i].code = code}
  BY SentinelTable DEF Coded
<1>3. CASE Wrapped(err) = {}
  <2>1. wireError(err) = "Unknown" /\ Coded("Unknown") = {}
    BY <1>2, <1>3, SentinelTable DEF wireError
  <2>2. err \cap Sentinel = {}
    BY <1>1, <1>3, SentinelTable
  <2> QED
    BY <2>1, <2>2 DEF localError
<1>4. CASE Wrapped(err) # {}
  <2> DEFINE i == CHOOSE i \in 1..7 : First(i, Wrapped(err))
             code == sentinels[i].code
             j == CHOOSE j \in 1..7 : First(j, Coded(code))
  <2>1. i \in 1..7 /\ sentinels[i].err \in err
    BY <1>1, <1>4, FirstExists DEF First
  <2>2. wireError(err) = code
    BY <1>4, SentinelTable DEF wireError
  <2>3. Coded(code) = {i}
    BY <1>2, <2>1, SentinelTable
  <2>4. j = i
    BY <2>1, <2>3, FirstExists DEF First
  <2>5. localError(code) = {sentinels[j].err}
    BY <2>3, SentinelTable DEF localError
  <2> HIDE DEF i
  <2>6. sentinels[i].err \in Sentinel
    BY <2>1, SentinelTable
  <2> QED
    BY <2>1, <2>2, <2>4, <2>5, <2>6
<1> QED
  BY <1>3, <1>4
-----------------------------------------------------------------------------
(***************************************************************************)
(* From a command line to a spec.                                          *)
(***************************************************************************)
\* A list is a list of what is in it.
AList(s) == s \in Seq({s[i] : i \in DOMAIN s})

\* Its length is a number, and its domain what that says.
LEMMA ListIs ==
  ASSUME NEW s, AList(s)
  PROVE  Len(s) \in Nat /\ DOMAIN s = 1..Len(s) /\ (s # <<>> => Len(s) > 0)
  BY DEF AList

\* So is what is left of one,
LEMMA TailIsAList ==
  ASSUME NEW s, AList(s), s # <<>>
  PROVE  AList(Tail(s)) /\ Len(Tail(s)) = Len(s) - 1 /\ \A i \in 1..Len(s) - 1 : Tail(s)[i] = s[i + 1]
  <1> DEFINE S == {s[i] : i \in DOMAIN s}
             t == Tail(s)
  <1>1. s \in Seq(S)
    BY DEF AList
  <1>2. t \in Seq(S) /\ Len(t) = Len(s) - 1 /\ \A i \in 1..Len(s) - 1 : t[i] = s[i + 1]
    BY <1>1
  <1> DEFINE U == {t[i] : i \in DOMAIN t}
  <1> HIDE DEF S, t
  <1>3. DOMAIN t = 1..Len(t) /\ Len(t) \in Nat /\ t = [i \in 1..Len(t) |-> t[i]]
    BY <1>2
  <1>4. \A i \in 1..Len(t) : t[i] \in U
    BY <1>3
  <1> HIDE DEF U
  <1>5. t \in Seq(U)
    BY <1>3, <1>4
  <1> QED BY <1>2, <1>5 DEF AList, t, U

\* and one element.
LEMMA SingletonIsAList ==
  ASSUME NEW e
  PROVE  AList(<<e>>) /\ Len(<<e>>) = 1 /\ <<e>>[1] = e
  <1>1. <<e>> \in Seq({e}) /\ DOMAIN <<e>> = {1} /\ <<e>>[1] = e
    OBVIOUS
  <1>2. {<<e>>[i] : i \in DOMAIN <<e>>} = {e}
    BY <1>1
  <1> QED BY <1>1, <1>2 DEF AList

\* The command lines that make sandboxes.
Creates(l) == l.cmd \in {"run", "create"} /\ specOf(l) # Rejected

\* The directories that a command line asks to be mounted.
Given(l) == splitAgentAndPaths(l.args).paths
Args(l) == IF Given(l) = <<>> THEN <<l.cwd>> ELSE Given(l)

\* A command line has at least one directory, its own when it names none.
LEMMA ArgsAre ==
  ASSUME NEW l \in Lines \cup Priors, l.cmd \in {"run", "create"}
  PROVE  /\ AList(Args(l)) /\ Len(Args(l)) \in Nat /\ DOMAIN Args(l) = 1..Len(Args(l)) /\ Len(Args(l)) > 0
         /\ Args(l)[1] = IF Given(l) = <<>> THEN l.cwd ELSE Given(l)[1]
  <1>1. AList(l.args)
    BY LinesAssumption DEF AList
  <1>2. AList(Given(l))
    <2>1. CASE l.args = <<>>
      <3>1. Given(l) = <<>>
        BY <2>1 DEF Given, splitAgentAndPaths
      <3>2. QED BY <1>1, <2>1, <3>1
    <2>2. CASE l.args # <<>> /\ l.args[1].mode = NoMode /\ l.args[1].dir \in DOMAIN Agents
      <3>1. Given(l) = Tail(l.args)
        BY <2>2 DEF Given, splitAgentAndPaths
      <3>2. QED BY <1>1, <2>2, <3>1, TailIsAList
    <2>3. CASE l.args # <<>> /\ ~(l.args[1].mode = NoMode /\ l.args[1].dir \in DOMAIN Agents)
      <3>1. Given(l) = l.args
        BY <2>3 DEF Given, splitAgentAndPaths
      <3>2. QED BY <1>1, <3>1
    <2>4. QED BY <2>1, <2>2, <2>3
  <1>3. AList(Args(l))
    BY <1>2, SingletonIsAList DEF Args
  <1>4. Args(l) # <<>>
    <2>1. <<l.cwd>> # <<>>
      OBVIOUS
    <2>2. QED BY <2>1 DEF Args
  <1>5. Args(l)[1] = IF Given(l) = <<>> THEN l.cwd ELSE Given(l)[1]
    BY SingletonIsAList DEF Args
  <1> QED BY <1>3, <1>4, <1>5, ListIs

\* A port that has been parsed is one, and fits a message.
LEMMA ParsedPortIs ==
  ASSUME NEW arg, parsePort(arg) # Rejected
  PROVE  /\ parsePort(arg) = [host |-> arg.host, sandbox |-> IF arg.bare THEN arg.host ELSE arg.sandbox,
                              proto |-> IF arg.proto = "tcp" THEN "" ELSE arg.proto]
         /\ arg.proto \in {"", "tcp", "udp"}
         /\ parsePort(arg) \in Ports
  <1> DEFINE sandbox == IF arg.bare THEN arg.host ELSE arg.sandbox
  <1>1. validPort(arg.host) /\ validPort(sandbox) /\ arg.proto \in {"", "tcp", "udp"}
    BY DEF parsePort
  <1>2. parsePort(arg) = [host |-> arg.host, sandbox |-> sandbox,
                          proto |-> IF arg.proto = "tcp" THEN "" ELSE arg.proto]
    BY <1>1 DEF parsePort
  <1>3. \A n : validPort(n) => n \in Numbers
    BY NumbersAssumption, HalfAssumption DEF validPort, Numbers, Fits
  <1>4. (IF arg.proto = "tcp" THEN "" ELSE arg.proto) \in {"", "tcp", "udp"}
    BY <1>1
  <1> DEFINE proto == IF arg.proto = "tcp" THEN "" ELSE arg.proto
             Protos == {"", "tcp", "udp"}
  <1>5. proto \in Protos /\ arg.host \in Numbers /\ sandbox \in Numbers
    BY <1>1, <1>3, <1>4
  <1>6. parsePort(arg) = [host |-> arg.host, sandbox |-> sandbox, proto |-> proto]
    BY <1>2
  <1> HIDE DEF proto, Protos, sandbox
  <1>7. parsePort(arg) \in [host : Numbers, sandbox : Numbers, proto : Protos]
    BY <1>5, <1>6
  <1>8. parsePort(arg) \in Ports
    BY <1>7 DEF Ports, Protos
  <1> QED BY <1>1, <1>2, <1>8 DEF sandbox

\* What a command line's spec is made of.
LEMMA SpecIs ==
  ASSUME NEW l \in Lines \cup Priors, Creates(l)
  PROVE  /\ IsSpec(specOf(l))
         /\ specOf(l).workspaces = [i \in 1..Len(Args(l)) |-> parseWorkspace(Args(l)[i], l.cwd)]
         /\ \A i \in 1..Len(Args(l)) :
              parseWorkspace(Args(l)[i], l.cwd) # Rejected /\ parseWorkspace(Args(l)[i], l.cwd) \in Workspaces
         /\ specOf(l).ports = [i \in 1..Len(l.flags.ports) |-> parsePort(l.flags.ports[i])]
         /\ \A i \in 1..Len(l.flags.ports) : parsePort(l.flags.ports[i]) # Rejected
         /\ specOf(l).env = Pairs(l.flags.env)
         /\ specOf(l).cpus = l.flags.cpus
         /\ specOf(l).memory = ParseBytes(l.flags.memory) /\ ParseBytes(l.flags.memory) # Rejected
  <1> DEFINE agent == splitAgentAndPaths(l.args).agent
             args == Args(l)
             workspaces == [i \in DOMAIN args |-> parseWorkspace(args[i], l.cwd)]
             ports == [i \in DOMAIN l.flags.ports |-> parsePort(l.flags.ports[i])]
             memory == ParseBytes(l.flags.memory)
             made == [name |-> IF l.flags.name = "" THEN SandboxName(workspaces[1].host) ELSE l.flags.name,
                      agent |-> agent,
                      image |-> IF l.flags.image = "" THEN Agents[agent].image ELSE l.flags.image,
                      workspaces |-> workspaces,
                      cpus |-> l.flags.cpus, memory |-> memory,
                      env |-> Pairs(l.flags.env),
                      ports |-> ports,
                      createdAt |-> [at |-> 0, zone |-> "UTC"]]
             bad == \/ LookupAgent(agent) = Rejected
                    \/ \E i \in DOMAIN args : workspaces[i] = Rejected \/ workspaces[i].host \notin Dirs
                    \/ \E i \in DOMAIN ports : ports[i] = Rejected
                    \/ \E i \in DOMAIN l.flags.env : ~l.flags.env[i].eq
                    \/ memory = Rejected
  <1>1. specOf(l) = IF bad THEN Rejected ELSE made
    BY DEF specOf, buildSpec, Args, Given
  <1>2. ~bad /\ specOf(l) = made
    BY <1>1 DEF Creates
  <1>3. l.cmd \in {"run", "create"} /\ DOMAIN args = 1..Len(args) /\ Len(args) \in Nat
    BY ArgsAre DEF Creates
  <1>4. AList(l.flags.ports)
    BY <1>3, LinesAssumption DEF AList
  <1>5. DOMAIN l.flags.ports = 1..Len(l.flags.ports) /\ Len(l.flags.ports) \in Nat
    BY <1>4, ListIs
  <1>6. ASSUME NEW i \in 1..Len(args)
        PROVE  parseWorkspace(args[i], l.cwd) # Rejected /\ parseWorkspace(args[i], l.cwd) \in Workspaces
    <2>1. workspaces[i] = parseWorkspace(args[i], l.cwd) /\ workspaces[i] # Rejected /\ workspaces[i].host \in Dirs
      BY <1>2, <1>3
    <2>2. parseWorkspace(args[i], l.cwd) = [host |-> resolve(args[i].dir, l.cwd), readOnly |-> args[i].mode = "ro"]
      BY <2>1 DEF parseWorkspace
    <2>3. (args[i].mode = "ro") \in BOOLEAN
      OBVIOUS
    <2>4. QED BY <2>1, <2>2, <2>3 DEF Workspaces
  <1>7. ASSUME NEW i \in 1..Len(l.flags.ports)
        PROVE  parsePort(l.flags.ports[i]) # Rejected /\ parsePort(l.flags.ports[i]) \in Ports
    <2>1. parsePort(l.flags.ports[i]) # Rejected
      BY <1>2, <1>5
    <2>2. QED BY <2>1, ParsedPortIs
  <1>8. workspaces \in Seq(Workspaces) /\ ports \in Seq(Ports)
    BY <1>3, <1>5, <1>6, <1>7
  <1>9. made.createdAt \in Times
    BY DEF Times, UTC
  <1> HIDE DEF args, workspaces, ports, memory, agent, bad
  <1>10. IsSpec(made)
    BY <1>8, <1>9 DEF IsSpec
  <1>11. /\ made.workspaces = workspaces /\ made.ports = ports /\ made.env = Pairs(l.flags.env)
         /\ made.cpus = l.flags.cpus /\ made.memory = memory
    OBVIOUS
  <1>12. memory # Rejected
    BY <1>2 DEF bad
  <1> HIDE DEF made
  <1>13. IsSpec(specOf(l)) /\ specOf(l).workspaces = workspaces /\ specOf(l).ports = ports
         /\ specOf(l).env = Pairs(l.flags.env) /\ specOf(l).cpus = l.flags.cpus /\ specOf(l).memory = memory
    BY <1>2, <1>10, <1>11
  <1> USE DEF args, workspaces, ports, memory
  <1> QED BY <1>3, <1>5, <1>6, <1>7, <1>12, <1>13
-----------------------------------------------------------------------------
(***************************************************************************)
(* The codes of errors, and sorted names.                                  *)
(***************************************************************************)
\* What the service's errors travel as.
LEMMA CodesAre ==
  /\ wireError({}) = "Unknown" /\ wireError({"ErrNotFound"}) = "NotFound"
  /\ wireError({"ErrExists"}) = "AlreadyExists" /\ wireError({"ErrRunning"}) = "FailedPrecondition"
  <1>1. \A err : Wrapped(err) = {i \in 1..7 : sentinels[i].err \in err}
    BY SentinelTable DEF Wrapped
  <1>2. Wrapped({}) = {}
    BY <1>1
  <1>3. ASSUME NEW i \in 1..7
        PROVE  wireError({sentinels[i].err}) = sentinels[i].code
    <2>1. \A j \in 1..7 : sentinels[j].err = sentinels[i].err => j = i
      BY DEF sentinels
    <2>2. Wrapped({sentinels[i].err}) = {i}
      BY <1>1, <2>1
    <2>3. \A j \in 1..7 : First(j, {i}) <=> j = i
      BY DEF First
    <2>4. wireError({sentinels[i].err}) = sentinels[CHOOSE j \in 1..7 : First(j, {i})].code
      BY <2>2, SentinelTable DEF wireError
    <2>5. QED BY <2>3, <2>4
  <1>4. /\ sentinels[1].err = "ErrNotFound" /\ sentinels[1].code = "NotFound"
        /\ sentinels[2].err = "ErrExists" /\ sentinels[2].code = "AlreadyExists"
        /\ sentinels[3].err = "ErrRunning" /\ sentinels[3].code = "FailedPrecondition"
    BY DEF sentinels
  <1>5. wireError({}) = "Unknown"
    BY <1>2 DEF wireError
  <1>6. wireError({"ErrNotFound"}) = "NotFound"
    BY <1>3, <1>4
  <1>7. wireError({"ErrExists"}) = "AlreadyExists"
    BY <1>3, <1>4
  <1>8. wireError({"ErrRunning"}) = "FailedPrecondition"
    BY <1>3, <1>4
  <1> QED BY <1>5, <1>6, <1>7, <1>8

\* Only one code is read as an error that says not found.
LEMMA NotFoundIs ==
  ASSUME NEW code, "ErrNotFound" \in localError(code)
  PROVE  code = "NotFound"
  <1>1. Coded(code) = {i \in 1..7 : sentinels[i].code = code} /\ Coded(code) # {}
    BY SentinelTable DEF Coded, localError
  <1>2. PICK i \in 1..7 : i = CHOOSE j \in 1..7 : First(j, Coded(code))
    BY <1>1, FirstExists
  <1>3. First(i, Coded(code))
    BY <1>1, <1>2, FirstExists
  <1>4. localError(code) = {sentinels[i].err}
    BY <1>1, <1>2, SentinelTable DEF localError
  <1>5. sentinels[i].err = "ErrNotFound" /\ sentinels[i].code = code
    BY <1>1, <1>3, <1>4 DEF First
  <1>6. i = 1 /\ sentinels[1].code = "NotFound"
    BY <1>5 DEF sentinels
  <1> QED BY <1>5, <1>6

\* Natural numbers have a least one in every set that is not empty,
LEMMA LeastNat ==
  ASSUME NEW T \in SUBSET Nat, T # {}
  PROVE  \E x \in T : \A y \in T : x <= y
  <1>1. PICK x \in T : \A y \in T : ~(<<y, x>> \in OpToRel(<, Nat))
    BY NatLessThanWellFounded, WFMin
  <1>2. ASSUME NEW y \in T PROVE x <= y
    <2>1. y \in Nat /\ x \in Nat
      OBVIOUS
    <2>2. ~(y < x)
      BY <1>1, <2>1 DEF OpToRel
    <2>3. QED BY <2>1, <2>2
  <1>3. QED BY <1>2

\* and so a set that holds zero and the successor of each it holds has them all.
LEMMA AllNat ==
  ASSUME NEW S, 0 \in S, \A n \in Nat : n \in S => n + 1 \in S
  PROVE  Nat \subseteq S
  <1>1. SUFFICES ASSUME Nat \ S # {} PROVE FALSE
    OBVIOUS
  <1>2. PICK x \in Nat \ S : \A y \in Nat \ S : x <= y
    BY <1>1, LeastNat
  <1>3. x - 1 \in Nat /\ x - 1 + 1 = x
    BY <1>2
  <1>4. x - 1 \in S
    BY <1>2, <1>3
  <1>5. QED BY <1>2, <1>3, <1>4

\* Sorted, as far as the n-th name.
Sorting(sorted, S, n) ==
  sorted = [i \in 0..n |->
              IF i = 0 THEN <<>>
              ELSE IF Order[i] \in S THEN Append(sorted[i - 1], Order[i])
              ELSE sorted[i - 1]]

\* There is such a function for every length, and Sorted is its last value.
LEMMA SortedSorts ==
  ASSUME NEW S
  PROVE  \E sorted : Sorting(sorted, S, Len(Order)) /\ Sorted(S) = sorted[Len(Order)]
  <1> DEFINE N == {n \in Nat : \E sorted : Sorting(sorted, S, n)}
  <1>1. 0 \in N
    <2>1. Sorting([i \in 0..0 |-> <<>>], S, 0)
      BY DEF Sorting
    <2>2. QED BY <2>1
  <1>2. ASSUME NEW n \in Nat, n \in N PROVE n + 1 \in N
    <2>1. PICK f : Sorting(f, S, n)
      BY <1>2
    <2> DEFINE last == IF Order[n + 1] \in S THEN Append(f[n], Order[n + 1]) ELSE f[n]
               g == [i \in 0..n + 1 |-> IF i = n + 1 THEN last ELSE f[i]]
    <2> HIDE DEF last
    <2>2. ASSUME NEW i \in 0..n + 1
          PROVE  g[i] = IF i = 0 THEN <<>>
                        ELSE IF Order[i] \in S THEN Append(g[i - 1], Order[i])
                        ELSE g[i - 1]
      <3>1. CASE i = n + 1
        <4>1. g[i] = last /\ g[i - 1] = f[n] /\ i # 0
          BY <3>1
        <4>2. QED BY <3>1, <4>1 DEF last
      <3>2. CASE i \in 0..n
        <4>1. g[i] = f[i] /\ (i # 0 => g[i - 1] = f[i - 1])
          BY <3>2
        <4>2. f[i] = IF i = 0 THEN <<>>
                     ELSE IF Order[i] \in S THEN Append(f[i - 1], Order[i])
                     ELSE f[i - 1]
          BY <2>1, <3>2 DEF Sorting
        <4> HIDE DEF g
        <4>3. QED BY <4>1, <4>2
      <3>3. QED BY <3>1, <3>2
    <2>3. g = [i \in 0..n + 1 |-> g[i]]
      OBVIOUS
    <2> HIDE DEF g
    <2>4. Sorting(g, S, n + 1)
      BY <2>2, <2>3 DEF Sorting
    <2>5. QED BY <2>4
  <1>3. Len(Order) \in N
    <2>1. Len(Order) \in Nat
      BY OrderAssumption
    <2> HIDE DEF N
    <2>2. QED BY <1>1, <1>2, <2>1, AllNat
  <1> DEFINE sorted == CHOOSE f : Sorting(f, S, Len(Order))
  <1>4. Sorting(sorted, S, Len(Order))
    BY <1>3
  <1>5. Sorted(S) = sorted[Len(Order)]
    BY DEF Sorted, Sorting
  <1>6. QED BY <1>4, <1>5

\* Sorted lists the names of a set, all of them and no other.
LEMMA SortedIs ==
  ASSUME NEW S \in SUBSET ValidNames
  PROVE  /\ Sorted(S) \in Seq(S)
         /\ \A n \in S : \E k \in 1..Len(Sorted(S)) : Sorted(S)[k] = n
  <1>1. PICK out : Sorting(out, S, Len(Order)) /\ Sorted(S) = out[Len(Order)]
    BY SortedSorts
  <1>2. Len(Order) \in Nat /\ DOMAIN Order = 1..Len(Order)
    BY OrderAssumption
  <1> DEFINE All(s, n) == \A i \in 1..n : Order[i] \in S => \E k \in 1..Len(s) : s[k] = Order[i]
             N == {n \in Nat : n <= Len(Order) => out[n] \in Seq(S) /\ All(out[n], n)}
  <1>3. 0 \in N
    <2>1. out[0] = <<>> /\ <<>> \in Seq(S)
      BY <1>1, <1>2 DEF Sorting
    <2>2. 1..0 = {}
      OBVIOUS
    <2>3. QED BY <2>1, <2>2
  <1>4. ASSUME NEW n \in Nat, n \in N PROVE n + 1 \in N
    <2>1. SUFFICES ASSUME n + 1 <= Len(Order) PROVE out[n + 1] \in Seq(S) /\ All(out[n + 1], n + 1)
      OBVIOUS
    <2> DEFINE q == out[n]
               r == out[n + 1]
               e == Order[n + 1]
    <2>2. q \in Seq(S) /\ All(q, n)
      BY <1>2, <1>4, <2>1
    <2>3. r = IF e \in S THEN Append(q, e) ELSE q
      <3>1. n + 1 \in 0..Len(Order) /\ n + 1 # 0 /\ n + 1 - 1 = n
        BY <1>2, <2>1
      <3>2. \A m \in 0..Len(Order) :
              out[m] = IF m = 0 THEN <<>>
                       ELSE IF Order[m] \in S THEN Append(out[m - 1], Order[m])
                       ELSE out[m - 1]
        BY <1>1 DEF Sorting
      <3>3. QED BY <3>1, <3>2
    <2> HIDE DEF q, r
    <2>4. CASE e \in S
      <3>1. /\ r \in Seq(S) /\ Len(q) \in Nat /\ Len(r) = Len(q) + 1
            /\ \A k \in 1..Len(q) : r[k] = q[k]
            /\ r[Len(q) + 1] = e
        BY <2>2, <2>3, <2>4, AppendProperties
      <3>2. ASSUME NEW i \in 1..n + 1, Order[i] \in S
            PROVE  \E k \in 1..Len(r) : r[k] = Order[i]
        <4>1. CASE i \in 1..n
          <5>1. PICK k \in 1..Len(q) : q[k] = Order[i]
            BY <2>2, <3>2, <4>1
          <5>2. QED BY <3>1, <5>1
        <4>2. CASE i = n + 1
          <5>1. Len(r) \in 1..Len(r)
            BY <3>1
          <5>2. QED BY <3>1, <4>2, <5>1
        <4>3. QED BY <4>1, <4>2
      <3>3. QED BY <3>1, <3>2 DEF r
    <2>5. CASE e \notin S
      <3>1. ASSUME NEW i \in 1..n + 1, Order[i] \in S PROVE i \in 1..n
        BY <2>5, <3>1
      <3>2. QED BY <2>2, <2>3, <2>5, <3>1 DEF r
    <2>6. QED BY <2>4, <2>5
  <1>5. Len(Order) \in N
    <2> HIDE DEF N
    <2>1. QED BY <1>2, <1>3, <1>4, AllNat
  <1>6. Sorted(S) \in Seq(S) /\ All(Sorted(S), Len(Order))
    BY <1>1, <1>2, <1>5
  <1>7. ASSUME NEW n \in S PROVE \E k \in 1..Len(Sorted(S)) : Sorted(S)[k] = n
    <2>1. PICK i \in 1..Len(Order) : Order[i] = n
      BY <1>2, OrderAssumption
    <2>2. QED BY <1>6, <2>1
  <1> QED BY <1>6, <1>7

\* A set of positions has a first.
LEMMA AFirst ==
  ASSUME NEW n \in Nat, NEW S \in SUBSET (1..n), S # {}
  PROVE  (CHOOSE i \in S : First(i, S)) \in S
  <1>1. S \in SUBSET Nat
    OBVIOUS
  <1>2. \E i \in S : First(i, S)
    BY <1>1, LeastNat DEF First
  <1> QED BY <1>2
-----------------------------------------------------------------------------
(***************************************************************************)
(* What a step of one process leaves alone.                                *)
(***************************************************************************)
\* What EXCEPT needs to know: everything but the store is a function of processes.
Shapes ==
  /\ DOMAIN line = Processes /\ DOMAIN at = Processes /\ DOMAIN pc = Processes
  /\ DOMAIN request = Processes /\ DOMAIN reply = Processes /\ DOMAIN exit = Processes
  /\ DOMAIN found = Processes /\ DOMAIN ran = Processes
  /\ DOMAIN todo = Processes /\ DOMAIN got = Processes
  /\ DOMAIN before = Processes /\ DOMAIN since = Processes

\* A process that takes no step keeps what is its own.
Same(q) ==
  /\ line'[q] = line[q] /\ at'[q] = at[q] /\ pc'[q] = pc[q]
  /\ request'[q] = request[q] /\ reply'[q] = reply[q] /\ exit'[q] = exit[q]
  /\ found'[q] = found[q] /\ ran'[q] = ran[q]
  /\ todo'[q] = todo[q] /\ got'[q] = got[q] /\ before'[q] = before[q]

\* A command that calls, quits or is answered,
LEMMA CallEffect ==
  ASSUME Shapes, NEW p \in Processes, NEW which, NEW message, Call(p, which, message)
  PROVE  /\ at'[p] = which /\ pc'[p] = "call" /\ request'[p] = message /\ reply'[p] = NoReply
         /\ DOMAIN at' = Processes /\ DOMAIN pc' = Processes /\ DOMAIN request' = Processes
         /\ DOMAIN reply' = Processes /\ exit' = exit
         /\ \A q \in Processes \ {p} : /\ at'[q] = at[q] /\ pc'[q] = pc[q]
                                       /\ request'[q] = request[q] /\ reply'[q] = reply[q]
  BY DEF Shapes, Call

\* that ends,
LEMMA QuitEffect ==
  ASSUME Shapes, NEW p \in Processes, NEW status, Quit(p, status)
  PROVE  /\ at'[p] = "none" /\ pc'[p] = "done" /\ exit'[p] = status
         /\ DOMAIN at' = Processes /\ DOMAIN pc' = Processes /\ DOMAIN exit' = Processes
         /\ request' = request /\ reply' = reply
         /\ \A q \in Processes \ {p} : at'[q] = at[q] /\ pc'[q] = pc[q] /\ exit'[q] = exit[q]
  BY DEF Shapes, Quit

\* or that is answered changes its own place and no other's.
LEMMA ReplyEffect ==
  ASSUME Shapes, NEW p \in Processes, NEW message, Reply(p, message)
  PROVE  /\ pc'[p] = "answered" /\ reply'[p] = message
         /\ DOMAIN pc' = Processes /\ DOMAIN reply' = Processes
         /\ \A q \in Processes \ {p} : pc'[q] = pc[q] /\ reply'[q] = reply[q]
  BY DEF Shapes, Reply

\* Whatever a command does next is to call or to quit.
Moves(p) == (\E which, message : Call(p, which, message)) \/ (\E status : Quit(p, status))

\* Calling or quitting is of one process.
LEMMA MovesEffect ==
  ASSUME Shapes, NEW p \in Processes, Moves(p)
  PROVE  /\ DOMAIN at' = Processes /\ DOMAIN pc' = Processes /\ DOMAIN request' = Processes
         /\ DOMAIN reply' = Processes /\ DOMAIN exit' = Processes
         /\ \A q \in Processes \ {p} : /\ at'[q] = at[q] /\ pc'[q] = pc[q] /\ exit'[q] = exit[q]
                                       /\ request'[q] = request[q] /\ reply'[q] = reply[q]
  <1>1. CASE \E which, message : Call(p, which, message)
    <2>1. PICK which, message : Call(p, which, message)
      BY <1>1
    <2>2. QED BY <2>1, CallEffect DEF Shapes
  <1>2. CASE \E status : Quit(p, status)
    <2>1. PICK status : Quit(p, status)
      BY <1>2
    <2>2. QED BY <2>1, QuitEffect DEF Shapes
  <1> QED BY <1>1, <1>2 DEF Moves

\* A command that calls, or ends because its arguments are no good, does that;
LEMMA CallOrQuitMoves ==
  ASSUME NEW p, NEW which, NEW argument, NEW message, CallOrQuit(p, which, argument, message)
  PROVE  Moves(p)
  BY DEF CallOrQuit, Moves

\* so does every beginning,
LEMMA BeginMoves ==
  ASSUME NEW p, NEW l, BeginRun(p, l) \/ BeginCreate(p, l) \/ BeginAct(p, l)
                       \/ BeginExec(p, l) \/ BeginCopy(p, l) \/ BeginList(p, l)
  PROVE  Moves(p)
  <1>1. CASE BeginRun(p, l)
    BY <1>1, CallOrQuitMoves DEF BeginRun
  <1>2. CASE BeginCreate(p, l)
    BY <1>2, CallOrQuitMoves DEF BeginCreate
  <1>3. CASE BeginExec(p, l)
    BY <1>3, CallOrQuitMoves DEF BeginExec
  <1>4. CASE BeginAct(p, l) \/ BeginCopy(p, l) \/ BeginList(p, l)
    BY <1>4 DEF BeginAct, BeginCopy, BeginList, Moves
  <1> QED BY <1>1, <1>2, <1>3, <1>4

\* and whatever a command does with an answer.
LEMMA ContinueMoves ==
  ASSUME NEW p \in Processes, Continue(p)
  PROVE  Moves(p)
  <1>1. CASE RunFinds(p)
    <2> DEFINE sb == ApiSandbox(reply[p].sandbox)
    <2>1. Attach(p, sb) \/ Call(p, "Start", RefRequest(ByName(sb.spec.name)))
      BY <1>1 DEF RunFinds
    <2>2. QED BY <2>1, CallOrQuitMoves DEF Attach, Moves
  <1>2. CASE RunCreates(p)
    BY <1>2, CallOrQuitMoves DEF RunCreates
  <1>3. CASE RunAttaches(p)
    BY <1>3, CallOrQuitMoves DEF RunAttaches, Attach
  <1>4. CASE Act(p)
    BY <1>4 DEF Act, Moves
  <1>5. CASE Finish(p)
    BY <1>5 DEF Finish, Moves
  <1>6. CASE Fail(p)
    BY <1>6 DEF Fail, Moves
  <1> QED BY <1>1, <1>2, <1>3, <1>4, <1>5, <1>6 DEF Continue

\* A step of a process changes a function of processes where its own value is.
OnlyAt(f, g, p) == DOMAIN g = Processes /\ \A q \in Processes \ {p} : g[q] = f[q]

\* A step of the daemon's side of a call.
Serves(p) ==
  \/ Create(p) \/ Start(p) \/ Stop(p) \/ Remove(p) \/ Exec(p) \/ Copy(p)
  \/ FindByName(p) \/ ReadDir(p) \/ Get(p) \/ Matched(p) \/ Observe(p) \/ Observed(p) \/ CallFails(p)

Step(p) == Begin(p) \/ Continue(p) \/ Serves(p)

\* Every step is one process's: it begins, goes on, or is served.
LEMMA NextIs == Next <=> \E p \in Processes : Step(p)
  BY DEF Next, Step, Serves

\* The daemon's side changes what is of the call, of that process alone.
LEMMA ServesEffect ==
  ASSUME Shapes, NEW p \in Processes, Serves(p)
  PROVE  /\ UNCHANGED <<line, at, found, exit, request>>
         /\ OnlyAt(pc, pc', p) /\ OnlyAt(reply, reply', p) /\ OnlyAt(ran, ran', p)
         /\ OnlyAt(todo, todo', p) /\ OnlyAt(got, got', p) /\ OnlyAt(before, before', p)
         /\ DOMAIN since' = Processes
  <1> DEFINE Answers == (\E message : Reply(p, message)) \/ UNCHANGED <<pc, reply>>
                        \/ (UNCHANGED reply /\ \E where : pc' = [pc EXCEPT ![p] = where])
  <1>a. Answers => OnlyAt(pc, pc', p) /\ OnlyAt(reply, reply', p)
    BY ReplyEffect DEF Shapes, OnlyAt
  <1> HIDE DEF Answers
  <1>1. CASE Create(p)
    <2>1. Answers
      BY <1>1 DEF Create, Answers
    <2>2. DOMAIN since' = Processes
      BY <1>1 DEF Create, Created, Shapes
    <2>3. UNCHANGED <<line, at, found, exit, request, ran, todo, got, before>>
      BY <1>1 DEF Create, clientVars
    <2>4. QED BY <1>a, <2>1, <2>2, <2>3 DEF Shapes, OnlyAt
  <1>2. CASE Start(p) \/ Stop(p)
    <2>1. PICK which, status : Boot(p, which, status)
      BY <1>2 DEF Start, Stop
    <2>2. Answers
      BY <2>1 DEF Boot, Answers
    <2>3. UNCHANGED <<line, at, found, exit, request, ran, todo, got, before, since>>
      BY <2>1 DEF Boot, clientVars, listingVars
    <2>4. QED BY <1>a, <2>2, <2>3 DEF Shapes, OnlyAt
  <1>3. CASE Remove(p)
    <2>1. Answers
      BY <1>3 DEF Remove, Answers
    <2>2. UNCHANGED <<line, at, found, exit, request, ran, todo, got, before, since>>
      BY <1>3 DEF Remove, clientVars, listingVars
    <2>3. QED BY <1>a, <2>1, <2>2 DEF Shapes, OnlyAt
  <1>4. CASE Exec(p)
    <2>1. Answers
      BY <1>4 DEF Exec, Answers
    <2>2. OnlyAt(ran, ran', p)
      BY <1>4 DEF Exec, Shapes, OnlyAt
    <2>3. UNCHANGED <<line, at, found, exit, request, todo, got, before, since>>
      BY <1>4 DEF Exec, clientVars, listingVars
    <2>4. QED BY <1>a, <2>1, <2>2, <2>3 DEF Shapes, OnlyAt
  <1>5. CASE Copy(p)
    <2>1. Answers
      BY <1>5 DEF Copy, Answers
    <2>2. UNCHANGED <<line, at, found, exit, request, ran, todo, got, before, since>>
      BY <1>5 DEF Copy, clientVars, listingVars
    <2>3. QED BY <1>a, <2>1, <2>2 DEF Shapes, OnlyAt
  <1>6. CASE FindByName(p)
    <2>1. Answers
      BY <1>6 DEF FindByName, Answers
    <2>2. OnlyAt(todo, todo', p) /\ OnlyAt(got, got', p) /\ OnlyAt(before, before', p) /\ DOMAIN since' = Processes
      BY <1>6 DEF FindByName, Shapes, OnlyAt
    <2>3. UNCHANGED <<line, at, found, exit, request, ran>>
      BY <1>6 DEF FindByName, clientVars
    <2>4. QED BY <1>a, <2>1, <2>2, <2>3 DEF Shapes, OnlyAt
  <1>7. CASE ReadDir(p)
    <2>1. Answers
      BY <1>7 DEF ReadDir, Answers
    <2>2. OnlyAt(todo, todo', p) /\ OnlyAt(got, got', p) /\ OnlyAt(before, before', p) /\ DOMAIN since' = Processes
      BY <1>7 DEF ReadDir, Shapes, OnlyAt
    <2>3. UNCHANGED <<line, at, found, exit, request, ran>>
      BY <1>7 DEF ReadDir, clientVars
    <2>4. QED BY <1>a, <2>1, <2>2, <2>3 DEF Shapes, OnlyAt
  <1>8. CASE Get(p)
    <2>1. Answers
      BY <1>8 DEF Get, Gone, Answers
    <2>2. OnlyAt(todo, todo', p) /\ OnlyAt(got, got', p)
      BY <1>8 DEF Get, Gone, Shapes, OnlyAt
    <2>3. UNCHANGED <<line, at, found, exit, request, ran, before, since>>
      BY <1>8 DEF Get, clientVars
    <2>4. QED BY <1>a, <2>1, <2>2, <2>3 DEF Shapes, OnlyAt
  <1>9. CASE Matched(p)
    <2>1. Answers
      BY <1>9 DEF Matched, Answers
    <2>2. OnlyAt(todo, todo', p) /\ OnlyAt(got, got', p)
      BY <1>9 DEF Matched, Shapes, OnlyAt
    <2>3. UNCHANGED <<line, at, found, exit, request, ran, before, since>>
      BY <1>9 DEF Matched, clientVars
    <2>4. QED BY <1>a, <2>1, <2>2, <2>3 DEF Shapes, OnlyAt
  <1>10. CASE Observe(p)
    <2>1. Answers
      BY <1>10 DEF Observe, Answers
    <2>2. OnlyAt(todo, todo', p) /\ OnlyAt(got, got', p)
      BY <1>10 DEF Observe, Shapes, OnlyAt
    <2>3. UNCHANGED <<line, at, found, exit, request, ran, before, since>>
      BY <1>10 DEF Observe, clientVars
    <2>4. QED BY <1>a, <2>1, <2>2, <2>3 DEF Shapes, OnlyAt
  <1>11. CASE Observed(p)
    <2>1. Answers
      BY <1>11 DEF Observed, Answers
    <2>2. OnlyAt(got, got', p)
      BY <1>11 DEF Observed, Shapes, OnlyAt
    <2>3. UNCHANGED <<line, at, found, exit, request, ran, todo, before, since>>
      BY <1>11 DEF Observed, clientVars
    <2>4. QED BY <1>a, <2>1, <2>2, <2>3 DEF Shapes, OnlyAt
  <1>12. CASE CallFails(p)
    <2>1. Answers
      BY <1>12 DEF CallFails, Answers
    <2>2. OnlyAt(todo, todo', p) /\ OnlyAt(got, got', p)
      BY <1>12 DEF CallFails, Shapes, OnlyAt
    <2>3. UNCHANGED <<line, at, found, exit, request, ran, before, since>>
      BY <1>12 DEF CallFails, clientVars
    <2>4. QED BY <1>a, <2>1, <2>2, <2>3 DEF Shapes, OnlyAt
  <1> QED BY <1>1, <1>2, <1>3, <1>4, <1>5, <1>6, <1>7, <1>8, <1>9, <1>10, <1>11, <1>12 DEF Serves

\* A step of one process leaves the others where they are.
LEMMA OthersStay ==
  ASSUME Shapes, NEW p \in Processes, Step(p)
  PROVE  Shapes' /\ \A q \in Processes \ {p} : Same(q)
  <1>1. CASE Begin(p)
    <2>1. Moves(p) /\ OnlyAt(line, line', p)
      BY <1>1, BeginMoves DEF Begin, Shapes, OnlyAt
    <2>2. UNCHANGED <<found, ran, todo, got, before, since>>
      BY <1>1 DEF Begin, listingVars
    <2>3. QED BY <2>1, <2>2, MovesEffect DEF Shapes, Same, OnlyAt
  <1>2. CASE Continue(p)
    <2>1. Moves(p) /\ OnlyAt(found, found', p)
      BY <1>2, ContinueMoves DEF Continue, RunFinds, RunCreates, RunAttaches, Act, Finish, Fail, Shapes, OnlyAt
    <2>2. UNCHANGED <<line, ran, todo, got, before, since>>
      BY <1>2 DEF Continue, listingVars
    <2>3. QED BY <2>1, <2>2, MovesEffect DEF Shapes, Same, OnlyAt
  <1>3. CASE Serves(p)
    BY <1>3, ServesEffect DEF Shapes, Same, OnlyAt
  <1> QED BY <1>1, <1>2, <1>3 DEF Step
-----------------------------------------------------------------------------
(***************************************************************************)
(* The store and the runtime.                                              *)
(***************************************************************************)
\* One entry more.
LEMMA OverIs ==
  ASSUME NEW f, NEW g
  PROVE  /\ DOMAIN Over(f, g) = DOMAIN f \cup DOMAIN g
         /\ \A k \in DOMAIN f : Over(f, g)[k] = f[k]
         /\ \A k \in DOMAIN g \ DOMAIN f : Over(f, g)[k] = g[k]
  BY DEF Over

\* A spec that is given its time is the same but for that.
LEMMA DatedIs ==
  ASSUME NEW s, IsSpec(s), NEW now \in Times
  PROVE  LET t == [s EXCEPT !.createdAt = now]
         IN  /\ IsSpec(t) /\ t.name = s.name /\ t.createdAt = now
             /\ Primary(t) = Primary(s) /\ Validate(t) = Validate(s)
             /\ \A e : CreateInvocation(t, e) = CreateInvocation(s, e)
  <1> DEFINE t == [name |-> s.name, agent |-> s.agent, image |-> s.image, workspaces |-> s.workspaces,
                   cpus |-> s.cpus, memory |-> s.memory, env |-> s.env, ports |-> s.ports,
                   createdAt |-> now]
  <1>1. [s EXCEPT !.createdAt = now] = t
    BY DEF IsSpec
  <1>2. s.workspaces \in Seq(Workspaces) /\ s.ports \in Seq(Ports)
    BY DEF IsSpec
  <1>3. IsSpec(t)
    BY <1>2 DEF IsSpec
  <1>4. /\ t.name = s.name /\ t.agent = s.agent /\ t.image = s.image /\ t.workspaces = s.workspaces
        /\ t.cpus = s.cpus /\ t.memory = s.memory /\ t.env = s.env /\ t.ports = s.ports /\ t.createdAt = now
    OBVIOUS
  <1> HIDE DEF t
  <1>5. Primary(t) = Primary(s)
    BY <1>4 DEF Primary
  <1>6. Validate(t) = Validate(s)
    BY <1>4 DEF Validate, validateResources
  <1>7. \A e : CreateInvocation(t, e) = CreateInvocation(s, e)
    BY <1>4, <1>5 DEF CreateInvocation
  <1> QED BY <1>1, <1>3, <1>4, <1>5, <1>6, <1>7

\* A sandbox that is new is one, whatever its status.
Fresh(spec, status) ==
  [spec |-> spec, state |-> [status |-> status, containerId |-> spec.name, startedAt |-> ZeroTime, exitCode |-> 0]]

\* Its spec is the one it was made with.
LEMMA FreshIs ==
  ASSUME NEW spec, IsSpec(spec), NEW status
  PROVE  IsSandbox(Fresh(spec, status)) /\ Fresh(spec, status).spec = spec
  <1> DEFINE st == [status |-> status, containerId |-> spec.name, startedAt |-> ZeroTime, exitCode |-> 0]
  <1>1. ZeroTime \in Times /\ 0 \in Numbers
    BY HalfAssumption DEF Times, ZeroTime, Numbers, Fits
  <1>2. IsState(st)
    BY <1>1 DEF IsState
  <1>3. Fresh(spec, status) = [spec |-> spec, state |-> st]
    BY DEF Fresh
  <1> HIDE DEF st
  <1> QED BY <1>2, <1>3 DEF IsSandbox

\* A sandbox that is made has the spec it was asked to have, but for its time.
LEMMA NewSandboxIs ==
  ASSUME NEW s, IsSpec(s), births \in Nat
  PROVE  /\ IsSandbox(NewSandbox(s))
         /\ NewSandbox(s).spec.name = s.name
         /\ NewSandbox(s).spec.createdAt.at = births + 1
         /\ Primary(NewSandbox(s).spec) = Primary(s)
         /\ Validate(NewSandbox(s).spec) = Validate(s)
         /\ \A e : CreateInvocation(NewSandbox(s).spec, e) = CreateInvocation(s, e)
  <1> DEFINE now == [at |-> births + 1, zone |-> UTC]
             t == [s EXCEPT !.createdAt = now]
  <1>1. now \in Times /\ now.at = births + 1
    BY DEF Times
  <1> HIDE DEF now
  <1>2. /\ IsSpec(t) /\ t.name = s.name /\ t.createdAt = now
        /\ Primary(t) = Primary(s) /\ Validate(t) = Validate(s)
        /\ \A e : CreateInvocation(t, e) = CreateInvocation(s, e)
    BY <1>1, DatedIs
  <1>3. NewSandbox(s) = [spec |-> t, state |-> [status |-> "created", containerId |-> s.name,
                                                startedAt |-> ZeroTime, exitCode |-> 0]]
    BY DEF NewSandbox, now
  <1> HIDE DEF t
  <1>4. NewSandbox(s) = Fresh(t, "created")
    BY <1>2, <1>3 DEF Fresh
  <1> QED BY <1>1, <1>2, <1>4, FreshIs

\* One that is started or stopped, or observed, keeps its spec.
LEMMA RestatusIs ==
  ASSUME NEW sb, IsSandbox(sb), NEW status
  PROVE  /\ IsSandbox([sb EXCEPT !.state.status = status])
         /\ [sb EXCEPT !.state.status = status].spec = sb.spec
  <1> DEFINE st == [status |-> status, containerId |-> sb.state.containerId,
                    startedAt |-> sb.state.startedAt, exitCode |-> sb.state.exitCode]
  <1>1. [sb.state EXCEPT !.status = status] = st
    BY DEF IsSandbox, IsState
  <1>2. IsState(st)
    BY DEF IsSandbox, IsState
  <1>3. [sb EXCEPT !.state.status = status] = [spec |-> sb.spec, state |-> st]
    BY <1>1 DEF IsSandbox
  <1> HIDE DEF st
  <1> QED BY <1>2, <1>3 DEF IsSandbox

RecordOK(n) ==
  /\ IsSandbox(records[n]) /\ records[n].spec.name = n /\ Validate(records[n].spec)
  /\ records[n].spec.createdAt.at \in 1..births

\* A container was made by a command line that could, as that asks for.
BoxOK(n) ==
  LET l == boxes[n].asked
  IN  /\ boxes[n] = [config |-> boxes[n].config, status |-> boxes[n].status, asked |-> l]
      /\ l \in Lines \cup Priors /\ Creates(l) /\ Validate(specOf(l)) /\ specOf(l).name = n
      /\ boxes[n].config = CreateInvocation(specOf(l), Egress)

StoreInv ==
  /\ DOMAIN records \subseteq ValidNames /\ DOMAIN boxes = DOMAIN records
  /\ births \in Nat
  /\ \A n \in DOMAIN records : RecordOK(n) /\ BoxOK(n)

\* What a process that asks for a sandbox asks for.
AsksAsToldTo(p) ==
  at[p] = "Create" => /\ line[p] \in Lines /\ Creates(line[p])
                      /\ request[p] = CreateRequest(specOf(line[p]))

\* The spec that the service is asked for is that of the command line.
LEMMA RequestedSpecIs ==
  ASSUME NEW l \in Lines \cup Priors, Creates(l)
  PROVE  ApiSpec(CreateRequest(specOf(l)).spec) = specOf(l) /\ IsSpec(specOf(l))
  BY SpecIs, SpecSurvives DEF CreateRequest

\* What Create does: it refuses, or it makes the sandbox that the command line asks for.
Box(l) == [config |-> CreateInvocation(specOf(l), Egress), status |-> "created", asked |-> l]
Refuses(p) ==
  /\ UNCHANGED <<serviceVars, since>>
  /\ \E code \in {"Unknown", "AlreadyExists"} : Reply(p, [code |-> code])
Makes(p, l, sb) ==
  /\ l \in Lines /\ Creates(l) /\ MayCreate(specOf(l)) /\ sb = NewSandbox(specOf(l)) /\ births' = births + 1
  /\ DOMAIN records' = DOMAIN records \cup {specOf(l).name}
  /\ DOMAIN boxes' = DOMAIN boxes \cup {specOf(l).name}
  /\ records'[specOf(l).name] = sb /\ boxes'[specOf(l).name] = Box(l)
  /\ \A n \in DOMAIN records : records'[n] = records[n] /\ boxes'[n] = boxes[n]
  /\ Created(sb) /\ Reply(p, [code |-> "OK", sandbox |-> ProtoSandbox(sb)])

\* Create does one or the other, for the spec of the command line.
LEMMA CreateEffect ==
  ASSUME StoreInv, NEW p \in Processes, AsksAsToldTo(p), Create(p)
  PROVE  Refuses(p) \/ \E sb : Makes(p, line[p], sb)
  <1> DEFINE spec == specOf(line[p])
             sb == NewSandbox(spec)
             box == Box(line[p])
  <1>1. at[p] = "Create"
    BY DEF Create, Serving
  <1>2. line[p] \in Lines /\ Creates(line[p]) /\ request[p] = CreateRequest(spec)
    BY <1>1 DEF AsksAsToldTo
  <1>3. ApiSpec(request[p].spec) = spec /\ IsSpec(spec)
    BY <1>2, RequestedSpecIs
  <1>4. CreateInvocation(sb.spec, Egress) = CreateInvocation(spec, Egress)
    BY <1>3, NewSandboxIs DEF StoreInv
  <1>5. CASE ~MayCreate(spec)
    <2> HIDE DEF spec
    <2>1. /\ UNCHANGED <<serviceVars, since>>
          /\ Reply(p, Failure(IF Validate(spec) THEN {"ErrExists"} ELSE {}))
      BY <1>3, <1>5 DEF Create
    <2>2. Failure({"ErrExists"}) = [code |-> "AlreadyExists"] /\ Failure({}) = [code |-> "Unknown"]
      BY CodesAre DEF Failure
    <2>3. QED BY <2>1, <2>2 DEF Refuses
  <1>6. CASE MayCreate(spec)
    <2> DEFINE r == [n \in {spec.name} |-> sb]
               b == [n \in {spec.name} |-> box]
    <2>1. box = [config |-> CreateInvocation(sb.spec, Egress), status |-> "created", asked |-> line[p]]
      BY <1>4 DEF Box
    <2> HIDE DEF spec, sb, box
    <2>2. /\ births' = births + 1 /\ records' = Over(r, records) /\ boxes' = Over(b, boxes)
          /\ Created(sb) /\ Reply(p, [code |-> "OK", sandbox |-> ProtoSandbox(sb)])
      BY <1>3, <1>6, <2>1 DEF Create, sb
    <2>3. spec.name \notin DOMAIN records /\ DOMAIN boxes = DOMAIN records
      BY <1>6 DEF MayCreate, StoreInv
    <2>4. DOMAIN r = {spec.name} /\ r[spec.name] = sb /\ DOMAIN b = {spec.name} /\ b[spec.name] = box
      OBVIOUS
    <2> HIDE DEF r, b
    <2>5. /\ DOMAIN records' = DOMAIN records \cup {spec.name}
          /\ records'[spec.name] = sb /\ \A n \in DOMAIN records : records'[n] = records[n]
      <3>1. /\ DOMAIN Over(r, records) = DOMAIN r \cup DOMAIN records
            /\ \A k \in DOMAIN r : Over(r, records)[k] = r[k]
            /\ \A k \in DOMAIN records \ DOMAIN r : Over(r, records)[k] = records[k]
        BY OverIs
      <3>2. QED BY <2>2, <2>3, <2>4, <3>1
    <2>6. /\ DOMAIN boxes' = DOMAIN boxes \cup {spec.name}
          /\ boxes'[spec.name] = box /\ \A n \in DOMAIN boxes : boxes'[n] = boxes[n]
      <3>1. /\ DOMAIN Over(b, boxes) = DOMAIN b \cup DOMAIN boxes
            /\ \A k \in DOMAIN b : Over(b, boxes)[k] = b[k]
            /\ \A k \in DOMAIN boxes \ DOMAIN b : Over(b, boxes)[k] = boxes[k]
        BY OverIs
      <3>2. QED BY <2>2, <2>3, <2>4, <3>1
    <2> DEFINE made == Makes(p, line[p], sb)
    <2>7. made
      <3>1. \A n \in DOMAIN records : records'[n] = records[n] /\ boxes'[n] = boxes[n]
        BY <2>3, <2>5, <2>6
      <3>2. /\ line[p] \in Lines /\ Creates(line[p]) /\ MayCreate(specOf(line[p]))
            /\ DOMAIN records' = DOMAIN records \cup {specOf(line[p]).name}
            /\ DOMAIN boxes' = DOMAIN boxes \cup {specOf(line[p]).name}
            /\ records'[specOf(line[p]).name] = sb /\ boxes'[specOf(line[p]).name] = Box(line[p])
        BY <1>2, <1>6, <2>5, <2>6 DEF spec, box
      <3>3. sb = NewSandbox(specOf(line[p]))
        BY DEF sb, spec
      <3>4. QED BY <2>2, <3>1, <3>2, <3>3 DEF Makes
    <2>8. QED BY <2>7
  <1> QED BY <1>5, <1>6

\* Every other step of the daemon's, or of a command's, leaves the store alone.
LEMMA StoreStays ==
  ASSUME NEW p, Step(p), ~Create(p), ~Start(p), ~Stop(p), ~Remove(p)
  PROVE  UNCHANGED serviceVars
  BY DEF Step, Serves, Begin, Continue, Exec, Copy, FindByName, ReadDir, Get, Matched, Observe,
         Observed, CallFails

\* The store stays sound, whatever step is taken.
LEMMA StoreStep ==
  ASSUME StoreInv, NEW p \in Processes, AsksAsToldTo(p), Step(p)
  PROVE  StoreInv'
  <1>1. CASE UNCHANGED serviceVars
    BY <1>1 DEF StoreInv, RecordOK, BoxOK, serviceVars
  <1>2. CASE Create(p) /\ ~UNCHANGED serviceVars
    <2>a. PICK l : l = line[p]
      OBVIOUS
    <2>b. PICK sb : Makes(p, l, sb)
      BY <1>2, <2>a, CreateEffect DEF Refuses
    <2> DEFINE spec == specOf(l)
               name == spec.name
    <2>1. /\ l \in Lines /\ Creates(l) /\ MayCreate(spec) /\ sb = NewSandbox(spec) /\ births' = births + 1
          /\ DOMAIN records' = DOMAIN records \cup {name}
          /\ DOMAIN boxes' = DOMAIN boxes \cup {name}
          /\ records'[name] = sb /\ boxes'[name] = Box(l)
          /\ \A n \in DOMAIN records : records'[n] = records[n] /\ boxes'[n] = boxes[n]
      BY <2>b DEF Makes
    <2>2. Validate(spec) /\ name \in ValidNames
      BY <2>1 DEF MayCreate, Validate, ValidName
    <2>3. IsSpec(spec) /\ births \in Nat
      BY <2>1, SpecIs DEF StoreInv
    <2> HIDE DEF spec
    <2>4. /\ IsSandbox(sb) /\ sb.spec.name = name /\ sb.spec.createdAt.at = births + 1
          /\ Validate(sb.spec)
      BY <2>1, <2>2, <2>3, NewSandboxIs
    <2> HIDE DEF name
    <2>5. RecordOK(name)'
      BY <2>1, <2>3, <2>4 DEF RecordOK
    <2>9. BoxOK(name)'
      <3>1. boxes'[name] = Box(l)
        BY <2>1
      <3>2. /\ boxes'[name].asked = l /\ boxes'[name].config = CreateInvocation(spec, Egress)
            /\ boxes'[name] = [config |-> boxes'[name].config, status |-> boxes'[name].status, asked |-> l]
        BY <3>1 DEF Box, spec
      <3>3. l \in Lines \cup Priors /\ Creates(l) /\ Validate(specOf(l)) /\ specOf(l).name = name
        BY <2>1, <2>2 DEF spec, name
      <3>4. QED BY <3>2, <3>3 DEF BoxOK, spec
    <2>6. ASSUME NEW n \in DOMAIN records PROVE RecordOK(n)' /\ BoxOK(n)'
      <3>1. RecordOK(n) /\ BoxOK(n) /\ records'[n] = records[n] /\ boxes'[n] = boxes[n]
        BY <2>1 DEF StoreInv
      <3>2. births' \in Nat /\ 1..births \subseteq 1..births'
        BY <2>1 DEF StoreInv
      <3>3. RecordOK(n)'
        BY <3>1, <3>2 DEF RecordOK
      <3>4. BoxOK(n)'
        BY <3>1 DEF BoxOK
      <3>5. QED BY <3>3, <3>4
    <2>7. \A n \in DOMAIN records' : RecordOK(n)' /\ BoxOK(n)'
      BY <2>1, <2>5, <2>9, <2>6
    <2>8. births' \in Nat /\ DOMAIN records' \subseteq ValidNames /\ DOMAIN boxes' = DOMAIN records'
      BY <2>1, <2>2 DEF StoreInv
    <2> HIDE DEF Makes
    <2>10. QED BY <2>7, <2>8 DEF StoreInv
  <1>3. CASE (Start(p) \/ Stop(p)) /\ ~UNCHANGED serviceVars
    <2>1. PICK which, status : Boot(p, which, status)
      BY <1>3 DEF Start, Stop
    <2> DEFINE name == ApiRef(request[p].ref).name
    <2>2. /\ name \in DOMAIN records /\ births' = births
          /\ boxes' = [boxes EXCEPT ![name].status = status]
          /\ records' = [records EXCEPT ![name].state.status = status]
      BY <1>3, <2>1 DEF Boot, serviceVars
    <2> HIDE DEF name
    <2>3. ASSUME NEW n \in DOMAIN records PROVE RecordOK(n)' /\ BoxOK(n)'
      <3>1. RecordOK(n) /\ BoxOK(n) /\ n \in DOMAIN boxes
        BY DEF StoreInv
      <3>2. CASE n # name
        <4>1. records'[n] = records[n] /\ boxes'[n] = boxes[n]
          BY <2>2, <3>1, <3>2
        <4>2. RecordOK(n)'
          BY <2>2, <3>1, <4>1 DEF RecordOK
        <4>3. BoxOK(n)'
          BY <3>1, <4>1 DEF BoxOK
        <4>4. QED BY <4>2, <4>3
      <3>3. CASE n = name
        <4>1. records'[n] = [records[n] EXCEPT !.state.status = status]
          BY <2>2, <3>3
        <4>2. IsSandbox(records'[n]) /\ records'[n].spec = records[n].spec
          BY <3>1, <4>1, RestatusIs DEF RecordOK
        <4>3. RecordOK(n)'
          BY <2>2, <3>1, <4>2 DEF RecordOK
        <4>4. boxes'[n] = [config |-> boxes[n].config, status |-> status, asked |-> boxes[n].asked]
          <5>1. boxes'[n] = [boxes[n] EXCEPT !.status = status]
            BY <2>2, <3>1, <3>3
          <5>2. boxes[n] = [config |-> boxes[n].config, status |-> boxes[n].status, asked |-> boxes[n].asked]
            BY <3>1 DEF BoxOK
          <5>3. QED BY <5>1, <5>2
        <4>5. BoxOK(n)'
          BY <3>1, <4>4 DEF BoxOK
        <4>6. QED BY <4>3, <4>5
      <3>4. QED BY <3>2, <3>3
    <2>4. DOMAIN records' = DOMAIN records /\ DOMAIN boxes' = DOMAIN boxes
      BY <2>2
    <2>5. QED BY <2>2, <2>3, <2>4 DEF StoreInv
  <1>4. CASE Remove(p) /\ ~UNCHANGED serviceVars
    <2> DEFINE name == ApiRef(request[p].ref).name
    <2>1. records' = Without(records, name) /\ boxes' = Without(boxes, name) /\ births' = births
      BY <1>4 DEF Remove, serviceVars
    <2> HIDE DEF name
    <2>2. /\ DOMAIN records' = DOMAIN records \ {name} /\ DOMAIN boxes' = DOMAIN boxes \ {name}
          /\ \A n \in DOMAIN records' : records'[n] = records[n]
          /\ \A n \in DOMAIN boxes' : boxes'[n] = boxes[n]
      BY <2>1 DEF Without
    <2>3. ASSUME NEW n \in DOMAIN records' PROVE RecordOK(n)' /\ BoxOK(n)'
      <3>1. RecordOK(n) /\ BoxOK(n) /\ records'[n] = records[n] /\ boxes'[n] = boxes[n]
        BY <2>2 DEF StoreInv
      <3>2. RecordOK(n)'
        BY <2>1, <3>1 DEF RecordOK
      <3>3. BoxOK(n)'
        BY <3>1 DEF BoxOK
      <3>4. QED BY <3>2, <3>3
    <2>4. QED BY <2>1, <2>2, <2>3 DEF StoreInv
  <1> QED BY <1>1, <1>2, <1>3, <1>4, StoreStays
-----------------------------------------------------------------------------
(***************************************************************************)
(* What a command is at.                                                   *)
(***************************************************************************)
CallNames == {"Inspect", "Create", "Start", "Stop", "Remove", "Exec", "Copy", "List"}
Waiting == {"call", "reading", "observing"}
Statuses == ExitCodes \cup {0, 1}

\* Where a command is, and that its call asks for what its command line says.
PlaceOK(p) ==
  /\ pc[p] \in Waiting \cup {"idle", "answered", "done"} /\ at[p] \in CallNames \cup {"none"}
  /\ exit[p] \in Statuses /\ reply[p].code \in Code
  /\ pc[p] \in {"idle", "done"} <=> at[p] = "none"
  /\ pc[p] = "idle" => ran[p] = NoSandbox /\ line[p] = <<>>
  /\ pc[p] # "idle" => line[p] \in Lines
  /\ pc[p] \in Waiting => Ok(p)
  /\ pc[p] \in {"reading", "observing"} => at[p] \in {"Inspect", "List"}
  /\ at[p] = "Exec" /\ pc[p] = "answered" /\ Ok(p) => reply[p].exitCode \in Statuses

\* A look for the sandbox of a run asks for what its command line stands for.
LooksAsToldTo(p) ==
  /\ at[p] = "Inspect" /\ line[p].cmd = "run" =>
       runRef(line[p]) # Rejected /\ request[p] = RefRequest(runRef(line[p]))
  /\ at[p] = "List" => line[p].cmd = "ls"

Control(p) == PlaceOK(p) /\ AsksAsToldTo(p) /\ LooksAsToldTo(p)

\* A command that calls asks for what it was told to, if the message says so.
LEMMA CallKeeps ==
  ASSUME Shapes, NEW p \in Processes, Control(p), NEW which \in CallNames, NEW message, Call(p, which, message),
         line'[p] \in Lines,
         which = "Create" => Creates(line'[p]) /\ message = CreateRequest(specOf(line'[p])),
         which = "Inspect" /\ line'[p].cmd = "run" =>
           runRef(line'[p]) # Rejected /\ message = RefRequest(runRef(line'[p])),
         which = "List" => line'[p].cmd = "ls"
  PROVE  Control(p)'
  <1>1. /\ at'[p] = which /\ pc'[p] = "call" /\ request'[p] = message /\ reply'[p] = NoReply /\ exit'[p] = exit[p]
    BY CallEffect
  <1>2. NoReply.code = "OK" /\ "OK" \in Code
    BY DEF NoReply, Code
  <1>3. which # "none"
    BY DEF CallNames
  <1>4. PlaceOK(p)'
    BY <1>1, <1>2, <1>3 DEF Control, PlaceOK, Waiting, Statuses, Ok
  <1>5. AsksAsToldTo(p)' /\ LooksAsToldTo(p)'
    BY <1>1 DEF AsksAsToldTo, LooksAsToldTo
  <1> QED BY <1>4, <1>5 DEF Control

\* One that ends asks for nothing more.
LEMMA QuitKeeps ==
  ASSUME Shapes, NEW p \in Processes, Control(p), NEW status \in Statuses, Quit(p, status), line'[p] \in Lines
  PROVE  Control(p)'
  <1>1. /\ at'[p] = "none" /\ pc'[p] = "done" /\ reply'[p] = reply[p] /\ exit'[p] = status
    BY QuitEffect
  <1>2. PlaceOK(p)'
    BY <1>1 DEF Control, PlaceOK, Waiting, Statuses
  <1>3. AsksAsToldTo(p)' /\ LooksAsToldTo(p)'
    BY <1>1 DEF AsksAsToldTo, LooksAsToldTo
  <1> QED BY <1>2, <1>3 DEF Control

\* One that is answered still asked for it,
LEMMA ReplyKeeps ==
  ASSUME Shapes, NEW p \in Processes, Control(p), NEW message, Reply(p, message),
         at[p] # "none", message.code \in Code,
         at[p] = "Exec" /\ message.code = "OK" => message.exitCode \in Statuses,
         line' = line, at' = at, request' = request, exit' = exit
  PROVE  Control(p)'
  <1>1. /\ pc'[p] = "answered" /\ reply'[p] = message
    BY ReplyEffect
  <1>2. PlaceOK(p)'
    BY <1>1 DEF Control, PlaceOK, Waiting, Statuses, Ok
  <1>3. AsksAsToldTo(p)' /\ LooksAsToldTo(p)'
    BY <1>1 DEF Control, AsksAsToldTo, LooksAsToldTo
  <1> QED BY <1>2, <1>3 DEF Control

\* and so does one whose call goes on,
LEMMA WaitKeeps ==
  ASSUME Shapes, NEW p \in Processes, Control(p), pc[p] \in Waiting, at[p] \in {"Inspect", "List"},
         pc'[p] \in {"reading", "observing"},
         line' = line, at' = at, request' = request, exit' = exit, reply' = reply
  PROVE  Control(p)'
  <1>1. PlaceOK(p)'
    BY DEF Control, PlaceOK, Waiting, Statuses, Ok
  <1>2. AsksAsToldTo(p)' /\ LooksAsToldTo(p)'
    BY DEF Control, AsksAsToldTo, LooksAsToldTo
  <1> QED BY <1>1, <1>2 DEF Control

\* or one that takes no step.
LEMMA ControlStays ==
  ASSUME NEW p, Control(p), Same(p)
  PROVE  Control(p)'
  <1>1. PlaceOK(p)'
    BY DEF Control, PlaceOK, Same, Ok, Waiting, Statuses
  <1>2. AsksAsToldTo(p)' /\ LooksAsToldTo(p)'
    BY DEF Control, AsksAsToldTo, LooksAsToldTo, Same
  <1> QED BY <1>1, <1>2 DEF Control

\* A command that calls or ends, likewise.
LEMMA CallOrQuitKeeps ==
  ASSUME Shapes, NEW p \in Processes, Control(p), NEW which \in CallNames, NEW argument, NEW message,
         CallOrQuit(p, which, argument, message), line'[p] \in Lines,
         which = "Create" /\ argument # Rejected => Creates(line'[p]) /\ message = CreateRequest(specOf(line'[p])),
         which = "Inspect" /\ argument # Rejected /\ line'[p].cmd = "run" =>
           runRef(line'[p]) # Rejected /\ message = RefRequest(runRef(line'[p])),
         which # "List"
  PROVE  Control(p)'
  <1>1. CASE argument = Rejected
    <2>1. Quit(p, 1) /\ 1 \in Statuses
      BY <1>1 DEF CallOrQuit, Statuses
    <2>2. QED BY <2>1, QuitKeeps
  <1>2. CASE argument # Rejected
    <2>1. Call(p, which, message)
      BY <1>2 DEF CallOrQuit
    <2>2. QED BY <1>2, <2>1, CallKeeps
  <1> QED BY <1>1, <1>2

\* What a command begins with is what its command line says;
LEMMA BeginControl ==
  ASSUME Shapes, NEW p \in Processes, Control(p), Begin(p)
  PROVE  Control(p)'
  <1>1. PICK l \in Lines :
          /\ \/ BeginRun(p, l) \/ BeginCreate(p, l) \/ BeginAct(p, l)
             \/ BeginExec(p, l) \/ BeginCopy(p, l) \/ BeginList(p, l)
          /\ line' = [line EXCEPT ![p] = l]
    BY DEF Begin
  <1>2. line'[p] = l
    BY <1>1 DEF Shapes
  <1>3. CASE BeginRun(p, l)
    <2> DEFINE ref == runRef(l)
               message == IF ref = Rejected THEN <<>> ELSE RefRequest(ref)
    <2>1. CallOrQuit(p, "Inspect", ref, message)
      BY <1>3 DEF BeginRun
    <2>2. ref # Rejected => message = RefRequest(ref)
      OBVIOUS
    <2>3. "Inspect" \in CallNames
      BY DEF CallNames
    <2> HIDE DEF message
    <2>4. QED BY <1>2, <2>1, <2>2, <2>3, CallOrQuitKeeps
  <1>4. CASE BeginCreate(p, l)
    <2> DEFINE spec == specOf(l)
               message == IF spec = Rejected THEN <<>> ELSE CreateRequest(spec)
    <2>1. CallOrQuit(p, "Create", spec, message) /\ l.cmd = "create"
      BY <1>4 DEF BeginCreate
    <2>2. spec # Rejected => message = CreateRequest(spec) /\ Creates(l)
      BY <2>1 DEF Creates
    <2>3. "Create" \in CallNames
      BY DEF CallNames
    <2> HIDE DEF message
    <2>4. QED BY <1>2, <2>1, <2>2, <2>3, CallOrQuitKeeps
  <1>5. CASE BeginAct(p, l)
    <2>1. Call(p, "Inspect", RefRequest(refArg(l))) /\ l.cmd # "run"
      BY <1>5 DEF BeginAct
    <2>2. "Inspect" \in CallNames
      BY DEF CallNames
    <2>3. QED BY <1>2, <2>1, <2>2, CallKeeps
  <1>6. CASE BeginExec(p, l)
    <2>1. PICK env, message : CallOrQuit(p, "Exec", env, message)
      BY <1>6 DEF BeginExec
    <2>2. "Exec" \in CallNames
      BY DEF CallNames
    <2>3. QED BY <1>2, <2>1, <2>2, CallOrQuitKeeps
  <1>7. CASE BeginCopy(p, l)
    <2>1. PICK message : Call(p, "Copy", message)
      BY <1>7 DEF BeginCopy
    <2>2. "Copy" \in CallNames
      BY DEF CallNames
    <2>3. QED BY <1>2, <2>1, <2>2, CallKeeps
  <1>8. CASE BeginList(p, l)
    <2>1. Call(p, "List", <<>>) /\ l.cmd = "ls"
      BY <1>8 DEF BeginList
    <2>2. "List" \in CallNames
      BY DEF CallNames
    <2>3. QED BY <1>2, <2>1, <2>2, CallKeeps
  <1> QED BY <1>1, <1>3, <1>4, <1>5, <1>6, <1>7, <1>8

\* so is what it goes on with,
LEMMA ContinueControl ==
  ASSUME Shapes, NEW p \in Processes, Control(p), Continue(p)
  PROVE  Control(p)'
  <1>0. {"Create", "Start", "Stop", "Remove", "Exec"} \subseteq CallNames
    BY DEF CallNames
  <1>1. line' = line /\ pc[p] = "answered"
    BY DEF Continue, RunFinds, RunCreates, RunAttaches, Act, Finish, Fail, Answered
  <1>2. line'[p] \in Lines
    BY <1>1 DEF Control, PlaceOK
  <1>3. ASSUME NEW sb, Attach(p, sb) PROVE Control(p)'
    <2>1. PICK req, message : CallOrQuit(p, "Exec", req, message)
      BY <1>3 DEF Attach
    <2>2. QED BY <1>0, <1>2, <2>1, CallOrQuitKeeps
  <1>4. ASSUME NEW which \in {"Start", "Stop", "Remove"}, NEW message, Call(p, which, message) PROVE Control(p)'
    BY <1>0, <1>2, <1>4, CallKeeps
  <1>5. CASE RunFinds(p)
    <2> DEFINE sb == ApiSandbox(reply[p].sandbox)
    <2>1. Attach(p, sb) \/ Call(p, "Start", RefRequest(ByName(sb.spec.name)))
      BY <1>5 DEF RunFinds
    <2>2. QED BY <1>3, <1>4, <2>1
  <1>6. CASE RunCreates(p)
    <2> DEFINE spec == specOf(line[p])
               message == IF spec = Rejected THEN <<>> ELSE CreateRequest(spec)
    <2>1. CallOrQuit(p, "Create", spec, message) /\ line[p].cmd = "run"
      BY <1>6 DEF RunCreates
    <2>2. spec # Rejected => message = CreateRequest(spec) /\ Creates(line[p])
      BY <2>1 DEF Creates
    <2> HIDE DEF message
    <2>3. QED BY <1>0, <1>1, <1>2, <2>1, <2>2, CallOrQuitKeeps
  <1>7. CASE RunAttaches(p)
    BY <1>3, <1>7 DEF RunAttaches
  <1>8. CASE Act(p)
    <2>1. PICK which \in {"Start", "Stop", "Remove"} : \E message : Call(p, which, message)
      BY <1>8 DEF Act
    <2>2. QED BY <1>4, <2>1
  <1>9. CASE Finish(p)
    <2>1. \/ at[p] = "Exec" /\ Quit(p, reply[p].exitCode)
          \/ Quit(p, 0)
      BY <1>9 DEF Finish
    <2>2. at[p] = "Exec" => reply[p].exitCode \in Statuses
      BY <1>9 DEF Finish, Control, PlaceOK
    <2>3. 0 \in Statuses
      BY DEF Statuses
    <2>4. QED BY <1>2, <2>1, <2>2, <2>3, QuitKeeps
  <1>10. CASE Fail(p)
    <2>1. Quit(p, 1) /\ 1 \in Statuses
      BY <1>10 DEF Fail, Statuses
    <2>2. QED BY <1>2, <2>1, QuitKeeps
  <1> QED BY <1>5, <1>6, <1>7, <1>8, <1>9, <1>10 DEF Continue

\* and no answer changes what was asked.
LEMMA ServesControl ==
  ASSUME Shapes, StoreInv, NEW p \in Processes, Control(p), Serves(p)
  PROVE  Control(p)'
  <1>0. /\ {"OK", "Unknown", "NotFound", "AlreadyExists", "FailedPrecondition", "Unavailable"} \subseteq Code
        /\ NoReply.code = "OK"
    BY DEF Code, NoReply
  <1>1. /\ Failure({}) = [code |-> "Unknown"] /\ Failure({"ErrNotFound"}) = [code |-> "NotFound"]
        /\ Failure({"ErrExists"}) = [code |-> "AlreadyExists"]
        /\ Failure({"ErrRunning"}) = [code |-> "FailedPrecondition"]
    BY CodesAre DEF Failure
  <1>2. line' = line /\ at' = at /\ request' = request /\ exit' = exit
    BY ServesEffect
  <1>3. at[p] # "none"
    BY DEF Serves, Create, Start, Stop, Boot, Remove, Exec, Copy, FindByName, ReadDir, Get, Matched, Observe,
           Observed, CallFails, Serving, Control, PlaceOK
  <1> DEFINE Fails == \E code \in Code \ {"OK"} : Reply(p, [code |-> code])
  <1>4. ASSUME Fails PROVE Control(p)'
    <2>1. PICK code \in Code \ {"OK"} : Reply(p, [code |-> code])
      BY <1>4
    <2>2. [code |-> code].code = code
      OBVIOUS
    <2>3. QED BY <1>2, <1>3, <2>1, <2>2, ReplyKeeps
  <1>5. ASSUME NEW message, message.code = "OK", Reply(p, message), at[p] # "Exec" PROVE Control(p)'
    BY <1>0, <1>2, <1>3, <1>5, ReplyKeeps
  <1>6. ASSUME pc[p] \in Waiting, at[p] \in {"Inspect", "List"}, reply' = reply, pc'[p] \in {"reading", "observing"}
        PROVE  Control(p)'
    BY <1>2, <1>6, WaitKeeps
  <1>7. CASE Create(p)
    <2>1. CASE Refuses(p)
      <3>1. Fails
        BY <1>0, <2>1 DEF Refuses
      <3>2. QED BY <1>4, <3>1
    <2>2. CASE \E sb : Makes(p, line[p], sb)
      <3>1. PICK sb : Reply(p, [code |-> "OK", sandbox |-> ProtoSandbox(sb)])
        BY <2>2 DEF Makes
      <3>2. at[p] # "Exec"
        BY <1>7 DEF Create, Serving
      <3>3. [code |-> "OK", sandbox |-> ProtoSandbox(sb)].code = "OK"
        OBVIOUS
      <3>4. QED BY <1>5, <3>1, <3>2, <3>3
    <2>3. QED BY <1>7, <2>1, <2>2, CreateEffect DEF Control
  <1>8. CASE Start(p) \/ Stop(p)
    <2>1. PICK which \in {"Start", "Stop"} : \E status : Boot(p, which, status)
      BY <1>8 DEF Start, Stop
    <2>2. (Reply(p, Failure({"ErrNotFound"})) \/ Reply(p, NoReply)) /\ at[p] # "Exec"
      BY <2>1 DEF Boot, Serving
    <2>3. Reply(p, Failure({"ErrNotFound"})) => Fails
      BY <1>0, <1>1
    <2>4. QED BY <1>0, <1>4, <1>5, <2>2, <2>3
  <1>9. CASE Remove(p)
    <2>1. /\ Reply(p, Failure({"ErrNotFound"})) \/ Reply(p, Failure({"ErrRunning"})) \/ Reply(p, NoReply)
          /\ at[p] # "Exec"
      BY <1>9 DEF Remove, Serving
    <2>2. Reply(p, Failure({"ErrNotFound"})) \/ Reply(p, Failure({"ErrRunning"})) => Fails
      BY <1>0, <1>1
    <2>3. QED BY <1>0, <1>4, <1>5, <2>1, <2>2
  <1>10. CASE Exec(p)
    <2>1. \/ Reply(p, Failure({"ErrNotFound"}))
          \/ \E code \in ExitCodes \cup {1} : Reply(p, [code |-> "OK", exitCode |-> code])
      <3>1. \A code \in ExitCodes : Int32(code) = code
        BY NumbersAssumption, NumberSurvives DEF Numbers, Fits
      <3>2. QED BY <1>10, <3>1 DEF Exec
    <2>2. CASE Reply(p, Failure({"ErrNotFound"}))
      <3>1. Fails
        BY <1>0, <1>1, <2>2
      <3>2. QED BY <1>4, <3>1
    <2>3. CASE \E code \in ExitCodes \cup {1} : Reply(p, [code |-> "OK", exitCode |-> code])
      <3>1. PICK code \in ExitCodes \cup {1} : Reply(p, [code |-> "OK", exitCode |-> code])
        BY <2>3
      <3>2. code \in Statuses
        BY DEF Statuses
      <3> DEFINE message == [code |-> "OK", exitCode |-> code]
      <3>3. message.code = "OK" /\ message.exitCode = code
        OBVIOUS
      <3>4. Reply(p, message)
        BY <3>1
      <3> HIDE DEF message
      <3>5. QED BY <1>0, <1>2, <1>3, <3>2, <3>3, <3>4, ReplyKeeps
    <2>4. QED BY <2>1, <2>2, <2>3
  <1>11. CASE Copy(p)
    <2>1. /\ Reply(p, Failure({})) \/ Reply(p, Failure({"ErrNotFound"})) \/ Reply(p, NoReply)
          /\ at[p] # "Exec"
      BY <1>11 DEF Copy, Serving
    <2>2. Reply(p, Failure({"ErrNotFound"})) \/ Reply(p, Failure({})) => Fails
      BY <1>0, <1>1
    <2>3. QED BY <1>0, <1>4, <1>5, <2>1, <2>2
  <1>12. CASE FindByName(p)
    <2>1. at[p] = "Inspect" /\ pc[p] \in Waiting
      BY <1>12 DEF FindByName, Serving, Waiting
    <2>2. \/ Reply(p, Failure({"ErrNotFound"}))
          \/ reply' = reply /\ pc'[p] = "observing"
      BY <1>12 DEF FindByName, Shapes
    <2>3. Reply(p, Failure({"ErrNotFound"})) => Fails
      BY <1>0, <1>1
    <2>4. QED BY <1>4, <1>6, <2>1, <2>2, <2>3
  <1>13. CASE ReadDir(p)
    <2>1. at[p] \in {"Inspect", "List"} /\ pc[p] \in Waiting /\ reply' = reply /\ pc'[p] = "reading"
      BY <1>13 DEF ReadDir, Serving, Waiting, Shapes
    <2>2. QED BY <1>6, <2>1
  <1>14. CASE Get(p)
    <2>1. pc[p] = "reading" /\ pc[p] \in Waiting /\ at[p] \in {"Inspect", "List"}
      BY <1>14 DEF Get, Waiting, Control, PlaceOK
    <2>2. \/ Reply(p, Failure({"ErrNotFound"})) \/ Reply(p, Failure({}))
          \/ pc' = pc /\ reply' = reply
      BY <1>14 DEF Get, Gone
    <2>3. Reply(p, Failure({"ErrNotFound"})) \/ Reply(p, Failure({})) => Fails
      BY <1>0, <1>1
    <2>4. QED BY <1>4, <1>6, <2>1, <2>2, <2>3
  <1>15. CASE Matched(p)
    <2>1. pc[p] = "reading" /\ pc[p] \in Waiting /\ at[p] \in {"Inspect", "List"}
      BY <1>15 DEF Matched, Waiting, Control, PlaceOK
    <2>2. \/ Reply(p, Failure({"ErrNotFound"}))
          \/ reply' = reply /\ pc'[p] = "observing"
      BY <1>15 DEF Matched, Shapes
    <2>3. Reply(p, Failure({"ErrNotFound"})) => Fails
      BY <1>0, <1>1
    <2>4. QED BY <1>4, <1>6, <2>1, <2>2, <2>3
  <1>16. CASE Observe(p)
    <2>1. /\ pc[p] = "observing" /\ pc[p] \in Waiting /\ at[p] \in {"Inspect", "List"}
          /\ pc' = pc /\ reply' = reply
      BY <1>16 DEF Observe, Waiting, Control, PlaceOK
    <2>2. QED BY <1>6, <2>1
  <1>17. CASE Observed(p)
    <2>1. at[p] \in {"Inspect", "List"}
      BY <1>17 DEF Observed, Control, PlaceOK
    <2>2. PICK message : Reply(p, message) /\ message.code = "OK"
      <3>1. CASE at[p] = "List"
        <4> DEFINE message == [code |-> "OK", sandboxes |-> [i \in DOMAIN got[p] |-> ProtoSandbox(got[p][i])]]
        <4>1. message.code = "OK" /\ Reply(p, message)
          BY <1>17, <3>1 DEF Observed
        <4>2. QED BY <4>1
      <3>2. CASE at[p] # "List"
        <4> DEFINE message == [code |-> "OK", sandbox |-> ProtoSandbox(got[p][1])]
        <4>1. message.code = "OK" /\ Reply(p, message)
          BY <1>17, <3>2 DEF Observed
        <4>2. QED BY <4>1
      <3>3. QED BY <3>1, <3>2
    <2>3. QED BY <1>5, <2>1, <2>2
  <1>18. CASE CallFails(p)
    <2>1. Reply(p, Failure({})) \/ Reply(p, [code |-> "Unavailable"])
      BY <1>18 DEF CallFails
    <2>2. Fails
      BY <1>0, <1>1, <2>1
    <2>3. QED BY <1>4, <2>2
  <1> QED BY <1>7, <1>8, <1>9, <1>10, <1>11, <1>12, <1>13, <1>14, <1>15, <1>16, <1>17, <1>18 DEF Serves
-----------------------------------------------------------------------------
(***************************************************************************)
(* The first invariant, type correctness, and what containers are.         *)
(***************************************************************************)
\* A function of processes stays one when a step changes it where its process is.
Map(f) == f = [p \in Processes |-> f[p]]
Maps == Map(at) /\ Map(pc) /\ Map(exit)

\* EXCEPT at a process leaves it one.
LEMMA ExceptMap ==
  ASSUME NEW f, Map(f), NEW p \in Processes, NEW x
  PROVE  Map([f EXCEPT ![p] = x])
  BY DEF Map

\* Places and exit statuses stay functions of processes.
LEMMA MapsStep ==
  ASSUME Maps, NEW p \in Processes, Step(p)
  PROVE  Maps'
  <1> DEFINE Changes(f, g) == g = f \/ \E x : g = [f EXCEPT ![p] = x]
  <1>1. ASSUME Moves(p) PROVE Changes(at, at') /\ Changes(pc, pc') /\ Changes(exit, exit')
    BY <1>1 DEF Moves, Call, Quit
  <1>2. ASSUME NEW f, NEW g, Map(f), Changes(f, g) PROVE Map(g)
    BY <1>2, ExceptMap
  <1>3. CASE Begin(p)
    <2>1. Moves(p)
      BY <1>3, BeginMoves DEF Begin
    <2>2. Changes(at, at') /\ Changes(pc, pc') /\ Changes(exit, exit')
      BY <1>1, <2>1
    <2> HIDE DEF Changes
    <2>3. QED BY <1>2, <2>2 DEF Maps, Map
  <1>4. CASE Continue(p)
    <2>1. Moves(p)
      BY <1>4, ContinueMoves
    <2>2. Changes(at, at') /\ Changes(pc, pc') /\ Changes(exit, exit')
      BY <1>1, <2>1
    <2> HIDE DEF Changes
    <2>3. QED BY <1>2, <2>2 DEF Maps, Map
  <1>5. CASE Serves(p)
    <2>1. at' = at /\ exit' = exit
      BY <1>5 DEF Serves, Create, Start, Stop, Boot, Remove, Exec, Copy, FindByName, ReadDir, Get, Matched, Observe,
                  Observed, CallFails, clientVars
    <2>2. Changes(pc, pc')
      BY <1>5 DEF Serves, Create, Start, Stop, Boot, Remove, Exec, Copy, FindByName, ReadDir, Get, Gone, Matched,
                  Observe, Observed, CallFails, Reply
    <2> HIDE DEF Changes
    <2>3. Map(pc')
      BY <1>2, <2>2 DEF Maps
    <2>4. QED BY <2>1, <2>3 DEF Maps, Map
  <1> QED BY <1>3, <1>4, <1>5 DEF Step

\* Shapes, a sound store, and commands that are where their command lines took them.
Sound == Shapes /\ Maps /\ StoreInv /\ \A p \in Processes : Control(p)

\* A sandbox from before is one that its command line could have made.
LEMMA PriorIs ==
  ASSUME NEW l \in Priors, NEW status
  PROVE  /\ Creates(l) /\ Validate(specOf(l)) /\ specOf(l).name \in ValidNames
         /\ IsSandbox(Prior(l, status).record)
         /\ Prior(l, status).record.spec.name = specOf(l).name
         /\ Validate(Prior(l, status).record.spec)
         /\ Prior(l, status).record.spec.createdAt.at \in 1..Len(Order)
         /\ Prior(l, status).box = [config |-> CreateInvocation(specOf(l), Egress), status |-> status, asked |-> l]
  <1> DEFINE name == specOf(l).name
             place == CHOOSE i \in DOMAIN Order : Order[i] = name
             now == [at |-> place, zone |-> UTC]
             spec == [specOf(l) EXCEPT !.createdAt = now]
  <1>1. Creates(l) /\ Validate(specOf(l))
    BY PriorsAssumption DEF Creates
  <1>2. name \in ValidNames /\ IsSpec(specOf(l))
    BY <1>1, SpecIs DEF Validate, ValidName
  <1>3. place \in 1..Len(Order) /\ place \in Int
    BY <1>2, OrderAssumption
  <1>4. now \in Times /\ now.at = place
    BY <1>3 DEF Times
  <1>5. Prior(l, status).record = Fresh(spec, status)
    BY DEF Prior, Fresh
  <1>6. Prior(l, status).box = [config |-> CreateInvocation(spec, Egress), status |-> status, asked |-> l]
    BY DEF Prior
  <1> HIDE DEF now, place
  <1>7. /\ IsSpec(spec) /\ spec.name = name /\ spec.createdAt = now /\ Validate(spec)
        /\ CreateInvocation(spec, Egress) = CreateInvocation(specOf(l), Egress)
    BY <1>1, <1>2, <1>4, DatedIs
  <1> HIDE DEF spec
  <1>8. IsSandbox(Fresh(spec, status)) /\ Fresh(spec, status).spec = spec
    BY <1>7, FreshIs
  <1> QED BY <1>1, <1>2, <1>3, <1>4, <1>5, <1>6, <1>7, <1>8

\* It holds at the start, whatever sandboxes are there from before.
LEMMA InitSound ==
  ASSUME Init
  PROVE  Sound
  <1>1. Shapes /\ Maps
    BY DEF Init, Shapes, Maps, Map
  <1>2. ASSUME NEW p \in Processes PROVE Control(p)
    <2>1. /\ pc[p] = "idle" /\ at[p] = "none" /\ exit[p] = 0 /\ reply[p] = NoReply
          /\ ran[p] = NoSandbox /\ line[p] = <<>>
      BY <1>2 DEF Init
    <2>2. NoReply.code = "OK" /\ "OK" \in Code
      BY DEF NoReply, Code
    <2>3. PlaceOK(p)
      BY <2>1, <2>2 DEF PlaceOK, Waiting, Statuses, CallNames
    <2>4. AsksAsToldTo(p) /\ LooksAsToldTo(p)
      BY <2>1 DEF AsksAsToldTo, LooksAsToldTo
    <2>5. QED BY <2>3, <2>4 DEF Control
  <1>3. StoreInv
    <2>0. PICK S \in SUBSET Priors : \E status \in [S -> {"stopped", "running"}] :
            LET Named(n) == CHOOSE l \in S : specOf(l).name = n
                names == {specOf(l).name : l \in S}
            IN  /\ records = [n \in names |-> Prior(Named(n), status[Named(n)]).record]
                /\ boxes = [n \in names |-> Prior(Named(n), status[Named(n)]).box]
      BY DEF Init
    <2>1. PICK status \in [S -> {"stopped", "running"}] :
            LET Named(n) == CHOOSE l \in S : specOf(l).name = n
                names == {specOf(l).name : l \in S}
            IN  /\ records = [n \in names |-> Prior(Named(n), status[Named(n)]).record]
                /\ boxes = [n \in names |-> Prior(Named(n), status[Named(n)]).box]
      BY <2>0
    <2> DEFINE Named(n) == CHOOSE l \in S : specOf(l).name = n
               names == {specOf(l).name : l \in S}
    <2>2. /\ DOMAIN records = names /\ DOMAIN boxes = names
          /\ \A n \in names : /\ records[n] = Prior(Named(n), status[Named(n)]).record
                              /\ boxes[n] = Prior(Named(n), status[Named(n)]).box
      BY <2>1
    <2>3. births = Len(Order) /\ births \in Nat
      BY OrderAssumption DEF Init
    <2>4. names \subseteq ValidNames
      BY PriorIs
    <2>5. ASSUME NEW n \in names PROVE RecordOK(n) /\ BoxOK(n)
      <3>1. Named(n) \in S /\ specOf(Named(n)).name = n
        BY <2>5
      <3>2. PICK l : l = Named(n)
        OBVIOUS
      <3>3. PICK st : st = status[Named(n)]
        OBVIOUS
      <3>4. l \in Priors /\ specOf(l).name = n
        BY <3>1, <3>2
      <3>5. records[n] = Prior(l, st).record /\ boxes[n] = Prior(l, st).box
        BY <2>2, <3>2, <3>3
      <3> HIDE DEF Named
      <3>a. PICK r : r = Prior(l, st).record
        OBVIOUS
      <3>b. IsSandbox(r) /\ r.spec.name = n /\ Validate(r.spec) /\ r.spec.createdAt.at \in 1..Len(Order)
        BY <3>4, <3>a, PriorIs
      <3>6. RecordOK(n)
        BY <2>3, <3>5, <3>a, <3>b DEF RecordOK
      <3>7. boxes[n] = [config |-> CreateInvocation(specOf(l), Egress), status |-> st, asked |-> l]
        BY <3>4, <3>5, PriorIs
      <3>8. /\ boxes[n].asked = l /\ boxes[n].config = CreateInvocation(specOf(l), Egress)
            /\ boxes[n] = [config |-> boxes[n].config, status |-> boxes[n].status, asked |-> l]
        BY <3>7
      <3>9. Creates(l) /\ Validate(specOf(l))
        BY <3>4, PriorIs
      <3>10. BoxOK(n)
        BY <3>4, <3>8, <3>9 DEF BoxOK
      <3>11. QED BY <3>6, <3>10
    <2> HIDE DEF names
    <2>6. QED BY <2>2, <2>3, <2>4, <2>5 DEF StoreInv
  <1> QED BY <1>1, <1>2, <1>3 DEF Sound

\* Every step keeps it,
LEMMA StepSound ==
  ASSUME Sound, NEW p \in Processes, Step(p)
  PROVE  Sound'
  <1>1. Shapes /\ Maps /\ StoreInv /\ Control(p)
    BY DEF Sound
  <1>2. Shapes' /\ Maps' /\ \A q \in Processes \ {p} : Same(q)
    BY <1>1, OthersStay, MapsStep
  <1>3. StoreInv'
    BY <1>1, StoreStep DEF Control
  <1>4. Control(p)'
    BY <1>1, BeginControl, ContinueControl, ServesControl DEF Step
  <1>5. ASSUME NEW q \in Processes \ {p} PROVE Control(q)'
    BY <1>2, ControlStays DEF Sound
  <1>6. \A q \in Processes : Control(q)'
    BY <1>4, <1>5
  <1> QED BY <1>2, <1>3, <1>6 DEF Sound

\* and so does none.
LEMMA StutterSound ==
  ASSUME Sound, UNCHANGED vars
  PROVE  Sound'
  <1>1. UNCHANGED <<records, boxes, births, line, at, found, exit, pc, request, reply, todo, got, before, since, ran>>
    BY DEF vars, serviceVars, clientVars, listingVars
  <1>2. Shapes' /\ Maps'
    BY <1>1 DEF Sound, Shapes, Maps, Map
  <1>3. StoreInv'
    BY <1>1 DEF Sound, StoreInv, RecordOK, BoxOK
  <1>4. ASSUME NEW p \in Processes PROVE Control(p)'
    <2>1. Same(p)
      BY <1>1 DEF Same
    <2>2. QED BY <2>1, ControlStays DEF Sound
  <1> QED BY <1>2, <1>3, <1>4 DEF Sound

\* The store and the runtime agree, every sandbox is one that a command line asked
\* for and Validate let pass, and every command is at a call its command line makes.
THEOREM SoundInvariant == Spec => []Sound
<1>1. Init => Sound
  BY InitSound
<1>2. Sound /\ [Next]_vars => Sound'
  BY StepSound, StutterSound, NextIs
<1> QED
  BY <1>1, <1>2, PTL DEF Spec

\* Whatever the commands and whatever becomes of their calls, the store holds valid
\* sandboxes under their names, its times are of the past, the runtime has the same
\* sandboxes as the store, and a command is where a command can be.
THEOREM CommandsTypes == Spec => []TypeOK
<1>1. Sound => TypeOK
  <2> SUFFICES ASSUME Sound PROVE TypeOK
    OBVIOUS
  <2>1. DOMAIN records \subseteq ValidNames /\ DOMAIN boxes = DOMAIN records /\ births \in Nat
    BY DEF Sound, StoreInv
  <2>2. ASSUME NEW n \in DOMAIN records
        PROVE  /\ records[n].spec.name = n /\ Validate(records[n].spec) /\ Fits(records[n].state.exitCode)
               /\ records[n].spec.createdAt.at \in 1..births
    BY DEF Sound, StoreInv, RecordOK, IsSandbox, IsState, Numbers
  <2>3. ASSUME NEW p \in Processes
        PROVE  /\ at[p] \in {"none", "Inspect", "Create", "Start", "Stop", "Remove", "Exec", "Copy", "List"}
               /\ pc[p] \in {"idle", "call", "reading", "observing", "answered", "done"}
               /\ exit[p] \in ExitCodes \cup {0, 1} /\ reply[p].code \in Code
    <3>1. PlaceOK(p)
      BY DEF Sound, Control
    <3>2. at[p] \in {"none", "Inspect", "Create", "Start", "Stop", "Remove", "Exec", "Copy", "List"}
      BY <3>1 DEF PlaceOK, CallNames
    <3>3. pc[p] \in {"idle", "call", "reading", "observing", "answered", "done"}
      BY <3>1 DEF PlaceOK, Waiting
    <3>4. exit[p] \in ExitCodes \cup {0, 1} /\ reply[p].code \in Code
      BY <3>1 DEF PlaceOK, Statuses
    <3>5. QED BY <3>2, <3>3, <3>4
  <2> DEFINE Ats == {"none", "Inspect", "Create", "Start", "Stop", "Remove", "Exec", "Copy", "List"}
             Pcs == {"idle", "call", "reading", "observing", "answered", "done"}
             Exits == ExitCodes \cup {0, 1}
  <2>a. \A p \in Processes : at[p] \in Ats /\ pc[p] \in Pcs /\ exit[p] \in Exits
    BY <2>3
  <2> HIDE DEF Ats, Pcs, Exits
  <2>b. at = [p \in Processes |-> at[p]] /\ pc = [p \in Processes |-> pc[p]] /\ exit = [p \in Processes |-> exit[p]]
    BY DEF Sound, Maps, Map
  <2>4. at \in [Processes -> Ats] /\ pc \in [Processes -> Pcs] /\ exit \in [Processes -> Exits]
    BY <2>a, <2>b
  <2>5. QED BY <2>1, <2>2, <2>3, <2>4 DEF TypeOK, Ats, Pcs, Exits
<1> QED
  BY <1>1, SoundInvariant, PTL
\* The last of the variables that have a name gives it its value.
LEMMA PairsIs ==
  ASSUME NEW env, AList(env), NEW k \in {env[i].key : i \in DOMAIN env}
  PROVE  \E i \in DOMAIN env : /\ env[i].key = k /\ Pairs(env)[k] = env[i].value
                               /\ \A j \in (i + 1)..Len(env) : env[j].key # k
  <1> DEFINE n == Len(env)
             Last(i) == i \in DOMAIN env /\ env[i].key = k /\ \A j \in DOMAIN env : env[j].key = k => j <= i
             back == {n - i : i \in {j \in DOMAIN env : env[j].key = k}}
  <1>1. n \in Nat /\ DOMAIN env = 1..n
    BY ListIs
  <1>2. back \in SUBSET Nat /\ back # {}
    BY <1>1
  <1>3. PICK b \in back : \A c \in back : b <= c
    BY <1>2, LeastNat
  <1>4. PICK i \in DOMAIN env : env[i].key = k /\ b = n - i
    BY <1>3
  <1>5. Last(i)
    <2>1. ASSUME NEW j \in DOMAIN env, env[j].key = k PROVE j <= i
      <3>1. n - j \in back
        BY <2>1
      <3>2. n - i <= n - j
        BY <1>3, <1>4, <3>1
      <3>3. QED BY <1>1, <1>4, <3>2
    <2>2. QED BY <1>4, <2>1
  <1> DEFINE last == CHOOSE j \in DOMAIN env : env[j].key = k /\ \A m \in DOMAIN env : env[m].key = k => m <= j
  <1>6. Last(last)
    BY <1>5
  <1>7. Pairs(env)[k] = env[last].value
    BY DEF Pairs
  <1> HIDE DEF last
  <1>8. \A j \in (last + 1)..n : env[j].key # k
    BY <1>1, <1>6
  <1> QED BY <1>6, <1>7, <1>8

\* A size is nothing when it is less than a byte.
LEMMA BytesAre ==
  ASSUME NEW s, s.halves \in Int, ParseBytes(s) # Rejected
  PROVE  ((IF ParseBytes(s) > 0 THEN ParseBytes(s) ELSE 0) = 0) = (s.halves * ByteUnits[s.unit] < 2)
  <1> DEFINE h == s.halves
             u == ByteUnits[s.unit]
             bytes == IF h % 2 = 0 THEN (h \div 2) * u ELSE (h * u) \div 2
  <1>1. h >= 0 /\ s.unit \in DOMAIN ByteUnits
    BY DEF ParseBytes
  <1>2. ParseBytes(s) = bytes
    BY <1>1 DEF ParseBytes
  <1>3. u = 1 \/ u = 1024 \/ u = 1048576 \/ u = 1073741824
    BY <1>1 DEF ByteUnits
  <1> HIDE DEF h, u
  <1>4. h \in Int
    BY DEF h
  <1>5. ((IF bytes > 0 THEN bytes ELSE 0) = 0) = (h * u < 2)
    <2>1. CASE u = 1
      BY <1>1, <1>4, <2>1
    <2>2. CASE u = 1024
      BY <1>1, <1>4, <2>2
    <2>3. CASE u = 1048576
      BY <1>1, <1>4, <2>3
    <2>4. CASE u = 1073741824
      BY <1>1, <1>4, <2>4
    <2>5. QED BY <1>3, <2>1, <2>2, <2>3, <2>4
  <1> QED BY <1>2, <1>5 DEF h, u

\* The workspaces of a command line's spec are the directories it asks for.
LEMMA WantedIs ==
  ASSUME NEW l \in Lines \cup Priors, Creates(l), l.cwd.mode = NoMode
  PROVE  LET ws == specOf(l).workspaces
         IN  /\ DOMAIN Wanted(l) = 1..Len(Args(l)) /\ DOMAIN ws = 1..Len(Args(l)) /\ 1 \in DOMAIN ws
             /\ \A i \in DOMAIN ws : /\ ws[i].host = Absolute(Wanted(l)[i], l)
                                     /\ ws[i].readOnly = (Wanted(l)[i].mode = "ro")
             /\ Primary(specOf(l)) = Absolute(Wanted(l)[1], l)
  <1> DEFINE args == Args(l)
             ws == specOf(l).workspaces
  <1>1. Len(args) \in Nat /\ DOMAIN args = 1..Len(args) /\ Len(args) > 0
    BY ArgsAre DEF Creates
  <1>2. /\ ws = [i \in 1..Len(args) |-> parseWorkspace(args[i], l.cwd)]
        /\ \A i \in 1..Len(args) : parseWorkspace(args[i], l.cwd) # Rejected
    BY SpecIs
  <1>3. l.cwd = [dir |-> l.cwd.dir, mode |-> l.cwd.mode] /\ NoMode # "ro"
    BY LinesAssumption DEF NoMode
  <1>a. Wanted(l) = IF Given(l) = <<>> THEN <<Plain(Here)>> ELSE Given(l)
    <2> DEFINE given == IF l.args # <<>> /\ l.args[1].mode = NoMode /\ l.args[1].dir \in DOMAIN Agents
                        THEN Tail(l.args) ELSE l.args
    <2>1. given = Given(l)
      BY DEF Given, splitAgentAndPaths
    <2>2. Wanted(l) = IF given = <<>> THEN <<Plain(Here)>> ELSE given
      BY DEF Wanted
    <2> HIDE DEF given
    <2>3. QED BY <2>1, <2>2
  <1> HIDE DEF args, ws
  <1>4. ASSUME NEW i \in 1..Len(args)
        PROVE  ws[i].host = resolve(args[i].dir, l.cwd) /\ ws[i].readOnly = (args[i].mode = "ro")
    BY <1>2 DEF parseWorkspace
  <1>5. /\ DOMAIN Wanted(l) = 1..Len(args)
        /\ \A i \in 1..Len(args) : /\ resolve(args[i].dir, l.cwd) = Absolute(Wanted(l)[i], l)
                                   /\ (args[i].mode = "ro") = (Wanted(l)[i].mode = "ro")
    <2>1. CASE Given(l) = <<>>
      <3>1. args = <<l.cwd>> /\ Wanted(l) = <<Plain(Here)>>
        BY <1>a, <2>1 DEF args, Args
      <3>2. Len(args) = 1 /\ args[1] = l.cwd /\ DOMAIN Wanted(l) = 1..1 /\ Wanted(l)[1] = Plain(Here)
        BY <3>1
      <3>3. Absolute(Plain(Here), l) = l.cwd /\ Plain(Here).mode = NoMode
        BY DEF Absolute, Plain
      <3>4. resolve(l.cwd.dir, l.cwd) = l.cwd
        BY <1>3 DEF resolve, Plain
      <3>5. \A i \in 1..1 : i = 1
        OBVIOUS
      <3>6. QED BY <1>3, <3>2, <3>3, <3>4, <3>5
    <2>2. CASE Given(l) # <<>>
      <3>1. Wanted(l) = args
        BY <1>a, <2>2 DEF args, Args
      <3>2. QED BY <1>1, <3>1 DEF resolve, Absolute
    <2>3. QED BY <2>1, <2>2
  <1>6. DOMAIN ws = 1..Len(args) /\ 1 \in DOMAIN ws
    BY <1>1, <1>2
  <1>7. \A i \in DOMAIN ws : ws[i].host = Absolute(Wanted(l)[i], l) /\ ws[i].readOnly = (Wanted(l)[i].mode = "ro")
    BY <1>4, <1>5, <1>6
  <1>8. ws # <<>>
    BY <1>6
  <1>9. Primary(specOf(l)) = Absolute(Wanted(l)[1], l)
    BY <1>6, <1>7, <1>8 DEF Primary, ws
  <1> QED BY <1>5, <1>6, <1>7, <1>9 DEF args, ws

\* A port that is published is one that was asked for.
LEMMA PublishedIs ==
  ASSUME NEW arg, parsePort(arg) # Rejected
  PROVE  Publishes(publishSpec(parsePort(arg)), arg)
  <1> DEFINE q == publishSpec(parsePort(arg))
  <1>1. parsePort(arg) = [host |-> arg.host, sandbox |-> IF arg.bare THEN arg.host ELSE arg.sandbox,
                          proto |-> IF arg.proto = "tcp" THEN "" ELSE arg.proto]
    BY ParsedPortIs
  <1>2. PICK p : p = parsePort(arg)
    OBVIOUS
  <1>3. q.host = p.host /\ q.sandbox = p.sandbox /\ q.proto = (IF p.proto = "tcp" THEN "" ELSE p.proto)
    BY <1>2 DEF publishSpec
  <1> DEFINE sandbox == IF arg.bare THEN arg.host ELSE arg.sandbox
             proto == IF arg.proto = "tcp" THEN "" ELSE arg.proto
  <1>a. p = [host |-> arg.host, sandbox |-> sandbox, proto |-> proto]
    BY <1>1, <1>2
  <1> HIDE DEF sandbox, proto
  <1>b. p.host = arg.host /\ p.sandbox = sandbox /\ p.proto = proto
    BY <1>a
  <1>6. p.host = arg.host /\ p.sandbox = (IF arg.bare THEN arg.host ELSE arg.sandbox)
    BY <1>b DEF sandbox
  <1>7. p.proto = (IF arg.proto = "tcp" THEN "" ELSE arg.proto)
    BY <1>b DEF proto
  <1>8. "udp" # "tcp" /\ "udp" # ""
    OBVIOUS
  <1> HIDE DEF q
  <1>4. (q.proto = "udp") = (arg.proto = "udp")
    BY <1>3, <1>7, <1>8
  <1>5. Publishes(q, arg)
    BY <1>3, <1>4, <1>6 DEF Publishes
  <1> QED BY <1>5 DEF q

\* What ContainerIsAsAsked says of one container, of the command line that made it.
LEMMA ContainerIs ==
  ASSUME NEW l \in Lines \cup Priors, Creates(l), Validate(specOf(l)), l.cwd.mode = NoMode,
         NEW config, config = CreateInvocation(specOf(l), Egress)
  PROVE  AsAsked(config, specOf(l).name, l)
  <1> DEFINE spec == specOf(l)
             ws == spec.workspaces
             dirs == Wanted(l)
             asked == {l.flags.env[i].key : i \in DOMAIN l.flags.env}
  <1>0. /\ AList(l.flags.env) /\ AList(l.flags.ports)
        /\ l.flags.cpus \in Int /\ l.flags.memory.halves \in Int
    BY LinesAssumption DEF AList, Creates
  <1>a. DOMAIN l.flags.ports = 1..Len(l.flags.ports)
    BY <1>0, ListIs
  <1>1. /\ DOMAIN ws = DOMAIN dirs /\ Primary(spec) = Absolute(dirs[1], l)
        /\ \A i \in DOMAIN ws : ws[i].host = Absolute(dirs[i], l) /\ ws[i].readOnly = (dirs[i].mode = "ro")
    BY WantedIs
  <1>2. /\ spec.ports = [i \in 1..Len(l.flags.ports) |-> parsePort(l.flags.ports[i])]
        /\ \A i \in 1..Len(l.flags.ports) : parsePort(l.flags.ports[i]) # Rejected
        /\ spec.env = Pairs(l.flags.env) /\ spec.cpus = l.flags.cpus
        /\ spec.memory = ParseBytes(l.flags.memory) /\ ParseBytes(l.flags.memory) # Rejected
    BY SpecIs
  <1>3. spec.cpus >= 0
    BY DEF Validate, validateResources
  <1> HIDE DEF spec, dirs
  <1>4. /\ config.volumes = {<<ws[i].host, ws[i].readOnly>> : i \in DOMAIN ws}
        /\ config.workdir = Primary(spec)
        /\ config.cpus = (IF spec.cpus > 0 THEN spec.cpus ELSE 0)
        /\ config.memory = (IF spec.memory > 0 THEN spec.memory ELSE 0)
        /\ config.env = (IF Egress THEN withProxyEnv(spec.env, spec.name) ELSE spec.env)
        /\ config.publish = {publishSpec(spec.ports[i]) : i \in DOMAIN spec.ports}
    BY DEF CreateInvocation, spec
  <1> HIDE DEF ws
  <1>5. config.volumes = {<<Absolute(dirs[i], l), dirs[i].mode = "ro">> : i \in DOMAIN dirs}
    BY <1>1, <1>4
  <1>6. config.workdir = Absolute(dirs[1], l)
    BY <1>1, <1>4
  <1>7. \A i \in DOMAIN l.flags.ports :
          /\ i \in DOMAIN spec.ports /\ Publishes(publishSpec(spec.ports[i]), l.flags.ports[i])
    BY <1>a, <1>2, PublishedIs
  <1>8. \A i \in DOMAIN l.flags.ports : \E q \in config.publish : Publishes(q, l.flags.ports[i])
    BY <1>4, <1>7
  <1>9. \A q \in config.publish : \E i \in DOMAIN l.flags.ports : Publishes(q, l.flags.ports[i])
    <2>1. DOMAIN spec.ports = DOMAIN l.flags.ports
      BY <1>a, <1>2
    <2>2. QED BY <1>4, <1>7, <2>1
  <1>10. config.cpus = l.flags.cpus
    BY <1>0, <1>2, <1>3, <1>4
  <1>11. (config.memory = 0) = (l.flags.memory.halves * ByteUnits[l.flags.memory.unit] < 2)
    BY <1>0, <1>2, <1>4, BytesAre
  <1>12. /\ \A k \in asked \ (ProxyKeys \cup NoProxyKeys) : config.env[k] = Pairs(l.flags.env)[k]
         /\ Egress => \A k \in ProxyKeys : config.env[k] = RelayAddr(spec.name)
    <2>1. DOMAIN Pairs(l.flags.env) = asked
      BY DEF Pairs
    <2>2. CASE Egress
      <3>1. config.env = Over(ProxyEnv(spec.name), Pairs(l.flags.env))
        BY <1>2, <1>4, <2>2 DEF withProxyEnv
      <3>2. /\ DOMAIN ProxyEnv(spec.name) = ProxyKeys \cup NoProxyKeys
            /\ \A k \in ProxyKeys : ProxyEnv(spec.name)[k] = RelayAddr(spec.name)
        BY DEF ProxyEnv
      <3> HIDE DEF asked
      <3>3. /\ \A k \in ProxyKeys : config.env[k] = ProxyEnv(spec.name)[k]
            /\ \A k \in asked \ (ProxyKeys \cup NoProxyKeys) : config.env[k] = Pairs(l.flags.env)[k]
        <4> DEFINE f == ProxyEnv(spec.name)
                   g == Pairs(l.flags.env)
        <4>1. DOMAIN f = ProxyKeys \cup NoProxyKeys /\ DOMAIN g = asked /\ config.env = Over(f, g)
          BY <2>1, <3>1, <3>2
        <4> HIDE DEF f, g
        <4>2. /\ \A k \in DOMAIN f : Over(f, g)[k] = f[k]
              /\ \A k \in DOMAIN g \ DOMAIN f : Over(f, g)[k] = g[k]
          BY OverIs
        <4>3. QED BY <4>1, <4>2 DEF f, g
      <3>4. QED BY <3>2, <3>3
    <2>3. CASE ~Egress
      BY <1>2, <1>4, <2>3
    <2>4. QED BY <2>2, <2>3
  <1>13. \A k \in asked \ (ProxyKeys \cup NoProxyKeys) : \E i \in DOMAIN l.flags.env :
           /\ l.flags.env[i].key = k /\ config.env[k] = l.flags.env[i].value
           /\ \A j \in (i + 1)..Len(l.flags.env) : l.flags.env[j].key # k
    BY <1>0, <1>12, PairsIs
  <1> QED BY <1>5, <1>6, <1>8, <1>9, <1>10, <1>11, <1>12, <1>13 DEF spec, dirs, asked, AsAsked

\* A container is what the command line that made it asked for, whatever becomes of
\* the others: its mounts, its directory, its ports, its limits, and its variables
\* but for those that point at the relay (run from a directory without a colon).
THEOREM ContainersAreAsAsked == Spec => []ContainerIsAsAsked
<1>1. Sound => ContainerIsAsAsked
  <2> SUFFICES ASSUME Sound, NEW n \in DOMAIN boxes, boxes[n].asked.cwd.mode = NoMode
               PROVE  AsAsked(boxes[n].config, n, boxes[n].asked)
    BY DEF ContainerIsAsAsked
  <2>1. PICK l : l = boxes[n].asked
    OBVIOUS
  <2>2. PICK config : config = boxes[n].config
    OBVIOUS
  <2>3. /\ l \in Lines \cup Priors /\ Creates(l) /\ Validate(specOf(l)) /\ specOf(l).name = n
        /\ config = CreateInvocation(specOf(l), Egress) /\ l.cwd.mode = NoMode
    BY <2>1, <2>2 DEF Sound, StoreInv, BoxOK
  <2> QED BY <2>1, <2>2, <2>3, ContainerIs
<1> QED
  BY <1>1, SoundInvariant, PTL
-----------------------------------------------------------------------------
(***************************************************************************)
(* What becomes of the sandboxes that a listing began with.                *)
(***************************************************************************)
\* A sandbox that has gone does not come back: one that is made is younger.
Ages == births' \in Nat /\ births <= births' /\ \A s \in Present' : s.createdAt.at <= births => s \in Present

\* Those that were there while a process listed are remembered.
Follows(q) == since[q] \subseteq since'[q] /\ (Present \subseteq since[q] => Present' \subseteq since'[q])

\* What a listing may show only grows, but where a new one begins.
LEMMA SinceStep ==
  ASSUME Shapes, NEW p \in Processes, Step(p), NEW q \in Processes, q = p => ~FindByName(p) /\ ~ReadDir(p)
  PROVE  since[q] \subseteq since'[q]
  <1>1. CASE Begin(p) \/ Continue(p)
    BY <1>1 DEF Begin, Continue, listingVars
  <1>2. CASE Create(p)
    <2>1. since' = since \/ \E sb : Created(sb)
      BY <1>2 DEF Create
    <2>2. QED BY <2>1 DEF Created
  <1>3. CASE FindByName(p) \/ ReadDir(p)
    <2>1. q # p /\ since' = [since EXCEPT ![p] = Present]
      BY <1>3 DEF FindByName, ReadDir
    <2>2. QED BY <2>1
  <1>4. CASE Start(p) \/ Stop(p) \/ Remove(p) \/ Exec(p) \/ Copy(p) \/ Get(p) \/ Matched(p)
             \/ Observe(p) \/ Observed(p) \/ CallFails(p)
    BY <1>4 DEF Start, Stop, Boot, Remove, Exec, Copy, Get, Matched, Observe, Observed, CallFails, listingVars
  <1> QED BY <1>1, <1>2, <1>3, <1>4 DEF Step, Serves

\* Every step ages the store so, and every listing that is on follows it.
LEMMA AgesStep ==
  ASSUME Sound, NEW p \in Processes, Step(p)
  PROVE  /\ Ages
         /\ \A q \in Processes : pc[q] # "idle" /\ (q = p => ~FindByName(p) /\ ~ReadDir(p)) => Follows(q)
  <1>0. Shapes /\ StoreInv /\ AsksAsToldTo(p) /\ births \in Nat
    BY DEF Sound, Control, StoreInv
  <1>a. \A q \in Processes : (q = p => ~FindByName(p) /\ ~ReadDir(p)) => since[q] \subseteq since'[q]
    BY <1>0, SinceStep
  <1>1. CASE Present' \subseteq Present /\ births' = births
    <2>1. Ages
      BY <1>0, <1>1 DEF Ages
    <2>2. QED BY <1>a, <1>1, <2>1 DEF Follows
  <1>2. CASE Create(p)
    <2>1. CASE Refuses(p)
      <3>1. Present' = Present /\ births' = births
        BY <2>1 DEF Refuses, serviceVars, Present
      <3>2. QED BY <1>1, <3>1
    <2>2. CASE \E sb : Makes(p, line[p], sb)
      <3>1. PICK l, sb : Makes(p, l, sb)
        BY <2>2
      <3>2. /\ births' = births + 1 /\ Created(sb) /\ sb = NewSandbox(specOf(l)) /\ IsSpec(specOf(l))
            /\ DOMAIN records' = DOMAIN records \cup {specOf(l).name}
            /\ records'[specOf(l).name] = sb
            /\ \A n \in DOMAIN records : records'[n] = records[n]
        BY <3>1, SpecIs DEF Makes
      <3>3. sb.spec.createdAt.at = births + 1
        BY <1>0, <3>2, NewSandboxIs
      <3>4. Present' \subseteq Present \cup {sb.spec}
        BY <3>2 DEF Present
      <3>5. Ages
        BY <1>0, <3>2, <3>3, <3>4 DEF Ages
      <3>6. ASSUME NEW q \in Processes, pc[q] # "idle" PROVE Follows(q)
        <4>1. since'[q] = since[q] \cup {sb.spec}
          BY <3>2, <3>6 DEF Created
        <4>2. QED BY <3>4, <4>1 DEF Follows
      <3>7. QED BY <3>5, <3>6
    <2>3. QED BY <1>0, <1>2, <2>1, <2>2, CreateEffect
  <1>3. CASE Start(p) \/ Stop(p)
    <2>1. PICK which, status : Boot(p, which, status)
      BY <1>3 DEF Start, Stop
    <2>2. PICK n : n = ApiRef(request[p].ref).name
      OBVIOUS
    <2>3. births' = births
      BY <2>1 DEF Boot
    <2>a. records' = records \/ (n \in DOMAIN records /\ records' = [records EXCEPT ![n].state.status = status])
      BY <2>1, <2>2 DEF Boot
    <2>4. CASE records' = records
      BY <1>1, <2>3, <2>4 DEF Present
    <2>5. CASE n \in DOMAIN records /\ records' = [records EXCEPT ![n].state.status = status]
      <3>1. DOMAIN records' = DOMAIN records
        BY <2>5
      <3>2. ASSUME NEW m \in DOMAIN records PROVE records'[m].spec = records[m].spec
        <4>1. CASE m # n
          BY <2>5, <4>1
        <4>2. CASE m = n
          <5>1. records'[m] = [records[m] EXCEPT !.state.status = status]
            BY <2>5, <4>2
          <5>2. IsSandbox(records[m])
            BY <1>0 DEF StoreInv, RecordOK
          <5>3. QED BY <5>1, <5>2, RestatusIs
        <4>3. QED BY <4>1, <4>2
      <3>3. Present' \subseteq Present
        BY <3>1, <3>2 DEF Present
      <3>4. QED BY <1>1, <2>3, <3>3
    <2>6. QED BY <2>a, <2>4, <2>5
  <1>4. CASE Remove(p)
    <2>1. births' = births /\ (records' = records \/ records' = Without(records, ApiRef(request[p].ref).name))
      BY <1>4 DEF Remove
    <2>2. DOMAIN records' \subseteq DOMAIN records /\ \A n \in DOMAIN records' : records'[n] = records[n]
      BY <2>1 DEF Without
    <2>3. Present' \subseteq Present
      BY <2>2 DEF Present
    <2>4. QED BY <1>1, <2>1, <2>3
  <1>5. CASE ~Create(p) /\ ~Start(p) /\ ~Stop(p) /\ ~Remove(p)
    <2>1. Present' = Present /\ births' = births
      BY <1>5, StoreStays DEF serviceVars, Present
    <2>2. QED BY <1>1, <2>1
  <1> QED BY <1>2, <1>3, <1>4, <1>5

\* What is there is valid, of the past, and the only one of its name.
LEMMA PresentIs ==
  ASSUME StoreInv
  PROVE  \A s \in Present : /\ s.name \in DOMAIN records /\ s = records[s.name].spec /\ s.name \in ValidNames
                            /\ s.createdAt.at \in Nat /\ s.createdAt.at <= births
  BY DEF StoreInv, RecordOK, Present

\* What a listing began with is of the past.
Known(p) == \A s \in before[p] : s.createdAt.at \in Nat /\ s.createdAt.at <= births /\ s.name \in ValidNames

\* What a listing began with is set where it begins, to what is there, and only there.
LEMMA BeforeStep ==
  ASSUME Sound, NEW p \in Processes, Step(p)
  PROVE  /\ before'[p] = before[p] \/ ((FindByName(p) \/ ReadDir(p)) /\ before'[p] = Present /\ since'[p] = Present)
         /\ FindByName(p) \/ ReadDir(p) => UNCHANGED serviceVars /\ before'[p] = Present /\ since'[p] = Present
  <1>0. Shapes
    BY DEF Sound
  <1>1. CASE FindByName(p) \/ ReadDir(p)
    BY <1>0, <1>1 DEF FindByName, ReadDir, Shapes
  <1>2. CASE ~FindByName(p) /\ ~ReadDir(p)
    <2>1. before' = before
      BY <1>2 DEF Step, Serves, Begin, Continue, Create, Start, Stop, Boot, Remove, Exec, Copy, Get, Matched, Observe,
                  Observed, CallFails, listingVars
    <2>2. QED BY <1>2, <2>1
  <1> QED BY <1>1, <1>2

\* Every step keeps what a listing began with in the past.
LEMMA KnownStep ==
  ASSUME Sound, NEW p \in Processes, Step(p), \A q \in Processes : Known(q)
  PROVE  \A q \in Processes : Known(q)'
  <1>0. StoreInv /\ births \in Nat
    BY DEF Sound, StoreInv
  <1>1. births' \in Nat /\ births <= births'
    BY AgesStep DEF Ages
  <1>2. ASSUME NEW q \in Processes PROVE before'[q] = before[q] \/ before'[q] = Present
    BY BeforeStep, OthersStay DEF Sound, Same
  <1>3. ASSUME NEW q \in Processes, NEW s \in before'[q]
        PROVE  s.createdAt.at \in Nat /\ s.createdAt.at <= births' /\ s.name \in ValidNames
    <2>1. s.createdAt.at \in Nat /\ s.createdAt.at <= births /\ s.name \in ValidNames
      BY <1>0, <1>2, <1>3, PresentIs DEF Known
    <2>2. QED BY <1>0, <1>1, <2>1
  <1> QED BY <1>3 DEF Known
-----------------------------------------------------------------------------
(***************************************************************************)
(* What a listing has found, and what it shows.                            *)
(***************************************************************************)
LEMMA SeqIsAList ==
  ASSUME NEW S, NEW s \in Seq(S)
  PROVE  AList(s)
  <1> DEFINE T == {s[i] : i \in DOMAIN s}
  <1>1. Len(s) \in Nat /\ DOMAIN s = 1..Len(s) /\ s = [i \in 1..Len(s) |-> s[i]]
    OBVIOUS
  <1>2. \A i \in 1..Len(s) : s[i] \in T
    BY <1>1
  <1> HIDE DEF T
  <1>3. s \in Seq(T)
    BY <1>1, <1>2
  <1> QED BY <1>3 DEF AList, T

\* A list with one element more is a list.
LEMMA AppendIsAList ==
  ASSUME NEW s, AList(s), NEW e
  PROVE  /\ AList(Append(s, e)) /\ Len(Append(s, e)) = Len(s) + 1
         /\ Append(s, e)[Len(s) + 1] = e /\ \A i \in 1..Len(s) : Append(s, e)[i] = s[i]
  <1> DEFINE S == {s[i] : i \in DOMAIN s} \cup {e}
  <1>1. s \in Seq(S) /\ e \in S
    BY DEF AList
  <1> HIDE DEF S
  <1>2. Append(s, e) \in Seq(S)
    BY <1>1
  <1>3. /\ Len(Append(s, e)) = Len(s) + 1
        /\ Append(s, e)[Len(s) + 1] = e /\ \A i \in 1..Len(s) : Append(s, e)[i] = s[i]
    BY <1>1, AppendProperties
  <1> QED BY <1>2, <1>3, SeqIsAList

\* What counting needs.
LEMMA Counting ==
  /\ \A a, b \in Nat : b > 0 /\ b <= a => a - b + 1 \in 1..a
  /\ \A a, b \in Nat : (a + 1) + (b - 1) = a + b
  /\ \A a, i \in Nat : (a + 1) + i = a + (i + 1)
  OBVIOUS

\* The names that a listing began with.
Names(p) == Sorted({s.name : s \in before[p]})

\* They are the names of what was there, each of them, and no other.
LEMMA NamesAre ==
  ASSUME NEW p, Known(p)
  PROVE  /\ AList(Names(p)) /\ Names(p) = [i \in 1..Len(Names(p)) |-> Names(p)[i]]
         /\ \A i \in 1..Len(Names(p)) : \E s \in before[p] : s.name = Names(p)[i]
         /\ \A s \in before[p] : \E i \in 1..Len(Names(p)) : Names(p)[i] = s.name
  <1> DEFINE S == {s.name : s \in before[p]}
             names == Names(p)
  <1>1. S \subseteq ValidNames
    BY DEF Known
  <1>2. names = Sorted(S)
    BY DEF Names
  <1> HIDE DEF S, names
  <1>3. names \in Seq(S) /\ \A n \in S : \E k \in 1..Len(names) : names[k] = n
    BY <1>1, <1>2, SortedIs
  <1>4. AList(names)
    BY <1>3, SeqIsAList
  <1>5. names = [i \in 1..Len(names) |-> names[i]] /\ \A i \in 1..Len(names) : names[i] \in S
    BY <1>3
  <1> QED BY <1>3, <1>4, <1>5 DEF S, names

\* What has been found is of sandboxes that were there meanwhile, and is that of the
\* one of its name where that has been there all along.
FoundOK(p) ==
  /\ AList(got[p]) /\ AList(todo[p]) /\ Present \subseteq since[p]
  /\ \A i \in 1..Len(got[p]) : IsSandbox(got[p][i]) /\ got[p][i].spec \in since[p]
  /\ \A s \in before[p] \cap Present : \A i \in 1..Len(got[p]) :
       got[p][i].spec.name = s.name => got[p][i].spec = s

\* It is of the names that have been read, in their order.
InOrder(p) == \A i \in 1..Len(got[p]) : got[p][i].spec.name = Names(p)[i]

\* A listing reads one name after the other, and then observes what it has found.
ReadingOK(p) ==
  /\ at[p] = "Inspect" => ApiRef(request[p].ref).name = ""
  /\ InOrder(p) /\ Len(got[p]) + Len(todo[p]) = Len(Names(p))
  /\ \A i \in 1..Len(todo[p]) : todo[p][i] = Names(p)[Len(got[p]) + i]
ObservingOK(p) ==
  /\ Len(todo[p]) <= Len(got[p])
  /\ at[p] = "List" => InOrder(p) /\ Len(got[p]) = Len(Names(p))
  /\ at[p] = "Inspect" => Len(got[p]) = 1

Listing(p) ==
  /\ pc[p] \in {"reading", "observing"} => FoundOK(p)
  /\ pc[p] = "reading" => ReadingOK(p)
  /\ pc[p] = "observing" => ObservingOK(p)

\* A step of another's leaves it so.
LEMMA ListingStays ==
  ASSUME Ages, NEW q, Same(q), Follows(q), Known(q), Listing(q)
  PROVE  Listing(q)'
  <1>1. Names(q)' = Names(q)
    BY DEF Names, Same
  <1>2. /\ pc'[q] = pc[q] /\ at'[q] = at[q] /\ got'[q] = got[q] /\ todo'[q] = todo[q]
        /\ request'[q] = request[q] /\ before'[q] = before[q]
    BY DEF Same
  <1>3. before[q] \cap Present' \subseteq before[q] \cap Present
    BY DEF Ages, Known
  <1>4. FoundOK(q) => FoundOK(q)'
    <2> SUFFICES ASSUME FoundOK(q) PROVE FoundOK(q)'
      OBVIOUS
    <2>1. Present' \subseteq since'[q] /\ since[q] \subseteq since'[q]
      BY DEF FoundOK, Follows
    <2>2. \A s \in before'[q] \cap Present' : \A i \in 1..Len(got'[q]) :
            got'[q][i].spec.name = s.name => got'[q][i].spec = s
      BY <1>2, <1>3 DEF FoundOK
    <2>3. \A i \in 1..Len(got'[q]) : IsSandbox(got'[q][i]) /\ got'[q][i].spec \in since'[q]
      BY <1>2, <2>1 DEF FoundOK
    <2>4. AList(got'[q]) /\ AList(todo'[q])
      BY <1>2 DEF FoundOK
    <2>5. QED BY <2>1, <2>2, <2>3, <2>4 DEF FoundOK
  <1>5. ReadingOK(q) => ReadingOK(q)'
    BY <1>1, <1>2 DEF ReadingOK, InOrder
  <1>6. ObservingOK(q) => ObservingOK(q)'
    BY <1>1, <1>2 DEF ObservingOK, InOrder
  <1> QED BY <1>2, <1>4, <1>5, <1>6 DEF Listing

\* Finding by name has the one sandbox,
LEMMA FindByNameListing ==
  ASSUME Sound, NEW p \in Processes, FindByName(p)
  PROVE  Listing(p)'
  <1>0. Shapes /\ StoreInv
    BY DEF Sound
  <1> DEFINE name == ApiRef(request[p].ref).name
  <1>1. CASE name \notin DOMAIN records
    <2>1. pc'[p] = "answered"
      BY <1>0, <1>1, ReplyEffect DEF FindByName
    <2>2. QED BY <2>1 DEF Listing
  <1>2. CASE name \in DOMAIN records
    <2>1. PICK n : n = name
      OBVIOUS
    <2>2. PICK sb : sb = records[n]
      OBVIOUS
    <2>3. /\ pc'[p] = "observing" /\ got'[p] = <<sb>> /\ todo'[p] = <<n>> /\ at'[p] = "Inspect"
          /\ since'[p] = Present
      BY <1>0, <1>2, <2>1, <2>2 DEF FindByName, Shapes, Serving, clientVars
    <2>4. before'[p] = Present /\ records' = records
      BY <1>0 DEF FindByName, Shapes, serviceVars
    <2>5. n \in DOMAIN records /\ IsSandbox(sb) /\ sb.spec \in Present
      BY <1>0, <1>2, <2>1, <2>2 DEF StoreInv, RecordOK, Present
    <2>6. AList(got'[p]) /\ AList(todo'[p]) /\ Len(got'[p]) = 1 /\ Len(todo'[p]) = 1 /\ got'[p][1] = sb
      BY <2>3, SingletonIsAList
    <2>7. \A i \in 1..Len(got'[p]) : got'[p][i] = sb
      BY <2>6
    <2>8. Present' = Present
      BY <2>4 DEF Present
    <2>9. \A s \in Present : sb.spec.name = s.name => sb.spec = s
      BY <1>0, <2>5, PresentIs
    <2>10. FoundOK(p)'
      BY <2>3, <2>4, <2>5, <2>6, <2>7, <2>8, <2>9 DEF FoundOK
    <2>11. ObservingOK(p)'
      BY <2>3, <2>6 DEF ObservingOK
    <2>12. QED BY <2>3, <2>10, <2>11 DEF Listing
  <1> QED BY <1>1, <1>2

\* reading the directory has all of it to do,
LEMMA ReadDirListing ==
  ASSUME Sound, NEW p \in Processes, ReadDir(p)
  PROVE  Listing(p)'
  <1>0. Shapes /\ StoreInv
    BY DEF Sound
  <1>1. /\ pc'[p] = "reading" /\ got'[p] = <<>> /\ todo'[p] = Sorted(DOMAIN records)
        /\ before'[p] = Present /\ since'[p] = Present
    BY <1>0 DEF ReadDir, Shapes
  <1>2. records' = records /\ at' = at /\ request' = request
    BY DEF ReadDir, serviceVars, clientVars
  <1>3. Present' = Present
    BY <1>2 DEF Present
  <1>4. {s.name : s \in Present} = DOMAIN records
    BY <1>0 DEF StoreInv, RecordOK, Present
  <1>5. Names(p)' = todo'[p]
    BY <1>1, <1>4 DEF Names
  <1>6. AList(todo'[p])
    <2>1. DOMAIN records \subseteq ValidNames
      BY <1>0 DEF StoreInv
    <2>2. QED BY <1>1, <2>1, SortedIs, SeqIsAList
  <1>7. AList(got'[p]) /\ Len(got'[p]) = 0
    <2>1. <<>> \in Seq({}) /\ Len(<<>>) = 0
      OBVIOUS
    <2>2. QED BY <1>1, <2>1, SeqIsAList
  <1>8. \A i \in 1..0 : FALSE
    OBVIOUS
  <1>9. FoundOK(p)'
    BY <1>1, <1>3, <1>6, <1>7, <1>8 DEF FoundOK
  <1>10. at'[p] = "Inspect" => ApiRef(request'[p].ref).name = ""
    BY <1>2 DEF ReadDir, Serving
  <1>11. Len(todo'[p]) \in Nat
    BY <1>6, ListIs
  <1>12. ReadingOK(p)'
    <2>1. InOrder(p)'
      BY <1>7, <1>8 DEF InOrder
    <2>2. \A i \in 1..Len(todo'[p]) : Len(got'[p]) + i = i
      BY <1>7, <1>11
    <2>3. \A i \in 1..Len(todo'[p]) : todo'[p][i] = Names(p)'[Len(got'[p]) + i]
      BY <1>5, <2>2
    <2>4. Len(got'[p]) + Len(todo'[p]) = Len(Names(p)')
      BY <1>5, <1>7, <1>11
    <2>5. QED BY <1>10, <2>1, <2>3, <2>4 DEF ReadingOK
  <1> QED BY <1>1, <1>9, <1>12 DEF Listing

\* reading a record has one more and one less to do,
LEMMA GetListing ==
  ASSUME Sound, NEW p \in Processes, Get(p), Known(p), Listing(p)
  PROVE  Listing(p)'
  <1>0. Shapes /\ StoreInv
    BY DEF Sound
  <1>1. /\ pc[p] = "reading" /\ todo[p] # <<>> /\ FoundOK(p) /\ ReadingOK(p)
        /\ records' = records /\ at' = at /\ request' = request /\ before' = before /\ since' = since
    BY DEF Get, Listing, serviceVars, clientVars
  <1>a. /\ at[p] = "Inspect" => ApiRef(request[p].ref).name = ""
        /\ InOrder(p) /\ Len(got[p]) + Len(todo[p]) = Len(Names(p))
        /\ at' = at /\ request' = request
    BY <1>1 DEF ReadingOK
  <1>b. \A i \in 1..Len(todo[p]) : todo[p][i] = Names(p)[Len(got[p]) + i]
    BY <1>1 DEF ReadingOK
  <1>2. PICK n : n = Head(todo[p])
    OBVIOUS
  <1>3. CASE n \notin DOMAIN records
    <2>1. pc'[p] = "answered"
      BY <1>0, <1>2, <1>3, ReplyEffect DEF Get, Gone
    <2>2. QED BY <2>1 DEF Listing
  <1>4. CASE n \in DOMAIN records
    <2>1. PICK sb : sb = records[n]
      OBVIOUS
    <2>2. pc'[p] = "reading" /\ got'[p] = Append(got[p], sb) /\ todo'[p] = Tail(todo[p])
      BY <1>0, <1>1, <1>2, <1>4, <2>1 DEF Get, Shapes
    <2>3. AList(got[p]) /\ AList(todo[p]) /\ Len(got[p]) \in Nat /\ Len(todo[p]) \in Nat /\ Len(todo[p]) > 0
      BY <1>1, ListIs DEF FoundOK
    <2>4. n = todo[p][1]
      BY <1>2, <2>3 DEF AList
    <2>5. n = Names(p)[Len(got[p]) + 1]
      <3>1. 1 \in 1..Len(todo[p])
        BY <2>3
      <3>2. QED BY <1>b, <2>4, <3>1
    <2>6. IsSandbox(sb) /\ sb.spec.name = n /\ sb.spec \in Present
      BY <1>0, <1>4, <2>1 DEF StoreInv, RecordOK, Present
    <2>7. /\ AList(got'[p]) /\ Len(got'[p]) = Len(got[p]) + 1 /\ got'[p][Len(got[p]) + 1] = sb
          /\ \A i \in 1..Len(got[p]) : got'[p][i] = got[p][i]
      BY <2>2, <2>3, AppendIsAList
    <2>8. /\ AList(todo'[p]) /\ Len(todo'[p]) = Len(todo[p]) - 1
          /\ \A i \in 1..Len(todo[p]) - 1 : todo'[p][i] = todo[p][i + 1]
      BY <1>1, <2>2, <2>3, TailIsAList
    <2>9. Present' = Present /\ Names(p)' = Names(p)
      BY <1>1 DEF Present, Names
    <2>10. \A i \in 1..Len(got'[p]) : i \in 1..Len(got[p]) \/ i = Len(got[p]) + 1
      BY <2>3, <2>7
    <2>11. \A s \in Present : sb.spec.name = s.name => sb.spec = s
      BY <1>0, <2>6, PresentIs
    <2>12. FoundOK(p)'
      <3>1. \A i \in 1..Len(got'[p]) : IsSandbox(got'[p][i]) /\ got'[p][i].spec \in since'[p]
        BY <1>1, <2>6, <2>7, <2>10 DEF FoundOK
      <3>2. \A s \in before'[p] \cap Present' : \A i \in 1..Len(got'[p]) :
              got'[p][i].spec.name = s.name => got'[p][i].spec = s
        BY <1>1, <2>7, <2>9, <2>10, <2>11 DEF FoundOK
      <3>3. Present' \subseteq since'[p]
        BY <1>1, <2>9 DEF FoundOK
      <3>4. QED BY <2>7, <2>8, <3>1, <3>2, <3>3 DEF FoundOK
    <2>13. ReadingOK(p)'
      <3>1. \A i \in 1..Len(got'[p]) : got'[p][i].spec.name = Names(p)[i]
        BY <1>a, <2>5, <2>6, <2>7, <2>10 DEF InOrder
      <3>2. Len(got'[p]) + Len(todo'[p]) = Len(Names(p))
        <4>1. Len(got'[p]) = Len(got[p]) + 1 /\ Len(todo'[p]) = Len(todo[p]) - 1
          BY <2>7, <2>8
        <4>2. QED BY <1>a, <2>3, <4>1, Counting
      <3>3. ASSUME NEW i \in 1..Len(todo'[p]) PROVE todo'[p][i] = Names(p)[Len(got'[p]) + i]
        <4>1. i + 1 \in 1..Len(todo[p]) /\ todo'[p][i] = todo[p][i + 1] /\ i \in Nat
          BY <2>3, <2>8
        <4>2. todo[p][i + 1] = Names(p)[Len(got[p]) + (i + 1)]
          BY <1>b, <4>1
        <4>3. Len(got[p]) + (i + 1) = Len(got'[p]) + i
          <5>1. Len(got'[p]) = Len(got[p]) + 1 /\ Len(got[p]) \in Nat /\ i \in Nat
            BY <2>3, <2>7, <4>1
          <5>2. QED BY <5>1, Counting
        <4>4. QED BY <4>1, <4>2, <4>3
      <3>4. at'[p] = "Inspect" => ApiRef(request'[p].ref).name = ""
        BY <1>a
      <3>5. QED BY <2>9, <3>1, <3>2, <3>3, <3>4 DEF ReadingOK, InOrder
    <2>14. QED BY <2>2, <2>12, <2>13 DEF Listing
  <1> QED BY <1>3, <1>4

\* matching has all of them, or the one that was looked for,
LEMMA MatchedListing ==
  ASSUME Sound, NEW p \in Processes, Matched(p), Known(p), Listing(p)
  PROVE  Listing(p)'
  <1>0. Shapes /\ StoreInv
    BY DEF Sound
  <1>1. /\ pc[p] = "reading" /\ todo[p] = <<>> /\ FoundOK(p) /\ ReadingOK(p)
        /\ records' = records /\ at' = at /\ request' = request /\ before' = before /\ since' = since
    BY DEF Matched, Listing, serviceVars, clientVars
  <1>2. at[p] \in {"Inspect", "List"}
    BY <1>1 DEF Sound, Control, PlaceOK
  <1>3. AList(got[p]) /\ Len(got[p]) \in Nat /\ DOMAIN got[p] = 1..Len(got[p])
    BY <1>1, ListIs DEF FoundOK
  <1>4. Present' = Present /\ Names(p)' = Names(p)
    BY <1>1 DEF Present, Names
  <1>5. Len(todo[p]) = 0
    BY <1>1
  <1>a. InOrder(p) /\ Len(got[p]) + Len(todo[p]) = Len(Names(p))
    BY <1>1 DEF ReadingOK
  <1>6. Len(got[p]) = Len(Names(p))
    BY <1>a, <1>3, <1>5
  <1>7. CASE at[p] = "List"
    <2>1. /\ pc'[p] = "observing" /\ got'[p] = got[p]
          /\ todo'[p] = [i \in DOMAIN got[p] |-> got[p][i].spec.name]
      BY <1>0, <1>7 DEF Matched, Shapes
    <2> DEFINE S == {got[p][i].spec.name : i \in DOMAIN got[p]}
    <2>2. todo'[p] = [i \in 1..Len(got[p]) |-> got[p][i].spec.name] /\ \A i \in 1..Len(got[p]) : got[p][i].spec.name \in S
      BY <1>3, <2>1
    <2> HIDE DEF S
    <2>3. todo'[p] \in Seq(S) /\ Len(todo'[p]) = Len(got[p])
      BY <1>3, <2>2
    <2>4. AList(todo'[p])
      BY <2>3, SeqIsAList
    <2>5. FoundOK(p)'
      BY <1>1, <1>4, <2>1, <2>4 DEF FoundOK
    <2>6. ObservingOK(p)'
      <3>1. at'[p] = "List" /\ at'[p] # "Inspect"
        BY <1>1, <1>7
      <3>2. InOrder(p)'
        BY <1>1, <1>4, <2>1 DEF ReadingOK, InOrder
      <3>3. Len(todo'[p]) <= Len(got'[p]) /\ Len(got'[p]) = Len(Names(p)')
        BY <1>3, <1>4, <1>6, <2>1, <2>3
      <3>4. QED BY <3>1, <3>2, <3>3 DEF ObservingOK
    <2>7. QED BY <2>1, <2>5, <2>6 DEF Listing
  <1>8. CASE at[p] = "Inspect"
    <2> DEFINE path == IF at[p] = "List" THEN NoPath ELSE ApiRef(request[p].ref).path
               hits == {i \in DOMAIN got[p] : Matches(got[p][i], path)}
               hit == CHOOSE i \in hits : First(i, hits)
    <2>0. at[p] # "List"
      BY <1>8
    <2>1. CASE hits = {}
      <3>1. Reply(p, Failure({"ErrNotFound"}))
        BY <1>8, <2>0, <2>1 DEF Matched
      <3>2. pc'[p] = "answered"
        BY <1>0, <3>1, ReplyEffect
      <3>3. QED BY <3>2 DEF Listing
    <2>2. CASE hits # {}
      <3>1. hit \in hits
        BY <1>3, <2>2, AFirst
      <3>2. PICK i : i = hit
        OBVIOUS
      <3>3. PICK sb : sb = got[p][i]
        OBVIOUS
      <3>4. i \in 1..Len(got[p])
        BY <1>3, <3>1, <3>2
      <3> DEFINE mine == <<sb>>
      <3>5. /\ pc'[p] = "observing" /\ got'[p] = mine
            /\ todo'[p] = [j \in DOMAIN mine |-> mine[j].spec.name]
        <4>1. /\ pc'[p] = "observing" /\ got'[p] = <<got[p][hit]>>
              /\ todo'[p] = [j \in DOMAIN <<got[p][hit]>> |-> <<got[p][hit]>>[j].spec.name]
          <5> DEFINE one == <<got[p][CHOOSE j \in hits : First(j, hits)]>>
                     kept == IF at[p] = "List" THEN got[p] ELSE one
          <5>1. one = <<got[p][hit]>>
            OBVIOUS
          <5>a. ~(at[p] = "Inspect" /\ hits = {})
            BY <2>2
          <5>b. /\ got' = [got EXCEPT ![p] = kept] /\ pc' = [pc EXCEPT ![p] = "observing"]
                /\ todo' = [todo EXCEPT ![p] = [j \in DOMAIN kept |-> kept[j].spec.name]]
            BY <5>a, Zenon DEF Matched
          <5>c. kept = one
            BY <2>0
          <5>2. /\ got' = [got EXCEPT ![p] = one] /\ pc' = [pc EXCEPT ![p] = "observing"]
                /\ todo' = [todo EXCEPT ![p] = [j \in DOMAIN one |-> one[j].spec.name]]
            <6> HIDE DEF kept, one, hits
            <6>1. QED BY <5>b, <5>c
          <5> HIDE DEF hit, one
          <5>3. QED BY <1>0, <5>1, <5>2 DEF Shapes
        <4> HIDE DEF hit
        <4>2. QED BY <3>2, <3>3, <4>1
      <3>6. AList(mine) /\ Len(mine) = 1 /\ mine[1] = sb /\ DOMAIN mine = 1..1
        BY SingletonIsAList
      <3>7. \A j \in 1..Len(mine) : mine[j] = sb
        BY <3>6
      <3> HIDE DEF mine
      <3>8. todo'[p] = [j \in 1..1 |-> sb.spec.name]
        BY <3>5, <3>6, <3>7
      <3>9. todo'[p] \in Seq({sb.spec.name}) /\ Len(todo'[p]) = 1
        BY <3>8
      <3>10. AList(todo'[p])
        BY <3>9, SeqIsAList
      <3>11. IsSandbox(sb) /\ sb.spec \in since[p] /\ \A s \in before[p] \cap Present : sb.spec.name = s.name => sb.spec = s
        BY <1>1, <3>3, <3>4 DEF FoundOK
      <3>12. FoundOK(p)'
        BY <1>1, <1>4, <3>5, <3>6, <3>7, <3>10, <3>11 DEF FoundOK
      <3>13. ObservingOK(p)'
        BY <1>1, <1>8, <2>0, <3>5, <3>6, <3>9 DEF ObservingOK
      <3>14. QED BY <3>5, <3>12, <3>13 DEF Listing
    <2>3. QED BY <2>1, <2>2
  <1> QED BY <1>2, <1>7, <1>8

\* and observing changes no spec.
LEMMA ObserveListing ==
  ASSUME Sound, NEW p \in Processes, Observe(p), Known(p), Listing(p)
  PROVE  /\ Listing(p)'
         /\ Len(got'[p]) = Len(got[p]) /\ \A i \in 1..Len(got[p]) : got'[p][i].spec = got[p][i].spec
  <1>0. Shapes /\ StoreInv
    BY DEF Sound
  <1>1. /\ pc[p] = "observing" /\ todo[p] # <<>> /\ FoundOK(p) /\ ObservingOK(p)
        /\ pc' = pc /\ records' = records /\ at' = at /\ request' = request /\ before' = before /\ since' = since
    BY DEF Observe, Listing, serviceVars, clientVars
  <1>2. /\ AList(got[p]) /\ Len(got[p]) \in Nat /\ DOMAIN got[p] = 1..Len(got[p])
        /\ AList(todo[p]) /\ Len(todo[p]) \in Nat /\ Len(todo[p]) > 0
    BY <1>1, ListIs DEF FoundOK
  <1>3. Present' = Present /\ Names(p)' = Names(p)
    BY <1>1 DEF Present, Names
  <1>4. PICK i : i = Len(got[p]) - Len(todo[p]) + 1
    OBVIOUS
  <1>a. Len(todo[p]) <= Len(got[p])
    BY <1>1 DEF ObservingOK
  <1>5. i \in 1..Len(got[p])
    BY <1>a, <1>2, <1>4, Counting
  <1>6. PICK status : got' = got \/ got' = [got EXCEPT ![p][i].state.status = status]
    <2>1. \/ got' = [got EXCEPT ![p][Len(got[p]) - Len(todo[p]) + 1].state.status =
                        IF Head(todo[p]) \in DOMAIN boxes THEN boxes[Head(todo[p])].status ELSE "missing"]
          \/ got' = got
      BY DEF Observe
    <2>2. QED BY <1>4, <2>1
  <1>7. /\ AList(got'[p]) /\ Len(got'[p]) = Len(got[p])
        /\ \A j \in 1..Len(got[p]) : IsSandbox(got'[p][j]) /\ got'[p][j].spec = got[p][j].spec
    <2>1. CASE got' = got
      BY <1>1, <1>2, <2>1 DEF FoundOK
    <2>2. CASE got' = [got EXCEPT ![p][i].state.status = status]
      <3> DEFINE old == got[p]
                 new == [old EXCEPT ![i].state.status = status]
                 sb == [old[i] EXCEPT !.state.status = status]
      <3>1. got'[p] = new
        BY <1>0, <2>2 DEF Shapes
      <3>2. new = [old EXCEPT ![i] = sb]
        OBVIOUS
      <3>3. IsSandbox(sb) /\ sb.spec = old[i].spec
        BY <1>1, <1>5, RestatusIs DEF FoundOK
      <3> DEFINE S == {old[j] : j \in DOMAIN old} \cup {sb}
      <3>4. old \in Seq(S) /\ sb \in S
        BY <1>2 DEF AList
      <3> HIDE DEF old, sb, S
      <3>5. /\ [old EXCEPT ![i] = sb] \in Seq(S) /\ Len([old EXCEPT ![i] = sb]) = Len(old)
            /\ [old EXCEPT ![i] = sb][i] = sb
            /\ \A j \in 1..Len(old) : j # i => [old EXCEPT ![i] = sb][j] = old[j]
        BY <1>5, <3>4 DEF old
      <3>6. AList(new) /\ Len(new) = Len(old) /\ new[i] = sb /\ \A j \in 1..Len(old) : j # i => new[j] = old[j]
        BY <3>2, <3>5, SeqIsAList
      <3> HIDE DEF new
      <3>7. \A j \in 1..Len(old) : IsSandbox(old[j])
        BY <1>1 DEF FoundOK, old
      <3>8. \A j \in 1..Len(old) : IsSandbox(new[j]) /\ new[j].spec = old[j].spec
        BY <3>3, <3>6, <3>7
      <3>9. QED BY <3>1, <3>6, <3>8 DEF old
    <2>3. QED BY <1>6, <2>1, <2>2
  <1>8. /\ AList(todo'[p]) /\ Len(todo'[p]) = Len(todo[p]) - 1
    <2>1. todo'[p] = Tail(todo[p])
      BY <1>0 DEF Observe, Shapes
    <2>2. QED BY <1>1, <1>2, <2>1, TailIsAList
  <1>9. FoundOK(p)'
    BY <1>1, <1>3, <1>7, <1>8 DEF FoundOK
  <1>10. ObservingOK(p)'
    BY <1>1, <1>2, <1>3, <1>7, <1>8 DEF ObservingOK, InOrder
  <1> QED BY <1>1, <1>7, <1>9, <1>10 DEF Listing

\* After any other step of its own a process is not listing.
LEMMA ElseIdle ==
  ASSUME Sound, NEW p \in Processes, Step(p),
         ~FindByName(p), ~ReadDir(p), ~Get(p), ~Matched(p), ~Observe(p)
  PROVE  pc'[p] \in {"call", "answered", "done"}
  <1>0. Shapes /\ StoreInv /\ AsksAsToldTo(p)
    BY DEF Sound, Control
  <1>1. CASE Begin(p) \/ Continue(p)
    <2>1. Moves(p)
      BY <1>1, BeginMoves, ContinueMoves DEF Begin
    <2>2. pc'[p] = "call" \/ pc'[p] = "done"
      BY <1>0, <2>1, CallEffect, QuitEffect DEF Moves
    <2>3. QED BY <2>2
  <1>2. CASE Create(p) \/ Start(p) \/ Stop(p) \/ Remove(p) \/ Exec(p) \/ Copy(p) \/ Observed(p) \/ CallFails(p)
    <2>1. \E message : Reply(p, message)
      BY <1>2 DEF Create, Start, Stop, Boot, Remove, Exec, Copy, Observed, CallFails
    <2>2. QED BY <1>0, <2>1, ReplyEffect
  <1> QED BY <1>1, <1>2 DEF Step, Serves

\* Every step keeps the listings so.
LEMMA ListingStep ==
  ASSUME Sound, NEW p \in Processes, Step(p), \A q \in Processes : Known(q) /\ Listing(q)
  PROVE  \A q \in Processes : Listing(q)'
  <1>1. Listing(p)'
    <2>1. CASE ~FindByName(p) /\ ~ReadDir(p) /\ ~Get(p) /\ ~Matched(p) /\ ~Observe(p)
      BY <2>1, ElseIdle DEF Listing
    <2>2. QED BY <2>1, FindByNameListing, ReadDirListing, GetListing, MatchedListing, ObserveListing
  <1>2. ASSUME NEW q \in Processes \ {p} PROVE Listing(q)'
    <2>1. Same(q)
      BY OthersStay DEF Sound
    <2>2. CASE pc[q] = "idle"
      BY <2>1, <2>2 DEF Same, Listing
    <2>3. CASE pc[q] # "idle"
      <3>1. Ages /\ Follows(q)
        BY <2>3, AgesStep
      <3>2. QED BY <2>1, <3>1, ListingStays
    <2>4. QED BY <2>2, <2>3
  <1> QED BY <1>1, <1>2
\* What a listing shows is of the names it began with, of sandboxes that were there
\* meanwhile, and has all that were there all along.
Shown(p) == [i \in DOMAIN reply[p].sandboxes |-> ApiSandbox(reply[p].sandboxes[i]).spec]
ShownOK(p) ==
  /\ DOMAIN Shown(p) = 1..Len(Names(p))
  /\ \A i \in 1..Len(Names(p)) : Shown(p)[i].name = Names(p)[i] /\ Shown(p)[i] \in since[p]
  /\ \A s \in before[p] \cap Present : \E i \in 1..Len(Names(p)) : Shown(p)[i] = s
Listed(p) == Answered(p, "List") /\ Ok(p) => ShownOK(p)

\* What a listing ends with is what it shows.
LEMMA ObservedListed ==
  ASSUME Sound, NEW p \in Processes, Observed(p), Known(p), Listing(p)
  PROVE  Listed(p)'
  <1>0. Shapes
    BY DEF Sound
  <1>1. /\ pc[p] = "observing" /\ FoundOK(p) /\ ObservingOK(p)
        /\ records' = records /\ at' = at /\ before' = before /\ since' = since
    BY DEF Observed, Listing, serviceVars, clientVars
  <1>2. SUFFICES ASSUME at[p] = "List" PROVE ShownOK(p)'
    BY <1>1 DEF Listed, Answered
  <1>3. /\ AList(got[p]) /\ Len(got[p]) \in Nat /\ DOMAIN got[p] = 1..Len(got[p])
        /\ InOrder(p) /\ Len(got[p]) = Len(Names(p))
    BY <1>1, <1>2, ListIs DEF FoundOK, ObservingOK
  <1>4. Present' = Present /\ Names(p)' = Names(p)
    BY <1>1 DEF Present, Names
  <1> DEFINE sent == [i \in DOMAIN got[p] |-> ProtoSandbox(got[p][i])]
             message == [code |-> "OK", sandboxes |-> sent]
  <1>5. reply'[p] = message
    BY <1>0, <1>2, ReplyEffect DEF Observed
  <1>6. reply'[p].sandboxes = sent
    BY <1>5
  <1>7. DOMAIN sent = 1..Len(got[p]) /\ \A i \in 1..Len(got[p]) : ApiSandbox(sent[i]) = got[p][i]
    BY <1>1, <1>3, SandboxSurvives DEF FoundOK
  <1> HIDE DEF sent
  <1>8. DOMAIN Shown(p)' = 1..Len(got[p]) /\ \A i \in 1..Len(got[p]) : Shown(p)'[i] = got[p][i].spec
    BY <1>6, <1>7 DEF Shown
  <1>9. \A i \in 1..Len(Names(p)) : Shown(p)'[i].name = Names(p)[i] /\ Shown(p)'[i] \in since[p]
    BY <1>1, <1>3, <1>8 DEF FoundOK, InOrder
  <1>10. ASSUME NEW s \in before[p] \cap Present PROVE \E i \in 1..Len(Names(p)) : Shown(p)'[i] = s
    <2>1. PICK i \in 1..Len(Names(p)) : Names(p)[i] = s.name
      BY NamesAre
    <2>2. i \in 1..Len(got[p]) /\ got[p][i].spec.name = s.name
      BY <1>3, <2>1 DEF InOrder
    <2>3. got[p][i].spec = s
      BY <1>1, <2>2 DEF FoundOK
    <2>4. QED BY <1>8, <2>1, <2>2, <2>3
  <1>11. DOMAIN Shown(p)' = 1..Len(Names(p)')
    BY <1>3, <1>4, <1>8
  <1> QED BY <1>1, <1>4, <1>9, <1>10, <1>11 DEF ShownOK

\* No other step of a process answers what it lists.
LEMMA AnswersAre ==
  ASSUME Sound, NEW p \in Processes, Step(p), ~Observed(p)
  PROVE  pc'[p] = "answered" /\ Ok(p)' => at'[p] \notin {"List", "Inspect"}
  <1>0. Shapes /\ StoreInv /\ AsksAsToldTo(p)
    BY DEF Sound, Control
  <1>a. Failure({"ErrNotFound"}).code # "OK" /\ Failure({}).code # "OK" /\ [code |-> "Unavailable"].code # "OK"
    BY CodesAre DEF Failure
  <1>1. ASSUME NEW message, message.code # "OK", Reply(p, message) PROVE ~Ok(p)'
    BY <1>0, <1>1, ReplyEffect DEF Ok
  <1>2. CASE Begin(p) \/ Continue(p)
    <2>1. Moves(p)
      BY <1>2, BeginMoves, ContinueMoves DEF Begin
    <2>2. pc'[p] = "call" \/ pc'[p] = "done"
      BY <1>0, <2>1, CallEffect, QuitEffect DEF Moves
    <2>3. QED BY <2>2
  <1>3. CASE Create(p) \/ Start(p) \/ Stop(p) \/ Remove(p) \/ Exec(p) \/ Copy(p)
    <2>1. at' = at /\ at[p] \notin {"List", "Inspect"}
      BY <1>3 DEF Create, Start, Stop, Boot, Remove, Exec, Copy, Serving, clientVars
    <2>2. QED BY <2>1
  <1>4. CASE FindByName(p)
    <2>1. pc'[p] = "observing" \/ Reply(p, Failure({"ErrNotFound"}))
      BY <1>0, <1>4 DEF FindByName, Shapes
    <2>2. QED BY <1>1, <1>a, <2>1
  <1>5. CASE ReadDir(p)
    <2>1. pc'[p] = "reading"
      BY <1>0, <1>5 DEF ReadDir, Shapes
    <2>2. QED BY <2>1
  <1>6. CASE Get(p)
    <2>1. pc'[p] = "reading" \/ Reply(p, Failure({"ErrNotFound"})) \/ Reply(p, Failure({}))
      BY <1>0, <1>6 DEF Get, Gone
    <2>2. QED BY <1>1, <1>a, <2>1
  <1>7. CASE Matched(p)
    <2>1. pc'[p] = "observing" \/ Reply(p, Failure({"ErrNotFound"}))
      BY <1>0, <1>7 DEF Matched, Shapes
    <2>2. QED BY <1>1, <1>a, <2>1
  <1>8. CASE Observe(p)
    <2>1. pc'[p] = "observing"
      BY <1>8 DEF Observe
    <2>2. QED BY <2>1
  <1>9. CASE CallFails(p)
    <2>1. Reply(p, Failure({})) \/ Reply(p, [code |-> "Unavailable"])
      BY <1>9 DEF CallFails
    <2>2. QED BY <1>1, <1>a, <2>1
  <1> QED BY <1>2, <1>3, <1>4, <1>5, <1>6, <1>7, <1>8, <1>9 DEF Step, Serves

\* Every step keeps what has been shown true.
LEMMA ListedStep ==
  ASSUME Sound, NEW p \in Processes, Step(p), \A q \in Processes : Known(q) /\ Listing(q) /\ Listed(q)
  PROVE  \A q \in Processes : Listed(q)'
  <1>1. Listed(p)'
    BY ObservedListed, AnswersAre DEF Listed, Answered
  <1>2. ASSUME NEW q \in Processes \ {p} PROVE Listed(q)'
    <2>1. /\ pc'[q] = pc[q] /\ at'[q] = at[q] /\ reply'[q] = reply[q] /\ before'[q] = before[q]
      BY OthersStay DEF Sound, Same
    <2>2. SUFFICES ASSUME Answered(q, "List"), Ok(q), ShownOK(q) PROVE ShownOK(q)'
      BY <2>1 DEF Listed, Answered, Ok
    <2>3. Ages /\ since[q] \subseteq since'[q]
      BY <2>2, AgesStep DEF Follows, Answered
    <2>4. before[q] \cap Present' \subseteq before[q] \cap Present
      BY <2>3 DEF Ages, Known
    <2>5. Shown(q)' = Shown(q) /\ Names(q)' = Names(q)
      BY <2>1 DEF Shown, Names
    <2>6. \A i \in 1..Len(Names(q)) : Shown(q)[i].name = Names(q)[i] /\ Shown(q)[i] \in since'[q]
      BY <2>2, <2>3 DEF ShownOK
    <2>7. \A s \in before[q] \cap Present' : \E i \in 1..Len(Names(q)) : Shown(q)[i] = s
      BY <2>2, <2>4 DEF ShownOK
    <2>8. DOMAIN Shown(q) = 1..Len(Names(q))
      BY <2>2 DEF ShownOK
    <2>9. QED BY <2>1, <2>5, <2>6, <2>7, <2>8 DEF ShownOK
  <1> QED BY <1>1, <1>2

\* The invariant of the listings.
Lists == \A p \in Processes : Known(p) /\ Listing(p) /\ Listed(p)

\* It holds where nobody lists,
LEMMA InitLists ==
  ASSUME Init
  PROVE  Lists
  <1>1. ASSUME NEW p \in Processes PROVE pc[p] = "idle" /\ before[p] = {}
    BY DEF Init
  <1>2. ASSUME NEW p \in Processes PROVE Known(p) /\ Listing(p) /\ Listed(p)
    BY <1>1 DEF Known, Listing, Listed, Answered
  <1> QED BY <1>2 DEF Lists

\* and where nothing happens.
LEMMA StutterLists ==
  ASSUME Lists, UNCHANGED vars
  PROVE  Lists'
  <1>1. UNCHANGED <<records, births, at, pc, request, reply, todo, got, before, since>>
    BY DEF vars, serviceVars, clientVars, listingVars
  <1>2. Present' = Present
    BY <1>1 DEF Present
  <1>3. ASSUME NEW p \in Processes PROVE Known(p)' /\ Listing(p)' /\ Listed(p)'
    <2>1. Names(p)' = Names(p) /\ Shown(p)' = Shown(p)
      BY <1>1 DEF Names, Shown
    <2>2. Known(p)'
      BY <1>1 DEF Lists, Known
    <2>3. FoundOK(p)' = FoundOK(p) /\ ReadingOK(p)' = ReadingOK(p) /\ ObservingOK(p)' = ObservingOK(p)
      BY <1>1, <1>2, <2>1 DEF FoundOK, ReadingOK, ObservingOK, InOrder
    <2>4. ShownOK(p)' = ShownOK(p)
      BY <1>1, <1>2, <2>1 DEF ShownOK
    <2>5. QED BY <1>1, <2>2, <2>3, <2>4 DEF Lists, Listing, Listed, Answered, Ok
  <1> QED BY <1>3 DEF Lists

\* Whatever is created, removed, started or stopped while it lists, a listing has
\* found what it should so far, and shows what it should in the end.
THEOREM ListsInvariant == Spec => []Lists
<1>1. Init => Lists
  BY InitLists
<1>2. Sound /\ Sound' /\ Lists /\ [Next]_vars => Lists'
  <2> SUFFICES ASSUME Sound, Lists, [Next]_vars PROVE Lists'
    OBVIOUS
  <2>1. CASE UNCHANGED vars
    BY <2>1, StutterLists
  <2>2. CASE Next
    <3>1. PICK p \in Processes : Step(p)
      BY <2>2, NextIs
    <3>2. QED BY <3>1, KnownStep, ListingStep, ListedStep DEF Lists
  <2>3. QED BY <2>1, <2>2
<1> QED
  BY <1>1, <1>2, SoundInvariant, PTL DEF Spec

\* Whatever happens while it lists, what ls shows is in order, has every sandbox that
\* was there all along, and only such as were there at some time meanwhile.
THEOREM ListingsAreFaithful == Spec => []ListIsFaithful
<1>1. Lists => ListIsFaithful
  <2> SUFFICES ASSUME Lists, NEW p \in Processes, Answered(p, "List"), Ok(p)
               PROVE  LET specs == {Shown(p)[i] : i \in DOMAIN Shown(p)}
                      IN  /\ before[p] \cap Present \subseteq specs /\ specs \subseteq since[p]
                          /\ [i \in DOMAIN Shown(p) |-> Shown(p)[i].name] = Sorted({s.name : s \in specs})
    BY DEF ListIsFaithful, Shown
  <2> DEFINE shown == Shown(p)
             names == Names(p)
             specs == {shown[i] : i \in DOMAIN shown}
  <2>1. /\ DOMAIN shown = 1..Len(names)
        /\ \A i \in 1..Len(names) : shown[i].name = names[i] /\ shown[i] \in since[p]
        /\ \A s \in before[p] \cap Present : \E i \in 1..Len(names) : shown[i] = s
    BY DEF Lists, Listed, ShownOK
  <2>2. /\ names = [i \in 1..Len(names) |-> names[i]]
        /\ \A i \in 1..Len(names) : \E s \in before[p] : s.name = names[i]
        /\ \A s \in before[p] : \E i \in 1..Len(names) : names[i] = s.name
    BY NamesAre DEF Lists
  <2> HIDE DEF shown, names
  <2>3. before[p] \cap Present \subseteq specs /\ specs \subseteq since[p]
    BY <2>1
  <2>4. {s.name : s \in specs} = {s.name : s \in before[p]}
    BY <2>1, <2>2
  <2>5. [i \in DOMAIN shown |-> shown[i].name] = names
    BY <2>1, <2>2
  <2>6. names = Sorted({s.name : s \in specs})
    BY <2>4 DEF names, Names
  <2>7. QED BY <2>3, <2>5, <2>6 DEF shown
<1> QED
  BY <1>1, ListsInvariant, PTL
-----------------------------------------------------------------------------
(***************************************************************************)
(* What a run that finds nothing creates, and where its agent runs.        *)
(***************************************************************************)
\* What run looks for arrives as it was sent.
LEMMA RunRefIs ==
  ASSUME NEW l, runRef(l) # Rejected
  PROVE  /\ ApiRef(RefRequest(runRef(l)).ref) = runRef(l)
         /\ l.flags.name = "" => runRef(l).name = ""
  <1> DEFINE paths == splitAgentAndPaths(l.args).paths
             first == IF paths = <<>> THEN [host |-> l.cwd] ELSE parseWorkspace(paths[1], l.cwd)
  <1>1. runRef(l) = ByName(l.flags.name) \/ runRef(l) = ByPath(first.host)
    BY DEF runRef
  <1>2. l.flags.name = "" => runRef(l) = ByPath(first.host)
    BY DEF runRef
  <1>3. \A path : ByPath(path).name = ""
    BY DEF ByPath
  <1> HIDE DEF first
  <1>4. runRef(l) = [name |-> runRef(l).name, path |-> runRef(l).path]
    BY <1>1 DEF ByName, ByPath
  <1>5. ApiRef(ProtoRef(runRef(l))) = runRef(l)
    BY <1>4, RequestsSurvive
  <1>6. RefRequest(runRef(l)).ref = ProtoRef(runRef(l))
    BY DEF RefRequest
  <1> QED BY <1>2, <1>3, <1>5, <1>6

\* A spec is what a reference stands for.
Stands(spec, ref) == IF ref.name # "" THEN spec.name = ref.name ELSE Primary(spec) = ref.path

\* A run that has looked for its sandbox and found none.
Looked(p) ==
  /\ line[p].cmd = "run"
  /\ at[p] = "Create" \/ (Answered(p, "Inspect") /\ reply[p].code = "NotFound")
NothingThere(p) ==
  Looked(p) /\ before[p] \subseteq Present => \A s \in before[p] : ~Stands(s, runRef(line[p]))

\* Where there was nothing, there is nothing until the command begins to look again.
LEMMA NothingStays ==
  ASSUME Ages, NEW q, Known(q), NothingThere(q), line'[q] = line[q], before'[q] = before[q],
         Looked(q)' => Looked(q)
  PROVE  NothingThere(q)'
  <1>1. before[q] \subseteq Present' => before[q] \subseteq Present
    BY DEF Ages, Known
  <1> QED BY <1>1 DEF NothingThere

\* Finding by name that finds nothing: there was no such record.
LEMMA FindByNameNothing ==
  ASSUME Sound, NEW p \in Processes, FindByName(p)
  PROVE  NothingThere(p)'
  <1>0. Shapes /\ StoreInv
    BY DEF Sound
  <1>1. /\ at[p] = "Inspect" /\ at' = at /\ line' = line /\ records' = records /\ before'[p] = Present
    BY <1>0 DEF FindByName, Serving, clientVars, serviceVars, Shapes
  <1>2. SUFFICES ASSUME Looked(p)' PROVE \A s \in Present : ~Stands(s, runRef(line[p]))
    BY <1>1 DEF NothingThere
  <1>3. line[p].cmd = "run" /\ pc'[p] = "answered"
    BY <1>1, <1>2 DEF Looked, Answered
  <1>4. runRef(line[p]) # Rejected /\ request[p] = RefRequest(runRef(line[p]))
    BY <1>1, <1>3 DEF Sound, Control, LooksAsToldTo
  <1>5. ApiRef(request[p].ref) = runRef(line[p])
    BY <1>4, RunRefIs
  <1>6. runRef(line[p]).name # "" /\ runRef(line[p]).name \notin DOMAIN records
    <2>1. ApiRef(request[p].ref).name # ""
      BY DEF FindByName
    <2>2. ApiRef(request[p].ref).name \in DOMAIN records => pc'[p] = "observing"
      BY <1>0 DEF FindByName, Shapes
    <2>3. QED BY <1>3, <1>5, <2>1, <2>2
  <1>7. \A s \in Present : s.name \in DOMAIN records
    BY <1>0, PresentIs
  <1> QED BY <1>6, <1>7 DEF Stands

\* A record that has gone while it was being read was removed.
LEMMA GetNothing ==
  ASSUME Sound, NEW p \in Processes, Get(p), Known(p), Listing(p)
  PROVE  NothingThere(p)'
  <1>0. Shapes /\ StoreInv
    BY DEF Sound
  <1>1. /\ pc[p] = "reading" /\ todo[p] # <<>> /\ FoundOK(p) /\ ReadingOK(p)
        /\ records' = records /\ before' = before
    BY DEF Get, Listing, serviceVars
  <1>2. CASE Head(todo[p]) \in DOMAIN records
    <2>1. pc' = pc /\ reply' = reply /\ at' = at
      BY <1>2 DEF Get, clientVars
    <2>2. at[p] # "Create"
      BY <1>1 DEF Sound, Control, PlaceOK
    <2>3. QED BY <1>1, <2>1, <2>2 DEF NothingThere, Looked, Answered
  <1>3. CASE Head(todo[p]) \notin DOMAIN records
    <2>1. AList(todo[p]) /\ Len(todo[p]) \in Nat /\ Len(todo[p]) > 0 /\ AList(got[p]) /\ Len(got[p]) \in Nat
      BY <1>1, ListIs DEF FoundOK
    <2>2. Head(todo[p]) = todo[p][1] /\ 1 \in 1..Len(todo[p])
      BY <2>1 DEF AList
    <2>3. todo[p][1] = Names(p)[Len(got[p]) + 1] /\ Len(got[p]) + Len(todo[p]) = Len(Names(p))
      BY <1>1, <2>2 DEF ReadingOK
    <2>4. Len(got[p]) + 1 \in 1..Len(Names(p))
      <3>1. \A a, b \in Nat : b > 0 => a + 1 \in 1..(a + b)
        OBVIOUS
      <3>2. QED BY <2>1, <2>3, <3>1
    <2>5. PICK s \in before[p] : s.name = Names(p)[Len(got[p]) + 1]
      BY <2>4, NamesAre
    <2>6. s.name \notin DOMAIN records
      BY <1>3, <2>2, <2>3, <2>5
    <2>7. s \notin Present
      BY <1>0, <2>6, PresentIs
    <2>8. Present' = Present
      BY <1>1 DEF Present
    <2>9. QED BY <1>1, <2>7, <2>8 DEF NothingThere
  <1> QED BY <1>2, <1>3

\* Matching that finds nothing: no record that was there has the path, or it was removed.
LEMMA MatchedNothing ==
  ASSUME Sound, NEW p \in Processes, Matched(p), Known(p), Listing(p)
  PROVE  NothingThere(p)'
  <1>0. Shapes /\ StoreInv
    BY DEF Sound
  <1>1. /\ pc[p] = "reading" /\ todo[p] = <<>> /\ FoundOK(p) /\ ReadingOK(p)
        /\ records' = records /\ at' = at /\ line' = line /\ before' = before
    BY DEF Matched, Listing, serviceVars, clientVars
  <1>2. SUFFICES ASSUME Looked(p)', before[p] \subseteq Present, NEW s \in before[p], Stands(s, runRef(line[p]))
                 PROVE  FALSE
    BY <1>1 DEF NothingThere, Present
  <1>3. line[p].cmd = "run" /\ at[p] = "Inspect" /\ pc'[p] = "answered"
    <2>1. at[p] # "Create"
      BY <1>1 DEF Sound, Control, PlaceOK
    <2>2. QED BY <1>1, <1>2, <2>1 DEF Looked, Answered
  <1>4. runRef(line[p]) # Rejected /\ request[p] = RefRequest(runRef(line[p]))
    BY <1>3 DEF Sound, Control, LooksAsToldTo
  <1>5. ApiRef(request[p].ref) = runRef(line[p])
    BY <1>4, RunRefIs
  <1>6. runRef(line[p]).name = ""
    BY <1>1, <1>3, <1>5 DEF ReadingOK
  <1>7. Primary(s) = runRef(line[p]).path
    BY <1>2, <1>6 DEF Stands
  <1>8. AList(got[p]) /\ Len(got[p]) \in Nat /\ DOMAIN got[p] = 1..Len(got[p])
    BY <1>1, ListIs DEF FoundOK
  <1>9. InOrder(p) /\ Len(got[p]) = Len(Names(p))
    <2>1. InOrder(p) /\ Len(got[p]) + Len(todo[p]) = Len(Names(p))
      BY <1>1 DEF ReadingOK
    <2>2. Len(todo[p]) = 0
      BY <1>1
    <2>3. \A a \in Nat : a + 0 = a
      OBVIOUS
    <2>4. QED BY <1>8, <2>1, <2>2, <2>3
  <1>10. PICK i \in 1..Len(Names(p)) : Names(p)[i] = s.name
    BY NamesAre
  <1>11. i \in DOMAIN got[p] /\ got[p][i].spec = s
    <2>1. i \in 1..Len(got[p]) /\ got[p][i].spec.name = s.name
      BY <1>9, <1>10 DEF InOrder
    <2>2. s \in before[p] \cap Present
      BY <1>2
    <2>3. QED BY <1>1, <1>8, <2>1, <2>2 DEF FoundOK
  <1> DEFINE path == IF at[p] = "List" THEN NoPath ELSE ApiRef(request[p].ref).path
             hits == {j \in DOMAIN got[p] : Matches(got[p][j], path)}
  <1>12. path = runRef(line[p]).path
    BY <1>3, <1>5
  <1>13. i \in hits
    BY <1>7, <1>11, <1>12 DEF Matches
  <1>14. ~(at[p] = "Inspect" /\ hits = {})
    BY <1>13
  <1>15. pc' = [pc EXCEPT ![p] = "observing"]
    BY <1>14, Zenon DEF Matched
  <1>16. pc'[p] = "observing"
    BY <1>0, <1>15 DEF Shapes
  <1> QED BY <1>3, <1>16

\* A command that goes on to create has looked; nothing else goes on to look like it.
LEMMA BeginNothing ==
  ASSUME Sound, NEW p \in Processes, Begin(p)
  PROVE  NothingThere(p)'
  <1>0. Shapes
    BY DEF Sound
  <1>1. PICK l \in Lines :
          /\ \/ BeginRun(p, l) \/ BeginCreate(p, l) \/ BeginAct(p, l)
             \/ BeginExec(p, l) \/ BeginCopy(p, l) \/ BeginList(p, l)
          /\ line' = [line EXCEPT ![p] = l]
    BY DEF Begin
  <1>2. line'[p] = l
    BY <1>0, <1>1 DEF Shapes
  <1>3. SUFFICES ASSUME l.cmd = "run" PROVE ~Looked(p)'
    BY <1>2 DEF NothingThere, Looked
  <1>4. BeginRun(p, l)
    BY <1>1, <1>3 DEF BeginCreate, BeginAct, BeginExec, BeginCopy, BeginList
  <1>5. PICK ref, message : CallOrQuit(p, "Inspect", ref, message)
    BY <1>4 DEF BeginRun
  <1>6. \/ at'[p] = "Inspect" /\ pc'[p] = "call"
        \/ at'[p] = "none"
    BY <1>0, <1>5, CallEffect, QuitEffect DEF CallOrQuit
  <1> QED BY <1>6 DEF Looked, Answered

\* A command goes on to create only once it has looked.
LEMMA ContinueNothing ==
  ASSUME Sound, NEW p \in Processes, Continue(p), Ages, Known(p), NothingThere(p)
  PROVE  NothingThere(p)'
  <1>0. Shapes
    BY DEF Sound
  <1>1. line' = line /\ before' = before
    BY DEF Continue, listingVars
  <1>a. ASSUME NEW which, which # "Create", NEW message, Call(p, which, message) PROVE ~Looked(p)'
    <2>1. at'[p] = which /\ pc'[p] = "call"
      BY <1>0, <1>a, CallEffect
    <2>2. QED BY <1>a, <2>1 DEF Looked, Answered
  <1>b. ASSUME NEW status, Quit(p, status) PROVE ~Looked(p)'
    <2>1. at'[p] = "none"
      BY <1>0, <1>b, QuitEffect
    <2>2. QED BY <2>1 DEF Looked, Answered
  <1>c. ASSUME NEW sb, Attach(p, sb) PROVE ~Looked(p)'
    <2>1. PICK req, message : CallOrQuit(p, "Exec", req, message)
      BY <1>c DEF Attach
    <2>2. Quit(p, 1) \/ Call(p, "Exec", message)
      BY <2>1 DEF CallOrQuit
    <2>3. QED BY <1>a, <1>b, <2>2
  <1>2. CASE RunFinds(p)
    <2> DEFINE sb == ApiSandbox(reply[p].sandbox)
    <2>1. Attach(p, sb) \/ Call(p, "Start", RefRequest(ByName(sb.spec.name)))
      BY <1>2 DEF RunFinds
    <2>2. ~Looked(p)'
      BY <1>a, <1>c, <2>1
    <2>3. QED BY <2>2 DEF NothingThere
  <1>3. CASE RunCreates(p)
    <2>1. Answered(p, "Inspect") /\ line[p].cmd = "run" /\ "ErrNotFound" \in localError(reply[p].code)
      BY <1>3 DEF RunCreates, NothingHere
    <2>2. Looked(p)
      BY <2>1, NotFoundIs DEF Looked
    <2>3. QED BY <1>1, <2>2, NothingStays
  <1>4. CASE RunAttaches(p)
    <2>1. ~Looked(p)'
      BY <1>c, <1>4 DEF RunAttaches
    <2>2. QED BY <2>1 DEF NothingThere
  <1>5. CASE Act(p)
    <2>1. PICK which \in {"Start", "Stop", "Remove"} : \E message : Call(p, which, message)
      BY <1>5 DEF Act
    <2>2. ~Looked(p)'
      BY <1>a, <2>1
    <2>3. QED BY <2>2 DEF NothingThere
  <1>6. CASE Finish(p) \/ Fail(p)
    <2>1. PICK status : Quit(p, status)
      BY <1>6 DEF Finish, Fail
    <2>2. ~Looked(p)'
      BY <1>b, <2>1
    <2>3. QED BY <2>2 DEF NothingThere
  <1> QED BY <1>2, <1>3, <1>4, <1>5, <1>6 DEF Continue

\* Whatever the daemon does, a lookup that has found nothing stands for what was there.
LEMMA ServesNothing ==
  ASSUME Sound, NEW p \in Processes, Serves(p), Ages, Known(p), Listing(p), NothingThere(p)
  PROVE  NothingThere(p)'
  <1>0. Shapes /\ at' = at /\ line' = line
    BY ServesEffect DEF Sound
  <1>1. CASE FindByName(p) \/ Get(p) \/ Matched(p)
    BY <1>1, FindByNameNothing, GetNothing, MatchedNothing
  <1>2. CASE ReadDir(p)
    <2>1. pc'[p] = "reading" /\ at[p] # "Create"
      BY <1>0, <1>2 DEF ReadDir, Serving, Shapes
    <2>2. QED BY <1>0, <2>1 DEF NothingThere, Looked, Answered
  <1>3. CASE ~FindByName(p) /\ ~Get(p) /\ ~Matched(p) /\ ~ReadDir(p)
    <2>1. before'[p] = before[p]
      BY <1>3, BeforeStep DEF Step
    <2>2. Looked(p)' => Looked(p)
      <3>1. CASE at[p] = "Create"
        BY <1>0, <3>1 DEF Looked
      <3>2. CASE at[p] # "Inspect" /\ at[p] # "Create"
        BY <1>0, <3>2 DEF Looked, Answered
      <3>3. CASE at[p] = "Inspect"
        <4>1. Observe(p) \/ Observed(p) \/ CallFails(p)
          BY <1>3, <3>3 DEF Serves, Create, Start, Stop, Boot, Remove, Exec, Copy, Serving
        <4>2. CASE Observe(p)
          <5>1. pc'[p] = "observing"
            BY <4>2 DEF Observe
          <5>2. QED BY <1>0, <3>3, <5>1 DEF Looked, Answered
        <4>3. CASE Observed(p)
          <5>1. \E sandbox : Reply(p, [code |-> "OK", sandbox |-> sandbox])
            BY <3>3, <4>3 DEF Observed
          <5>2. reply'[p].code = "OK"
            BY <1>0, <5>1, ReplyEffect
          <5>3. QED BY <1>0, <3>3, <5>2 DEF Looked
        <4>4. CASE CallFails(p)
          <5>1. Reply(p, Failure({})) \/ Reply(p, [code |-> "Unavailable"])
            BY <4>4 DEF CallFails
          <5>2. Failure({}).code = "Unknown"
            BY CodesAre DEF Failure
          <5>3. reply'[p].code = "Unknown" \/ reply'[p].code = "Unavailable"
            BY <1>0, <5>1, <5>2, ReplyEffect
          <5>4. QED BY <1>0, <3>3, <5>3 DEF Looked
        <4>5. QED BY <4>1, <4>2, <4>3, <4>4
      <3>4. QED BY <3>1, <3>2, <3>3
    <2>3. QED BY <1>0, <2>1, <2>2, NothingStays
  <1> QED BY <1>1, <1>2, <1>3

Found == \A p \in Processes : NothingThere(p)

\* Every step keeps that,
LEMMA FoundStep ==
  ASSUME Sound, Lists, Found, NEW p \in Processes, Step(p)
  PROVE  Found'
  <1>1. Ages
    BY AgesStep
  <1>2. NothingThere(p)'
    BY <1>1, BeginNothing, ContinueNothing, ServesNothing DEF Step, Lists, Found
  <1>3. ASSUME NEW q \in Processes \ {p} PROVE NothingThere(q)'
    <2>1. Same(q)
      BY OthersStay DEF Sound
    <2>2. Looked(q)' => Looked(q)
      BY <2>1 DEF Same, Looked, Answered
    <2>3. line'[q] = line[q] /\ before'[q] = before[q]
      BY <2>1 DEF Same
    <2>4. QED BY <1>1, <2>2, <2>3, NothingStays DEF Lists, Found
  <1> QED BY <1>2, <1>3 DEF Found

\* and so does none.
LEMMA StutterFound ==
  ASSUME Found, UNCHANGED vars
  PROVE  Found'
  <1>1. UNCHANGED <<records, line, at, pc, reply, before>>
    BY DEF vars, serviceVars, clientVars, listingVars
  <1>2. Present' = Present
    BY <1>1 DEF Present
  <1> QED BY <1>1, <1>2 DEF Found, NothingThere, Looked, Answered

\* A run that has looked and found nothing looked where there was nothing, unless
\* what was there has been removed since.
THEOREM FoundInvariant == Spec => []Found
<1>1. Init => Found
  BY DEF Init, Found, NothingThere, Looked, Answered
<1>2. Sound /\ Lists /\ Found /\ [Next]_vars => Found'
  BY FoundStep, StutterFound, NextIs
<1> QED
  BY <1>1, <1>2, SoundInvariant, ListsInvariant, PTL DEF Spec

\* A run creates a sandbox only where its lookup could find none: running jard again
\* in the same directory, or by the same name, finds the same sandbox (run.go).
THEOREM RunsReattach == Spec => []RunReattaches
<1>1. Found => RunReattaches
  <2> SUFFICES ASSUME Found, NEW p \in Processes, at[p] = "Create", line[p].cmd = "run", before[p] \subseteq Present,
                      NEW spec \in before[p]
               PROVE  IF runRef(line[p]).name # "" THEN spec.name # runRef(line[p]).name
                                                   ELSE Primary(spec) # runRef(line[p]).path
    BY DEF RunReattaches
  <2>1. ~Stands(spec, runRef(line[p]))
    BY DEF Found, NothingThere, Looked
  <2>2. QED BY <2>1 DEF Stands
<1> QED
  BY <1>1, FoundInvariant, PTL
-----------------------------------------------------------------------------
(***************************************************************************)
(* Where the agent of a run from a directory works.                        *)
(***************************************************************************)
\* A run from a directory: by no name, and from one without a colon in its own.
FromHere(l) == l.cmd = "run" /\ l.flags.name = "" /\ l.cwd.mode = NoMode
Path(l) == runRef(l).path

\* It looks for a directory, and that is the first workspace of what it would create.
LEMMA PathIs ==
  ASSUME NEW l \in Lines, FromHere(l), runRef(l) # Rejected
  PROVE  Path(l) # NoPath /\ (Creates(l) => Primary(specOf(l)) = Path(l))
  <1> DEFINE given == Given(l)
             first == IF given = <<>> THEN [host |-> l.cwd] ELSE parseWorkspace(given[1], l.cwd)
  <1>1. l.cwd = [dir |-> l.cwd.dir, mode |-> l.cwd.mode] /\ l.cwd.dir # ""
    BY LinesAssumption
  <1>2. ~(l.flags.name # "") /\ l.flags.name = ""
    BY DEF FromHere
  <1>3. runRef(l) = (IF first = Rejected THEN Rejected ELSE ByPath(first.host))
    BY <1>2 DEF runRef, Given
  <1> HIDE DEF first
  <1>4. first # Rejected /\ runRef(l) = ByPath(first.host)
    BY <1>3
  <1>b. \A path : ByPath(path).path = path
    BY DEF ByPath
  <1>5. Path(l) = first.host
    BY <1>4, <1>b DEF Path
  <1>a. \A arg : parseWorkspace(arg, l.cwd) # Rejected =>
          arg.dir # "" /\ parseWorkspace(arg, l.cwd).host = resolve(arg.dir, l.cwd)
    BY DEF parseWorkspace
  <1>6. first.host = (IF given = <<>> THEN l.cwd ELSE resolve(given[1].dir, l.cwd))
        /\ (given # <<>> => given[1].dir # "")
    <2>1. CASE given = <<>>
      BY <2>1 DEF first
    <2>2. CASE given # <<>>
      <3>1. first = parseWorkspace(given[1], l.cwd)
        BY <2>2 DEF first
      <3>2. parseWorkspace(given[1], l.cwd) # Rejected
        BY <1>4, <3>1
      <3>3. QED BY <1>a, <2>2, <3>1, <3>2
    <2>3. QED BY <2>1, <2>2
  <1>7. \A dir : dir # "" => resolve(dir, l.cwd).dir # ""
    BY <1>1 DEF resolve, Plain
  <1>8. NoPath.dir = ""
    BY DEF NoPath
  <1>9. first.host # NoPath
    BY <1>1, <1>6, <1>7, <1>8
  <1>10. ASSUME Creates(l) PROVE Primary(specOf(l)) = first.host
    <2>1. /\ Len(Args(l)) \in Nat /\ Len(Args(l)) > 0
          /\ Args(l)[1] = IF Given(l) = <<>> THEN l.cwd ELSE Given(l)[1]
      BY <1>10, ArgsAre DEF Creates
    <2>2. /\ specOf(l).workspaces = [i \in 1..Len(Args(l)) |-> parseWorkspace(Args(l)[i], l.cwd)]
          /\ \A i \in 1..Len(Args(l)) : parseWorkspace(Args(l)[i], l.cwd) # Rejected
      BY <1>10, SpecIs
    <2>3. 1 \in 1..Len(Args(l))
      BY <2>1
    <2>4. specOf(l).workspaces[1] = parseWorkspace(Args(l)[1], l.cwd) /\ specOf(l).workspaces # <<>>
      BY <2>2, <2>3
    <2>5. Primary(specOf(l)) = resolve(Args(l)[1].dir, l.cwd)
      BY <1>a, <2>2, <2>3, <2>4 DEF Primary
    <2>6. resolve(l.cwd.dir, l.cwd) = l.cwd
      <3>1. l.cwd.mode = NoMode
        BY DEF FromHere
      <3>2. QED BY <1>1, <3>1 DEF resolve, Plain
    <2>7. QED BY <1>6, <2>1, <2>5, <2>6
  <1> QED BY <1>5, <1>9, <1>10

\* What such a run finds, and is answered, starts, runs and has run, is at that path.
FindsHere(p) == pc[p] = "observing" /\ at[p] = "Inspect" => Primary(got[p][1].spec) = Path(line[p])
AnsweredHere(p) ==
  Ok(p) /\ (Answered(p, "Inspect") \/ Answered(p, "Create")) =>
    Primary(ApiSandbox(reply[p].sandbox).spec) = Path(line[p])
CallsHere(p) ==
  /\ at[p] # "none" => runRef(line[p]) # Rejected
  /\ at[p] = "Start" => Primary(found[p].spec) = Path(line[p])
  /\ at[p] = "Exec" => ApiExecRequest(request[p].req).workdir = Path(line[p])
RanHere(p) ==
  ran[p] # NoSandbox =>
    /\ ran[p].call.workdir = Path(line[p])
    /\ \E ro \in BOOLEAN : <<Path(line[p]), ro>> \in ran[p].config.volumes
HereOK(p) == pc[p] # "idle" /\ FromHere(line[p]) => FindsHere(p) /\ AnsweredHere(p) /\ CallsHere(p) /\ RanHere(p)

\* A run begins by looking for the path.
LEMMA BeginHere ==
  ASSUME Sound, NEW p \in Processes, Begin(p)
  PROVE  HereOK(p)'
  <1>0. Shapes
    BY DEF Sound
  <1>1. PICK l \in Lines :
          /\ \/ BeginRun(p, l) \/ BeginCreate(p, l) \/ BeginAct(p, l)
             \/ BeginExec(p, l) \/ BeginCopy(p, l) \/ BeginList(p, l)
          /\ line' = [line EXCEPT ![p] = l]
    BY DEF Begin
  <1>2. line'[p] = l
    BY <1>0, <1>1 DEF Shapes
  <1>3. SUFFICES ASSUME FromHere(l)
                 PROVE  FindsHere(p)' /\ AnsweredHere(p)' /\ CallsHere(p)' /\ RanHere(p)'
    BY <1>2 DEF HereOK
  <1>4. BeginRun(p, l)
    BY <1>1, <1>3 DEF FromHere, BeginCreate, BeginAct, BeginExec, BeginCopy, BeginList
  <1>5. PICK message : CallOrQuit(p, "Inspect", runRef(l), message)
    BY <1>4 DEF BeginRun
  <1>6. \/ at'[p] = "Inspect" /\ pc'[p] = "call" /\ runRef(l) # Rejected
        \/ at'[p] = "none" /\ pc'[p] = "done"
    BY <1>0, <1>5, CallEffect, QuitEffect DEF CallOrQuit
  <1>7. ran'[p] = NoSandbox
    BY DEF Begin, Sound, Control, PlaceOK
  <1> QED BY <1>2, <1>6, <1>7 DEF FindsHere, AnsweredHere, CallsHere, RanHere, Answered

\* An agent is started in the first workspace of its sandbox, or not at all.
LEMMA AttachHere ==
  ASSUME Shapes, NEW p \in Processes, NEW sb, Attach(p, sb), line' = line
  PROVE  \/ at'[p] = "none" /\ pc'[p] = "done"
         \/ /\ at'[p] = "Exec" /\ pc'[p] = "call"
            /\ ApiExecRequest(request'[p].req).workdir = Primary(sb.spec)
  <1> DEFINE req == AgentRequest(line[p], sb)
             message == IF req = Rejected THEN <<>> ELSE ExecFrame(ByName(sb.spec.name), req)
  <1>1. CallOrQuit(p, "Exec", req, message)
    BY DEF Attach
  <1>2. CASE req = Rejected
    <2>1. Quit(p, 1)
      BY <1>1, <1>2 DEF CallOrQuit
    <2>2. QED BY <2>1, QuitEffect
  <1>3. CASE req # Rejected
    <2>1. Call(p, "Exec", ExecFrame(ByName(sb.spec.name), req))
      BY <1>1, <1>3 DEF CallOrQuit
    <2>2. /\ req = [cmd |-> req.cmd, env |-> req.env, workdir |-> req.workdir, user |-> req.user,
                    interactive |-> req.interactive, tty |-> req.tty]
          /\ req.workdir = Primary(sb.spec)
      BY <1>3 DEF AgentRequest, AgentDir
    <2> HIDE DEF req
    <2>3. ApiExecRequest(ProtoExecRequest(req)) = req
      BY <2>2, RequestsSurvive
    <2>4. ExecFrame(ByName(sb.spec.name), req).req = ProtoExecRequest(req)
      BY DEF ExecFrame
    <2>5. /\ at'[p] = "Exec" /\ pc'[p] = "call" /\ request'[p] = ExecFrame(ByName(sb.spec.name), req)
      BY <2>1, CallEffect
    <2>6. QED BY <2>2, <2>3, <2>4, <2>5
  <1> QED BY <1>2, <1>3

\* A run goes on with the sandbox it was answered.
LEMMA ContinueHere ==
  ASSUME Sound, NEW p \in Processes, Continue(p), HereOK(p)
  PROVE  HereOK(p)'
  <1>0. Shapes
    BY DEF Sound
  <1>1. line' = line /\ ran' = ran /\ pc[p] = "answered"
    BY DEF Continue, RunFinds, RunCreates, RunAttaches, Act, Finish, Fail, Answered
  <1>2. SUFFICES ASSUME FromHere(line[p])
                 PROVE  FindsHere(p)' /\ AnsweredHere(p)' /\ CallsHere(p)' /\ RanHere(p)'
    BY <1>1 DEF HereOK
  <1>3. FindsHere(p) /\ AnsweredHere(p) /\ CallsHere(p) /\ RanHere(p)
    BY <1>1, <1>2 DEF HereOK
  <1>4. RanHere(p)'
    BY <1>1, <1>3 DEF RanHere
  <1>5. SUFFICES /\ pc'[p] \in {"call", "done"}
                 /\ at'[p] # "none" => runRef(line[p]) # Rejected
                 /\ at'[p] = "Start" => Primary(found'[p].spec) = Path(line[p])
                 /\ at'[p] = "Exec" => ApiExecRequest(request'[p].req).workdir = Path(line[p])
    BY <1>1, <1>4 DEF FindsHere, AnsweredHere, CallsHere, Answered
  <1>6. runRef(line[p]) # Rejected
    BY <1>1, <1>3 DEF CallsHere, Sound, Control, PlaceOK
  <1>7. CASE RunFinds(p)
    <2> DEFINE sb == ApiSandbox(reply[p].sandbox)
    <2>1. /\ Primary(sb.spec) = Path(line[p]) /\ found' = [found EXCEPT ![p] = sb]
          /\ Attach(p, sb) \/ Call(p, "Start", RefRequest(ByName(sb.spec.name)))
      BY <1>3, <1>7 DEF RunFinds, AnsweredHere
    <2> HIDE DEF sb
    <2>2. found'[p] = sb
      BY <1>0, <2>1 DEF Shapes
    <2>3. CASE Attach(p, sb)
      BY <1>0, <1>1, <1>6, <2>1, <2>3, AttachHere
    <2>4. CASE Call(p, "Start", RefRequest(ByName(sb.spec.name)))
      BY <1>0, <1>6, <2>1, <2>2, <2>4, CallEffect
    <2>5. QED BY <2>1, <2>3, <2>4
  <1>8. CASE RunCreates(p)
    <2>1. PICK argument, message : CallOrQuit(p, "Create", argument, message)
      BY <1>8 DEF RunCreates
    <2>2. \/ at'[p] = "Create" /\ pc'[p] = "call"
          \/ at'[p] = "none" /\ pc'[p] = "done"
      BY <1>0, <2>1, CallEffect, QuitEffect DEF CallOrQuit
    <2>3. QED BY <1>6, <2>2
  <1>9. CASE RunAttaches(p)
    <2>1. Attach(p, found[p]) /\ Primary(found[p].spec) = Path(line[p])
      BY <1>3, <1>9 DEF RunAttaches, Answered, CallsHere
    <2>2. QED BY <1>0, <1>1, <1>6, <2>1, AttachHere
  <1>10. CASE Act(p)
    BY <1>2, <1>10 DEF Act, FromHere
  <1>11. CASE Finish(p) \/ Fail(p)
    <2>1. PICK status : Quit(p, status)
      BY <1>11 DEF Finish, Fail
    <2>2. QED BY <1>0, <2>1, QuitEffect
  <1> QED BY <1>7, <1>8, <1>9, <1>10, <1>11 DEF Continue

\* What a lookup finds is at the path, since only such a record matches;
LEMMA FindsStep ==
  ASSUME Sound, Lists, NEW p \in Processes, Serves(p), FromHere(line[p]), runRef(line[p]) # Rejected,
         FindsHere(p), pc'[p] = "observing", at[p] = "Inspect"
  PROVE  Primary(got'[p][1].spec) = Path(line[p])
  <1>0. Shapes /\ Listing(p) /\ Known(p) /\ Step(p)
    BY DEF Sound, Lists, Step
  <1>a. ApiRef(request[p].ref) = runRef(line[p])
    <2>1. request[p] = RefRequest(runRef(line[p]))
      BY DEF FromHere, Sound, Control, LooksAsToldTo
    <2>2. QED BY <2>1, RunRefIs
  <1>b. runRef(line[p]).name = ""
    BY RunRefIs DEF FromHere
  <1>1. ~FindByName(p)
    BY <1>a, <1>b DEF FindByName
  <1>2. ~ReadDir(p)
    BY <1>0 DEF ReadDir, Shapes
  <1>3. ~Get(p)
    <2>1. SUFFICES ASSUME Get(p) PROVE FALSE
      OBVIOUS
    <2>2. pc'[p] = "reading" \/ \E message : Reply(p, message)
      BY <1>0, <2>1 DEF Get, Gone
    <2>3. QED BY <1>0, <2>2, ReplyEffect
  <1>4. CASE Matched(p)
    <2>1. pc[p] = "reading" /\ FoundOK(p)
      BY <1>0, <1>4 DEF Matched, Listing
    <2>2. AList(got[p]) /\ Len(got[p]) \in Nat /\ DOMAIN got[p] = 1..Len(got[p])
      BY <2>1, ListIs DEF FoundOK
    <2> DEFINE path == IF at[p] = "List" THEN NoPath ELSE ApiRef(request[p].ref).path
               hits == {i \in DOMAIN got[p] : Matches(got[p][i], path)}
               hit == CHOOSE i \in hits : First(i, hits)
               one == <<got[p][CHOOSE j \in hits : First(j, hits)]>>
               mine == IF at[p] = "List" THEN got[p] ELSE one
    <2>3. CASE hits = {}
      <3>1. Reply(p, Failure({"ErrNotFound"}))
        BY <1>4, <2>3, Zenon DEF Matched
      <3>2. QED BY <1>0, <3>1, ReplyEffect
    <2>4. CASE hits # {}
      <3>1. hit \in hits
        BY <2>2, <2>4, AFirst
      <3>2. ~(at[p] = "Inspect" /\ hits = {})
        BY <2>4
      <3>3. got' = [got EXCEPT ![p] = mine]
        BY <1>4, <3>2, Zenon DEF Matched
      <3>4. mine = one /\ one = <<got[p][hit]>> /\ path = Path(line[p])
        BY <1>a DEF Path
      <3>5. Primary(got[p][hit].spec) = path
        BY <3>1 DEF Matches
      <3> HIDE DEF mine, one, hit, path, hits
      <3>6. got'[p] = <<got[p][hit]>>
        BY <1>0, <3>3, <3>4 DEF Shapes
      <3>7. got'[p][1] = got[p][hit]
        BY <3>6
      <3>8. QED BY <3>4, <3>5, <3>7
    <2>5. QED BY <2>3, <2>4
  <1>5. CASE Observe(p)
    <2>1. pc[p] = "observing" /\ ObservingOK(p)
      BY <1>0, <1>5 DEF Observe, Listing
    <2>2. Len(got[p]) = 1
      BY <2>1 DEF ObservingOK
    <2>3. got'[p][1].spec = got[p][1].spec
      BY <1>0, <1>5, <2>2, ObserveListing
    <2>4. QED BY <2>1, <2>3 DEF FindsHere, Primary
  <1> QED BY <1>0, <1>1, <1>2, <1>3, <1>4, <1>5, ElseIdle

\* what it, or the creation, is answered is that sandbox;
LEMMA AnswersStep ==
  ASSUME Sound, Lists, NEW p \in Processes, Serves(p), FromHere(line[p]), runRef(line[p]) # Rejected,
         FindsHere(p), Ok(p)', pc'[p] = "answered", at[p] \in {"Inspect", "Create"}
  PROVE  Primary(ApiSandbox(reply'[p].sandbox).spec) = Path(line[p])
  <1>0. Shapes /\ StoreInv /\ AsksAsToldTo(p) /\ Listing(p) /\ Step(p) /\ at' = at
    BY ServesEffect DEF Sound, Control, Lists, Step
  <1>1. CASE at[p] = "Inspect"
    <2>1. Observed(p)
      BY <1>0, <1>1, AnswersAre
    <2>2. /\ pc[p] = "observing" /\ FoundOK(p) /\ ObservingOK(p)
          /\ Reply(p, [code |-> "OK", sandbox |-> ProtoSandbox(got[p][1])])
      BY <1>0, <1>1, <2>1 DEF Observed, Listing
    <2>3. reply'[p].sandbox = ProtoSandbox(got[p][1])
      BY <1>0, <2>2, ReplyEffect
    <2>4. 1 \in 1..Len(got[p])
      BY <1>1, <2>2 DEF ObservingOK
    <2>5. IsSandbox(got[p][1])
      BY <2>2, <2>4 DEF FoundOK
    <2>6. ApiSandbox(ProtoSandbox(got[p][1])) = got[p][1]
      BY <2>5, SandboxSurvives
    <2>7. QED BY <1>1, <2>2, <2>3, <2>6 DEF FindsHere
  <1>2. CASE at[p] = "Create"
    <2>1. Create(p) \/ CallFails(p)
      BY <1>2 DEF Serves, Start, Stop, Boot, Remove, Exec, Copy, FindByName, ReadDir, Get, Matched, Observe,
                  Observed, Serving, Sound, Control, PlaceOK
    <2>2. ~CallFails(p)
      <3>1. SUFFICES ASSUME CallFails(p) PROVE FALSE
        OBVIOUS
      <3>2. Reply(p, Failure({})) \/ Reply(p, [code |-> "Unavailable"])
        BY <3>1 DEF CallFails
      <3>3. Failure({}).code = "Unknown"
        BY CodesAre DEF Failure
      <3>4. reply'[p].code = "Unknown" \/ reply'[p].code = "Unavailable"
        BY <1>0, <3>2, <3>3, ReplyEffect
      <3>5. QED BY <3>4 DEF Ok
    <2>3. ~Refuses(p)
      <3>1. SUFFICES ASSUME NEW code \in {"Unknown", "AlreadyExists"}, Reply(p, [code |-> code]) PROVE FALSE
        BY DEF Refuses
      <3>2. reply'[p].code = code
        BY <1>0, <3>1, ReplyEffect
      <3>3. QED BY <3>2 DEF Ok
    <2>4. PICK l : l = line[p]
      OBVIOUS
    <2>5. PICK sb : Makes(p, l, sb)
      BY <1>0, <2>1, <2>2, <2>3, <2>4, CreateEffect
    <2>6. /\ l \in Lines /\ Creates(l) /\ sb = NewSandbox(specOf(l))
          /\ Reply(p, [code |-> "OK", sandbox |-> ProtoSandbox(sb)])
      BY <2>5 DEF Makes
    <2>7. IsSpec(specOf(l)) /\ births \in Nat
      BY <1>0, <2>6, SpecIs DEF StoreInv
    <2>8. IsSandbox(sb) /\ Primary(sb.spec) = Primary(specOf(l))
      BY <2>6, <2>7, NewSandboxIs
    <2>9. ApiSandbox(ProtoSandbox(sb)) = sb
      BY <2>8, SandboxSurvives
    <2>10. reply'[p].sandbox = ProtoSandbox(sb)
      BY <1>0, <2>6, ReplyEffect
    <2>11. Primary(specOf(l)) = Path(l)
      BY <2>4, <2>6, PathIs
    <2>12. QED BY <2>4, <2>8, <2>9, <2>10, <2>11
  <1> QED BY <1>1, <1>2

\* and the runtime runs nothing where the container does not mount the path.
LEMMA RanStep ==
  ASSUME Sound, NEW p \in Processes, Serves(p), FromHere(line[p]), runRef(line[p]) # Rejected,
         CallsHere(p), RanHere(p)
  PROVE  RanHere(p)'
  <1>0. Shapes /\ line' = line /\ line[p] \in Lines
    <2>1. pc[p] # "idle"
      BY DEF Serves, Create, Start, Stop, Boot, Remove, Exec, Copy, FindByName, ReadDir, Get, Matched, Observe,
             Observed, CallFails, Serving
    <2>2. QED BY <2>1, ServesEffect DEF Sound, Control, PlaceOK
  <1>1. CASE UNCHANGED ran
    BY <1>0, <1>1 DEF RanHere
  <1>2. CASE ~UNCHANGED ran
    <2>1. Exec(p) /\ at[p] = "Exec"
      BY <1>2 DEF Serves, Create, Start, Stop, Boot, Remove, Exec, Copy, FindByName, ReadDir, Get, Matched, Observe,
                  Observed, CallFails, Serving
    <2> DEFINE name == ApiRef(request[p].ref).name
               call == ExecInvocation(name, ApiExecRequest(request[p].req))
    <2>2. Runnable(name, call.workdir) /\ ran' = [ran EXCEPT ![p] = [call |-> call, config |-> boxes[name].config]]
      BY <1>2, <2>1 DEF Exec
    <2>3. call.workdir = ApiExecRequest(request[p].req).workdir
      BY DEF ExecInvocation
    <2>4. call.workdir = Path(line[p]) /\ Path(line[p]) # NoPath
      BY <1>0, <2>1, <2>3, PathIs DEF CallsHere
    <2> HIDE DEF name, call
    <2>5. ran'[p] = [call |-> call, config |-> boxes[name].config]
      BY <1>0, <2>2 DEF Shapes
    <2>6. ran'[p].call = call /\ ran'[p].config = boxes[name].config
      BY <2>5
    <2>7. \E ro \in BOOLEAN : <<Path(line[p]), ro>> \in boxes[name].config.volumes
      BY <2>2, <2>4 DEF Runnable
    <2>8. QED BY <1>0, <2>4, <2>6, <2>7 DEF RanHere
  <1> QED BY <1>1, <1>2

\* Whatever the daemon does for a run, it does at its path.
LEMMA ServesHere ==
  ASSUME Sound, Lists, NEW p \in Processes, Serves(p), HereOK(p)
  PROVE  HereOK(p)'
  <1>1. UNCHANGED <<line, at, found, request>> /\ pc[p] # "idle" /\ at[p] # "none"
    <2>1. pc[p] \notin {"idle", "done"}
      BY DEF Serves, Create, Start, Stop, Boot, Remove, Exec, Copy, FindByName, ReadDir, Get, Matched, Observe,
             Observed, CallFails, Serving
    <2>2. QED BY <2>1, ServesEffect DEF Sound, Control, PlaceOK
  <1>2. SUFFICES ASSUME FromHere(line[p])
                 PROVE  FindsHere(p)' /\ AnsweredHere(p)' /\ CallsHere(p)' /\ RanHere(p)'
    BY <1>1 DEF HereOK
  <1>3. FindsHere(p) /\ AnsweredHere(p) /\ CallsHere(p) /\ RanHere(p)
    BY <1>1, <1>2 DEF HereOK
  <1>4. runRef(line[p]) # Rejected
    BY <1>1, <1>3 DEF CallsHere
  <1>5. FindsHere(p)'
    BY <1>1, <1>2, <1>3, <1>4, FindsStep DEF FindsHere
  <1>6. AnsweredHere(p)'
    BY <1>1, <1>2, <1>3, <1>4, AnswersStep DEF AnsweredHere, Answered
  <1>7. CallsHere(p)'
    BY <1>1, <1>3 DEF CallsHere
  <1>8. RanHere(p)'
    BY <1>2, <1>3, <1>4, RanStep
  <1> QED BY <1>5, <1>6, <1>7, <1>8

\* The invariant of the runs.
RunsHere == \A p \in Processes : HereOK(p)

\* A step of another's does not change where a run is.
LEMMA HereStays ==
  ASSUME NEW q, HereOK(q), Same(q)
  PROVE  HereOK(q)'
  <1>1. SUFFICES ASSUME pc[q] # "idle", FromHere(line[q])
                 PROVE  FindsHere(q)' /\ AnsweredHere(q)' /\ CallsHere(q)' /\ RanHere(q)'
    BY DEF HereOK, Same
  <1>2. FindsHere(q) /\ AnsweredHere(q) /\ CallsHere(q) /\ RanHere(q)
    BY <1>1 DEF HereOK
  <1>3. FindsHere(q)' /\ AnsweredHere(q)'
    BY <1>2 DEF FindsHere, AnsweredHere, Answered, Ok, Same
  <1>4. CallsHere(q)' /\ RanHere(q)'
    BY <1>2 DEF CallsHere, RanHere, Same
  <1> QED BY <1>3, <1>4

\* What a run from a directory goes on with is a sandbox of that directory.
THEOREM HereInvariant == Spec => []RunsHere
<1>1. Init => RunsHere
  BY DEF Init, RunsHere, HereOK
<1>2. ASSUME Sound, Lists, RunsHere, NEW p \in Processes, Step(p) PROVE RunsHere'
  <2>1. HereOK(p)'
    BY <1>2, BeginHere, ContinueHere, ServesHere DEF Step, RunsHere
  <2>2. ASSUME NEW q \in Processes \ {p} PROVE HereOK(q)'
    BY <1>2, OthersStay, HereStays DEF Sound, RunsHere
  <2> QED BY <2>1, <2>2 DEF RunsHere
<1>3. RunsHere /\ UNCHANGED vars => RunsHere'
  <2> SUFFICES ASSUME RunsHere, UNCHANGED vars, NEW q \in Processes PROVE HereOK(q)'
    BY DEF RunsHere
  <2>1. Same(q)
    BY DEF vars, serviceVars, clientVars, listingVars, Same
  <2>2. QED BY <2>1, HereStays DEF RunsHere
<1>4. Sound /\ Lists /\ RunsHere /\ [Next]_vars => RunsHere'
  BY <1>2, <1>3, NextIs
<1> QED
  BY <1>1, <1>4, SoundInvariant, ListsInvariant, PTL DEF Spec

\* An agent that run started from a directory works there, in a container that
\* mounts it, whatever others made of the name in between.
THEOREM AgentsRunWhereAsked == Spec => []AgentRunsWhereAsked
<1>1. Sound /\ RunsHere => AgentRunsWhereAsked
  <2> SUFFICES ASSUME Sound, RunsHere, NEW p \in Processes, ran[p] # NoSandbox, line[p].cmd = "run",
                      line[p].flags.name = "", line[p].cwd.mode = NoMode
               PROVE  /\ ran[p].call.workdir = runRef(line[p]).path
                      /\ \E ro \in BOOLEAN : <<runRef(line[p]).path, ro>> \in ran[p].config.volumes
    BY DEF AgentRunsWhereAsked
  <2>1. pc[p] # "idle" /\ FromHere(line[p])
    BY DEF Sound, Control, PlaceOK, FromHere
  <2>2. RanHere(p)
    BY <2>1 DEF RunsHere, HereOK
  <2>3. QED BY <2>2 DEF RanHere, Path
<1> QED
  BY <1>1, SoundInvariant, HereInvariant, PTL
=============================================================================
