----------------------------- MODULE SandboxSpec ----------------------------
(***************************************************************************)
(* From a command line to the runtime's: the spec that create and run      *)
(* build from flags and paths (cmd/jard/spec.go, parse.go, create.go),     *)
(* what the service checks of it (internal/api/validate.go), and the       *)
(* create, exec and cp commands the runner renders                         *)
(* (internal/runner/oci.go, network.go).                                   *)
(*                                                                         *)
(* An argument is what the parsers cut it into.  A path is what is before  *)
(* and behind its first colon, [dir, mode], so that a directory whose name *)
(* has a colon is a path with a mode.  Here stands for "."; every other    *)
(* dir is absolute.  A number that does not parse is 0 where 0 is out of   *)
(* range.  Rejected is the result of a parser that fails.                  *)
(***************************************************************************)
EXTENDS Integers, Sequences

CONSTANTS
  Dirs,       \* paths that are directories
  Cleaned,    \* directory -> its last element, without what a name may not contain
  ValidNames, \* names the name pattern matches
  Agents,     \* agent -> [image, command]
  Rejected

ASSUME ValidNamesAssumption == "" \notin ValidNames

Here == "."
NoMode == ""
NoPath == [dir |-> "", mode |-> ""]
DefaultAgent == "claude"
Plain(dir) == [dir |-> dir, mode |-> NoMode]

\* f's entries, and those of g whose keys f does not have.
Over(f, g) == [k \in DOMAIN f \cup DOMAIN g |-> IF k \in DOMAIN f THEN f[k] ELSE g[k]]
-----------------------------------------------------------------------------
(* Arguments *)

ValidName(name) == name \in ValidNames

SandboxName(path) ==
  LET name == Cleaned[path] IN IF name = "" THEN "sandbox" ELSE name

LookupAgent(name) == IF name \in DOMAIN Agents THEN Agents[name] ELSE Rejected

splitAgentAndPaths(args) ==
  CASE args = <<>> -> [agent |-> DefaultAgent, paths |-> <<>>]
    [] args # <<>> /\ args[1].mode = NoMode /\ args[1].dir \in DOMAIN Agents ->
         [agent |-> args[1].dir, paths |-> Tail(args)]
    [] OTHER -> [agent |-> DefaultAgent, paths |-> args]

resolve(dir, base) == IF dir = Here THEN base ELSE Plain(dir)

parseWorkspace(arg, base) ==
  IF arg.dir = "" \/ arg.mode \notin {NoMode, "ro", "rw"} THEN Rejected
  ELSE [host |-> resolve(arg.dir, base), readOnly |-> arg.mode = "ro"]

validPort(n) == n \in 1..65535
parsePort(arg) ==
  LET sandbox == IF arg.bare THEN arg.host ELSE arg.sandbox
  IN  IF ~validPort(arg.host) \/ ~validPort(sandbox) \/ arg.proto \notin {"", "tcp", "udp"}
      THEN Rejected
      ELSE [host |-> arg.host, sandbox |-> sandbox,
            proto |-> IF arg.proto = "tcp" THEN "" ELSE arg.proto]

\* A size is a number of halves of a unit, none of them when it is left out; what
\* is left of a byte is cut off.
ByteUnits == [b |-> 1, k |-> 1024, m |-> 1048576, g |-> 1073741824]
ParseBytes(s) ==
  IF s.halves < 0 \/ s.unit \notin DOMAIN ByteUnits THEN Rejected
  ELSE IF s.halves % 2 = 0 THEN (s.halves \div 2) * ByteUnits[s.unit]
  ELSE (s.halves * ByteUnits[s.unit]) \div 2

\* "NAME=VALUE" arguments: the last one of a name wins.
Pairs(env) ==
  [k \in {env[i].key : i \in DOMAIN env} |->
     env[CHOOSE i \in DOMAIN env : env[i].key = k /\ \A j \in DOMAIN env : env[j].key = k => j <= i].value]
cutEnv(env) ==
  IF \E i \in DOMAIN env : ~env[i].eq \/ env[i].key = "" THEN Rejected ELSE Pairs(env)

parseCopyPath(arg) ==
  IF arg.rest = "" \/ ~ValidName(arg.before)
    THEN [sandbox |-> "", path |-> arg]
    ELSE [sandbox |-> arg.before, path |-> [before |-> "", rest |-> arg.rest]]

InSandbox(p) == p.sandbox # ""
CopyRef(src, dst) ==
  CASE InSandbox(src) /\ ~InSandbox(dst) -> [name |-> src.sandbox, path |-> NoPath]
    [] InSandbox(dst) /\ ~InSandbox(src) -> [name |-> dst.sandbox, path |-> NoPath]
    [] OTHER -> Rejected
-----------------------------------------------------------------------------
(* Specs *)

buildSpec(flags, agent, paths, cwd) ==
  LET args == IF paths = <<>> THEN <<cwd>> ELSE paths
      workspaces == [i \in DOMAIN args |-> parseWorkspace(args[i], cwd)]
      ports == [i \in DOMAIN flags.ports |-> parsePort(flags.ports[i])]
      memory == ParseBytes(flags.memory)
  IN  IF \/ LookupAgent(agent) = Rejected
         \/ \E i \in DOMAIN args : workspaces[i] = Rejected \/ workspaces[i].host \notin Dirs
         \/ \E i \in DOMAIN ports : ports[i] = Rejected
         \/ \E i \in DOMAIN flags.env : ~flags.env[i].eq
         \/ memory = Rejected
      THEN Rejected
      ELSE [name |-> IF flags.name = "" THEN SandboxName(workspaces[1].host) ELSE flags.name,
            agent |-> agent,
            image |-> IF flags.image = "" THEN Agents[agent].image ELSE flags.image,
            workspaces |-> workspaces,
            cpus |-> flags.cpus, memory |-> memory,
            env |-> Pairs(flags.env),
            ports |-> ports,
            createdAt |-> [at |-> 0, zone |-> "UTC"]]

Primary(spec) == IF spec.workspaces = <<>> THEN NoPath ELSE spec.workspaces[1].host

validateWorkspaces(workspaces) ==
  /\ \A i \in DOMAIN workspaces : workspaces[i].host.mode = NoMode
  /\ \A i, j \in DOMAIN workspaces : workspaces[i].host = workspaces[j].host => i = j
validateEnv(env) == "" \notin DOMAIN env
validatePorts(ports) ==
  \A i \in DOMAIN ports :
    validPort(ports[i].host) /\ validPort(ports[i].sandbox) /\ ports[i].proto \in {"", "tcp", "udp"}
validateResources(spec) == spec.cpus >= 0 /\ spec.memory >= 0

Validate(spec) ==
  /\ ValidName(spec.name)
  /\ spec.image # ""
  /\ spec.agent # "" => LookupAgent(spec.agent) # Rejected
  /\ validateWorkspaces(spec.workspaces)
  /\ validateEnv(spec.env)
  /\ validatePorts(spec.ports)
  /\ validateResources(spec)
-----------------------------------------------------------------------------
(* The runtime's command lines; what is left out is "", 0 or empty *)

RelayAddr(sandbox) == <<"http", sandbox, "jard-relay", 8080>>
ProxyKeys == {"HTTP_PROXY", "HTTPS_PROXY", "http_proxy", "https_proxy"}
NoProxyKeys == {"NO_PROXY", "no_proxy"}
ProxyEnv(sandbox) ==
  [k \in ProxyKeys \cup NoProxyKeys |->
     IF k \in ProxyKeys THEN RelayAddr(sandbox) ELSE <<"localhost", "127.0.0.1", "::1">>]

\* jard's variables win over the spec's.
withProxyEnvUnderSpec(env, sandbox) == Over(env, ProxyEnv(sandbox))
withProxyEnv(env, sandbox) == Over(ProxyEnv(sandbox), env)

publishSpec(p) ==
  [host |-> p.host, sandbox |-> p.sandbox, proto |-> IF p.proto = "tcp" THEN "" ELSE p.proto]

CreateInvocation(spec, egress) ==
  [name |-> spec.name, home |-> spec.name,
   volumes |-> {<<spec.workspaces[i].host, spec.workspaces[i].readOnly>> : i \in DOMAIN spec.workspaces},
   workdir |-> Primary(spec),
   cpus |-> IF spec.cpus > 0 THEN spec.cpus ELSE 0,
   memory |-> IF spec.memory > 0 THEN spec.memory ELSE 0,
   network |-> IF egress THEN spec.name ELSE "",
   env |-> IF egress THEN withProxyEnv(spec.env, spec.name) ELSE spec.env,
   publish |-> {publishSpec(spec.ports[i]) : i \in DOMAIN spec.ports},
   image |-> spec.image]

ExecInvocation(id, req) ==
  [id |-> id, interactive |-> req.interactive, tty |-> req.tty,
   workdir |-> req.workdir, user |-> req.user, env |-> req.env, cmd |-> req.cmd]

copyEndpoint(id, p) == IF InSandbox(p) THEN <<id, p.path>> ELSE <<"", p.path>>
CopyInvocation(id, src, dst) == <<copyEndpoint(id, src), copyEndpoint(id, dst)>>
=============================================================================
