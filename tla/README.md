# A verification project for jardiniere

jardiniere (`jard`) runs coding agents in containers. A background daemon,
`jardd`, owns the sandboxes, keeps their records, and lets them out to the
network only through a proxy that decides on every connection. This directory
holds TLA+ models of that program, TLC runs that check them on small instances,
and proofs of theorems about them for instances of any size.

Line numbers refer to the Go source under `src/`.

## 1. The system

### Components

| component | state it keeps | operations |
| --- | --- | --- |
| direct service (`internal/api/direct`) | none of its own; a copy of a record for the time of a request | Create, List, Inspect, Start, Stop, Remove, Exec, Copy, Stats, Policy, SetPolicy, Connections |
| OCI runner (`internal/runner`) | the proxy address the relay forwards to, fixed when the service is opened | one runtime command after another for each of those; makes networks and the relay on the way |
| container runtime (external) | containers, networks, volumes | create, start, stop, rm, inspect, exec, cp, network and volume commands |
| store (`internal/store`) | one JSON file per sandbox, the policy file | Get, Put, List, Delete, Find, Policy, SetPolicy; each file is replaced atomically |
| daemon (`internal/daemon/serve.go`) | socket, pidfile, the proxy's port, sessions in flight | Serve, with its deferred clean-up |
| daemon control (`internal/daemon/connect.go`) | none | Connect, Start, Stop, Running |
| egress proxy (`internal/proxy/proxy.go`) | connections in flight | CONNECT and plain requests: check, resolve, guard, dial, tunnel |
| policy (`internal/proxy/policy.go`, `presets.go`) | a preset, allow and deny rules | Check, Matches, AllowsAddress |
| decision log (`internal/proxy/log.go`) | a bounded list and a sequence | Record, Since, Recent |
| relay (`cmd/jard-relay`) | connections in flight | forward both ways to the upstream it was started with |
| rpc (`internal/api/rpc`) | an exec's stream | the service over gRPC, values and errors converted on both sides; Exec is a bidirectional stream |
| api types (`internal/api`), argument parsing (`cmd/jard/spec.go`, `parse.go`) | none | a command line's arguments to a spec, and the checks of it |
| dashboard (`internal/tui`) | listing, samples, cursor, the action in flight, recent decisions | timers, messages, keys |
| command line (`cmd/jard`) | none | one or several service calls per command |

### How they interact

A `jard` command connects to the daemon's socket, and starts a daemon when
nothing answers. The daemon serves each request in a goroutine of its own; with
`--state-dir` or `--dry-run` a command runs the same service in its own process.
A request reads the store, issues runtime commands one by one, and writes the
store. No lock is held across two of these, so requests overlap in every way.
The relay is one container that all sandboxes share; every Start makes sure of
it. A sandbox's connection goes through the relay to the daemon's proxy, which
reads the policy afresh for each one and records its decision; the dashboard
polls those decisions by sequence.

### What is hard here, and what correctness means

* **Lifecycle.** Requests overlap on one sandbox and on the shared relay; any
  command can fail, and the daemon can die, between two steps that belong
  together. A container must stay reachable through its record; a Remove that
  fails half-way must be repeatable, and one that succeeds must leave nothing;
  a running sandbox must not be removed without force; it must keep its relay.
* **Daemon.** Processes race over a path, a file and a port. There must be one
  daemon at most, the pidfile must be true whenever the socket answers, a
  leaving daemon must not take its successor's files, and a command must find
  or start a daemon.
* **Decisions.** A bounded log is read by sequence by polls that overlap. What
  the log still holds must not be missed; the cursor must not slide.
* **Policy and proxy.** Rules are read, changed and written back by commands and
  by dashboards, with nothing held in between. A request is decided by the
  policy of that moment, then resolved and dialled address by address. What is
  open must have been allowed and vetted, every decision must be on record once,
  and the rules must mean what those who wrote them asked for.
* **Tunnels.** A connection runs through two processes, each with two copies and
  four half-closes. Either side may be done first, stop reading, or break; both
  streams must arrive whole, and every process must let go.
* **Commands.** A command makes several calls, looks a sandbox up by path and
  goes on by name, while others create and remove. A run must find what is there
  and create it only if it is not; a listing must be right though it reads record
  by record; what a command line asks for must survive parsing, the wire, the
  checks, and the rendering for the runtime.
* **Exec over the daemon.** Eight goroutines, an unbuffered pipe and two channels
  of one carry input, output, sizes and the exit status over one stream. A
  session must be what it would be in process, and come to an end whichever side
  ends first.
* **Sandboxes panel.** Listings and samples come back in any order, also while an
  action runs or a form is open. Keys must be held off exactly as long as an
  action runs, the cursor must stay on its sandbox, and the screen must come to
  show what there is.

`PROJECT.json` lists every such hazard at its line, with the properties that
cover it or the reason why none does yet.

## 2. Modules

| module | models | uses |
| --- | --- | --- |
| `Runtime` | the container runtime: state and commands | |
| `Lifecycle` | direct service, runner and store records: Create, Start, Stop, Remove | `Runtime` |
| `MCLifecycle` | TLC instances | `Lifecycle` |
| `LifecycleProofs` | theorems | `Lifecycle` |
| `Daemon` | `Serve`, `Connect`, `Start`, `Stop`, `Running` | |
| `MCDaemon`, `DaemonProofs` | instances, theorems | `Daemon` |
| `DecisionLog` | the proxy's log | |
| `Feed` | the dashboard's network panel over the log | `DecisionLog` |
| `MCFeed`, `FeedProofs` | instances, theorems | `Feed` |
| `Session` | what Exec promises: the abstract specification | |
| `ExecSession` | Exec over the daemon: client, stream, server, pseudo-terminal | `Session` (refined) |
| `MCExecSession`, `ExecProofs` | instances, theorems | `ExecSession` |
| `EgressPolicy` | `Check`, `Matches`, `AllowsAddress` and the edits of rules, as operators | |
| `PolicyFile` | the policy on disk and its editors | `EgressPolicy` |
| `Proxy` | `open` and the answers around it, over a policy being edited | `PolicyFile` |
| `MCProxy`, `EgressProofs` | instances, theorems | `Proxy` |
| `Duplex` | what sandbox and origin are promised of a connection: the abstract specification | |
| `Tunnel` | a connection through relays and the proxy: `forward`, `serveConnect`, `tunnel` | `Duplex` (refined) |
| `MCTunnel`, `TunnelProofs` | instance, theorems | `Tunnel` |
| `Wire` | what becomes of values and errors between daemon and client, as operators | |
| `SandboxSpec` | from arguments to a spec, its checks, and the runtime's command lines, as operators | |
| `Commands` | the commands, each call as request, service and reply | `SandboxSpec`, `Wire` |
| `MCCommands`, `CommandsProofs` | instance, theorems | `Commands`, `Wire` |
| `Dashboard` | the sandboxes panel and the sessions it gives way to | |
| `MCDashboard`, `DashboardProofs` | instances, theorems | `Dashboard` |

### Runtime and Lifecycle

The runtime is external and modelled from what the runner relies on. Three of
its behaviours carry the properties: a container can be named by its name or by
its id, and only the name survives its replacement; `rm` without `--force`
refuses a running container; `network rm` refuses a network with a running
container on it. `jard-<name>`, `jard-<name>-net` and `jard-<name>-home` are
keyed by the sandbox's name, the relay's container by `Relay`.

`Lifecycle` has a set of `Clients`, each running one request after another.
`pc[c]` is the request's next step, `sb[c]` the record the handler read at its
start, `outcome[c]` how it ended. Every store access and every runtime command
is an action, in the order of the code, with its success and its failure:

| code | steps |
| --- | --- |
| `Service.Create` -> `OCI.Create` | `CreateBegin`, `EnsureNetwork`, `CreateContainer`, `PutNew` |
| `Service.Start` -> `act` -> `OCI.Start` -> `EnsureRelay` | `StartBegin`, `RelayRunning`, `RmRelay`, `RunRelay`, `ConnectRelay`, `StartContainer`, `Observe`, `Put` |
| `Service.Stop` -> `act` -> `OCI.Stop` | `StopBegin`, `StopContainer`, `Observe`, `Put` |
| `Service.Remove` -> `OCI.Remove` -> `RemoveNetwork` | `RemoveBegin`, `CheckRunning`, `RmContainer`, `RmVolume`, `DisconnectRelay`, `RmNetwork`, `DeleteRecord` |

A handle is `ByName` or one of `Ids`. `Observed` is where the handle on record
turns from the name into the runtime's id, and where a missing container keeps
the one it had. `NetworkToJoin` is `OCI.Start`'s recovery of the sandbox's name
from its handle. `egress` says whether the service has a proxy upstream (always
in the daemon, never in process); without it the network and relay steps are
skipped.

The environment can make a command fail without effect (`CallFails`), make an
inspect fail, which `observe` covers up with the state on record
(`InspectFails`), kill the daemon with every request in flight (`Restart`),
remove the relay (`RelayRemovedByHand`), and end a sandbox's main process
(`SandboxExits`). `Disruptions` says which, `MaxDisruptions` how often.

The code promises nothing about overlapping requests; `Promises` states what
the callers would have to. `"sandbox"`: at most one request per sandbox at a
time. `"start"`: at most one Start at a time. The properties that need a promise
are checked with it, and the runs without it show what breaks.

### Daemon

A daemon's `phase` is its position in `Serve`; the deferred calls, which run
last first, are phases too (`rmSocket`, `rmPid`, `stopProxy`), and an early
return enters them where Go would. `socket`, `pidFile` and `port` name the
process they belong to. `GracefulStop` unlinks the path whoever listens there
by then, as closing a Go unix listener does. A command's `step` is its position
in `Connect` or `Stop`. Ten-second waits are not counted: `StartTimesOut` is
enabled once no daemon has anything to do but serve or wait for sessions, since
nothing but a session takes that long; `Quiet` may return at any time. A process
id is not reused while a file or a `Stop` still holds it.

### DecisionLog and Feed

A decision is its sequence and the daemon that made it. A poll is three steps:
`Ask` reads `connSeq`, `Answer` reads the log, `Deliver` is the message that
reaches `appendConnections`. `listed` is a history variable: every decision that
has been in the panel's list. A batch is cut to the list's length as it arrives,
before anything is drawn (`model.go:332`), and the log holds more than the list: the
older part of a large batch is never listed.

### Session and ExecSession

`Session` is `api.Service.Exec` as its caller sees it: chunks of input and output
are counted, input reaches the command in order and complete before its end, all
output reaches the terminal before the exit status, and a session can be lost at
any time. `ExecSession` has the goroutines that do this over the daemon, one
group of actions each:

| goroutine | actions |
| --- | --- |
| `hostStreams` (client) | `TakeWinch`, `PutSize` |
| `relayStdin`, after the start frame | `SendStart`, `RelayStdin`, `RelayClose` |
| `relayResize` | `RelayResize` |
| `receive` | `Receive` |
| `Server.Exec` | `RecvStart`, `NoStart`, `Begin`, `BeginFails`, `Finish` |
| `serveFrames` | `RecvFrame`, `RecvFails`, `FramesDone`, `QueueSize`, `QueueSizeCancelled` |
| `ptySession`'s or os/exec's copy of input | `CopyInput`, `CopyInputFails`, `CopyEnds` |
| `resize` | `Resize`, `ResizerEnds` |
| the copy of output | `Drain` |

`up` and `down` are the two directions of the stream. The pipe between
`serveFrames` and the session holds nothing, so a frame of input keeps
`serveFrames` at `write` until the copy takes it. `mode` tells the two shapes
apart: `"tty"`, where the handler waits for the command and its output, and
`"pipe"`, where os/exec also waits for its copy of the input. `ExecSession`
implements `Session` (`KeepsThePromise`) with the variables of the same names and
`ended <- cmd = "ended"`.

### EgressPolicy, PolicyFile and Proxy

A host is a sequence of labels, a pattern a host that may begin with `"*"`, with
a port or none. What a pattern's text turns into is modelled where it bites: the
last colon of a pattern is always taken for the port's, so the pattern of an IPv6
literal that ends in a number matches nothing (`PortLike`). The addresses behind
literals and the list of the balanced preset are constants.

An editor is a command or a dashboard: `Invoke`, `ReadPolicy`, `Write`, three
steps with anything in between. A command that is told there is no policy asks
for a preset first (`Choose`). It is told so too when the daemon is away, since
`ErrNoPolicy` travels as the code a lost connection has (`ReadUnreachable`).

A request in `Proxy` is decided (`Decide` reads the file, as `serveProxy`'s
policy function does), resolved (`Lookup`, `LookupFails`), and dialled address by
address (`Guarded`, `DialFails`, `Dial`, `Exhausted`). `log` is the decision log
without its bound, which `DecisionLog` has.

### Duplex and Tunnel

`Duplex` is two streams of numbered chunks that do not know of each other: in
order, without gaps, the end after the last chunk, broken off early only after a
failure. `Tunnel` is the way such a connection takes, `Hops` processes of which
the last is the proxy and the others are relays; both join two connections alike.
A wire is one direction of one connection with what the kernels hold of it, at
most `Room` chunks.

| code | actions |
| --- | --- |
| `forward`'s dial (relay) | `Dial`, `DialFails` |
| `serveConnect`: the request, dial, hijack, answer | `Establish`, `Abandon` |
| `io.Copy`, in `tunnel` and `copyThrough` | `CopyRead`, `CopyWrite` |
| `closeWrite`, `copyThrough`'s half-close | `CopyClose` |
| `wg.Wait` and the deferred closes | `LetGo` |
| the process ends | `Exit` |

Closing a socket with something left to read resets the connection, as does a
write to a closed one; a reset takes what is in flight. The hijack throws away
what the proxy's reader had read ahead (`Establish` drops any number of chunks
behind the CONNECT), so a sandbox that does not wait for its answer, `~patient`,
may lose the beginning of what it sends. That is the one exception `Duplex`
makes. Whether a target may be opened at all is `Proxy`.

### Wire, SandboxSpec and Commands

`Wire` has the two halves of each conversion (`convert.go`) and of the error
mapping (`errors.go`); a number in a message is an `int32`, a time loses its
zone. `SandboxSpec` has the parsers, `buildSpec`, `Validate`, and the arguments
of `create`, `exec` and `cp`. An argument is what the parsers cut it into: a path
is the text before and behind its first colon, so that a directory whose name has
a colon is a path with a mode. The mounts and the published ports of a container are
sets: a runtime that is told a port twice publishes it once.

`Commands` has a process per invocation. `at[p]` is the call it makes, `pc[p]` how
far that is; `line[p]` is its command line:

| code | actions |
| --- | --- |
| `newRunCmd`, `act`, `newCreateCmd` ... up to their first call | `Begin` |
| `resolveOrCreate`, `run`'s start and attach | `RunFinds`, `RunCreates`, `RunAttaches` |
| `act` after its lookup | `Act` |
| the result, and its exit status | `Finish`, `Fail` |
| `store.List`, for `List` and for `Find` by path | `ReadDir`, `Get`, `Matched` |
| `observe`, sandbox by sandbox | `Observe`, `Observed` |
| `Find` by name | `FindByName` |
| `Server`'s other unary handlers | `Create`, `Start`, `Stop`, `Remove`, `Copy`; `Exec` |

The last row is one step per call; `Lifecycle` and `ExecSession` say what is
inside. `CallFails` fails a call without effect, or loses its answer. That the
runtime refuses an `exec` in a directory the container does not have is assumed
of it (`Runnable`).

### Dashboard

One loop applies messages to a model; commands run beside it and end in a message
each. `lists`, `sampling` and `acting` are the commands under way and their
messages, unordered. `Tick`, `SandboxesMsg`, `ErrMsg`, `StatsMsg`, `ActionMsg`
and `RuleMsg` are the branches of `Update`, `Key` those of `handleKey` and of the
form. The service is one step per call; `Lifecycle` and `PolicyFile` say what is
inside. A sample may come back with nothing, as it does when it takes too long.

`tea.Quit`, which `q` and Enter return, is a command like the others: `quitting` is
its message on the way, and the keys behind `q` or Enter are handled until `QuitMsg`
ends the program (`Quit`, `AttachSelected`). `Run` then returns `attach`, whichever
of the keys was the last one. `StartSession` and `Reopen` are the rest of
`runDashboard`'s loop: run a session, come back with a new model. What a key asked
for in the program that ended is in `adrift`: its goroutine still makes the call,
during the session or beside the dashboard that has been opened again, and its
message is dropped.

`Hosts` has `""` in it, since `parseTarget` makes an empty host of `CONNECT :443`
(`proxy.go:281`) and `open` puts it on record. A rule for it sets `pending` to `""`,
which is what no action pending looks like. `nameless` is a history variable: such a
rule has been begun, and something has been under way ever since. An action carries
an `id`, so that two alike are two.

## 3. Runs

Runs that pass:

| run | instance | shows |
| --- | --- | --- |
| `lifecycle_serial` | 2 clients, 2 sandboxes, 4 ids, egress on or off, both promises, 1 disruption (failing call, failing inspect, restart) | `HandleResolves`, `RelayOnEveryRunningNetwork`, `RemoveIsComplete`, `ForcedRemoveSucceeds`, `RemovedStaysRemoved` |
| `lifecycle_concurrent` | 2 clients, 1 sandbox, 4 ids, egress on or off, no promise, 1 disruption (failing call, failing inspect, relay removed) | `UnforcedRemoveSparesRunning` |
| `daemon` | 3 daemons, 2 commands, crashes and failing pidfile writes without bound | `OneDaemonPastTheProxy`, `AnsweringPidIsOnRecord`, `LeaversOwnTheFiles`, `SignalledDaemonExits` |
| `feed` | log of 3, view of 2, 5 decisions, 2 polls, 1 restart | `LogIsDense`, `NothingIsSkipped`, `CursorStaysOnDecision` |
| `exec` | both modes, 2 chunks each way, 3 sizes, a client that may die at any time | `NeverUnsized`, `KeepsThePromise`, `SizeArrives`, `SessionEnds`, `DaemonLetsGo` |
| `egress` | 2 editors, 2 edits, 4 patterns, 5 targets, 1 request, a daemon that may be away | `OpenAsThePolicySays`, `OneDecisionOnRecord`, `OneRulePerPattern`, `VerdictsAreAsAsked` |
| `tunnel` | a relay and the proxy, 2 chunks out and 1 in, wires of 2, patient sandbox or not, 1 fault (reset, failed dial, exit) | `KeepsTheStreams`, `StreamsComplete`, `ProcessesLetGo` |
| `commands` | 2 commands out of 19 command lines, up to 2 sandboxes from before, failing calls and lost answers without bound | `RunReattaches`, `ListIsFaithful`, `ContainerIsAsAsked`, `AgentRunsWhereAsked` |
| `dashboard` | 2 sandboxes, 1 host besides `""`, 2 listings and samples under way, 2 events (actions, keys that quit, changes by others, failing listings) | `OneActionAtATime`, `CursorStaysOnSandbox`, `ListingSettles`, `LoadOfStoppedGoesAway` |

Runs that find the code at odds with what it says of itself:

| run | what happens |
| --- | --- |
| `start_again` | `StartBoots`. Create, Start, Stop, Start: the second Start looks for a network named after the container's id (`oci.go:108`) and fails. |
| `daemon_corpse` | `OnlyCorpsesAreCleared`. Two daemons start together; one unlinks the other's live socket (`serve.go:71`). |
| `stats_frozen` | `LoadIsLive`. A sandbox's load is read once (`model.go:243`) and stays on screen as it was. |

**What no run states, and the models contain.** Each of these is a behaviour of
the code that a property above had to make room for:

* A Start or Stop that overlaps a Remove of its sandbox writes the record back
  (`direct.go:178`). `RemovedStaysRemoved` therefore needs the promise
  `"sandbox"`.
* Two Starts at once each find no relay and each replace it: the network of the
  first is left without (`network.go:118`). `RelayOnEveryRunningNetwork` therefore
  needs the promise `"start"`.
* A relay that runs is kept whatever upstream it was started with
  (`network.go:114`); the default upstream never changes.
* A sandbox may be called `relay`. Its container is then `jard-relay`, which the
  next Start of any sandbox may remove by force (`network.go:158`).
* The next command after `daemon stop` can start a daemon that dies, because the
  one that leaves has removed its socket and still holds the proxy's port
  (`serve.go:92`, `134`).
* A restarted daemon's decisions are numbered from one again, and an open
  dashboard passes over those up to the number it has seen (`log.go:15`).
  `NothingIsSkipped` speaks of the time before a restart.
* Overlapping polls append what they bring: a decision can be in the list twice and
  `connSeq` go back. `NothingIsSkipped` shows that it costs nothing else.
* The panel's list is shorter than the log (`model.go:340`, `log.go:11`): of more than
  two hundred decisions that arrive at once the oldest are never listed, and never
  asked for again, though the log still has them. `NothingIsSkipped` allows that
  where a full list of newer ones has been listed.
* While an action is under way the keys are held off "so a second keypress cannot
  race the first" (`keys.go:38`), but a rule for the host `""` holds off nothing
  (`keys.go:213`), and its outcome clears the name of an action begun in the
  meantime (`model.go:192`), so that a third can begin. `OneActionAtATime` excepts
  such times (`nameless`).
* An action begun by a key behind Enter goes on during the session and beside the
  dashboard opened after it, whose `pending` does not know of it (`keys.go:130`).
  `OneActionAtATime` is about the actions of one program.
* Two edits of the policy that overlap can lose a rule, a denial included, and an
  edit while the daemon is away offers the first-run chooser, whose answer then
  replaces the rules (`errors.go:33`, `policy.go:250`). `VerdictsAreAsAsked`
  speaks of policies no such edit has disturbed.
* `validPattern` means to reject an IPv6 literal without brackets, but one that
  ends in a number passes for a host and a port, and its rule matches nothing
  (`policy.go:153`).
* A connection that was allowed and could not be dialled is answered 403, not the
  502 that `refuse` has for it, since `open` returns a verdict of its own
  (`proxy.go:237`, `272`).
* Without a terminal, a command that ends while its caller's stdin stays open is
  not reported: os/exec waits for its copy of the input, the client for the status
  (`executor.go:67`). `SessionEnds` asks for the end of stdin there.
* A handler that has returned can leave `serveFrames` waiting on the pipe
  (`exec.go:209`). `DaemonLetsGo` speaks of the handler and the command.
* `tunnel` is said to copy "until either side is done" (`proxy.go:240`); it waits
  for both, and `StreamsComplete` needs that it does.
* The relay closes its listener on a signal "rather than exiting out from under
  connections in flight" (`cmd/jard-relay/main.go:58`), but `run` returns as soon
  as `Accept` fails, and the process with it: what is being forwarded is cut.
  `Exit` is a fault for that reason.
* A sandbox removed while a lookup by path reads the records fails that lookup
  with an error that says not found (`store.go:92`, `direct.go:185`), so `run`
  may create a second sandbox for a directory that has one, or rather try to: the
  name is usually taken. `RunReattaches` speaks of lookups no removal disturbed.
* A command line that finds a sandbox by path goes on by its name
  (`lifecycle.go:48`, `run.go:86`); if it is replaced in between, the other one is
  started, stopped or removed. A run's agent does not start there by mistake, as it
  is told a directory the other one does not have (`AgentRunsWhereAsked`).
* A current directory whose name ends in `:ro` or `:rw` is cut like an argument
  when a spec is built (`spec.go:56`) and not when it is looked up (`run.go`'s
  `runRef`): the sandbox is made of another directory, and no run finds it again.
  `ContainerIsAsAsked` and `AgentRunsWhereAsked` except it.
* A memory limit of less than one byte is cut to none, which means unlimited
  (`bytes.go:52`).

**Bounds.** Ids: a fresh id must differ from every id a container, a record or
a handler's copy still holds; four are enough for two clients and two names (an
invariant saying that one is always free held; with three it does not). One
disruption per behaviour reaches each single fault at each step, followed by
any requests; it does not reach two faults in one clean-up. Two clients make
every pair of overlapping steps. Three daemons are the least for one to serve,
one to leave and one to start. A log longer than the view, and more decisions
than the log holds, make both of them overflow. In a session, two chunks make an
order and a rest that could be lost; three sizes fill both channels with one on
its way. Two edits of four patterns, of which two overlap in the hosts they cover
and one is misread, make one rule beat, replace or shadow another and one edit
lose the other; one request suffices, since requests share nothing but the file
and the log. A tunnel of two hops has every neighbour there is (sandbox and relay,
relay and proxy, proxy and origin); two chunks out on wires of two let the proxy have
read none, one or both of a hasty sandbox's chunks when it hijacks the connection.
Among the nineteen command lines are two directories with the same last element,
one mounted read-only second, a directory with a colon, names that collide, ports in and out of range, repeated
and reserved variables, and every command; `Half` is 2^29, the code's 2^31 being
beyond TLC's own integers, and far above any port or status. Two listings are what
it takes for one to overtake another, two events for an action and a change from
outside, for a rule for `""` and an action beside it, or for Enter and an action
behind it. Two actions with names at once, beside a rule for `""`, take three
events; the theorem covers them.
Ids, names and clients of the lifecycle and editors are only compared for
equality and are symmetric; sandboxes of the dashboard are ordered by name and
are not. Processes of `commands` are symmetric too. Runs with a liveness property
use no symmetry. `Tunnel`'s type invariant is proved and not run.

**Deadlock** is checked in the runs of the lifecycle, the daemon and the feed.
The others end: a session, a tunnel or two commands are over, the edits and
requests are used up, a dashboard is left, so they say `CHECK_DEADLOCK FALSE`.

**Fairness.**

* `Daemon`: a daemon process keeps running (`WF` of `Serve(d)`: its steps are
  straight-line code in one goroutine), and sessions end (`WF` of
  `CloseSession(d)`). The latter is an assumption about users, and the property
  needs it: `GracefulStop` has no time limit, so one session left open keeps a
  stopped daemon alive. Nothing is assumed of commands, new sessions, crashes or
  failures. Crashes cannot starve anything, as a crash ends the daemon.
* `ExecSession`: each goroutine runs on when it can (`WF`, one per goroutine, by
  the scheduler), and a command whose context is cancelled is killed
  (`exec.CommandContext`). Nothing is assumed of the user, of the window or of
  the command, which need not read, write or end.
* `Dashboard`: the timer, the service's answers and the loop's handling of each
  message are `WF`. No key is assumed to be pressed, and no action that a key
  began to come back.
* `Tunnel`: each copy runs on and each process dials, joins and lets go (`WF`, one
  per goroutine), and both ends go on reading. Nobody has to send, to finish or to
  fail.
* The other modules check safety only.

## 4. Proofs

`tlapm` checks all of these from nothing. They hold for any sets of names, ids,
clients, daemons, commands, policies and targets and any limits. Assumptions on
constants say that a value standing for "none" is not a member of what it stands
beside, that sets of options are subsets of the options there are, and that
bounds are numbers; those that say more are named below. TLC evaluates each of
them in the runs.

* `LifecycleProofs!TypeCorrect`: type correctness. Its content is in `Observe`
  and `Put`: whatever inspect answers, the record keeps a handle.
* `LifecycleProofs!RunningIsSpared`: `UnforcedRemoveSparesRunning`, under the
  assumption that no sandbox is named like the relay. A container disappears in
  two steps only (`WhatDropsContainers`). `RmRelay` takes the relay's, hence the
  assumption. `RmContainer` takes the target's, and `MayRemove` makes it either
  forced or not running; that the client at that step is indeed running a
  Remove is the inductive part (`HandlerKeepsKind`, `RemoveStepsInvariant`: the
  steps of a Remove are only ever reached by requests that began as one).
* `LifecycleProofs!SandboxInvariant`, and from it `HandlesResolve`,
  `RemovalIsComplete`, `RemovedIsForGood` and `ForcedRemovesSucceed`: for any
  number of clients, sandboxes, failures and restarts, if requests for one sandbox
  do not overlap (`"sandbox" \in Promises`) and none is named like the relay.
  `HandleResolves` is not inductive: it says nothing of the copy that `Put` is
  about to write, nor of a Remove whose container is gone and whose record is
  not. `SandboxInv` adds, for each request (`Sound`), that its copy has the handle
  on record until it has observed, and then one that reaches the container
  (`CopyOK`); that each thing a Remove has passed is still gone (`RemovedOK`); and
  that only the relay is ever attached to a network (`NetsOK`), so that nothing but
  it can hold a network back. A step for one sandbox leaves all of that alone for
  the others (`Spared`, `SparedIsSound`), which is where the promise is used.
* `LifecycleProofs!EveryRunningSandboxHasItsRelay`:
  `RelayOnEveryRunningNetwork`, under the promise `"start"` besides and without the
  disruption `"relay"`. `RelayInv` adds that the relay runs whenever it is there,
  and that the one Start between the look at the relay and the start of its
  container is what keeps the relay attached in the meantime: a relay that has
  just been made anew is on no other network, which is safe only because none was
  there, so no sandbox was running.
* `DaemonProofs!OneDaemon`, `PidOnRecord`, `LeaversSpareOthers`: from one
  inductive invariant, `LockInv`. `PortIsTheLock` says that a daemon past the
  bind is the one the port belongs to: the port is a mutex around everything
  from the pidfile to the last deferred call. `PidIsTheHolders` says that in
  the phases in which the pidfile has been written and not yet removed it names
  the holder: only the holder writes or removes it. The socket needs no
  conjunct of its own, since answering implies serving. The proofs show why the
  race of `daemon_corpse` is not worse than it is: the one action outside the
  lock is `ClearSocket`.
* `FeedProofs!FeedInvariant`, and from it `FeedTypes`, `LogDense`, `NoneIsSkipped`;
  and `CursorStays`: for any limit of the log and the view and any number of polls
  that overlap. `KeepIsASuffix` says what trimming returns, `RecordKeepsDense` that
  the log has no gap. `NothingIsSkipped` speaks of `connSeq` and of the screen;
  `FeedInv` adds what is on its way: before the sequence that a poll was asked with
  everything is accounted for (`Asked`), and so is everything before an answer, which
  is a gapless part of the log (`Answered`). `Accounted` says of a decision that it
  has been listed, that the log has dropped it or that a full list of newer ones has
  been listed, and none of the three is ever undone (`AccountedForGood`). The
  invariant thus survives an answer that arrives after a later one and sets `connSeq`
  back. The third case is where an answer is longer than the list: what of it is cut
  off has a full list of its own newer part before it (`DeliveryAccounts`).
* `ExecProofs!SessionInvariant`, and from it `SessionTypes`, `NeverStartsUnsized`
  and the refinement `KeepsItsPromise`: any number of chunks and sizes. `Carries`
  says of a direction of the stream that the frames in it are the chunks after the
  last one taken up to the last one sent, each once and in order; `Seals` that
  nothing follows an end of input or an exit. `InputInv` and `OutputInv` are those
  two for input and output, with the chunk `serveFrames` is writing into the pipe
  counted as received. `SizeInv` follows the opening size from `hostStreams`'s
  channel through the start frame into the handler's, which is why the command
  starts on a sized terminal although a goroutine of its own applies sizes.
* `EgressProofs!DenialsWin`, `OrderIsIrrelevant`, `WildcardSparesItsApex`: of
  `Check` and `Matches` for every rule list, target and preset, from
  `AllowedByCases`, which gives the verdict without the choice of the rule it
  names.
* `EgressProofs!OpenIsJustified`, `EveryDecisionIsOnRecord`: from the invariant
  `ProxyInv`. `OpenAsThePolicySays` is not inductive: it says nothing of a
  request between its verdict and its dial, so `Justified` adds that from
  `lookup` on the verdict is one of those in force since the request came, and
  until then the verdict of the file as it is now is one. `OnRecord` likewise
  adds that a request not yet answered has no entry. Nothing is assumed of the
  constants.
* `EgressProofs!FileInvariant`, and from it `ProxyTypes` and `RulesStayApart`: the
  rules on file have a pattern once each, and so have those in every editor's
  hands (`OneEachHeld`), since any of them may be written back. Both rest on what
  the loop of `editRules` returns (`WithoutIs`, `WithoutSieves`: the rules for other
  patterns, all of them, in order).
* `EgressProofs!UndisturbedEditsAreObeyed`: `VerdictsAreAsAsked`. `Undisturbed` is
  what no overlap has broken: at most one editor is at work, its copy is the
  file, and the file says of each pattern what was last asked of it (`Says`,
  `EditedSays`). `MatchesIsCovers` then shows that `Matches`, which compares labels
  from the end, means what a reader of the pattern would say, for every host and
  pattern. Assumed are literals that have a public or private address and no
  wildcard, targets with a host, and a preset whose patterns do not end in a dot.
  Editors' patterns must not end in one either (`WellWritten`, a hypothesis of the
  theorem): see below.
* `TunnelProofs!TunnelTypes` and `TunnelIsDuplex`: type correctness, and that
  `Tunnel` implements `Duplex`, for any number of hops and any room (both at least
  1), any bounds and any faults. `x[d][k]` is the last chunk that ever entered wire
  `k`; it is not a variable, so the invariant is `\E x : IInv(x)`, and each step
  says which `x` comes next. `Chain(x)` counts: a wire holds consecutive chunks
  up to `x[d][k]`, a copy holds the next one, and wherever both wires of a copy
  are whole, what has left the one is what has entered the other but for the
  chunk in hand (`Link`); so the receiver's last chunk is what has left the last
  wire (`LastLink`), which makes the next one it reads the next in order. `Calm(x)`
  adds, for as long as nothing has failed, that an end follows everything that was
  sent and that no process closes before its two copies are done: the end of a
  stream is then the end the sender meant. `Closed` says who can have closed a
  reading end. A step that only cuts connections keeps all of it (`CutKeeps`).
* `CommandsProofs`, of `Wire`: what is sent is what is read (`SpecSurvives`,
  `SandboxSurvives`, `RequestsSurvive`, `PolicyAndLogSurvive`), for any value whose
  times are told in UTC and whose ports and exit statuses fit 32 bits; and an error
  arrives as one of the sentinels it wraps (`ErrorsSurvive`), since no two have the
  same code.
* `CommandsProofs`, of `Commands`: for any number of commands, any command lines and
  any failures. There are four inductive invariants; `Lists` rests on `Sound`, and the
  other two on both:
  * `Sound` (`SoundInvariant`): the store and the runtime have the same sandboxes;
    each is the spec of a command line that parsed and passed `Validate`, and its
    container what that spec renders to (`StoreInv`); each command is at a call, and
    a run's lookup and every creation ask for what the command line stands for
    (`Control`). From it `CommandsTypes`; and `ContainersAreAsAsked`, whose content is in the parsers: that
    `buildSpec` mounts the directories asked for, in order, or the current
    one if there are none (`ArgsAre`); that `Pairs` keeps the last value of a
    variable (`PairsIs`) and a size is cut to none only below a byte (`BytesAre`).
  * `Lists` (`ListsInvariant`), from it `ListingsAreFaithful`. `ListIsFaithful` speaks of
    the answer; the invariant follows the listing from the directory on. `Sorted` of
    the names that were there is a list that nothing changes, so what has been read
    and what is to be read are its two halves (`ReadingOK`); each record was there at
    some time since, and one of a sandbox that is still there is that sandbox's
    (`FoundOK`). That a name may have been removed and made again is no exception,
    since `createdAt` tells the two apart (`Ages`).
  * `Found` (`FoundInvariant`), from it `RunsReattach`: a lookup that was answered "not
    found" either read everything that was there and none of it matched, or met a
    record that had gone (`MatchedNothing`, `GetNothing`), and then something was
    removed.
  * `RunsHere` (`HereInvariant`), from it `AgentsRunWhereAsked`: everything a run from
    a directory holds, a lookup's record, an answer, the sandbox it starts, the
    request to exec, has the path its command line stands for (`PathIs`: which is also
    that of the sandbox it would create). The name it goes on by may belong to
    another sandbox by then; the path does not change, and the runtime refuses a
    directory that a container does not mount.

  Assumed are: a list of all valid names, in order (`OrderAssumption`), ports and exit
  statuses that fit a message (`NumbersAssumption`; a port is at most 65535, a status
  a byte), command lines that are lists of arguments, from a directory that has a
  path (`LinesAssumption`), sandboxes from before that command lines made
  (`PriorsAssumption`), and that the empty name is not valid
  (`ValidNamesAssumption`; `validate.go`'s pattern begins with a letter or digit).
* `DashboardProofs!OneAction`: `OneActionAtATime`, for any sandboxes and any hosts
  (`""` included; it is only assumed to be no sandbox's name), from `PendingInv`.
  That says more precisely that the program is either quiet, with nothing pending
  and nothing under way, or has exactly the pending action, while no rule for `""`
  is about; that it is quiet while a session has the terminal, so that a dashboard
  opened again begins quiet; and that an open form has nothing pending, since its
  create would otherwise begin beside what is.
* `DashboardProofs!DashboardTypes` and `CursorStays`: any finite set of sandboxes. A
  row is the number of sandboxes listed before one's own, so `RowIs` is about
  cardinalities: rows are within the listing, and no two sandboxes share one. The
  cursor's place among them (`CursorOn`) survives every listing, and a listing that
  still has the sandbox under the cursor leaves it there (`ListingKeepsSelected`).

**A pattern that ends in a dot.** `Matches` takes the dot off the host of a
connection (`policy.go:147`) and not off a pattern. `validPattern` says it rejects
a rule that would never match (`cmd/jard/policy.go:263`), but `example.com.` passes
and never matches, and the dashboard makes such a rule of a connection that was
asked for with a dot. The proof of `VerdictsAreAsAsked` does not go through without
`WellWritten`, and fails there for that reason; `egress`'s patterns satisfy it.

**Loops.** `Since`, the removal of a rule and the sorted names of a listing are
recursive functions. The library's
induction theorems take an operator as a parameter and cannot be used, but for one
recursive function at a time its own graph can be had as a set of numbers with no
least exception, from the well-foundedness of `<` on the naturals (`LeastNat`,
`AllNat`), and that is how what those loops return is proved for every length.

**Only model-checked.** Liveness (`SignalledDaemonExits`, `SizeArrives`,
`SessionEnds`, `DaemonLetsGo`, `StreamsComplete`, `ProcessesLetGo`,
`ListingSettles`, `LoadOfStoppedGoesAway`), which the prover does not reach. Of the
safety properties, none but those of the runs that find them violated.

## 5. Not modelled

* Stats of the service: a stream the dashboard samples; `Dashboard` has its first
  reading, and nothing is recorded.
* The in-process service of `--state-dir` and `--dry-run` on the command line, and
  services with and without egress over one store at the same time: `egress` is
  fixed for a behaviour (`oci.go:301`).
* Output parsing, presentation (`internal/ui`, `internal/tui/view.go`), flag
  parsing, the warning about flags that an existing sandbox ignores: strings in,
  strings out, well covered by unit tests. Runtime statuses other than created,
  running and stopped (paused, restarting, dead).
* Failing runtime commands that took effect after all (a timeout after the runtime
  has acted): `Lifecycle`'s `CallFails` leaves no effect. Lost answers of whole
  calls are in `Commands`.
* Sockets other than the default, whose pidfile is not the one `Stop` reads, and
  the reuse of process ids.
* Of a session, gRPC's flow control and the split of output into stdout and
  stderr, which no property tells apart.
* Of the proxy, the parsing of an authority and the one exchange of a plain
  request; in `Proxy`, `Close` is all that is left of what follows the dial, and
  `Tunnel` has it for CONNECT.
* Of the dashboard, the fields of the form, the detail pane, which panel has the
  keyboard (tab is never refused, so both panels' keys are at hand), the wording
  of the status line and the numbers in a sample.
* Generated code (`jardv1`), test doubles, and runtime detection, which is a probe
  at startup. The generated code is a quarter of the repository's implementation.

## 6. Plan

What has been built came first because it is the core: lifecycle, daemon, log and
feed, then exec, policy and proxy, then the dashboard; then the tunnel with its
relay, the wire and the commands. Every safety property of the passing runs is
proved now. What is left:

1. An abstract log that keeps everything, with `DecisionLog` shown to implement
   its recent part.
2. `Lifecycle` with two services over one store, with and without egress
   (`oci.go:301`).

## 7. Running it

    tlc -config lifecycle_serial.cfg MCLifecycle.tla
    tlapm LifecycleProofs.tla

`PROJECT.json` names every run with its module, configuration and properties,
maps definitions to source lines, and gives for each property a mutated
definition (named in the modules as "Mutant:") under which TLC finds it
violated.
