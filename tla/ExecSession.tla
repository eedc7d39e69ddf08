----------------------------- MODULE ExecSession ----------------------------
(***************************************************************************)
(* One Exec over the daemon: Client.Exec and Server.Exec of                *)
(* internal/api/rpc/exec.go, hostStreams of cmd/jard/streams.go at one end *)
(* and hostExecutor.Session of internal/runner/executor.go at the other.   *)
(*                                                                         *)
(* The goroutines are: in the client hostStreams, relayStdin, relayResize  *)
(* and receive; in the daemon the handler, serveFrames, and the session's  *)
(* copies of input, output and sizes.  Between them are the two directions *)
(* of a gRPC stream, an io.Pipe, which holds nothing: a write waits for    *)
(* its reader, and two channels of capacity one.                           *)
(*                                                                         *)
(* A chunk of input or output is its number; stdout and stderr are one     *)
(* output.  "The command" is the runtime's CLI, which the daemon starts.   *)
(***************************************************************************)
EXTENDS Naturals, Sequences

CONSTANTS
  Modes,        \* which sessions: "tty", with a terminal, and "pipe", without
  MaxInput,     \* bound on the chunks of input
  MaxOutput,    \* bound on the chunks of output
  MaxSize       \* bound on the terminal's sizes, numbered in order

ASSUME ModesAssumption == Modes \subseteq {"tty", "pipe"}
ASSUME BoundsAssumption ==
  MaxInput \in Nat /\ MaxOutput \in Nat /\ MaxSize \in Nat \ {0}

VARIABLES
  mode,
  typed, stdinOpen,         \* the local stdin
  size, winch, held, sizes, \* the terminal's size; hostStreams and its channel
  relay, sent,              \* relayStdin, and the chunks it has sent
  up, down,                 \* frames in flight to the daemon and to the client
  handler, frames,          \* Server.Exec and serveFrames
  pipeClosed, srvSizes,     \* the pipe to the session, the channel of its sizes
  copy, resizer,            \* the session's copies of input and of sizes
  fed, eof, ptySize,        \* what the command has of input, and its terminal's size
  cmd, emitted, drained,    \* the command, its output, what of it has been sent
  shown, result             \* what the client has written, how it ended

inputVars == <<typed, stdinOpen, size>>
clientVars == <<winch, held, sizes, relay, sent, shown, result>>
serverVars == <<handler, frames, pipeClosed, srvSizes, copy, resizer, drained>>
commandVars == <<fed, eof, ptySize, cmd, emitted>>
vars == <<mode, inputVars, clientVars, up, down, serverVars, commandVars>>

NoSize == 0
Sizes == 1..MaxSize
Frame == [kind : {"start", "stdin", "stdinClose", "resize", "output", "exit", "error"}, n : Nat]
At(where, n) == [at |-> where, n |-> n]

TypeOK ==
  /\ mode \in Modes
  /\ typed \in 0..MaxInput /\ stdinOpen \in BOOLEAN /\ size \in Sizes
  /\ winch \in BOOLEAN /\ held \in Sizes \cup {NoSize}
  /\ sizes \in Seq(Sizes) /\ Len(sizes) <= 1
  /\ relay \in {"start", "reading", "done"} /\ sent \in 0..typed
  /\ up \in Seq(Frame) /\ down \in Seq(Frame)
  /\ handler \in {"recvStart", "begin", "running", "returned"}
  /\ frames \in [at : {"off", "recv", "write", "resize", "done"}, n : Nat]
  /\ pipeClosed \in BOOLEAN
  /\ srvSizes \in Seq(Sizes) /\ Len(srvSizes) <= 1
  /\ copy \in {"off", "reading", "done"} /\ resizer \in {"off", "on", "done"}
  /\ fed \in 0..sent /\ eof \in BOOLEAN /\ ptySize \in Sizes \cup {NoSize}
  /\ cmd \in {"off", "running", "ended"}
  /\ emitted \in 0..MaxOutput /\ drained \in 0..emitted /\ shown \in 0..drained
  /\ result \in {"none", "exited", "lost"}

\* hostStreams puts the opening size in before it returns, on a terminal.
Init ==
  /\ mode \in Modes
  /\ typed = 0 /\ stdinOpen = TRUE
  /\ size = 1 /\ winch = FALSE /\ held = NoSize
  /\ sizes = IF mode = "tty" THEN <<1>> ELSE <<>>
  /\ relay = "start" /\ sent = 0
  /\ up = <<>> /\ down = <<>>
  /\ handler = "recvStart" /\ frames = At("off", 0)
  /\ pipeClosed = FALSE /\ srvSizes = <<>>
  /\ copy = "off" /\ resizer = "off"
  /\ fed = 0 /\ eof = FALSE /\ ptySize = NoSize
  /\ cmd = "off" /\ emitted = 0 /\ drained = 0
  /\ shown = 0 /\ result = "none"

\* The client has returned or died, and its context with it.
Gone == result # "none"
StreamOver == Gone \/ handler = "returned"
Send(kind, n) == up' = Append(up, [kind |-> kind, n |-> n])
Reply(kind, n) == down' = Append(down, [kind |-> kind, n |-> n])
-----------------------------------------------------------------------------
(***************************************************************************)
(* The user and the terminal.                                              *)
(***************************************************************************)
Type ==
  /\ ~Gone /\ stdinOpen /\ typed < MaxInput
  /\ typed' = typed + 1
  /\ UNCHANGED <<mode, stdinOpen, size, clientVars, up, down, serverVars, commandVars>>

CloseStdin ==
  /\ ~Gone /\ stdinOpen
  /\ stdinOpen' = FALSE
  /\ UNCHANGED <<mode, typed, size, clientVars, up, down, serverVars, commandVars>>

ResizeWindow ==
  /\ ~Gone /\ mode = "tty" /\ size < MaxSize
  /\ size' = size + 1
  /\ winch' = TRUE
  /\ UNCHANGED <<mode, typed, stdinOpen, held, sizes, relay, sent, shown, result,
                 up, down, serverVars, commandVars>>

Die ==
  /\ ~Gone
  /\ result' = "lost"
  /\ UNCHANGED <<mode, inputVars, winch, held, sizes, relay, sent, shown,
                 up, down, serverVars, commandVars>>
-----------------------------------------------------------------------------
(***************************************************************************)
(* The client.                                                             *)
(***************************************************************************)
TakeWinch ==
  /\ ~Gone /\ winch /\ held = NoSize
  /\ winch' = FALSE
  /\ held' = size
  /\ UNCHANGED <<mode, inputVars, sizes, relay, sent, shown, result,
                 up, down, serverVars, commandVars>>

\* Mutant: a size is dropped when the one before it has not been taken.
PutSizeOrDrop ==
  /\ ~Gone /\ held # NoSize
  /\ sizes' = IF sizes = <<>> THEN <<held>> ELSE sizes
  /\ held' = NoSize
  /\ UNCHANGED <<mode, inputVars, winch, relay, sent, shown, result,
                 up, down, serverVars, commandVars>>

PutSize ==
  /\ ~Gone /\ held # NoSize /\ sizes = <<>>
  /\ sizes' = <<held>>
  /\ held' = NoSize
  /\ UNCHANGED <<mode, inputVars, winch, relay, sent, shown, result,
                 up, down, serverVars, commandVars>>

\* The opening size, if there is one yet; none is waited for.
FirstSize == IF sizes = <<>> THEN NoSize ELSE Head(sizes)

SendStart ==
  /\ ~Gone /\ relay = "start"
  /\ Send("start", FirstSize)
  /\ sizes' = <<>>
  /\ relay' = "reading"
  /\ UNCHANGED <<mode, inputVars, winch, held, sent, shown, result,
                 down, serverVars, commandVars>>

\* Mutant: a read that returned nothing is sent like any other.
RelayAnyRead ==
  /\ ~Gone /\ relay = "reading"
  /\ sent' = sent + 1
  /\ Send("stdin", sent')
  /\ UNCHANGED <<mode, inputVars, winch, held, sizes, relay, shown, result,
                 down, serverVars, commandVars>>

RelayStdin ==
  /\ ~Gone /\ relay = "reading" /\ sent < typed
  /\ sent' = sent + 1
  /\ Send("stdin", sent')
  /\ UNCHANGED <<mode, inputVars, winch, held, sizes, relay, shown, result,
                 down, serverVars, commandVars>>

RelayClose ==
  /\ ~Gone /\ relay = "reading" /\ ~stdinOpen /\ sent = typed
  /\ Send("stdinClose", 0)
  /\ relay' = "done"
  /\ UNCHANGED <<mode, inputVars, winch, held, sizes, sent, shown, result,
                 down, serverVars, commandVars>>

RelayResize ==
  /\ ~Gone /\ relay # "start" /\ sizes # <<>>
  /\ Send("resize", Head(sizes))
  /\ sizes' = <<>>
  /\ UNCHANGED <<mode, inputVars, winch, held, relay, sent, shown, result,
                 down, serverVars, commandVars>>

\* receive ends with the exit frame, or with the stream.
Receive ==
  /\ ~Gone /\ down # <<>>
  /\ down' = Tail(down)
  /\ CASE Head(down).kind = "output" -> shown' = Head(down).n /\ UNCHANGED result
       [] Head(down).kind = "exit"   -> result' = "exited" /\ UNCHANGED shown
       [] Head(down).kind = "error"  -> result' = "lost" /\ UNCHANGED shown
  /\ UNCHANGED <<mode, inputVars, winch, held, sizes, relay, sent, up, serverVars, commandVars>>
-----------------------------------------------------------------------------
(***************************************************************************)
(* The daemon: the handler and serveFrames.                                *)
(***************************************************************************)
RecvStart ==
  /\ handler = "recvStart" /\ up # <<>>
  /\ up' = Tail(up)
  /\ srvSizes' = IF Head(up).n = NoSize THEN <<>> ELSE <<Head(up).n>>
  /\ frames' = At("recv", 0)
  /\ handler' = "begin"
  /\ UNCHANGED <<mode, inputVars, clientVars, down, pipeClosed, copy, resizer, drained, commandVars>>

NoStart ==
  /\ handler = "recvStart" /\ up = <<>> /\ Gone
  /\ handler' = "returned"
  /\ UNCHANGED <<mode, inputVars, clientVars, up, down, frames, pipeClosed, srvSizes, copy,
                 resizer, drained, commandVars>>

\* Mutant: the command is started before its terminal is sized.
BeginUnsized ==
  /\ handler = "begin"
  /\ handler' = "running"
  /\ cmd' = "running"
  /\ copy' = "reading"
  /\ resizer' = IF mode = "tty" THEN "on" ELSE "off"
  /\ UNCHANGED <<mode, inputVars, clientVars, up, down, frames, pipeClosed, srvSizes, drained,
                 ptySize, fed, eof, emitted>>

\* pendingSize takes the size that is there; then the command is started.
Begin ==
  /\ handler = "begin"
  /\ handler' = "running"
  /\ cmd' = "running"
  /\ copy' = "reading"
  /\ IF mode = "tty"
     THEN /\ ptySize' = IF srvSizes = <<>> THEN NoSize ELSE Head(srvSizes)
          /\ srvSizes' = <<>>
          /\ resizer' = "on"
     ELSE UNCHANGED <<ptySize, srvSizes, resizer>>
  /\ UNCHANGED <<mode, inputVars, clientVars, up, down, frames, pipeClosed, drained,
                 fed, eof, emitted>>

\* No such sandbox, or the command could not be started.
BeginFails ==
  /\ handler = "begin"
  /\ handler' = "returned"
  /\ Reply("error", 0)
  /\ UNCHANGED <<mode, inputVars, clientVars, up, frames, pipeClosed, srvSizes, copy,
                 resizer, drained, commandVars>>

\* Once the stream is over Recv may still return a frame that had arrived.
RecvFrame ==
  /\ frames.at = "recv" /\ up # <<>>
  /\ up' = Tail(up)
  /\ CASE Head(up).kind = "stdin"      -> frames' = At("write", Head(up).n) /\ UNCHANGED pipeClosed
       [] Head(up).kind = "resize"     -> frames' = At("resize", Head(up).n) /\ UNCHANGED pipeClosed
       [] Head(up).kind = "stdinClose" -> pipeClosed' = TRUE /\ UNCHANGED frames
  /\ UNCHANGED <<mode, inputVars, clientVars, down, handler, srvSizes, copy, resizer, drained,
                 commandVars>>

FramesDone ==
  /\ frames' = At("done", 0)
  /\ pipeClosed' = TRUE
  /\ UNCHANGED <<mode, inputVars, clientVars, up, down, handler, srvSizes, copy, resizer, drained,
                 commandVars>>

RecvFails == frames.at = "recv" /\ StreamOver /\ FramesDone

QueueSize ==
  /\ frames.at = "resize" /\ srvSizes = <<>>
  /\ srvSizes' = <<frames.n>>
  /\ frames' = At("recv", 0)
  /\ UNCHANGED <<mode, inputVars, clientVars, up, down, handler, pipeClosed, copy, resizer, drained,
                 commandVars>>

QueueSizeCancelled == frames.at = "resize" /\ StreamOver /\ FramesDone
-----------------------------------------------------------------------------
(***************************************************************************)
(* The daemon: the session.                                                *)
(***************************************************************************)
\* A running command takes input when it likes.
CopyInput ==
  /\ copy = "reading" /\ frames.at = "write" /\ cmd = "running"
  /\ fed' = frames.n
  /\ frames' = At("recv", 0)
  /\ UNCHANGED <<mode, inputVars, clientVars, up, down, handler, pipeClosed, srvSizes, copy,
                 resizer, drained, eof, ptySize, cmd, emitted>>

\* With the command gone a write to its pipe fails and ends the copy; one to
\* the terminal's master does when the handler has closed it, and may before.
CopyInputFails ==
  /\ copy = "reading" /\ frames.at = "write" /\ cmd = "ended"
  /\ frames' = At("recv", 0)
  /\ \/ copy' = "done"
     \/ mode = "tty" /\ handler # "returned" /\ UNCHANGED copy
  /\ UNCHANGED <<mode, inputVars, clientVars, up, down, handler, pipeClosed, srvSizes,
                 resizer, drained, commandVars>>

\* Only a pipe is closed at the end of input; a terminal has no end to pass on.
CopyEnds ==
  /\ copy = "reading" /\ frames.at # "write" /\ pipeClosed
  /\ copy' = "done"
  /\ eof' = (eof \/ (mode = "pipe" /\ cmd = "running"))
  /\ UNCHANGED <<mode, inputVars, clientVars, up, down, handler, frames, pipeClosed, srvSizes,
                 resizer, drained, fed, ptySize, cmd, emitted>>

Resize ==
  /\ resizer = "on" /\ srvSizes # <<>>
  /\ ptySize' = Head(srvSizes)
  /\ srvSizes' = <<>>
  /\ UNCHANGED <<mode, inputVars, clientVars, up, down, handler, frames, pipeClosed, copy,
                 resizer, drained, fed, eof, cmd, emitted>>

ResizerEnds ==
  /\ resizer = "on" /\ srvSizes = <<>> /\ frames.at = "done"
  /\ resizer' = "done"
  /\ UNCHANGED <<mode, inputVars, clientVars, up, down, handler, frames, pipeClosed, srvSizes, copy,
                 drained, commandVars>>

Drain ==
  /\ drained < emitted
  /\ drained' = drained + 1
  /\ Reply("output", drained')
  /\ UNCHANGED <<mode, inputVars, clientVars, up, handler, frames, pipeClosed, srvSizes, copy,
                 resizer, commandVars>>

\* Mutant: the handler waits for the command and not for its output.
FinishUndrained ==
  /\ handler = "running" /\ cmd = "ended"
  /\ mode = "pipe" => copy = "done"
  /\ handler' = "returned"
  /\ Reply("exit", 0)
  /\ UNCHANGED <<mode, inputVars, clientVars, up, frames, pipeClosed, srvSizes, copy, resizer,
                 drained, commandVars>>

\* Mutant: the handler waits for the copy of input on a terminal too.
FinishAfterInput ==
  /\ handler = "running" /\ cmd = "ended"
  /\ drained = emitted \/ Gone
  /\ copy = "done"
  /\ handler' = "returned"
  /\ Reply("exit", 0)
  /\ UNCHANGED <<mode, inputVars, clientVars, up, frames, pipeClosed, srvSizes, copy, resizer,
                 drained, commandVars>>

\* Without a terminal the wait is os/exec's, which waits for its copies of
\* output and of input; with one the output is drained first and nobody waits
\* for the input.
Finish ==
  /\ handler = "running" /\ cmd = "ended"
  /\ drained = emitted \/ Gone
  /\ mode = "pipe" => copy = "done"
  /\ handler' = "returned"
  /\ Reply("exit", 0)
  /\ UNCHANGED <<mode, inputVars, clientVars, up, frames, pipeClosed, srvSizes, copy, resizer,
                 drained, commandVars>>

Emit ==
  /\ cmd = "running" /\ emitted < MaxOutput
  /\ emitted' = emitted + 1
  /\ UNCHANGED <<mode, inputVars, clientVars, up, down, serverVars, fed, eof, ptySize, cmd>>

CommandEnds ==
  /\ cmd = "running"
  /\ cmd' = "ended"
  /\ UNCHANGED <<mode, inputVars, clientVars, up, down, serverVars, fed, eof, ptySize, emitted>>

\* Mutant: the command is not tied to the stream's context.
KillOnlyAtTerminal == Gone /\ mode = "tty" /\ CommandEnds

\* exec.CommandContext: the command does not outlive the stream.
Kill == Gone /\ CommandEnds
-----------------------------------------------------------------------------
Terminal == TakeWinch \/ PutSize
StdinRelay == RelayStdin \/ RelayClose
Handler == RecvStart \/ NoStart \/ Begin \/ BeginFails \/ Finish
ServeFrames == RecvFrame \/ RecvFails \/ QueueSize \/ QueueSizeCancelled
InputCopy == CopyInputFails \/ CopyEnds
SizeCopy == Resize \/ ResizerEnds

User == Type \/ CloseStdin \/ ResizeWindow \/ Die
Command == CopyInput \/ Emit \/ CommandEnds
Goroutines ==
  \/ Terminal \/ SendStart \/ StdinRelay \/ RelayResize \/ Receive
  \/ Handler \/ ServeFrames \/ InputCopy \/ SizeCopy \/ Drain \/ Kill

Next == User \/ Command \/ Goroutines

\* Every goroutine that can go on does.  The user need not type, close or
\* resize anything, and the command need not read, write or end.
Fairness ==
  /\ WF_vars(Terminal) /\ WF_vars(SendStart) /\ WF_vars(StdinRelay)
  /\ WF_vars(RelayResize) /\ WF_vars(Receive)
  /\ WF_vars(Handler) /\ WF_vars(ServeFrames)
  /\ WF_vars(InputCopy) /\ WF_vars(SizeCopy) /\ WF_vars(Drain) /\ WF_vars(Kill)

Spec == Init /\ [][Next]_vars
FairSpec == Spec /\ Fairness
-----------------------------------------------------------------------------
(***************************************************************************)
(* Properties.                                                             *)
(***************************************************************************)
Promised == INSTANCE Session WITH ended <- cmd = "ended"

\* Over the daemon a session is what it would be in process: input in order and
\* complete before its end, output in order and complete before the status.
KeepsThePromise == Promised!Spec

\* The command never runs on a terminal without a size: a full-screen program
\* reads its dimensions once, at startup.
NeverUnsized == mode = "tty" /\ cmd # "off" => ptySize # NoSize

\* A new size reaches the command's terminal, through two channels of one and a
\* stream it shares with the input; only input the command does not take can
\* hold it up.
SizeArrives == []<>(StreamOver \/ ptySize = size \/ mode = "pipe" \/ frames.at = "write")

\* Once the command has ended the client returns, if it has a terminal or its
\* own stdin has ended.
SessionEnds ==
  cmd = "ended" /\ (mode = "tty" \/ ~stdinOpen) ~> Gone

\* The daemon keeps neither the handler nor the command of a client that is gone.
DaemonLetsGo == Gone ~> (handler = "returned" /\ cmd # "running")
=============================================================================
