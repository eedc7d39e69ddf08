--------------------------- MODULE DaemonProofs ----------------------------
(***************************************************************************)
(* Theorems about Daemon, for any number of daemons and commands and       *)
(* whatever faults occur.  The proxy's port is the lock that makes them    *)
(* true: it is taken before the pidfile is written and released after both *)
(* files are gone.                                                         *)
(***************************************************************************)
EXTENDS Daemon, TLAPS

\* Every reachable state is well typed.
THEOREM TypeCorrect == Spec => []TypeOK
  <1>1. ASSUME Init PROVE TypeOK
    BY <1>1 DEF Init, TypeOK, Phases, CommandSteps
  <1>2. ASSUME TypeOK, [Next]_vars PROVE TypeOK'
    <2>1. ASSUME NEW d \in Daemons, Serve(d), UNCHANGED commandVars
          PROVE  TypeOK'
      <3>1. /\ phase' \in [Daemons -> Phases]
            /\ UNCHANGED <<signalled, sessions>>
        BY <1>2, <2>1
           DEF TypeOK, Phases, Enter, Serve, CheckAlive, ClearSocket, BindProxy, BindProxyFails,
               WritePid, WritePidFails, Listen, ListenFails, GracefulStop, Drained,
               RemoveSocket, RemovePid, StopProxy
      <3>2. {socket, pidFile, port}' \subseteq Daemons \cup {NoOne}
        BY <1>2, <2>1
           DEF TypeOK, Serve, CheckAlive, ClearSocket, BindProxy, BindProxyFails,
               WritePid, WritePidFails, Listen, ListenFails, GracefulStop, Drained,
               RemoveSocket, RemovePid, StopProxy
      <3>3. QED BY <1>2, <2>1, <3>1, <3>2 DEF TypeOK, commandVars
    <2>2. ASSUME NEW d \in Daemons, OpenSession(d) \/ CloseSession(d) \/ Crash(d),
                 UNCHANGED commandVars
          PROVE  TypeOK'
      BY <1>2, <2>2 DEF OpenSession, CloseSession, Crash, Enter, TypeOK, Phases, commandVars
    <2>3. ASSUME NEW k \in Commands, Command(k)
          PROVE  TypeOK'
      <3>1. CASE Connect(k) \/ StartRefuses(k) \/ SocketAnswers(k) \/ StartTimesOut(k)
        BY <1>2, <3>1 DEF Connect, StartRefuses, SocketAnswers, StartTimesOut, Connected, Proceed,
           TypeOK, CommandSteps, daemonVars
      <3>2. CASE Start(k)
        BY <1>2, <3>2 DEF Start, Enter, Proceed, TypeOK, Phases, CommandSteps
      <3>3. CASE Stop(k) \/ FindPid(k) \/ SignalFails(k) \/ Quiet(k)
        BY <1>2, <3>3 DEF Stop, FindPid, SignalFails, Quiet, Stopped, Proceed,
           TypeOK, CommandSteps, daemonVars
      <3>4. CASE Signal(k)
        BY <1>2, <3>4 DEF Signal, Proceed, TypeOK, CommandSteps
      <3>5. QED BY <2>3, <3>1, <3>2, <3>3, <3>4 DEF Command
    <2>4. CASE UNCHANGED vars
      BY <1>2, <2>4 DEF vars, daemonVars, commandVars, TypeOK
    <2>5. QED BY <1>2, <2>1, <2>2, <2>3, <2>4 DEF Next
  <1>3. QED BY <1>1, <1>2, PTL DEF Spec
-----------------------------------------------------------------------------
\* The port belongs to exactly the daemon between its bind and its release.
PortIsTheLock == \A d \in Daemons : HoldsPort(d) <=> port = d

\* From its first write until it removes the pidfile, a daemon is named by it.
PidIsTheHolders ==
  \A d \in Daemons :
    phase[d] \in {"listen", "serving", "draining", "rmSocket", "rmPid"} => pidFile = d

LockInv == PortIsTheLock /\ PidIsTheHolders

\* A daemon's own steps keep the lock: only the holder writes or removes the pidfile.
LEMMA ServeKeepsLock ==
  ASSUME TypeOK, LockInv, NEW d \in Daemons, Serve(d)
  PROVE  LockInv'
  <1>1. ASSUME NEW next \in Phases, Enter(d, next)
        PROVE  phase' \in [Daemons -> Phases] /\ \A e \in Daemons : phase'[e] = IF e = d THEN next ELSE phase[e]
    BY <1>1 DEF Enter, TypeOK
  <1>2. CASE CheckAlive(d) \/ ClearSocket(d) \/ BindProxyFails(d)
    BY <1>1, <1>2 DEF CheckAlive, ClearSocket, BindProxyFails, Phases,
       LockInv, PortIsTheLock, PidIsTheHolders, HoldsPort
  <1>3. CASE BindProxy(d)
    BY <1>1, <1>3, NoOneAssumption DEF BindProxy, Phases,
       LockInv, PortIsTheLock, PidIsTheHolders, HoldsPort
  <1>4. CASE WritePid(d)
    BY <1>1, <1>4 DEF WritePid, Phases, LockInv, PortIsTheLock, PidIsTheHolders, HoldsPort
  <1>5. CASE WritePidFails(d) \/ Listen(d) \/ ListenFails(d)
    BY <1>1, <1>5 DEF WritePidFails, Listen, ListenFails, Phases,
       LockInv, PortIsTheLock, PidIsTheHolders, HoldsPort
  <1>6. CASE GracefulStop(d) \/ Drained(d) \/ RemoveSocket(d)
    BY <1>1, <1>6 DEF GracefulStop, Drained, RemoveSocket, Phases,
       LockInv, PortIsTheLock, PidIsTheHolders, HoldsPort
  <1>7. CASE RemovePid(d)
    BY <1>1, <1>7 DEF RemovePid, Phases, LockInv, PortIsTheLock, PidIsTheHolders, HoldsPort
  <1>8. CASE StopProxy(d)
    BY <1>1, <1>8, NoOneAssumption DEF StopProxy, Phases,
       LockInv, PortIsTheLock, PidIsTheHolders, HoldsPort
  <1>9. QED BY <1>2, <1>3, <1>4, <1>5, <1>6, <1>7, <1>8 DEF Serve

\* The lock holds in every reachable state.
LEMMA LockInvariant == Spec => []LockInv
  <1>1. ASSUME Init PROVE LockInv
    BY <1>1, NoOneAssumption DEF Init, LockInv, PortIsTheLock, PidIsTheHolders, HoldsPort
  <1>2. ASSUME TypeOK, LockInv, [Next]_vars PROVE LockInv'
    <2>1. ASSUME NEW d \in Daemons, Serve(d) PROVE LockInv'
      BY <1>2, <2>1, ServeKeepsLock
    <2>2. ASSUME NEW d \in Daemons, OpenSession(d) \/ CloseSession(d) PROVE LockInv'
      BY <1>2, <2>2 DEF OpenSession, CloseSession, LockInv, PortIsTheLock, PidIsTheHolders,
         HoldsPort
    <2>3. ASSUME NEW d \in Daemons, Crash(d) PROVE LockInv'
      BY <1>2, <2>3, NoOneAssumption DEF Crash, Enter, TypeOK, LockInv, PortIsTheLock,
         PidIsTheHolders, HoldsPort
    <2>4. ASSUME NEW k \in Commands, Command(k) PROVE LockInv'
      <3>1. CASE Start(k)
        BY <1>2, <3>1 DEF Start, Enter, TypeOK, LockInv, PortIsTheLock, PidIsTheHolders, HoldsPort
      <3>2. CASE UNCHANGED <<phase, port, pidFile>>
        BY <1>2, <3>2 DEF LockInv, PortIsTheLock, PidIsTheHolders, HoldsPort
      <3>3. QED
        BY <2>4, <3>1, <3>2
           DEF Command, Connect, StartRefuses, SocketAnswers, StartTimesOut, Stop, FindPid,
               Signal, SignalFails, Quiet, daemonVars
    <2>5. CASE UNCHANGED vars
      BY <1>2, <2>5 DEF vars, daemonVars, LockInv, PortIsTheLock, PidIsTheHolders, HoldsPort
    <2>6. QED BY <1>2, <2>1, <2>2, <2>3, <2>4, <2>5 DEF Next
  <1>3. QED BY <1>1, <1>2, TypeCorrect, PTL DEF Spec

\* At most one daemon ever gets past the proxy: two never serve one store.
THEOREM OneDaemon == Spec => []OneDaemonPastTheProxy
  <1>1. LockInv => OneDaemonPastTheProxy
    BY DEF LockInv, PortIsTheLock, OneDaemonPastTheProxy
  <1>2. QED BY <1>1, LockInvariant, PTL

\* Whoever finds the socket answering finds the pidfile naming who answers.
THEOREM PidOnRecord == Spec => []AnsweringPidIsOnRecord
  <1>1. LockInv => AnsweringPidIsOnRecord
    BY DEF LockInv, PidIsTheHolders, AnsweringPidIsOnRecord, Answers
  <1>2. QED BY <1>1, LockInvariant, PTL

\* The files a daemon removes on its way out are not those of another daemon.
THEOREM LeaversSpareOthers == Spec => []LeaversOwnTheFiles
  <1>1. LockInv => LeaversOwnTheFiles
    BY DEF LockInv, PortIsTheLock, PidIsTheHolders, HoldsPort, LeaversOwnTheFiles, Answers
  <1>2. QED BY <1>1, LockInvariant, PTL
=============================================================================
