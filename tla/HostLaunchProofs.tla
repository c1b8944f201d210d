-------------------------- MODULE HostLaunchProofs --------------------------
(***************************************************************************)
(* Proofs about HostLaunch, for any number of host processes and bridges   *)
(* and every combination of commands and faults: the types, that no agent  *)
(* revives a host that was quit, and what a quit called off leaves.        *)
(***************************************************************************)
EXTENDS HostLaunch, TLAPS

\* Whoever is past the election has won it.
HolderInv == \A p \in Procs : phase[p] \in HostPhases => holder = p

\* The swap stays until the quit is called off or the process is gone.
QuitInv == \A p \in Procs : phase[p] \in QuitPhases => p \in explicit_quit

\* A process of a bridge that could still be ready without a quit of its own:
\* it started, runs, or is in a quit that may yet be called off.
Revivable(p) ==
    /\ source[p] = "mcp"
    /\ \/ phase[p] \in {"permitted", "open", "bound"}
       \/ phase[p] \in {"marking", "writing", "syncing"}
       \/ phase[p] = "ready" /\ p \notin explicit_quit

RevivalInv == marker = "durable" => \A p \in Procs : ~Revivable(p)

HostInv == TypeOK /\ HolderInv /\ QuitInv /\ RevivalInv

\* The initial state, in which no process exists, satisfies the invariant.
LEMMA InitHost == Init => HostInv
BY ProcAssumption DEF Init, HostInv, TypeOK, HolderInv, QuitInv, RevivalInv,
   Phases, HostPhases, StartPhases, QuitPhases, Sources, BridgePhases

\* No step leaves the types, or gives a Runtime or a listener to a process
\* that did not win the election.
LEMMA TypeKeeps ==
  ASSUME HostInv, [Next]_vars
  PROVE  TypeOK'
<1> USE ProcAssumption DEF HostInv, TypeOK, HolderInv, Phases, HostPhases,
           StartPhases, QuitPhases, Sources, owned, flags, files, bridges
<1>1. ASSUME NEW p \in Procs, AuthorizeUser(p)
      PROVE  TypeOK'
  BY <1>1 DEF AuthorizeUser, Goto, Die
<1>2. ASSUME NEW p \in Procs, AuthorizeMcp(p)
      PROVE  TypeOK'
  BY <1>2 DEF AuthorizeMcp, McpAllowed, Goto, Die
<1>3. ASSUME NEW p \in Procs, SingleInstance(p)
      PROVE  TypeOK'
  <2>1. CASE holder = None
    BY <1>3, <2>1 DEF SingleInstance, Goto
  <2>2. CASE holder # None
    BY <1>3, <2>2 DEF SingleInstance, Die
  <2> QED  BY <2>1, <2>2
<1>4. ASSUME NEW p \in Procs, Setup(p)
      PROVE  TypeOK'
  BY <1>4 DEF Setup, McpAllowed, Goto, Die
<1>5. ASSUME NEW p \in Procs, Open(p)
      PROVE  TypeOK'
  BY <1>5 DEF Open, StartFails, Goto, Die
<1>6. ASSUME NEW p \in Procs, StartRpc(p)
      PROVE  TypeOK'
  BY <1>6 DEF StartRpc, StartFails, McpAllowed, Goto, Die
<1>7. ASSUME NEW p \in Procs, Ready(p)
      PROVE  TypeOK'
  BY <1>7 DEF Ready, StartFails, Goto, Die
<1>8. ASSUME NEW p \in Procs, CreateTemp(p)
      PROVE  TypeOK'
  BY <1>8 DEF CreateTemp, CancelQuit, Return, Goto
<1>9. ASSUME NEW p \in Procs, RenameTemp(p)
      PROVE  TypeOK'
  BY <1>9 DEF RenameTemp, CancelQuit, Return, Goto
<1>10. ASSUME NEW p \in Procs, SyncDirectory(p)
      PROVE  TypeOK'
  BY <1>10 DEF SyncDirectory, CancelQuit, Return, Goto, Marked
<1>11. ASSUME NEW p \in Procs, StopRpc(p)
      PROVE  TypeOK'
  BY <1>11 DEF StopRpc, Goto
<1>12. ASSUME NEW p \in Procs, StopRuntime(p)
      PROVE  TypeOK'
  BY <1>12 DEF StopRuntime, Return, Goto
<1>13. ASSUME NEW p \in Procs, Exit(p)
      PROVE  TypeOK'
  BY <1>13 DEF Exit, Die
<1>14. ASSUME NEW p \in Procs, NEW s \in {"interactive", "login"}, Launch(p, s)
      PROVE  TypeOK'
  BY <1>14 DEF Launch, Spawn, Goto
<1>15. ASSUME NEW p \in Procs, TrayQuit(p)
      PROVE  TypeOK'
  BY <1>15 DEF TrayQuit, BeginQuit, Goto
<1>16. ASSUME NEW p \in Procs, ExitRequested(p)
      PROVE  TypeOK'
  BY <1>16 DEF ExitRequested, BeginQuit, Goto
<1>17. ASSUME NEW p \in Procs, Terminate(p)
      PROVE  TypeOK'
  BY <1>17 DEF Terminate, BeginQuit, Goto
<1>18. ASSUME NEW p \in Procs, PowerOff(p)
      PROVE  TypeOK'
  BY <1>18 DEF PowerOff
<1>19. ASSUME NEW p \in Procs, Crash(p)
      PROVE  TypeOK'
  BY <1>19 DEF Crash, Die
<1>20. ASSUME NEW b \in Bridges, Connect(b)
      PROVE  TypeOK'
  BY <1>20 DEF Connect, Answer, BridgeGoto, hosts, BridgePhases
<1>21. ASSUME NEW b \in Bridges, Inspect(b)
      PROVE  TypeOK'
  BY <1>21 DEF Inspect, Answer, BridgeGoto, hosts, BridgePhases
<1>22. ASSUME NEW b \in Bridges, Coordinate(b)
      PROVE  TypeOK'
  BY <1>22 DEF Coordinate, Answer, BridgeGoto, hosts, BridgePhases
<1>23. ASSUME NEW b \in Bridges, Verify(b)
      PROVE  TypeOK'
  BY <1>23 DEF Verify, Answer, BridgeGoto, hosts, BridgePhases
<1>24. ASSUME NEW b \in Bridges, LaunchHost(b)
      PROVE  TypeOK'
  BY <1>24 DEF LaunchHost, BridgeGoto, Answer, Spawn, Goto, hosts,
     BridgePhases
<1>25. ASSUME NEW b \in Bridges, Poll(b)
      PROVE  TypeOK'
  BY <1>25 DEF Poll, Answer, BridgeGoto, hosts, BridgePhases
<1>26. ASSUME NEW b \in Bridges, Confirm(b)
      PROVE  TypeOK'
  BY <1>26 DEF Confirm, Answer, BridgeGoto, hosts, BridgePhases
<1>27. ASSUME NEW b \in Bridges, Deadline(b)
      PROVE  TypeOK'
  BY <1>27 DEF Deadline, hosts, BridgePhases
<1>28. ASSUME NEW b \in Bridges, BridgeGone(b)
      PROVE  TypeOK'
  BY <1>28 DEF BridgeGone, Answer, BridgeGoto, hosts, BridgePhases
<1>29. CASE UNCHANGED vars
  BY <1>29 DEF vars
<1> QED
  BY <1>1, <1>2, <1>3, <1>4, <1>5, <1>6, <1>7, <1>8, <1>9, <1>10, <1>11,
     <1>12, <1>13, <1>14, <1>15, <1>16, <1>17, <1>18, <1>19, <1>20, <1>21,
     <1>22, <1>23, <1>24, <1>25, <1>26, <1>27, <1>28, <1>29 DEF Next,
     HostStep, Command, BridgeStep

\* A process passes the election only when nobody holds it, and whoever is
\* past it keeps it until it dies.
LEMMA HolderKeeps ==
  ASSUME HostInv, [Next]_vars
  PROVE  HolderInv'
<1> USE ProcAssumption DEF HostInv, TypeOK, HolderInv, Phases, HostPhases,
           StartPhases, QuitPhases, owned, flags, files, bridges
<1>1. ASSUME NEW p \in Procs, AuthorizeUser(p)
      PROVE  HolderInv'
  BY <1>1 DEF AuthorizeUser, Goto, Die
<1>2. ASSUME NEW p \in Procs, AuthorizeMcp(p)
      PROVE  HolderInv'
  BY <1>2 DEF AuthorizeMcp, McpAllowed, Goto, Die
<1>3. ASSUME NEW p \in Procs, SingleInstance(p)
      PROVE  HolderInv'
  BY <1>3 DEF SingleInstance, Goto, Die
<1>4. ASSUME NEW p \in Procs, Setup(p)
      PROVE  HolderInv'
  BY <1>4 DEF Setup, McpAllowed, Goto, Die
<1>5. ASSUME NEW p \in Procs, Open(p)
      PROVE  HolderInv'
  BY <1>5 DEF Open, StartFails, Goto, Die
<1>6. ASSUME NEW p \in Procs, StartRpc(p)
      PROVE  HolderInv'
  BY <1>6 DEF StartRpc, StartFails, McpAllowed, Goto, Die
<1>7. ASSUME NEW p \in Procs, Ready(p)
      PROVE  HolderInv'
  BY <1>7 DEF Ready, StartFails, Goto, Die
<1>8. ASSUME NEW p \in Procs, CreateTemp(p)
      PROVE  HolderInv'
  BY <1>8 DEF CreateTemp, CancelQuit, Return, Goto
<1>9. ASSUME NEW p \in Procs, RenameTemp(p)
      PROVE  HolderInv'
  BY <1>9 DEF RenameTemp, CancelQuit, Return, Goto
<1>10. ASSUME NEW p \in Procs, SyncDirectory(p)
      PROVE  HolderInv'
  BY <1>10 DEF SyncDirectory, CancelQuit, Return, Goto, Marked
<1>11. ASSUME NEW p \in Procs, StopRpc(p)
      PROVE  HolderInv'
  BY <1>11 DEF StopRpc, Goto
<1>12. ASSUME NEW p \in Procs, StopRuntime(p)
      PROVE  HolderInv'
  BY <1>12 DEF StopRuntime, Return, Goto
<1>13. ASSUME NEW p \in Procs, Exit(p)
      PROVE  HolderInv'
  BY <1>13 DEF Exit, Die
<1>14. ASSUME NEW p \in Procs, NEW s \in {"interactive", "login"}, Launch(p, s)
      PROVE  HolderInv'
  BY <1>14 DEF Launch, Spawn, Goto
<1>15. ASSUME NEW p \in Procs, TrayQuit(p)
      PROVE  HolderInv'
  BY <1>15 DEF TrayQuit, BeginQuit, Goto
<1>16. ASSUME NEW p \in Procs, ExitRequested(p)
      PROVE  HolderInv'
  BY <1>16 DEF ExitRequested, BeginQuit, Goto
<1>17. ASSUME NEW p \in Procs, Terminate(p)
      PROVE  HolderInv'
  BY <1>17 DEF Terminate, BeginQuit, Goto
<1>18. ASSUME NEW p \in Procs, PowerOff(p)
      PROVE  HolderInv'
  BY <1>18 DEF PowerOff
<1>19. ASSUME NEW p \in Procs, Crash(p)
      PROVE  HolderInv'
  BY <1>19 DEF Crash, Die
<1>20. ASSUME NEW b \in Bridges, LaunchHost(b)
      PROVE  HolderInv'
  BY <1>20 DEF LaunchHost, Spawn, Goto, hosts
<1>21. ASSUME UNCHANGED hosts
      PROVE  HolderInv'
  BY <1>21 DEF hosts
<1>22. CASE UNCHANGED vars
  BY <1>22 DEF vars
<1> QED
  BY <1>1, <1>2, <1>3, <1>4, <1>5, <1>6, <1>7, <1>8, <1>9, <1>10, <1>11,
     <1>12, <1>13, <1>14, <1>15, <1>16, <1>17, <1>18, <1>19, <1>20, <1>21,
     <1>22 DEF Next, HostStep, Command, BridgeStep, Connect, Inspect,
     Coordinate, Verify, Poll, Confirm, Deadline, BridgeGone

\* explicit_quit is set with the first step of a quit and taken back with
\* the step that calls it off.
LEMMA QuitKeeps ==
  ASSUME HostInv, [Next]_vars
  PROVE  QuitInv'
<1> USE ProcAssumption DEF HostInv, TypeOK, QuitInv, QuitPhases, owned,
           flags, files, bridges
<1>1. ASSUME NEW p \in Procs, AuthorizeUser(p)
      PROVE  QuitInv'
  BY <1>1 DEF AuthorizeUser, Goto, Die
<1>2. ASSUME NEW p \in Procs, AuthorizeMcp(p)
      PROVE  QuitInv'
  BY <1>2 DEF AuthorizeMcp, McpAllowed, Goto, Die
<1>3. ASSUME NEW p \in Procs, SingleInstance(p)
      PROVE  QuitInv'
  BY <1>3 DEF SingleInstance, Goto, Die
<1>4. ASSUME NEW p \in Procs, Setup(p)
      PROVE  QuitInv'
  BY <1>4 DEF Setup, McpAllowed, Goto, Die
<1>5. ASSUME NEW p \in Procs, Open(p)
      PROVE  QuitInv'
  BY <1>5 DEF Open, StartFails, Goto, Die
<1>6. ASSUME NEW p \in Procs, StartRpc(p)
      PROVE  QuitInv'
  BY <1>6 DEF StartRpc, StartFails, McpAllowed, Goto, Die
<1>7. ASSUME NEW p \in Procs, Ready(p)
      PROVE  QuitInv'
  BY <1>7 DEF Ready, StartFails, Goto, Die
<1>8. ASSUME NEW p \in Procs, CreateTemp(p)
      PROVE  QuitInv'
  BY <1>8 DEF CreateTemp, CancelQuit, Return, Goto
<1>9. ASSUME NEW p \in Procs, RenameTemp(p)
      PROVE  QuitInv'
  BY <1>9 DEF RenameTemp, CancelQuit, Return, Goto
<1>10. ASSUME NEW p \in Procs, SyncDirectory(p)
      PROVE  QuitInv'
  BY <1>10 DEF SyncDirectory, CancelQuit, Return, Goto, Marked
<1>11. ASSUME NEW p \in Procs, StopRpc(p)
      PROVE  QuitInv'
  BY <1>11 DEF StopRpc, Goto
<1>12. ASSUME NEW p \in Procs, StopRuntime(p)
      PROVE  QuitInv'
  BY <1>12 DEF StopRuntime, Return, Goto
<1>13. ASSUME NEW p \in Procs, Exit(p)
      PROVE  QuitInv'
  BY <1>13 DEF Exit, Die
<1>14. ASSUME NEW p \in Procs, NEW s \in {"interactive", "login"}, Launch(p, s)
      PROVE  QuitInv'
  BY <1>14 DEF Launch, Spawn, Goto
<1>15. ASSUME NEW p \in Procs, TrayQuit(p)
      PROVE  QuitInv'
  BY <1>15 DEF TrayQuit, BeginQuit, Goto
<1>16. ASSUME NEW p \in Procs, ExitRequested(p)
      PROVE  QuitInv'
  BY <1>16 DEF ExitRequested, BeginQuit, Goto
<1>17. ASSUME NEW p \in Procs, Terminate(p)
      PROVE  QuitInv'
  BY <1>17 DEF Terminate, BeginQuit, Goto
<1>18. ASSUME NEW p \in Procs, PowerOff(p)
      PROVE  QuitInv'
  BY <1>18 DEF PowerOff
<1>19. ASSUME NEW p \in Procs, Crash(p)
      PROVE  QuitInv'
  BY <1>19 DEF Crash, Die
<1>20. ASSUME NEW b \in Bridges, LaunchHost(b)
      PROVE  QuitInv'
  BY <1>20 DEF LaunchHost, Spawn, Goto, hosts
<1>21. ASSUME UNCHANGED hosts
      PROVE  QuitInv'
  BY <1>21 DEF hosts
<1>22. CASE UNCHANGED vars
  BY <1>22 DEF vars
<1> QED
  BY <1>1, <1>2, <1>3, <1>4, <1>5, <1>6, <1>7, <1>8, <1>9, <1>10, <1>11,
     <1>12, <1>13, <1>14, <1>15, <1>16, <1>17, <1>18, <1>19, <1>20, <1>21,
     <1>22 DEF Next, HostStep, Command, BridgeStep, Connect, Inspect,
     Coordinate, Verify, Poll, Confirm, Deadline, BridgeGone

\* The marker becomes durable only by a step of the holder, which is then
\* past calling off its quit, and no other process is past the election; a
\* process that becomes permitted later reads the marker first.
LEMMA RevivalKeeps ==
  ASSUME HostInv, [Next]_vars
  PROVE  RevivalInv'
<1> USE ProcAssumption DEF HostInv, TypeOK, HolderInv, QuitInv, RevivalInv,
           Revivable, Phases, HostPhases, StartPhases, QuitPhases, owned, flags, files, bridges
<1>1. ASSUME NEW p \in Procs, AuthorizeUser(p)
      PROVE  RevivalInv'
  BY <1>1 DEF AuthorizeUser, Goto, Die
<1>2. ASSUME NEW p \in Procs, AuthorizeMcp(p)
      PROVE  RevivalInv'
  BY <1>2 DEF AuthorizeMcp, McpAllowed, Goto, Die, Marked
<1>3. ASSUME NEW p \in Procs, SingleInstance(p)
      PROVE  RevivalInv'
  BY <1>3 DEF SingleInstance, Goto, Die
<1>4. ASSUME NEW p \in Procs, Setup(p)
      PROVE  RevivalInv'
  BY <1>4 DEF Setup, McpAllowed, Goto, Die, Marked
<1>5. ASSUME NEW p \in Procs, Open(p)
      PROVE  RevivalInv'
  BY <1>5 DEF Open, StartFails, Goto, Die
<1>6. ASSUME NEW p \in Procs, StartRpc(p)
      PROVE  RevivalInv'
  BY <1>6 DEF StartRpc, StartFails, McpAllowed, Goto, Die, Marked
<1>7. ASSUME NEW p \in Procs, Ready(p)
      PROVE  RevivalInv'
  BY <1>7 DEF Ready, StartFails, Goto, Die
<1>8. ASSUME NEW p \in Procs, CreateTemp(p)
      PROVE  RevivalInv'
  BY <1>8 DEF CreateTemp, CancelQuit, Return, Goto
<1>9. ASSUME NEW p \in Procs, RenameTemp(p)
      PROVE  RevivalInv'
  BY <1>9 DEF RenameTemp, CancelQuit, Return, Goto
<1>10. ASSUME NEW p \in Procs, SyncDirectory(p)
      PROVE  RevivalInv'
  BY <1>10 DEF SyncDirectory, CancelQuit, Return, Goto, Marked
<1>11. ASSUME NEW p \in Procs, StopRpc(p)
      PROVE  RevivalInv'
  BY <1>11 DEF StopRpc, Goto
<1>12. ASSUME NEW p \in Procs, StopRuntime(p)
      PROVE  RevivalInv'
  BY <1>12 DEF StopRuntime, Return, Goto
<1>13. ASSUME NEW p \in Procs, Exit(p)
      PROVE  RevivalInv'
  BY <1>13 DEF Exit, Die
<1>14. ASSUME NEW p \in Procs, NEW s \in {"interactive", "login"}, Launch(p, s)
      PROVE  RevivalInv'
  BY <1>14 DEF Launch, Spawn, Goto
<1>15. ASSUME NEW p \in Procs, TrayQuit(p)
      PROVE  RevivalInv'
  BY <1>15 DEF TrayQuit, BeginQuit, Goto
<1>16. ASSUME NEW p \in Procs, ExitRequested(p)
      PROVE  RevivalInv'
  BY <1>16 DEF ExitRequested, BeginQuit, Goto
<1>17. ASSUME NEW p \in Procs, Terminate(p)
      PROVE  RevivalInv'
  BY <1>17 DEF Terminate, BeginQuit, Goto
<1>18. ASSUME NEW p \in Procs, PowerOff(p)
      PROVE  RevivalInv'
  BY <1>18 DEF PowerOff
<1>19. ASSUME NEW p \in Procs, Crash(p)
      PROVE  RevivalInv'
  BY <1>19 DEF Crash, Die
<1>20. ASSUME NEW b \in Bridges, LaunchHost(b)
      PROVE  RevivalInv'
  BY <1>20 DEF LaunchHost, Spawn, Goto, hosts
<1>21. ASSUME UNCHANGED hosts
      PROVE  RevivalInv'
  BY <1>21 DEF hosts, Revivable
<1>22. CASE UNCHANGED vars
  BY <1>22 DEF vars
<1> QED
  BY <1>1, <1>2, <1>3, <1>4, <1>5, <1>6, <1>7, <1>8, <1>9, <1>10, <1>11,
     <1>12, <1>13, <1>14, <1>15, <1>16, <1>17, <1>18, <1>19, <1>20, <1>21,
     <1>22 DEF Next, HostStep, Command, BridgeStep, Connect, Inspect,
     Coordinate, Verify, Poll, Confirm, Deadline, BridgeGone

\* The inductive invariant holds throughout.
THEOREM HostInvariant == Spec => []HostInv
<1>1. HostInv /\ [Next]_vars => HostInv'
  BY TypeKeeps, HolderKeeps, QuitKeeps, RevivalKeeps DEF HostInv
<1> QED  BY InitHost, <1>1, PTL DEF Spec

\* Every variable keeps its type, and only the winner of the single-instance
\* election has a started Runtime or an accepting listener.
THEOREM HostTypeCorrect == Spec => []TypeOK
<1>1. HostInv => TypeOK  BY DEF HostInv
<1> QED  BY HostInvariant, <1>1, PTL

\* For any number of processes and bridges, whatever crashes and whatever
\* fails: while the marker is durable, no process an agent launched has the
\* store open or serves, unless it is the one that is quitting.
THEOREM NoRevivalAlways == Spec => []NoRevival
<1>1. HostInv => NoRevival
  BY DEF HostInv, RevivalInv, Revivable, NoRevival
<1> QED  BY HostInvariant, <1>1, PTL

-----------------------------------------------------------------------------
(* A quit that is called off.                                              *)

\* After the rename the temporary file of the process is gone, and nobody
\* else creates one of that name.
TempInv ==
    \A p \in Procs : phase[p] \in {"syncing", "closing", "draining"} => p \notin temps

\* A step that is not one of the marker's leaves the files alone, and none of
\* the processes comes to a phase after the rename or back from a quit.
LEMMA OtherSteps ==
  ASSUME TypeOK, [Next]_vars,
         ~ \E p \in Procs : CreateTemp(p) \/ RenameTemp(p) \/ SyncDirectory(p)
                            \/ StopRpc(p) \/ StopRuntime(p)
  PROVE  /\ UNCHANGED temps
         /\ \A p \in Procs : \/ phase'[p] = phase[p]
                             \/ phase'[p] \in {"gone", "launched", "authorized", "instance",
                                               "permitted", "open", "bound", "marking", "exiting"}
                             \/ phase[p] = "bound"
<1> USE DEF TypeOK, files, owned, flags, bridges
<1>1. ASSUME NEW p \in Procs, AuthorizeUser(p) \/ AuthorizeMcp(p) \/ SingleInstance(p)
                              \/ Setup(p) \/ Open(p) \/ StartRpc(p) \/ Ready(p)
      PROVE  /\ UNCHANGED temps
             /\ \A q \in Procs : \/ phase'[q] = phase[q]
                                 \/ phase'[q] \in {"gone", "authorized", "instance",
                                                   "permitted", "open", "bound"}
                                 \/ phase[q] = "bound"
  BY <1>1 DEF AuthorizeUser, AuthorizeMcp, SingleInstance, Setup, Open, StartRpc,
              Ready, StartFails, McpAllowed, Goto, Die
<1>2. ASSUME NEW p \in Procs, Exit(p) \/ Command(p)
      PROVE  /\ UNCHANGED temps
             /\ \A q \in Procs : \/ phase'[q] = phase[q]
                                 \/ phase'[q] \in {"gone", "launched", "marking", "exiting"}
  BY <1>2 DEF Exit, Command, Launch, Spawn, TrayQuit, ExitRequested, Terminate,
              PowerOff, Crash, BeginQuit, Goto, Die
<1>3. ASSUME NEW b \in Bridges, LaunchHost(b)
      PROVE  /\ UNCHANGED temps
             /\ \A q \in Procs : phase'[q] = phase[q] \/ phase'[q] = "launched"
  BY <1>3 DEF LaunchHost, Spawn, Goto, hosts
<1>4. CASE UNCHANGED hosts
  BY <1>4 DEF hosts
<1>5. CASE UNCHANGED vars
  BY <1>5 DEF vars
<1> QED
  BY <1>1, <1>2, <1>3, <1>4, <1>5
     DEF Next, HostStep, BridgeStep, Connect, Inspect, Coordinate, Verify, Poll,
         Confirm, Deadline, BridgeGone

\* Every step keeps the files as the quit needs them.
LEMMA TempKeeps ==
  ASSUME TypeOK, TempInv, [Next]_vars
  PROVE  TempInv'
<1>1. ASSUME NEW p \in Procs, CreateTemp(p) \/ RenameTemp(p) \/ SyncDirectory(p)
                              \/ StopRpc(p) \/ StopRuntime(p)
      PROVE  TempInv'
  BY <1>1 DEF TypeOK, TempInv, CreateTemp, RenameTemp, SyncDirectory, StopRpc,
              StopRuntime, CancelQuit, Return, Goto, files
<1>2. CASE ~ \E p \in Procs : CreateTemp(p) \/ RenameTemp(p) \/ SyncDirectory(p)
                              \/ StopRpc(p) \/ StopRuntime(p)
  <2>1. UNCHANGED temps
    BY <1>2, OtherSteps
  <2>2. \A p \in Procs : phase'[p] \in {"syncing", "closing", "draining"}
                         => phase'[p] = phase[p]
    <3>1. ASSUME NEW p \in Procs, phase[p] = "bound"
          PROVE  phase'[p] \notin {"syncing", "closing", "draining"}
      BY <1>2, <3>1
         DEF TypeOK, Next, vars, HostStep, Command, BridgeStep, Connect, Inspect,
             Coordinate, Verify, Poll, Confirm, Deadline, BridgeGone, hosts,
             AuthorizeUser, AuthorizeMcp, SingleInstance, Setup, Open, StartRpc,
             Ready, StartFails, McpAllowed, Goto, Die, Exit, Launch, Spawn,
             TrayQuit, ExitRequested, Terminate, PowerOff, Crash, BeginQuit, LaunchHost
    <3> QED
      BY <1>2, <3>1, OtherSteps
  <2> QED
    BY <2>1, <2>2 DEF TempInv
<1> QED
  BY <1>1, <1>2

\* A step from a quit back to the event loop leaves no file of its own.
LEMMA CallOff ==
  ASSUME TypeOK, TempInv, [Next]_vars, NEW p \in Procs,
         phase[p] \in QuitPhases, phase'[p] = "ready", p \in temps'
  PROVE  phase[p] = "marking" /\ p \in temps
<1>1. ASSUME NEW q \in Procs, CreateTemp(q) \/ RenameTemp(q) \/ SyncDirectory(q)
                              \/ StopRpc(q) \/ StopRuntime(q)
      PROVE  phase[p] = "marking" /\ p \in temps
  BY <1>1 DEF TypeOK, TempInv, QuitPhases, CreateTemp, RenameTemp, SyncDirectory,
              StopRpc, StopRuntime, CancelQuit, Return, Goto, files
<1>2. CASE ~ \E q \in Procs : CreateTemp(q) \/ RenameTemp(q) \/ SyncDirectory(q)
                              \/ StopRpc(q) \/ StopRuntime(q)
  BY <1>2, OtherSteps DEF QuitPhases
<1> QED
  BY <1>1, <1>2

\* A quit that is called off leaves no temporary file of its own, whichever of
\* its steps has failed and whatever other processes do: it can be tried again.
THEOREM CalledOffCleanAlways == Spec => CalledOffClean
<1>1. Init => TempInv
  BY DEF Init, TempInv
<1>2. TypeOK /\ TempInv /\ [Next]_vars => TempInv'
  BY TempKeeps
<1>3. TypeOK /\ TempInv /\ [Next]_vars
      => [\A p \in Procs : /\ phase[p] \in QuitPhases
                           /\ phase'[p] = "ready"
                           /\ p \in temps'
                           => phase[p] = "marking" /\ p \in temps]_vars
  BY CallOff
<1> QED
  BY <1>1, <1>2, <1>3, HostTypeCorrect, PTL DEF Spec, CalledOffClean

=============================================================================
