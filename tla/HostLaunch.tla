----------------------------- MODULE HostLaunch -----------------------------
(***************************************************************************)
(* Which process is the Desktop Host, and when an agent may start one.     *)
(*                                                                         *)
(* A host process is launched by the user, at login, or by a bridge        *)
(* (next-infra-mcp) that found no host.  It authorises itself, takes part  *)
(* in the single-instance election, opens the store and binds the Local    *)
(* RPC socket.  An explicit quit leaves a file, the user-quit marker,      *)
(* before anything is closed; a marker makes bridges and the hosts they    *)
(* launch give up, and a launch by the user or at login removes it.        *)
(*                                                                         *)
(* Processes share the marker file, the election and two lock files and    *)
(* nothing else, so every step between two system calls that touch these   *)
(* is an action of its own and processes interleave between any two.  The  *)
(* steps of one process are its main thread's: a quit, a power-off and a   *)
(* window event of one host never overlap.                                 *)
(*                                                                         *)
(* Data abstraction.  The marker's content is never used (every content    *)
(* suppresses); what counts is whether the file is there and whether its   *)
(* directory entry was synchronised.  The integration record and code      *)
(* signatures are a free choice: they may refuse at any time.  A process   *)
(* is its pid; a pid is used again after its process is gone.  Windows do  *)
(* not appear: closing one only hides it.                                  *)
(***************************************************************************)
EXTENDS FiniteSets

CONSTANTS
    Procs,     \* process ids of hosts
    Bridges,   \* bridge processes
    Commands,  \* what users and the system do in this instance
    Faults,    \* which faults happen in this instance
    None

ASSUME ProcAssumption == None \notin Procs /\ None \notin Bridges

ASSUME EnvAssumption ==
    /\ Commands \subseteq {"interactive", "login", "bridge", "tray", "exit",
                           "terminate", "poweroff"}
    /\ Faults \subseteq {"crash", "kill", "start", "marker", "sync",
                         "checkpoint"}

VARIABLES
    phase,            \* where each host process is
    source,           \* its LaunchSource
    holder,           \* the process that won the single-instance election
    rpc,              \* processes with a bound, accepting RPC listener
    runtime,          \* processes with the store open and a started Runtime
    explicit_quit,    \* AppState.explicit_quit, per process
    system_shutdown,  \* AppState.system_shutdown, per process
    leaving,          \* processes whose event loop has ended (RunEvent::Exit)
    marker,           \* the file user-quit-v1.json
    temps,            \* pids p with a file user-quit-v1.json.tmp-p
    bridge,           \* where each bridge is in ensure_host
    launch_lock,      \* the bridge that holds the launch lock
    expired           \* bridges whose deadline has passed

files == <<marker, temps>>
flags == <<explicit_quit, system_shutdown, leaving>>
owned == <<holder, rpc, runtime>>
bridges == <<bridge, launch_lock, expired>>
vars == <<phase, source, owned, flags, files, bridges>>

Sources == {"interactive", "login", "mcp"}

StartPhases == {"instance", "permitted", "open", "bound"}

QuitPhases == {"marking", "writing", "syncing", "closing", "draining"}

HostPhases == StartPhases \cup QuitPhases \cup {"ready", "exiting"}

Phases == HostPhases \cup {"gone", "launched", "authorized"}

BridgePhases == {"idle", "inspect", "coordinate", "verify", "launch",
                 "polling", "connected", "done", "failed"}

\* inspect_user_quit: whatever the file holds, only its absence is Clear.
Marked == marker # "absent"

Init ==
    /\ phase = [p \in Procs |-> "gone"]
    /\ source = [p \in Procs |-> "interactive"]
    /\ holder = None
    /\ rpc = {} /\ runtime = {}
    /\ explicit_quit = {} /\ system_shutdown = {} /\ leaving = {}
    /\ marker = "absent" /\ temps = {}
    /\ bridge = [b \in Bridges |-> "idle"]
    /\ launch_lock = None
    /\ expired = {}

-----------------------------------------------------------------------------
(* A process starts, and a process ends for whatever reason.               *)

Goto(p, from, to) == phase[p] = from /\ phase' = [phase EXCEPT ![p] = to]

Spawn(p, s) ==
    /\ Goto(p, "gone", "launched")
    /\ source' = [source EXCEPT ![p] = s]

\* The election is over and the listener is closed when the process is gone.
Die(p) ==
    /\ phase' = [phase EXCEPT ![p] = "gone"]
    /\ holder' = IF holder = p THEN None ELSE holder
    /\ rpc' = rpc \ {p}
    /\ runtime' = runtime \ {p}
    /\ explicit_quit' = explicit_quit \ {p}
    /\ system_shutdown' = system_shutdown \ {p}
    /\ leaving' = leaving \ {p}
    /\ UNCHANGED source

Launch(p, s) ==
    /\ s \in Commands
    /\ Spawn(p, s)
    /\ UNCHANGED <<owned, flags, files, bridges>>

-----------------------------------------------------------------------------
(* Starting: run, setup, AppState::open, LocalRpcHost::start.              *)

\* clear_user_quit fails before it unlinks, or after (the directory is not
\* synchronised), and either failure ends the launch.
AuthorizeUser(p) ==
    /\ source[p] # "mcp"
    /\ \/ /\ Goto(p, "launched", "authorized")
          /\ marker' = "absent"
          /\ UNCHANGED <<source, owned, flags>>
       \/ /\ "sync" \in Faults
          /\ phase[p] = "launched"
          /\ Die(p)
          /\ marker' \in {marker, "absent"}
    /\ UNCHANGED <<temps, bridges>>

\* authorize_mcp_host_launch lets a process of a bridge go on.
McpAllowed(p) == source[p] = "mcp" => ~Marked

AuthorizeMcp(p) ==
    /\ source[p] = "mcp"
    /\ \/ McpAllowed(p) /\ Goto(p, "launched", "authorized")
          /\ UNCHANGED <<source, owned, flags>>
       \/ phase[p] = "launched" /\ Die(p)
    /\ UNCHANGED <<files, bridges>>

\* Mutant: the election does not look for another instance.
SingleInstanceAlone(p) ==
    /\ Goto(p, "authorized", "instance")
    /\ holder' = p
    /\ UNCHANGED <<source, rpc, runtime, flags, files, bridges>>

\* The first to come stays; a later one is told off and exits.
SingleInstance(p) ==
    \/ /\ holder = None
       /\ Goto(p, "authorized", "instance")
       /\ holder' = p
       /\ UNCHANGED <<source, rpc, runtime, flags, files, bridges>>
    \/ /\ holder # None
       /\ phase[p] = "authorized"
       /\ Die(p)
       /\ UNCHANGED <<files, bridges>>

\* Mutant: setup relies on the check made before the election.
SetupTrusting(p) ==
    /\ Goto(p, "instance", "permitted")
    /\ UNCHANGED <<source, owned, flags, files, bridges>>

\* A process of a bridge asks again, now that it is the only one.
Setup(p) ==
    /\ \/ McpAllowed(p) /\ Goto(p, "instance", "permitted")
          /\ UNCHANGED <<source, owned, flags>>
       \/ source[p] = "mcp" /\ phase[p] = "instance" /\ Die(p)
    /\ UNCHANGED <<files, bridges>>

StartFails(p, at) == "start" \in Faults /\ phase[p] = at /\ Die(p)

Open(p) ==
    /\ \/ /\ Goto(p, "permitted", "open")
          /\ runtime' = runtime \cup {p}
          /\ UNCHANGED <<source, holder, rpc, flags>>
       \/ StartFails(p, "permitted")
    /\ UNCHANGED <<files, bridges>>

\* The marker is read a third time; a refusal stops the Runtime again.
StartRpc(p) ==
    /\ \/ /\ McpAllowed(p)
          /\ Goto(p, "open", "bound")
          /\ rpc' = rpc \cup {p}
          /\ UNCHANGED <<source, holder, runtime, flags>>
       \/ ~McpAllowed(p) /\ phase[p] = "open" /\ Die(p)
       \/ StartFails(p, "open")
    /\ UNCHANGED <<files, bridges>>

\* Settings, connectors, driver, menu: from here on the host can be quit.
Ready(p) ==
    /\ \/ Goto(p, "bound", "ready") /\ UNCHANGED <<source, owned, flags>>
       \/ StartFails(p, "bound")
    /\ UNCHANGED <<files, bridges>>

-----------------------------------------------------------------------------
(* Quitting: persist_user_quit_and_stop, in the steps other processes see. *)

\* explicit_quit.swap(true): whoever finds it set has nothing left to do.
BeginQuit(p) ==
    /\ explicit_quit' = explicit_quit \cup {p}
    /\ Goto(p, "ready", IF p \in explicit_quit THEN "exiting" ELSE "marking")

\* The menu item of the tray.
TrayQuit(p) ==
    /\ "tray" \in Commands
    /\ BeginQuit(p)
    /\ UNCHANGED <<source, owned, system_shutdown, leaving, files, bridges>>

\* RunEvent::ExitRequested without a code; after a power-off it is let pass.
ExitRequested(p) ==
    /\ "exit" \in Commands
    /\ IF p \in system_shutdown
         THEN Goto(p, "ready", "exiting") /\ UNCHANGED explicit_quit
         ELSE BeginQuit(p)
    /\ UNCHANGED <<source, owned, system_shutdown, leaving, files, bridges>>

\* RunEvent::Exit without a request before it: what fails cannot stop it.
Terminate(p) ==
    /\ "terminate" \in Commands
    /\ leaving' = leaving \cup {p}
    /\ IF p \in system_shutdown
         THEN Goto(p, "ready", "exiting") /\ UNCHANGED explicit_quit
         ELSE BeginQuit(p)
    /\ UNCHANGED <<source, owned, system_shutdown, files, bridges>>

\* An error returns to the event loop, unless that has ended.
Return(p, at) == Goto(p, at, IF p \in leaving THEN "exiting" ELSE "ready")

\* persist_user_quit has failed: the quit is called off.
CancelQuit(p, at) ==
    /\ Return(p, at)
    /\ explicit_quit' = explicit_quit \ {p}

\* create_new: a file of that name, left by an earlier process, is an error.
CreateTemp(p) ==
    /\ \/ /\ p \notin temps
          /\ Goto(p, "marking", "writing")
          /\ temps' = temps \cup {p}
          /\ UNCHANGED explicit_quit
       \/ /\ p \in temps \/ "marker" \in Faults
          /\ CancelQuit(p, "marking")
          /\ UNCHANGED temps
    /\ UNCHANGED <<source, owned, system_shutdown, leaving, marker, bridges>>

\* Mutant: a failed write leaves its temporary file.
RenameTempDirty(p) ==
    /\ \/ /\ Goto(p, "writing", "syncing")
          /\ marker' = IF marker = "durable" THEN marker ELSE "renamed"
          /\ temps' = temps \ {p}
          /\ UNCHANGED explicit_quit
       \/ /\ "marker" \in Faults
          /\ CancelQuit(p, "writing")
          /\ UNCHANGED files
    /\ UNCHANGED <<source, owned, system_shutdown, leaving, bridges>>

\* write_all, sync_all and rename; a failure removes the temporary file.
RenameTemp(p) ==
    /\ \/ /\ Goto(p, "writing", "syncing")
          /\ marker' = IF marker = "durable" THEN marker ELSE "renamed"
          /\ UNCHANGED explicit_quit
       \/ /\ "marker" \in Faults
          /\ CancelQuit(p, "writing")
          /\ UNCHANGED marker
    /\ temps' = temps \ {p}
    /\ UNCHANGED <<source, owned, system_shutdown, leaving, bridges>>

\* sync_directory, of whatever the directory now holds; a failure is one of
\* persist_user_quit although the marker is there.
SyncDirectory(p) ==
    /\ \/ /\ Goto(p, "syncing", "closing")
          /\ marker' = IF Marked THEN "durable" ELSE marker
          /\ UNCHANGED explicit_quit
       \/ /\ "sync" \in Faults
          /\ CancelQuit(p, "syncing")
          /\ UNCHANGED marker
    /\ UNCHANGED <<source, owned, system_shutdown, leaving, temps, bridges>>

StopRpc(p) ==
    /\ Goto(p, "closing", "draining")
    /\ rpc' = rpc \ {p}
    /\ UNCHANGED <<source, holder, runtime, flags, files, bridges>>

\* Mutant: a stop that went well is reported as an error too.
StopRuntimeAgain(p) ==
    /\ Return(p, "draining")
    /\ runtime' = runtime \ {p}
    /\ UNCHANGED <<source, holder, rpc, flags, files, bridges>>

\* Runtime::stop is an error when the Runtime is not running or the store
\* cannot be checkpointed; the process then stays, with explicit_quit set.
StopRuntime(p) ==
    /\ \/ p \in runtime /\ Goto(p, "draining", "exiting")
       \/ /\ p \notin runtime \/ "checkpoint" \in Faults
          /\ Return(p, "draining")
    /\ runtime' = runtime \ {p}
    /\ UNCHANGED <<source, holder, rpc, flags, files, bridges>>

\* app.exit(0) and the end of the loop, whose handler finds its work done.
Exit(p) ==
    /\ phase[p] = "exiting"
    /\ Die(p)
    /\ UNCHANGED <<files, bridges>>

\* handle_power_off: everything stops and the system is expected to end the
\* process, which it does not when the log-out is called off.
PowerOff(p) ==
    /\ "poweroff" \in Commands
    /\ phase[p] = "ready"
    /\ system_shutdown' = system_shutdown \cup {p}
    /\ rpc' = rpc \ {p}
    /\ runtime' = runtime \ {p}
    /\ UNCHANGED <<phase, source, holder, explicit_quit, leaving, files,
                   bridges>>

Crash(p) ==
    /\ "crash" \in Faults
    /\ phase[p] # "gone"
    /\ Die(p)
    /\ UNCHANGED <<files, bridges>>

-----------------------------------------------------------------------------
(* A bridge: ensure_host, from the first connection attempt to its answer. *)

BridgeGoto(b, from, to) ==
    /\ bridge[b] = from
    /\ bridge' = [bridge EXCEPT ![b] = to]

\* The launch guard is dropped with the stack frame of ensure_host.
Answer(b, from, answer) ==
    /\ BridgeGoto(b, from, answer)
    /\ launch_lock' = IF launch_lock = b THEN None ELSE launch_lock
    /\ expired' = expired \ {b}

hosts == <<phase, source, owned, flags, files>>

\* A host that answers in time is enough; the marker is not looked at.
Connect(b) ==
    /\ "bridge" \in Commands
    /\ \/ rpc # {} /\ Answer(b, "idle", "done")
       \/ /\ BridgeGoto(b, "idle", "inspect")
          /\ UNCHANGED <<launch_lock, expired>>
    /\ UNCHANGED hosts

\* The marker, then the integration record, which may refuse.
Inspect(b) ==
    /\ \/ /\ ~Marked
          /\ BridgeGoto(b, "inspect", "coordinate")
          /\ UNCHANGED <<launch_lock, expired>>
       \/ Answer(b, "inspect", "failed")
    /\ UNCHANGED hosts

\* MacOpenLauncher::coordinate: without the lock it only waits; the lock
\* file may also be unusable.
Coordinate(b) ==
    /\ \/ /\ launch_lock = None
          /\ BridgeGoto(b, "coordinate", "verify")
          /\ launch_lock' = b
          /\ UNCHANGED expired
       \/ /\ launch_lock # None
          /\ BridgeGoto(b, "coordinate", "polling")
          /\ UNCHANGED <<launch_lock, expired>>
       \/ Answer(b, "coordinate", "failed")
    /\ UNCHANGED hosts

\* The signatures, which may refuse, then the marker again.
Verify(b) ==
    /\ \/ /\ ~Marked
          /\ BridgeGoto(b, "verify", "launch")
          /\ UNCHANGED <<launch_lock, expired>>
       \/ Answer(b, "verify", "failed")
    /\ UNCHANGED hosts

\* /usr/bin/open starts the App, or fails.
LaunchHost(b) ==
    \/ /\ \E p \in Procs : Spawn(p, "mcp")
       /\ BridgeGoto(b, "launch", "polling")
       /\ UNCHANGED <<owned, flags, files, launch_lock, expired>>
    \/ Answer(b, "launch", "failed") /\ UNCHANGED hosts

\* Mutant: the loop looks at the marker and not at the clock.
PollForever(b) ==
    /\ \/ Marked /\ Answer(b, "polling", "failed")
       \/ /\ ~Marked /\ rpc # {}
          /\ BridgeGoto(b, "polling", "connected")
          /\ UNCHANGED <<launch_lock, expired>>
    /\ UNCHANGED hosts

\* One turn of the loop; one whose attempt fails changes nothing.
Poll(b) ==
    /\ \/ (Marked \/ b \in expired) /\ Answer(b, "polling", "failed")
       \/ /\ ~Marked /\ b \notin expired /\ rpc # {}
          /\ BridgeGoto(b, "polling", "connected")
          /\ UNCHANGED <<launch_lock, expired>>
    /\ UNCHANGED hosts

\* Marker and clock once more, with the session in hand.
Confirm(b) ==
    /\ Answer(b, "connected",
              IF Marked \/ b \in expired THEN "failed" ELSE "done")
    /\ UNCHANGED hosts

Deadline(b) ==
    /\ bridge[b] \in {"polling", "connected"}
    /\ b \notin expired
    /\ expired' = expired \cup {b}
    /\ UNCHANGED <<bridge, launch_lock, hosts>>

\* The bridge process ends, or is killed; its locks go with it.
BridgeGone(b) ==
    /\ bridge[b] \in {"done", "failed"} \/ "kill" \in Faults
    /\ Answer(b, bridge[b], "idle")
    /\ UNCHANGED hosts

-----------------------------------------------------------------------------
HostStep(p) ==
    \/ AuthorizeUser(p) \/ AuthorizeMcp(p) \/ SingleInstance(p) \/ Setup(p)
    \/ Open(p) \/ StartRpc(p) \/ Ready(p)
    \/ CreateTemp(p) \/ RenameTemp(p) \/ SyncDirectory(p)
    \/ StopRpc(p) \/ StopRuntime(p) \/ Exit(p)

Command(p) ==
    \/ \E s \in {"interactive", "login"} : Launch(p, s)
    \/ TrayQuit(p) \/ ExitRequested(p) \/ Terminate(p) \/ PowerOff(p)
    \/ Crash(p)

BridgeStep(b) ==
    \/ Inspect(b) \/ Coordinate(b) \/ Verify(b) \/ LaunchHost(b)
    \/ Poll(b) \/ Confirm(b) \/ Deadline(b)

Next ==
    \/ \E p \in Procs : HostStep(p) \/ Command(p)
    \/ \E b \in Bridges : Connect(b) \/ BridgeStep(b) \/ BridgeGone(b)

Spec == Init /\ [][Next]_vars

\* No step of a process that runs waits for another process; the deadline of
\* a bridge is the clock's.  Users, the system and faults owe nothing.
Fairness ==
    /\ \A p \in Procs : WF_vars(HostStep(p))
    /\ \A b \in Bridges : WF_vars(BridgeStep(b))

FairSpec == Spec /\ Fairness

-----------------------------------------------------------------------------
(* Properties.                                                             *)

\* The types, and that only the winner of the election has a started Runtime
\* or an accepting listener, whatever ended the processes before it.
TypeOK ==
    /\ phase \in [Procs -> Phases]
    /\ source \in [Procs -> Sources]
    /\ holder \in Procs \cup {None}
    /\ rpc \subseteq Procs /\ rpc \subseteq {holder}
    /\ runtime \subseteq Procs /\ runtime \subseteq {holder}
    /\ explicit_quit \subseteq Procs
    /\ system_shutdown \subseteq Procs
    /\ leaving \subseteq Procs
    /\ marker \in {"absent", "renamed", "durable"}
    /\ temps \subseteq Procs
    /\ bridge \in [Bridges -> BridgePhases]
    /\ launch_lock \in Bridges \cup {None}
    /\ expired \subseteq Bridges

\* No agent revives a host that was quit: while the marker is durable no
\* process of a bridge has the store open, is about to open it, or serves,
\* except the one that is itself quitting.  A bridge may have checked the
\* marker, and the process it launched may have checked it before its
\* election, both before the quit.
NoRevival ==
    marker = "durable" =>
      \A p \in Procs :
        /\ source[p] = "mcp"
        /\ phase[p] \in {"permitted", "open", "bound", "ready"}
        => p \in explicit_quit

\* A quit that is called off can be tried again: it leaves no temporary file
\* of its own, which create_new would refuse at every later attempt.  The
\* only one in the way is one it met, of an earlier process with its pid.
CalledOffClean ==
    [][\A p \in Procs :
         /\ phase[p] \in QuitPhases
         /\ phase'[p] = "ready"
         /\ p \in temps'
         => phase[p] = "marking" /\ p \in temps]_vars

\* Once the marker is durable, the process it was written by goes away.
QuitEnds == \A p \in Procs : phase[p] = "closing" ~> phase[p] = "gone"

\* Every bridge gets an answer, whatever host there is or is not.
BridgeAnswered ==
    \A b \in Bridges :
        bridge[b] = "inspect" ~> bridge[b] \in {"done", "failed"}

=============================================================================
