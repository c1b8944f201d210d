------------------------ MODULE ScheduledSyncProofs ------------------------
(***************************************************************************)
(* Proofs about ScheduledSync, for any number of connections of any        *)
(* connector types, with every command and every fault: the running flags  *)
(* are locks and do not leak, a purge is final, what is scheduled is       *)
(* stored, and nothing starts after the stop.                              *)
(***************************************************************************)
EXTENDS ScheduledSync, TLAPS

\* The initial state is typed.
LEMMA TypeInit == Init => TypeOK
  <1> SUFFICES ASSUME Init PROVE TypeOK
    OBVIOUS
  <1> USE ConnectionAssumption, IntervalAssumption
  <1>1. /\ due \in [Connections -> Nat \cup {None}]
        /\ \A c \in Connections : due[c] # None => has_live_sync_path(TypeOf[c])
    BY DEF Init, Registered
  <1>2. /\ pending \in Seq(SUBSET Connections)
        /\ driver \in [phase : {"waiting", "woken", "dispatching", "resolved", "gone"},
                       plans : Seq(SUBSET Connections),
                       conn : Connections \cup {None}]
        /\ driver.phase = "resolved" <=> driver.conn # None
    BY DEF Init, Waiting
  <1> QED
    BY <1>1, <1>2 DEF Init, TypeOK

\* The due times that a replanning and a registration write.
LEMMA DueType ==
    ASSUME TypeOK
    PROVE  /\ \A S \in SUBSET Due : /\ Replanned(S) \in [Connections -> Nat \cup {None}]
                                    /\ \A c \in Connections : Replanned(S)[c] # None
                                            => has_live_sync_path(TypeOf[c])
           /\ \A S : /\ Registered(S) \in [Connections -> Nat \cup {None}]
                     /\ \A c \in Connections : Registered(S)[c] # None
                                => has_live_sync_path(TypeOf[c])
           /\ Due \subseteq Connections
           /\ plan_due \subseteq Due
  BY ConnectionAssumption, IntervalAssumption
     DEF TypeOK, Replanned, Registered, Due, plan_due

DriverType == [phase : {"waiting", "woken", "dispatching", "resolved", "gone"},
               plans : Seq(SUBSET Connections),
               conn : Connections \cup {None}]

\* Taking or releasing a flag.
LEMMA FlagType ==
    ASSUME running \in [ConnectorTypes -> BOOLEAN],
           NEW c \in Connections, NEW b \in BOOLEAN
    PROVE  [running EXCEPT ![TypeOf[c]] = b] \in [ConnectorTypes -> BOOLEAN]
  BY Zenon

\* Spawning a task.
LEMMA SpawnType ==
    ASSUME tasks \subseteq Tasks, NEW c \in Connections,
           NEW o \in {"driver", "manual", "create"}, spawn_sync(c, o)
    PROVE  tasks' \subseteq Tasks
  BY DEF spawn_sync, Tasks

\* Every step keeps the types.
LEMMA TypeStep == TypeOK /\ [Next]_vars => TypeOK'
  <1> SUFFICES ASSUME TypeOK, [Next]_vars PROVE TypeOK'
    OBVIOUS
  <1> USE ConnectionAssumption
  <1>1. CASE Clock
    <2>1. due' \in [Connections -> Nat \cup {None}]
      BY <1>1, IntervalAssumption DEF Clock, TypeOK
    <2>2. \A c \in Connections : due'[c] # None => due[c] # None
      BY <1>1 DEF Clock
    <2> QED
      BY <1>1, <2>1, <2>2 DEF Clock, TypeOK, commands
  <1>2. CASE Tick
    <2>1. driver' \in DriverType /\ driver'.phase # "resolved" /\ driver'.conn = None
      BY <1>2, DueType DEF Tick, TypeOK, DriverType
    <2>2. /\ due' \in [Connections -> Nat \cup {None}]
          /\ \A c \in Connections : due'[c] # None => has_live_sync_path(TypeOf[c])
          /\ pending' \in Seq(SUBSET Connections)
      BY <1>2, DueType DEF Tick
    <2> QED
      BY <1>2, <2>1, <2>2 DEF Tick, TypeOK, commands, DriverType
  <1>3. CASE Resolve
    <2>1. PICK i \in DOMAIN driver.plans, c \in Connections :
            LET rest == [driver.plans EXCEPT ![i] = @ \ {c}]
            IN  IF c \in rows
                THEN driver' = [phase |-> "resolved", plans |-> rest, conn |-> c]
                ELSE driver' = [driver EXCEPT !.plans = rest]
      BY <1>3 DEF Resolve
    <2>2. [driver.plans EXCEPT ![i] = @ \ {c}] \in Seq(SUBSET Connections)
      BY <2>1 DEF TypeOK
    <2>3. driver.phase = "dispatching" /\ driver.conn = None
      BY <1>3 DEF Resolve, TypeOK
    <2>4. driver \in DriverType
      BY DEF TypeOK, DriverType
    <2>5. driver' \in DriverType
      BY <2>1, <2>2, <2>4 DEF DriverType
    <2>6. driver'.phase = "resolved" <=> driver'.conn # None
      <3>1. CASE c \in rows
        BY <2>1, <3>1
      <3>2. CASE c \notin rows
        BY <2>1, <2>3, <2>4, <3>2 DEF DriverType
      <3> QED
        BY <3>1, <3>2
    <2> QED
      BY <1>3, <2>5, <2>6 DEF Resolve, TypeOK, commands, DriverType
  <1>4. CASE Enqueue
    <2>1. /\ driver' \in DriverType
          /\ driver'.phase = "dispatching" /\ driver'.conn = None
      BY <1>4 DEF Enqueue, TypeOK, DriverType
    <2>2. driver.conn \in Connections
      BY <1>4 DEF Enqueue, TypeOK
    <2>3. running' \in [ConnectorTypes -> BOOLEAN] /\ tasks' \subseteq Tasks
      <3>1. CASE running[TypeOf[driver.conn]]
        BY <1>4, <3>1 DEF Enqueue, TypeOK
      <3>2. CASE ~ running[TypeOf[driver.conn]]
        <4>1. /\ running' = [running EXCEPT ![TypeOf[driver.conn]] = TRUE]
              /\ spawn_sync(driver.conn, "driver")
          BY <1>4, <3>2 DEF Enqueue
        <4> QED
          BY <4>1, <2>2, FlagType, SpawnType DEF TypeOK
      <3> QED
        BY <3>1, <3>2
    <2> QED
      BY <1>4, <2>1, <2>3 DEF Enqueue, TypeOK, commands, DriverType
  <1>5. CASE TickEnd \/ DriverExit \/ RecvTimeout
    <2>1. driver' \in DriverType /\ driver'.phase # "resolved" /\ driver'.conn = None
      <3>1. CASE TickEnd
        BY <3>1 DEF TickEnd, Waiting, DriverType
      <3>2. CASE DriverExit \/ RecvTimeout
        BY <3>2 DEF DriverExit, RecvTimeout, TypeOK, DriverType
      <3> QED
        BY <1>5, <3>1, <3>2
    <2> QED
      BY <1>5, <2>1 DEF TickEnd, DriverExit, RecvTimeout, TypeOK, commands,
                        DriverType
  <1>6. ASSUME NEW k \in tasks, TaskStep(k) \/ TaskPanic(k) PROVE TypeOK'
    <2>1. k \in Tasks /\ k.conn \in Connections /\ TypeOf[k.conn] \in ConnectorTypes
      BY <1>6 DEF TypeOK, Tasks
    <2>2. [k EXCEPT !.phase = "working"] \in Tasks
      BY <2>1 DEF Tasks
    <2>3. tasks' \subseteq Tasks /\ rows' \subseteq Connections
      BY <1>6, <2>1, <2>2 DEF TaskStep, TaskBegin, TaskEnd, TaskPanic, TypeOK
    <2>4. running' \in [ConnectorTypes -> BOOLEAN]
      <3>1. CASE TaskBegin(k)
        BY <3>1 DEF TaskBegin, TypeOK
      <3>2. CASE TaskEnd(k)
        BY <3>2, <2>1, FlagType DEF TaskEnd, TypeOK
      <3>3. CASE TaskPanic(k)
        <4> DEFINE b == ~ SyncRunGuarded(TypeOf[k.conn])
        <4>1. b \in BOOLEAN
          BY Zenon
        <4>2. running' = [running EXCEPT ![TypeOf[k.conn]] = b]
          BY <3>3 DEF TaskPanic
        <4> HIDE DEF b
        <4> QED
          BY <4>1, <4>2, <2>1, FlagType DEF TypeOK
      <3> QED
        BY <1>6, <3>1, <3>2, <3>3 DEF TaskStep
    <2>5. UNCHANGED <<state, due, pending, driver, purged, fresh, commands>>
      BY <1>6 DEF TaskStep, TaskBegin, TaskEnd, TaskPanic
    <2> QED
      BY <2>3, <2>4, <2>5 DEF TypeOK, commands
  <1>7. ASSUME NEW c \in Connections, ManualRead(c) \/ ManualBegin(c) PROVE TypeOK'
    <2>1. running' \in [ConnectorTypes -> BOOLEAN]
      BY <1>7, FlagType DEF ManualRead, ManualBegin, TypeOK
    <2>2. tasks' \subseteq Tasks
      BY <1>7, SpawnType DEF ManualRead, ManualBegin, TypeOK
    <2>3. manual' \in [Connections -> {"idle", "read"}]
      BY <1>7 DEF ManualRead, ManualBegin, TypeOK
    <2>4. UNCHANGED <<state, due, pending, driver, rows, purged, fresh, creator,
                      purger, quit>>
      BY <1>7 DEF ManualRead, ManualBegin
    <2> QED
      BY <2>1, <2>2, <2>3, <2>4 DEF TypeOK
  <1>8. ASSUME NEW c \in Connections, CreateBegin(c) \/ CreateSave(c) \/ CreateFail(c)
        PROVE  TypeOK'
    <2>1. running' \in [ConnectorTypes -> BOOLEAN]
      BY <1>8, FlagType DEF CreateBegin, CreateSave, CreateFail, TypeOK
    <2>2. /\ creator' \in [Connections -> {"idle", "begun", "saved"}]
          /\ rows' \subseteq Connections
          /\ purged' \subseteq Connections
          /\ fresh' \subseteq Connections
      <3>1. CASE CreateBegin(c)
        BY <3>1 DEF CreateBegin, TypeOK
      <3>2. CASE CreateSave(c)
        BY <3>2 DEF CreateSave, TypeOK
      <3>3. CASE CreateFail(c)
        <4>1. rows' \subseteq rows
          BY <3>3 DEF CreateFail
        <4> QED
          BY <3>3, <4>1 DEF CreateFail, TypeOK
      <3> QED
        BY <1>8, <3>1, <3>2, <3>3
    <2>3. UNCHANGED <<state, due, pending, driver, tasks, manual, purger, quit>>
      BY <1>8 DEF CreateBegin, CreateSave, CreateFail
    <2> QED
      BY <2>1, <2>2, <2>3 DEF TypeOK
  <1>9. ASSUME NEW c \in Connections, CreateFinish(c) PROVE TypeOK'
    <2>1. /\ due' \in [Connections -> Nat \cup {None}]
          /\ \A d \in Connections : due'[d] # None => has_live_sync_path(TypeOf[d])
      BY <1>9, DueType DEF CreateFinish, TypeOK
    <2>2. tasks' \subseteq Tasks
      BY <1>9, SpawnType DEF CreateFinish, TypeOK
    <2> QED
      BY <1>9, <2>1, <2>2 DEF CreateFinish, TypeOK
  <1>10. ASSUME NEW c \in Connections, PurgeFind(c) \/ PurgeStep(c) PROVE TypeOK'
    <2> USE DEF PurgeFind, PurgeStep, PurgeAcquire, PurgeDelete, PurgeRefused,
                PurgeUnschedule, PurgeEnd
    <2>1. running' \in [ConnectorTypes -> BOOLEAN]
      BY <1>10, FlagType DEF TypeOK
    <2>2. /\ due' \in [Connections -> Nat \cup {None}]
          /\ \A d \in Connections : due'[d] # None => has_live_sync_path(TypeOf[d])
      BY <1>10 DEF TypeOK
    <2>3. rows' \subseteq Connections /\ purged' \subseteq Connections
      BY <1>10 DEF TypeOK
    <2>5. \E x \in {"idle", "found", "guarded", "deleted", "removed"} :
            purger' = [purger EXCEPT ![c] = x]
      BY <1>10
    <2>6. purger' \in [Connections -> {"idle", "found", "guarded", "deleted", "removed"}]
      BY <2>5 DEF TypeOK
    <2>4. UNCHANGED <<state, pending, driver, tasks, fresh, manual, creator, quit>>
      BY <1>10
    <2> HIDE DEF PurgeFind, PurgeStep, PurgeAcquire, PurgeDelete, PurgeRefused,
                 PurgeUnschedule, PurgeEnd
    <2> QED
      BY <2>1, <2>2, <2>3, <2>4, <2>6 DEF TypeOK
  <1>11. CASE handle_sleep \/ QuitRequest \/ RuntimeStop
    BY <1>11 DEF handle_sleep, QuitRequest, RuntimeStop, TypeOK, commands
  <1>12. CASE handle_wake
    <2>1. /\ due' \in [Connections -> Nat \cup {None}]
          /\ \A c \in Connections : due'[c] # None => has_live_sync_path(TypeOf[c])
          /\ pending' \in Seq(SUBSET Connections)
      BY <1>12, DueType DEF handle_wake, TypeOK
    <2> QED
      BY <1>12, <2>1 DEF handle_wake, TypeOK, commands
  <1>13. CASE Restart
    <2>1. driver' \in DriverType /\ driver'.phase = "waiting" /\ driver'.conn = None
      BY <1>13 DEF Restart, Waiting, DriverType
    <2>2. /\ due' \in [Connections -> Nat \cup {None}]
          /\ \A c \in Connections : due'[c] # None => has_live_sync_path(TypeOf[c])
      BY <1>13, DueType DEF Restart
    <2> QED
      BY <1>13, <2>1, <2>2 DEF Restart, TypeOK, DriverType
  <1>14. CASE UNCHANGED vars
    BY <1>14 DEF vars, TypeOK
  <1> QED
    BY <1>1, <1>2, <1>3, <1>4, <1>5, <1>6, <1>7, <1>8, <1>9, <1>10, <1>11,
       <1>12, <1>13, <1>14 DEF Next, DriverStep, ConnectionStep, CreateStep

\* Type correctness of the scheduler, its driver and the commands.
THEOREM SchedTypeCorrect == Spec => []TypeOK
  BY TypeInit, TypeStep, PTL DEF Spec

-----------------------------------------------------------------------------
(* Mutual exclusion.  A step changes the holders of at most one flag t: it *)
(* takes a free flag, it hands it over, or the one holder gives it up.     *)

\* A flag that is not set has no holder.
LEMMA FreeFlag ==
    ASSUME SingleFlight, NEW t \in ConnectorTypes, ~ running[t]
    PROVE  Holders(t) = {}
  BY DEF SingleFlight

\* Whatever a step does, these two conditions on the new holders suffice.
LEMMA FlightOf ==
    ASSUME SingleFlight, NEW t \in ConnectorTypes,
           \A u \in ConnectorTypes \ {t} :
                Holders(u)' \subseteq Holders(u) /\ running'[u] = running[u],
           \/ Holders(t)' = {}
           \/ running'[t] /\ \A g, h \in Holders(t)' : g = h
    PROVE  SingleFlight'
  <1> SUFFICES ASSUME NEW u \in ConnectorTypes
               PROVE  /\ \A g, h \in Holders(u)' : g = h
                      /\ Holders(u)' # {} => running'[u]
    BY DEF SingleFlight
  <1>1. CASE u = t
    BY <1>1
  <1>2. CASE u # t
    BY <1>2 DEF SingleFlight
  <1> QED
    BY <1>1, <1>2

\* A step that leaves flags, tasks and holding phases alone.
LEMMA FlightFrame ==
    ASSUME SingleFlight, UNCHANGED <<running, tasks>>,
           \A c \in Connections : /\ Creating(c)' = Creating(c)
                                  /\ Purging(c)' = Purging(c)
    PROVE  SingleFlight'
  BY DEF SingleFlight, Holders

\* A spawned task takes the flag of its connection.
LEMMA FlightSpawn ==
    ASSUME TypeOK, SingleFlight, NEW c \in Connections, NEW o,
           ~ running[TypeOf[c]],
           running' = [running EXCEPT ![TypeOf[c]] = TRUE],
           spawn_sync(c, o), UNCHANGED <<creator, purger>>
    PROVE  SingleFlight'
  <1> DEFINE t == TypeOf[c]
             k == [conn |-> c, origin |-> o, phase |-> "spawned"]
  <1>1. t \in ConnectorTypes /\ Holders(t) = {}
    BY ConnectionAssumption, FreeFlag
  <1>2. tasks' = tasks \cup {k} /\ k.conn = c
    BY DEF spawn_sync
  <1>3. ASSUME NEW u \in ConnectorTypes \ {t}
        PROVE  Holders(u)' \subseteq Holders(u) /\ running'[u] = running[u]
    <2>1. running'[u] = running[u]
      BY DEF TypeOK
    <2>2. Holders(u)' \subseteq Holders(u)
      BY <1>2 DEF Holders, Creating, Purging
    <2> QED
      BY <2>1, <2>2
  <1>4. Holders(t)' \subseteq {<<"task", k>>}
    BY <1>1, <1>2 DEF Holders, Creating, Purging
  <1>5. running'[t]
    BY <1>1 DEF TypeOK
  <1> HIDE DEF t, k
  <1> QED
    BY <1>1, <1>3, <1>4, <1>5, FlightOf

\* The one holder of the flag of c gives it up.
LEMMA FlightRelease ==
    ASSUME TypeOK, SingleFlight, NEW c \in Connections,
           NEW h \in Holders(TypeOf[c]),
           \A u \in ConnectorTypes : Holders(u)' \subseteq Holders(u) \ {h},
           \A u \in ConnectorTypes \ {TypeOf[c]} : running'[u] = running[u]
    PROVE  SingleFlight'
  <1> DEFINE t == TypeOf[c]
  <1>1. t \in ConnectorTypes
    BY ConnectionAssumption
  <1>2. Holders(t)' = {}
    BY <1>1 DEF SingleFlight
  <1>3. \A u \in ConnectorTypes \ {t} : /\ Holders(u)' \subseteq Holders(u)
                                         /\ running'[u] = running[u]
    BY <1>1
  <1> HIDE DEF t
  <1> QED
    BY <1>1, <1>2, <1>3, FlightOf

\* Every step keeps the flags locks.
LEMMA FlightStep == TypeOK /\ SingleFlight /\ [Next]_vars => SingleFlight'
  <1> SUFFICES ASSUME TypeOK, SingleFlight, [Next]_vars PROVE SingleFlight'
    OBVIOUS
  <1> USE ConnectionAssumption
  <1>1. CASE Clock \/ Tick \/ Resolve \/ TickEnd \/ DriverExit \/ RecvTimeout \/ handle_sleep
             \/ handle_wake \/ QuitRequest \/ RuntimeStop \/ UNCHANGED vars
    <2>1. UNCHANGED <<running, tasks, creator, purger>>
      BY <1>1 DEF Clock, Tick, Resolve, TickEnd, DriverExit, RecvTimeout, handle_sleep,
                  handle_wake, QuitRequest, RuntimeStop, vars, commands
    <2> QED
      BY <2>1, FlightFrame DEF Creating, Purging
  <1>2. CASE Enqueue
    <2>1. driver.conn \in Connections /\ UNCHANGED <<creator, purger>>
      BY <1>2 DEF Enqueue, TypeOK, commands
    <2>2. CASE running[TypeOf[driver.conn]]
      BY <1>2, <2>1, <2>2, FlightFrame DEF Enqueue, Creating, Purging
    <2>3. CASE ~ running[TypeOf[driver.conn]]
      BY <1>2, <2>1, <2>3, FlightSpawn DEF Enqueue
    <2> QED
      BY <2>2, <2>3
  <1>3. ASSUME NEW k \in tasks, TaskBegin(k) PROVE SingleFlight'
    <2> DEFINE t == TypeOf[k.conn]
               j == [k EXCEPT !.phase = "working"]
    <2>1. k \in Tasks /\ t \in ConnectorTypes /\ j.conn = k.conn
      BY DEF TypeOK, Tasks
    <2>2. tasks' = (tasks \ {k}) \cup {j} /\ UNCHANGED <<running, creator, purger>>
      BY <1>3 DEF TaskBegin, commands
    <2> HIDE DEF j
    <2>3. \A u \in ConnectorTypes \ {t} : Holders(u)' \subseteq Holders(u)
      BY <2>1, <2>2 DEF Holders, Creating, Purging
    <2>4. <<"task", k>> \in Holders(t)
      BY DEF Holders
    <2>5. running[t] /\ \A h \in Holders(t) : h = <<"task", k>>
      BY <2>1, <2>4 DEF SingleFlight
    <2>6. Holders(t)' \subseteq {<<"task", j>>}
      BY <2>1, <2>2, <2>5 DEF Holders, Creating, Purging
    <2> HIDE DEF t
    <2> QED
      BY <2>1, <2>2, <2>3, <2>5, <2>6, FlightOf
  <1>4. ASSUME NEW k \in tasks, TaskEnd(k) \/ TaskPanic(k) PROVE SingleFlight'
    <2>1. k.conn \in Connections
      BY DEF TypeOK, Tasks
    <2>2. tasks' = tasks \ {k} /\ UNCHANGED <<creator, purger>>
      BY <1>4 DEF TaskEnd, TaskPanic, commands
    <2>3. <<"task", k>> \in Holders(TypeOf[k.conn])
      BY DEF Holders
    <2>4. \A u \in ConnectorTypes : Holders(u)' \subseteq Holders(u) \ {<<"task", k>>}
      BY <2>2 DEF Holders, Creating, Purging
    <2>5. \A u \in ConnectorTypes \ {TypeOf[k.conn]} : running'[u] = running[u]
      BY <1>4 DEF TaskEnd, TaskPanic, TypeOK
    <2> QED
      BY <2>1, <2>3, <2>4, <2>5, FlightRelease
  <1>5. ASSUME NEW c \in Connections, ManualRead(c) PROVE SingleFlight'
    BY <1>5, FlightFrame DEF ManualRead, Creating, Purging
  <1>6. ASSUME NEW c \in Connections, ManualBegin(c) PROVE SingleFlight'
    <2>1. CASE running[TypeOf[c]]
      BY <1>6, <2>1, FlightFrame DEF ManualBegin, Creating, Purging
    <2>2. CASE ~ running[TypeOf[c]]
      BY <1>6, <2>2, FlightSpawn DEF ManualBegin
    <2> QED
      BY <2>1, <2>2
  <1>7. ASSUME NEW c \in Connections, CreateBegin(c) PROVE SingleFlight'
    <2> DEFINE t == TypeOf[c]
    <2>1. t \in ConnectorTypes /\ Holders(t) = {}
      BY <1>7, FreeFlag DEF CreateBegin
    <2>2. \A u \in ConnectorTypes \ {t} : running'[u] = running[u]
      BY <1>7 DEF CreateBegin, TypeOK
    <2>3. \A d \in Connections \ {c} : Creating(d)' = Creating(d)
      BY <1>7 DEF CreateBegin, TypeOK, Creating
    <2>4. UNCHANGED <<tasks, purger>>
      BY <1>7 DEF CreateBegin
    <2>5. \A u \in ConnectorTypes \ {t} : Holders(u)' \subseteq Holders(u)
      BY <2>3, <2>4 DEF Holders, Purging
    <2>6. Holders(t)' \subseteq {<<"create", c>>}
      BY <2>1, <2>3, <2>4 DEF Holders, Purging
    <2>7. running'[t]
      BY <1>7, <2>1 DEF CreateBegin, TypeOK
    <2> HIDE DEF t
    <2> QED
      BY <2>1, <2>2, <2>5, <2>6, <2>7, FlightOf
  <1>8. ASSUME NEW c \in Connections, CreateSave(c) PROVE SingleFlight'
    <2>1. \A d \in Connections : Creating(d)' = Creating(d)
      BY <1>8 DEF CreateSave, TypeOK, Creating
    <2> QED
      BY <1>8, <2>1, FlightFrame DEF CreateSave, Purging
  <1>9. ASSUME NEW c \in Connections, CreateFinish(c) PROVE SingleFlight'
    <2> DEFINE t == TypeOf[c]
               k == [conn |-> c, origin |-> "create", phase |-> "spawned"]
    <2>1. t \in ConnectorTypes
      OBVIOUS
    <2>2. <<"create", c>> \in Holders(t)
      BY <1>9 DEF CreateFinish, Holders, Creating
    <2>3. running[t] /\ \A h \in Holders(t) : h = <<"create", c>>
      BY <2>1, <2>2 DEF SingleFlight
    <2>4. tasks' = tasks \cup {k} /\ k.conn = c /\ UNCHANGED <<running, purger>>
      BY <1>9 DEF CreateFinish, spawn_sync
    <2>5. /\ ~ Creating(c)'
          /\ \A d \in Connections \ {c} : Creating(d)' = Creating(d)
      BY <1>9 DEF CreateFinish, TypeOK, Creating
    <2> HIDE DEF k
    <2>6. \A u \in ConnectorTypes \ {t} : Holders(u)' \subseteq Holders(u)
      BY <2>4, <2>5 DEF Holders, Purging
    <2>7. Holders(t)' \subseteq {<<"task", k>>}
      BY <2>3, <2>4, <2>5 DEF Holders, Purging
    <2> HIDE DEF t
    <2> QED
      BY <2>1, <2>3, <2>4, <2>6, <2>7, FlightOf
  <1>10. ASSUME NEW c \in Connections, CreateFail(c) PROVE SingleFlight'
    <2>1. <<"create", c>> \in Holders(TypeOf[c])
      BY <1>10 DEF CreateFail, Holders, Creating
    <2>2. /\ ~ Creating(c)'
          /\ \A d \in Connections \ {c} : Creating(d)' = Creating(d)
          /\ UNCHANGED <<tasks, purger>>
      BY <1>10 DEF CreateFail, TypeOK, Creating
    <2>3. \A u \in ConnectorTypes : Holders(u)' \subseteq Holders(u) \ {<<"create", c>>}
      BY <2>2 DEF Holders, Purging
    <2>4. \A u \in ConnectorTypes \ {TypeOf[c]} : running'[u] = running[u]
      BY <1>10 DEF CreateFail, TypeOK
    <2> QED
      BY <2>1, <2>3, <2>4, FlightRelease
  <1>11. ASSUME NEW c \in Connections, PurgeFind(c) \/ PurgeDelete(c) \/ PurgeUnschedule(c)
         PROVE  SingleFlight'
    <2>1. \A d \in Connections : Purging(d)' = Purging(d)
      BY <1>11 DEF PurgeFind, PurgeDelete, PurgeUnschedule, TypeOK, Purging
    <2>2. UNCHANGED <<running, tasks, creator>>
      BY <1>11 DEF PurgeFind, PurgeDelete, PurgeUnschedule
    <2> QED
      BY <2>1, <2>2, FlightFrame DEF Creating
  <1>12. ASSUME NEW c \in Connections, PurgeAcquire(c) PROVE SingleFlight'
    <2> DEFINE t == TypeOf[c]
    <2>1. \A d \in Connections \ {c} : Purging(d)' = Purging(d)
      BY <1>12 DEF PurgeAcquire, TypeOK, Purging
    <2>2. UNCHANGED <<tasks, creator>>
      BY <1>12 DEF PurgeAcquire
    <2>3. CASE running[t]
      <3>1. Purging(c)' = Purging(c) /\ UNCHANGED running
        BY <1>12, <2>3 DEF PurgeAcquire, TypeOK, Purging
      <3> QED
        BY <2>1, <2>2, <3>1, FlightFrame DEF Creating
    <2>4. CASE ~ running[t]
      <3>1. t \in ConnectorTypes /\ Holders(t) = {}
        BY <2>4, FreeFlag
      <3>2. \A u \in ConnectorTypes \ {t} : running'[u] = running[u]
        BY <1>12, <2>4 DEF PurgeAcquire, TypeOK
      <3>3. \A u \in ConnectorTypes \ {t} : Holders(u)' \subseteq Holders(u)
        BY <2>1, <2>2 DEF Holders, Creating
      <3>4. Holders(t)' \subseteq {<<"purge", c>>}
        BY <3>1, <2>1, <2>2 DEF Holders, Creating
      <3>5. running'[t]
        BY <1>12, <2>4, <3>1 DEF PurgeAcquire, TypeOK
      <3> HIDE DEF t
      <3> QED
        BY <3>1, <3>2, <3>3, <3>4, <3>5, FlightOf
    <2> QED
      BY <2>3, <2>4
  <1>13. ASSUME NEW c \in Connections, PurgeRefused(c) \/ PurgeEnd(c) PROVE SingleFlight'
    <2>1. <<"purge", c>> \in Holders(TypeOf[c])
      BY <1>13 DEF PurgeRefused, PurgeEnd, Holders, Purging
    <2>2. /\ ~ Purging(c)'
          /\ \A d \in Connections \ {c} : Purging(d)' = Purging(d)
          /\ UNCHANGED <<tasks, creator>>
      BY <1>13 DEF PurgeRefused, PurgeEnd, TypeOK, Purging
    <2>3. \A u \in ConnectorTypes : Holders(u)' \subseteq Holders(u) \ {<<"purge", c>>}
      BY <2>2 DEF Holders, Creating
    <2>4. \A u \in ConnectorTypes \ {TypeOf[c]} : running'[u] = running[u]
      BY <1>13 DEF PurgeRefused, PurgeEnd, TypeOK
    <2> QED
      BY <2>1, <2>3, <2>4, FlightRelease
  <1>14. CASE Restart
    <2>1. \A u \in ConnectorTypes : Holders(u)' = {}
      BY <1>14 DEF Restart, Holders, Creating, Purging
    <2> QED
      BY <2>1 DEF SingleFlight
  <1> QED
    BY <1>1, <1>2, <1>3, <1>4, <1>5, <1>6, <1>7, <1>8, <1>9, <1>10, <1>11,
       <1>12, <1>13, <1>14
       DEF Next, DriverStep, TaskStep, ConnectionStep, CreateStep, PurgeStep

\* The flags are locks: at any time at most one task, create or purge works
\* on the connections of one connector type, and its flag is set, whatever
\* the users do and whatever fails.
THEOREM SingleFlightAlways == Spec => []SingleFlight
  <1>1. Init => SingleFlight
    BY DEF Init, SingleFlight, Holders, Creating, Purging
  <1> QED
    BY <1>1, FlightStep, SchedTypeCorrect, PTL DEF Spec

-----------------------------------------------------------------------------
(* A purge is final.  The driver may have resolved the connection before   *)
(* the purge deleted it, but it holds the runtime mutex since, so the      *)
(* purge is still waiting, with the flag set, when the driver tries it.    *)

\* The plan sequence q has a plan for c.
PlannedIn(q, c) == \E i \in DOMAIN q : c \in q[i]

\* An id nobody schedules, plans, resolves or synchronises.
Untouched(c) ==
    /\ due[c] = None
    /\ ~ PlannedIn(pending, c)
    /\ ~ PlannedIn(driver.plans, c)
    /\ driver.conn # c
    /\ \A k \in tasks : k.conn # c

FreshInv == \A c \in fresh : Untouched(c) /\ c \notin rows /\ creator[c] = "idle"

CreateInv == \A c \in Connections : Creating(c) => Untouched(c) /\ c \notin fresh

PurgedInv ==
    \A c \in purged :
        /\ c \notin rows
        /\ c \notin fresh
        /\ creator[c] = "idle"
        /\ \A k \in tasks : k.conn # c
        /\ driver.conn = c => purger[c] = "deleted"

ManualInv == \A c \in Connections : manual[c] = "idle"

\* The inductive invariant behind NoResurrection.
PurgeInv == FreshInv /\ CreateInv /\ PurgedInv /\ ManualInv

\* A held flag of c excludes tasks and creates of c.
LEMMA PurgeExcludes ==
    ASSUME SingleFlight, NEW c \in Connections, Purging(c)
    PROVE  /\ running[TypeOf[c]]
           /\ ~ Creating(c)
           /\ \A k \in tasks : k.conn # c
  <1>1. TypeOf[c] \in ConnectorTypes
    BY ConnectionAssumption
  <1>2. <<"purge", c>> \in Holders(TypeOf[c])
    BY DEF Holders
  <1>3. running[TypeOf[c]] /\ \A h \in Holders(TypeOf[c]) : h = <<"purge", c>>
    BY <1>1, <1>2 DEF SingleFlight
  <1>4. ~ Creating(c)
    <2> SUFFICES ASSUME Creating(c) PROVE FALSE
      OBVIOUS
    <2>1. <<"create", c>> \in Holders(TypeOf[c])
      BY DEF Holders
    <2> QED
      BY <1>3, <2>1
  <1>5. ASSUME NEW k \in tasks, k.conn = c PROVE FALSE
    <2>1. <<"task", k>> \in Holders(TypeOf[c])
      BY <1>5 DEF Holders
    <2> QED
      BY <1>3, <2>1
  <1> QED
    BY <1>3, <1>4, <1>5

\* Planning what is due touches neither fresh ids nor ids being created.
LEMMA PlannedAppend ==
    ASSUME NEW q \in Seq(SUBSET Connections), NEW S \in SUBSET Connections, NEW c,
           ~ PlannedIn(q, c), c \notin S
    PROVE  ~ PlannedIn(Append(q, S), c)
  BY DEF PlannedIn

\* A step that leaves alone what keeps an id untouched.
LEMMA UntouchedFrame ==
    ASSUME NEW c, Untouched(c), due'[c] = due[c],
           UNCHANGED <<pending, driver>>,
           \A k \in tasks' : k.conn # c
    PROVE  Untouched(c)'
  BY DEF Untouched

\* A step of the scheduler, the driver or the life cycle that spawns nothing.
LEMMA PurgeInvFrame ==
    ASSUME TypeOK, PurgeInv, UNCHANGED <<tasks, rows, purged, fresh, manual, creator, purger>>,
           \A c \in Connections : Untouched(c) => Untouched(c)',
           \A c \in purged : driver'.conn # c \/ driver.conn = c
    PROVE  PurgeInv'
  <1>1. FreshInv' /\ CreateInv'
    BY DEF PurgeInv, FreshInv, CreateInv, Creating, TypeOK
  <1>2. PurgedInv'
    BY DEF PurgeInv, PurgedInv
  <1>3. ManualInv'
    BY DEF PurgeInv, ManualInv
  <1> QED
    BY <1>1, <1>2, <1>3 DEF PurgeInv

\* A task spawned on a known connection that is neither purged nor fresh.
LEMMA PurgeInvSpawn ==
    ASSUME TypeOK, PurgeInv, NEW c \in Connections, NEW o, spawn_sync(c, o),
           c \notin purged, c \notin fresh, ~ Creating(c)',
           due'[c] = due[c] \/ Creating(c),
           \A d \in Connections \ {c} : due'[d] = due[d],
           \A d \in Connections \ {c} : creator'[d] = creator[d],
           \A d \in Connections : driver'.conn = d => driver.conn = d,
           driver'.plans = driver.plans,
           UNCHANGED <<pending, rows, purged, fresh, manual, purger>>
    PROVE  PurgeInv'
  <1> DEFINE j == [conn |-> c, origin |-> o, phase |-> "spawned"]
  <1>1. tasks' = tasks \cup {j} /\ j.conn = c
    BY DEF spawn_sync
  <1> HIDE DEF j
  <1>2. ASSUME NEW d \in Connections \ {c}, Untouched(d) PROVE Untouched(d)'
    BY <1>1, <1>2 DEF Untouched, TypeOK
  <1>3. FreshInv'
    <2> SUFFICES ASSUME NEW d \in fresh
                 PROVE  Untouched(d)' /\ d \notin rows /\ creator'[d] = "idle"
      BY DEF FreshInv
    <2>1. d \in Connections \ {c}
      BY DEF TypeOK
    <2> QED
      BY <1>2, <2>1 DEF PurgeInv, FreshInv
  <1>4. CreateInv'
    <2> SUFFICES ASSUME NEW d \in Connections, Creating(d)'
                 PROVE  Untouched(d)' /\ d \notin fresh
      BY DEF CreateInv
    <2>1. d # c
      OBVIOUS
    <2>2. Creating(d)
      BY <2>1 DEF Creating
    <2> QED
      BY <1>2, <2>1, <2>2 DEF PurgeInv, CreateInv
  <1>5. PurgedInv'
    <2> SUFFICES ASSUME NEW d \in purged
                 PROVE  /\ d \notin rows
                        /\ d \notin fresh
                        /\ creator'[d] = "idle"
                        /\ \A k \in tasks' : k.conn # d
                        /\ driver'.conn = d => purger[d] = "deleted"
      BY DEF PurgedInv
    <2>1. d \in Connections \ {c}
      BY DEF TypeOK
    <2> QED
      BY <1>1, <2>1 DEF PurgeInv, PurgedInv
  <1>6. ManualInv'
    BY DEF PurgeInv, ManualInv
  <1> QED
    BY <1>3, <1>4, <1>5, <1>6 DEF PurgeInv

\* No manual synchronisation exists for the connections of this instance.
NoManualSync == \A c \in Connections : "manual" \in Commands => TypeOf[c] # "github"

\* Every step keeps the purge invariant.
LEMMA PurgeInvStep ==
    ASSUME NoManualSync
    PROVE  TypeOK /\ TypeOK' /\ SingleFlight /\ PurgeInv /\ [Next]_vars => PurgeInv'
  <1> SUFFICES ASSUME TypeOK, TypeOK', SingleFlight, PurgeInv, [Next]_vars PROVE PurgeInv'
    OBVIOUS
  <1> USE ConnectionAssumption
  <1>1. CASE Clock
    <2>1. \A c \in Connections : Untouched(c) => Untouched(c)'
      BY <1>1 DEF Clock, Untouched, TypeOK
    <2> QED
      BY <1>1, <2>1, PurgeInvFrame DEF Clock, commands
  <1>2. CASE Tick
    <2>1. ASSUME NEW c \in Connections, Untouched(c) PROVE Untouched(c)'
      <3>1. c \notin plan_due /\ plan_due \in SUBSET Connections
        BY <2>1 DEF Untouched, plan_due, Due
      <3>2. due'[c] = None
        BY <1>2, <2>1, <3>1 DEF Tick, Replanned, Untouched
      <3>3. ~ PlannedIn(driver'.plans, c)
        BY <1>2, <2>1, <3>1, PlannedAppend DEF Tick, Untouched, TypeOK
      <3>4. ~ PlannedIn(pending', c)
        BY <1>2 DEF Tick, PlannedIn
      <3> QED
        BY <1>2, <2>1, <3>2, <3>3, <3>4 DEF Tick, Untouched
    <2> QED
      BY <1>2, <2>1, PurgeInvFrame DEF Tick, commands, TypeOK
  <1>3. CASE Resolve
    <2>1. PICK i \in DOMAIN driver.plans, c \in Connections :
            /\ c \in driver.plans[i]
            /\ LET rest == [driver.plans EXCEPT ![i] = @ \ {c}]
               IN  IF c \in rows
                   THEN driver' = [phase |-> "resolved", plans |-> rest, conn |-> c]
                   ELSE driver' = [driver EXCEPT !.plans = rest]
      BY <1>3 DEF Resolve, NextPlan
    <2> DEFINE rest == [driver.plans EXCEPT ![i] = @ \ {c}]
    <2>2. /\ driver'.plans = rest
          /\ driver'.conn = IF c \in rows THEN c ELSE driver.conn
      BY <2>1 DEF TypeOK
    <2>3. \A d : PlannedIn(rest, d) => PlannedIn(driver.plans, d)
      BY DEF PlannedIn, TypeOK
    <2>4. PlannedIn(driver.plans, c)
      BY <2>1 DEF PlannedIn
    <2> HIDE DEF rest
    <2>5. \A d \in Connections : Untouched(d) => Untouched(d)'
      BY <1>3, <2>2, <2>3, <2>4 DEF Resolve, Untouched
    <2>6. \A d \in purged : driver'.conn # d \/ driver.conn = d
      BY <2>2 DEF PurgeInv, PurgedInv
    <2> QED
      BY <1>3, <2>5, <2>6, PurgeInvFrame DEF Resolve, commands
  <1>4. CASE Enqueue
    <2>1. /\ driver.conn \in Connections
          /\ driver'.conn = None
          /\ driver'.plans = driver.plans
          /\ UNCHANGED <<due, pending, rows, purged, fresh, manual, creator, purger>>
      BY <1>4 DEF Enqueue, TypeOK, commands
    <2>2. CASE running[TypeOf[driver.conn]]
      <3>1. UNCHANGED tasks
        BY <1>4, <2>2 DEF Enqueue
      <3>2. \A d \in Connections : Untouched(d) => Untouched(d)'
        BY <2>1, <3>1, ConnectionAssumption DEF Untouched
      <3>3. \A d \in purged : driver'.conn # d
        BY <2>1, ConnectionAssumption DEF TypeOK
      <3> QED
        BY <2>1, <3>1, <3>2, <3>3, PurgeInvFrame
    <2>3. CASE ~ running[TypeOf[driver.conn]]
      <3>1. driver.conn \notin purged
        <4>1. ~ Purging(driver.conn)
          BY <2>1, <2>3, PurgeExcludes
        <4> QED
          BY <4>1 DEF PurgeInv, PurgedInv, Purging
      <3>2. driver.conn \notin fresh /\ ~ Creating(driver.conn)
        BY <2>1 DEF PurgeInv, FreshInv, CreateInv, Untouched
      <3>4. spawn_sync(driver.conn, "driver")
        BY <1>4, <2>3 DEF Enqueue
      <3>5. \A d \in Connections : driver'.conn # d
        BY <2>1
      <3>6. PICK x \in Connections : x = driver.conn
        BY <2>1
      <3>7. /\ spawn_sync(x, "driver") /\ x \notin purged /\ x \notin fresh
            /\ ~ Creating(x)'
        BY <3>1, <3>2, <3>4, <3>6, <2>1 DEF spawn_sync, Creating
      <3> QED
        BY <2>1, <3>5, <3>7, PurgeInvSpawn
    <2> QED
      BY <2>2, <2>3
  <1>5. CASE TickEnd \/ DriverExit \/ RecvTimeout
    <2>1. driver'.conn = None /\ UNCHANGED <<due, pending, tasks>>
      BY <1>5 DEF TickEnd, DriverExit, RecvTimeout, Waiting, TypeOK, commands
    <2>2. \A c : PlannedIn(driver'.plans, c) => PlannedIn(driver.plans, c)
      <3>1. CASE TickEnd
        BY <3>1 DEF TickEnd, Waiting, PlannedIn
      <3>2. CASE DriverExit \/ RecvTimeout
        <4>1. driver'.plans = driver.plans
          BY <3>2 DEF DriverExit, RecvTimeout, TypeOK
        <4> QED
          BY <4>1
      <3> QED
        BY <1>5, <3>1, <3>2
    <2>3. \A c \in Connections : Untouched(c) => Untouched(c)'
      BY <2>1, <2>2 DEF Untouched
    <2> QED
      BY <1>5, <2>1, <2>3, PurgeInvFrame DEF TickEnd, DriverExit, RecvTimeout,
                                       commands, TypeOK
  <1>6. ASSUME NEW k \in tasks, TaskStep(k) \/ TaskPanic(k) PROVE PurgeInv'
    <2>1. k.conn \in Connections /\ k \in Tasks
      BY DEF TypeOK, Tasks
    <2>2. \A j \in tasks' : \E m \in tasks : m.conn = j.conn
      BY <1>6, <2>1 DEF TaskStep, TaskBegin, TaskEnd, TaskPanic, Tasks
    <2>3. /\ rows' \subseteq rows \cup {k.conn}
          /\ UNCHANGED <<due, pending, driver, purged, fresh, manual, creator, purger>>
      BY <1>6 DEF TaskStep, TaskBegin, TaskEnd, TaskPanic, commands
    <2>4. \A c : Untouched(c) => Untouched(c)'
      BY <2>2, <2>3 DEF Untouched
    <2>5. FreshInv' /\ CreateInv'
      BY <2>3, <2>4 DEF PurgeInv, FreshInv, CreateInv, Creating, Untouched
    <2>6. PurgedInv' /\ ManualInv'
      BY <2>2, <2>3 DEF PurgeInv, PurgedInv, ManualInv
    <2> QED
      BY <2>5, <2>6 DEF PurgeInv
  <1>7. ASSUME NEW c \in Connections, ManualRead(c) \/ ManualBegin(c) PROVE PurgeInv'
    BY <1>7 DEF ManualRead, ManualBegin, NoManualSync, PurgeInv, ManualInv
  <1>8. ASSUME NEW c \in Connections, CreateBegin(c) PROVE PurgeInv'
    <2>1. /\ c \in fresh /\ fresh' = fresh \ {c}
          /\ \A d \in Connections \ {c} : creator'[d] = creator[d]
          /\ UNCHANGED <<due, pending, driver, tasks, rows, purged, manual, purger>>
      BY <1>8 DEF CreateBegin, TypeOK
    <2>2. \A d : Untouched(d) => Untouched(d)'
      BY <2>1 DEF Untouched
    <2>3. c \notin purged /\ Untouched(c)
      BY <2>1 DEF PurgeInv, PurgedInv, FreshInv
    <2>4. FreshInv' /\ CreateInv'
      BY <2>1, <2>2, <2>3 DEF PurgeInv, FreshInv, CreateInv, Creating, TypeOK
    <2>5. PurgedInv' /\ ManualInv'
      BY <2>1, <2>3 DEF PurgeInv, PurgedInv, ManualInv, TypeOK
    <2> QED
      BY <2>4, <2>5 DEF PurgeInv
  <1>9. ASSUME NEW c \in Connections, CreateSave(c) PROVE PurgeInv'
    <2>1. /\ Creating(c) /\ rows' = rows \cup {c}
          /\ \A d \in Connections : Creating(d)' = Creating(d)
          /\ UNCHANGED <<due, pending, driver, tasks, fresh, purged, manual, purger>>
      BY <1>9 DEF CreateSave, TypeOK, Creating
    <2>2. \A d : Untouched(d) => Untouched(d)'
      BY <2>1 DEF Untouched
    <2>3. c \notin purged /\ c \notin fresh
      BY <2>1 DEF PurgeInv, PurgedInv, CreateInv, Creating
    <2>4. FreshInv' /\ CreateInv'
      BY <2>1, <2>2, <2>3 DEF PurgeInv, FreshInv, CreateInv, Creating, TypeOK
    <2>5. PurgedInv' /\ ManualInv'
      BY <2>1, <2>3 DEF PurgeInv, PurgedInv, ManualInv, TypeOK, Creating
    <2> QED
      BY <2>4, <2>5 DEF PurgeInv
  <1>10. ASSUME NEW c \in Connections, CreateFinish(c) PROVE PurgeInv'
    <2>1. /\ Creating(c) /\ ~ Creating(c)' /\ spawn_sync(c, "create")
          /\ \A d \in Connections \ {c} : /\ due'[d] = due[d]
                                           /\ creator'[d] = creator[d]
          /\ UNCHANGED <<pending, driver, rows, purged, fresh, manual, purger>>
      BY <1>10 DEF CreateFinish, TypeOK, Creating
    <2>2. c \notin purged /\ c \notin fresh
      BY <2>1 DEF PurgeInv, PurgedInv, CreateInv, Creating
    <2> QED
      BY <2>1, <2>2, PurgeInvSpawn
  <1>11. ASSUME NEW c \in Connections, CreateFail(c) PROVE PurgeInv'
    <2>1. /\ Creating(c) /\ ~ Creating(c)' /\ creator'[c] = "idle"
          /\ \A d \in Connections \ {c} : creator'[d] = creator[d]
          /\ rows' = rows \/ rows' = rows \ {c}
          /\ purged' = purged \cup (rows \ rows')
          /\ UNCHANGED <<due, pending, driver, tasks, fresh, manual, purger>>
      BY <1>11 DEF CreateFail, TypeOK, Creating
    <2>2. \A d : Untouched(d) => Untouched(d)'
      BY <2>1 DEF Untouched
    <2>3. c \notin fresh /\ Untouched(c)
      BY <2>1 DEF PurgeInv, CreateInv
    <2>4. FreshInv' /\ CreateInv'
      BY <2>1, <2>2, <2>3 DEF PurgeInv, FreshInv, CreateInv, Creating, TypeOK
    <2>5. PurgedInv'
      <3> SUFFICES ASSUME NEW d \in purged'
                   PROVE  /\ d \notin rows'
                          /\ d \notin fresh
                          /\ creator'[d] = "idle"
                          /\ \A k \in tasks : k.conn # d
                          /\ driver.conn = d => purger[d] = "deleted"
        BY <2>1 DEF PurgedInv
      <3>1. CASE d = c /\ d \notin purged
        BY <2>1, <2>3, <3>1 DEF Untouched
      <3>2. CASE d \in purged
        BY <2>1, <3>2 DEF PurgeInv, PurgedInv, TypeOK
      <3> QED
        BY <2>1, <3>1, <3>2
    <2>6. ManualInv'
      BY <2>1 DEF PurgeInv, ManualInv
    <2> QED
      BY <2>4, <2>5, <2>6 DEF PurgeInv
  <1>12. ASSUME NEW c \in Connections, PurgeFind(c) \/ PurgeStep(c) PROVE PurgeInv'
    <2> USE DEF PurgeFind, PurgeStep, PurgeAcquire, PurgeDelete, PurgeRefused,
                PurgeUnschedule, PurgeEnd
    <2>1. /\ \A d \in Connections \ {c} : purger'[d] = purger[d] /\ due'[d] = due[d]
          /\ due'[c] \in {due[c], None}
          /\ UNCHANGED <<pending, driver, tasks, fresh, manual, creator>>
      BY <1>12 DEF TypeOK
    <2>2. \A d \in Connections : Untouched(d) => Untouched(d)'
      BY <2>1 DEF Untouched
    <2>3. rows' \subseteq rows
      BY <1>12
    <2>4. FreshInv' /\ CreateInv'
      BY <2>1, <2>2, <2>3 DEF PurgeInv, FreshInv, CreateInv, Creating, TypeOK
    <2>5. ManualInv'
      BY <2>1 DEF PurgeInv, ManualInv
    <2>6. PurgedInv'
      <3>1. CASE PurgeDelete(c)
        <4>1. Purging(c) /\ c \in rows
          BY <3>1 DEF Purging
        <4>2. ~ Creating(c) /\ \A k \in tasks : k.conn # c
          BY <4>1, PurgeExcludes
        <4>3. c \notin fresh
          BY <4>1 DEF PurgeInv, FreshInv
        <4>4. /\ rows' = rows \ {c} /\ purged' = purged \cup {c}
              /\ purger'[c] = "deleted"
          BY <3>1 DEF TypeOK
        <4> QED
          BY <2>1, <4>2, <4>3, <4>4 DEF PurgeInv, PurgedInv, Creating, TypeOK
      <3>2. CASE ~ PurgeDelete(c)
        <4>1. UNCHANGED <<rows, purged>>
          BY <1>12, <3>2
        <4>2. c \in purged => driver.conn # c
          <5>1. CASE PurgeFind(c)
            BY <5>1 DEF PurgeInv, PurgedInv
          <5>2. CASE PurgeUnschedule(c) \/ PurgeEnd(c)
            BY <5>2 DEF RuntimeFree, TypeOK
          <5>3. CASE PurgeAcquire(c) \/ PurgeRefused(c)
            BY <5>3 DEF PurgeInv, PurgedInv
          <5> QED
            BY <1>12, <3>2, <5>1, <5>2, <5>3
        <4> QED
          BY <2>1, <4>1, <4>2 DEF PurgeInv, PurgedInv, TypeOK
      <3> QED
        BY <3>1, <3>2
    <2> QED
      BY <2>4, <2>5, <2>6 DEF PurgeInv
  <1>13. CASE handle_sleep \/ QuitRequest \/ RuntimeStop \/ UNCHANGED vars
    <2>1. UNCHANGED <<due, pending, driver, tasks, rows, purged, fresh, manual,
                      creator, purger>>
      BY <1>13 DEF handle_sleep, QuitRequest, RuntimeStop, commands, vars
    <2> QED
      BY <2>1, PurgeInvFrame DEF Untouched
  <1>14. CASE handle_wake
    <2>1. ASSUME NEW c \in Connections, Untouched(c) PROVE Untouched(c)'
      <3>1. c \notin Due /\ Due \in SUBSET Connections
        BY <2>1 DEF Untouched, Due
      <3>2. due'[c] = None
        BY <1>14, <2>1, <3>1 DEF handle_wake, Replanned, Untouched
      <3>3. ~ PlannedIn(pending', c)
        BY <1>14, <2>1, <3>1, PlannedAppend DEF handle_wake, Untouched, TypeOK
      <3> QED
        BY <1>14, <2>1, <3>2, <3>3 DEF handle_wake, Untouched, commands
    <2> QED
      BY <1>14, <2>1, PurgeInvFrame DEF handle_wake, commands
  <1>15. CASE Restart
    <2>1. /\ driver'.conn = None /\ tasks' = {}
          /\ \A c : ~ PlannedIn(driver'.plans, c) /\ ~ PlannedIn(pending', c)
          /\ \A c \in Connections : c \notin rows => due'[c] = None
          /\ \A c \in Connections : creator'[c] = "idle" /\ manual'[c] = "idle"
          /\ UNCHANGED <<rows, purged, fresh>>
      BY <1>15 DEF Restart, Waiting, PlannedIn, Registered
    <2>2. FreshInv' /\ CreateInv'
      BY <2>1 DEF PurgeInv, FreshInv, CreateInv, Creating, Untouched, TypeOK
    <2>3. PurgedInv' /\ ManualInv'
      BY <2>1 DEF PurgeInv, PurgedInv, ManualInv, TypeOK
    <2> QED
      BY <2>2, <2>3 DEF PurgeInv
  <1> QED
    BY <1>1, <1>2, <1>3, <1>4, <1>5, <1>6, <1>7, <1>8, <1>9, <1>10, <1>11,
       <1>12, <1>13, <1>14, <1>15 DEF Next, DriverStep, ConnectionStep, CreateStep

\* The purge invariant holds at the start.
LEMMA PurgeInvInit == Init => PurgeInv
  <1> SUFFICES ASSUME Init PROVE PurgeInv
    OBVIOUS
  <1>1. /\ driver.conn = None /\ tasks = {} /\ purged = {}
        /\ fresh = Connections \ rows
        /\ \A c : ~ PlannedIn(driver.plans, c) /\ ~ PlannedIn(pending, c)
        /\ \A c \in Connections : c \notin rows => due[c] = None
        /\ \A c \in Connections : creator[c] = "idle" /\ manual[c] = "idle"
    BY DEF Init, Waiting, PlannedIn, Registered
  <1> QED
    BY <1>1, ConnectionAssumption
       DEF PurgeInv, FreshInv, CreateInv, PurgedInv, ManualInv, Creating, Untouched

\* A purge is final for every connection without a manual synchronisation:
\* no scheduled task brings the purged row back, whatever was planned,
\* resolved or spawned when the purge began, and whatever fails.
THEOREM PurgeFinal ==
    ASSUME NoManualSync
    PROVE  Spec => []NoResurrection
  <1>1. PurgeInv => NoResurrection
    BY DEF PurgeInv, PurgedInv, NoResurrection
  <1>2. TypeOK /\ TypeOK' /\ SingleFlight /\ PurgeInv /\ [Next]_vars => PurgeInv'
    BY PurgeInvStep
  <1> QED
    BY <1>1, <1>2, PurgeInvInit, SchedTypeCorrect, SingleFlightAlways, PTL DEF Spec

-----------------------------------------------------------------------------
(* No flag stays behind, where a panicking task releases it.               *)

\* A task of type t that panics does so with a SyncRunGuard, or none panics,
\* or there is no connection of this type.
Releases(t) ==
    "panic" \in Faults => SyncRunGuarded(t) \/ \A c \in Connections : TypeOf[c] # t

\* The inductive form of FlagHeld: the flags that can be relied upon.
ReleasedHeld ==
    \A t \in ConnectorTypes : Releases(t) /\ running[t] => Holders(t) # {}

\* Whatever a step does, these conditions on the new holders suffice.
LEMMA HeldOf ==
    ASSUME ReleasedHeld, NEW t \in ConnectorTypes,
           \A u \in ConnectorTypes \ {t} :
                Holders(u) \subseteq Holders(u)' /\ running'[u] = running[u],
           Releases(t) /\ running'[t] => Holders(t)' # {}
    PROVE  ReleasedHeld'
  <1> SUFFICES ASSUME NEW u \in ConnectorTypes, Releases(u), running'[u]
               PROVE  Holders(u)' # {}
    BY DEF ReleasedHeld, Releases
  <1>1. CASE u = t
    BY <1>1
  <1>2. CASE u # t
    BY <1>2 DEF ReleasedHeld
  <1> QED
    BY <1>1, <1>2

\* A step that leaves flags, tasks and holding phases alone.
LEMMA HeldFrame ==
    ASSUME ReleasedHeld, UNCHANGED <<running, tasks>>,
           \A c \in Connections : /\ Creating(c)' = Creating(c)
                                  /\ Purging(c)' = Purging(c)
    PROVE  ReleasedHeld'
  BY DEF ReleasedHeld, Holders, Releases

\* A spawned task holds the flag it was given.
LEMMA HeldSpawn ==
    ASSUME TypeOK, ReleasedHeld, NEW c \in Connections, NEW o, spawn_sync(c, o),
           \A u \in ConnectorTypes \ {TypeOf[c]} : running'[u] = running[u],
           UNCHANGED purger,
           \A d \in Connections \ {c} : Creating(d)' = Creating(d)
    PROVE  ReleasedHeld'
  <1> DEFINE t == TypeOf[c]
             k == [conn |-> c, origin |-> o, phase |-> "spawned"]
  <1>1. t \in ConnectorTypes
    BY ConnectionAssumption
  <1>2. tasks' = tasks \cup {k} /\ k.conn = c
    BY DEF spawn_sync
  <1> HIDE DEF k
  <1>3. \A u \in ConnectorTypes \ {t} : Holders(u) \subseteq Holders(u)'
    BY <1>2 DEF Holders, Purging
  <1>4. <<"task", k>> \in Holders(t)'
    BY <1>2 DEF Holders
  <1> HIDE DEF t
  <1> QED
    BY <1>1, <1>3, <1>4, HeldOf DEF t

\* A released flag needs no holder.
LEMMA HeldRelease ==
    ASSUME TypeOK, ReleasedHeld, NEW c \in Connections,
           running' = [running EXCEPT ![TypeOf[c]] = FALSE],
           \A u \in ConnectorTypes \ {TypeOf[c]} : Holders(u) \subseteq Holders(u)'
    PROVE  ReleasedHeld'
  <1> DEFINE t == TypeOf[c]
  <1>1. t \in ConnectorTypes
    BY ConnectionAssumption
  <1>2. /\ ~ running'[t]
        /\ \A u \in ConnectorTypes \ {t} : running'[u] = running[u]
    BY <1>1 DEF TypeOK
  <1> HIDE DEF t
  <1> QED
    BY <1>1, <1>2, HeldOf DEF t

\* Every step keeps a holder at each of these flags.
LEMMA HeldStep == TypeOK /\ ReleasedHeld /\ [Next]_vars => ReleasedHeld'
  <1> SUFFICES ASSUME TypeOK, ReleasedHeld, [Next]_vars PROVE ReleasedHeld'
    OBVIOUS
  <1> USE ConnectionAssumption
  <1>1. CASE Clock \/ Tick \/ Resolve \/ TickEnd \/ DriverExit \/ RecvTimeout \/ handle_sleep
             \/ handle_wake \/ QuitRequest \/ RuntimeStop \/ UNCHANGED vars
    <2>1. UNCHANGED <<running, tasks, creator, purger>>
      BY <1>1 DEF Clock, Tick, Resolve, TickEnd, DriverExit, RecvTimeout, handle_sleep,
                  handle_wake, QuitRequest, RuntimeStop, vars, commands
    <2> QED
      BY <2>1, HeldFrame DEF Creating, Purging
  <1>2. CASE Enqueue
    <2>1. driver.conn \in Connections /\ UNCHANGED <<creator, purger>>
      BY <1>2 DEF Enqueue, TypeOK, commands
    <2>2. CASE running[TypeOf[driver.conn]]
      BY <1>2, <2>1, <2>2, HeldFrame DEF Enqueue, Creating, Purging
    <2>3. CASE ~ running[TypeOf[driver.conn]]
      <3>1. PICK c \in Connections : c = driver.conn
        BY <2>1
      <3>2. /\ spawn_sync(c, "driver")
            /\ \A u \in ConnectorTypes \ {TypeOf[c]} : running'[u] = running[u]
        BY <1>2, <2>3, <3>1 DEF Enqueue, TypeOK
      <3> QED
        BY <2>1, <3>2, HeldSpawn DEF Creating
    <2> QED
      BY <2>2, <2>3
  <1>3. ASSUME NEW k \in tasks, TaskBegin(k) PROVE ReleasedHeld'
    <2> DEFINE t == TypeOf[k.conn]
               j == [k EXCEPT !.phase = "working"]
    <2>1. k \in Tasks /\ t \in ConnectorTypes /\ j.conn = k.conn
      BY DEF TypeOK, Tasks
    <2>2. tasks' = (tasks \ {k}) \cup {j} /\ UNCHANGED <<running, creator, purger>>
      BY <1>3 DEF TaskBegin, commands
    <2> HIDE DEF j
    <2>3. \A u \in ConnectorTypes \ {t} : Holders(u) \subseteq Holders(u)'
      BY <2>1, <2>2 DEF Holders, Creating, Purging
    <2>4. <<"task", j>> \in Holders(t)'
      BY <2>1, <2>2 DEF Holders
    <2> HIDE DEF t
    <2> QED
      BY <2>1, <2>2, <2>3, <2>4, HeldOf
  <1>4. ASSUME NEW k \in tasks, TaskEnd(k) \/ TaskPanic(k) PROVE ReleasedHeld'
    <2> DEFINE t == TypeOf[k.conn]
    <2>1. k.conn \in Connections /\ t \in ConnectorTypes
      BY DEF TypeOK, Tasks
    <2>2. tasks' = tasks \ {k} /\ UNCHANGED <<creator, purger>>
      BY <1>4 DEF TaskEnd, TaskPanic, commands
    <2>3. \A u \in ConnectorTypes \ {t} : /\ Holders(u) \subseteq Holders(u)'
                                         /\ running'[u] = running[u]
      BY <1>4, <2>2 DEF Holders, Creating, Purging, TaskEnd, TaskPanic, TypeOK
    <2>4. Releases(t) => ~ running'[t]
      <3>1. CASE TaskEnd(k)
        BY <2>1, <3>1 DEF TaskEnd, TypeOK
      <3>2. CASE TaskPanic(k)
        BY <2>1, <3>2 DEF TaskPanic, TypeOK, Releases
      <3> QED
        BY <1>4, <3>1, <3>2
    <2> HIDE DEF t
    <2> QED
      BY <2>1, <2>3, <2>4, HeldOf
  <1>5. ASSUME NEW c \in Connections, ManualRead(c) PROVE ReleasedHeld'
    BY <1>5, HeldFrame DEF ManualRead, Creating, Purging
  <1>6. ASSUME NEW c \in Connections, ManualBegin(c) PROVE ReleasedHeld'
    <2>1. CASE running[TypeOf[c]]
      BY <1>6, <2>1, HeldFrame DEF ManualBegin, Creating, Purging
    <2>2. CASE ~ running[TypeOf[c]]
      <3>1. \A u \in ConnectorTypes \ {TypeOf[c]} : running'[u] = running[u]
        BY <1>6, <2>2 DEF ManualBegin, TypeOK
      <3> QED
        BY <1>6, <2>2, <3>1, HeldSpawn DEF ManualBegin, Creating
    <2> QED
      BY <2>1, <2>2
  <1>7. ASSUME NEW c \in Connections, CreateBegin(c) PROVE ReleasedHeld'
    <2> DEFINE t == TypeOf[c]
    <2>1. t \in ConnectorTypes
      OBVIOUS
    <2>2. \A u \in ConnectorTypes \ {t} : running'[u] = running[u]
      BY <1>7 DEF CreateBegin, TypeOK
    <2>3. /\ Creating(c)'
          /\ \A d \in Connections \ {c} : Creating(d)' = Creating(d)
          /\ UNCHANGED <<tasks, purger>>
      BY <1>7 DEF CreateBegin, TypeOK, Creating
    <2>4. \A u \in ConnectorTypes \ {t} : Holders(u) \subseteq Holders(u)'
      BY <2>3 DEF Holders, Purging
    <2>5. <<"create", c>> \in Holders(t)'
      BY <2>3 DEF Holders
    <2> HIDE DEF t
    <2> QED
      BY <2>1, <2>2, <2>4, <2>5, HeldOf
  <1>8. ASSUME NEW c \in Connections, CreateSave(c) PROVE ReleasedHeld'
    <2>1. \A d \in Connections : Creating(d)' = Creating(d)
      BY <1>8 DEF CreateSave, TypeOK, Creating
    <2> QED
      BY <1>8, <2>1, HeldFrame DEF CreateSave, Purging
  <1>9. ASSUME NEW c \in Connections, CreateFinish(c) PROVE ReleasedHeld'
    <2>1. \A d \in Connections \ {c} : Creating(d)' = Creating(d)
      BY <1>9 DEF CreateFinish, TypeOK, Creating
    <2> QED
      BY <1>9, <2>1, HeldSpawn DEF CreateFinish
  <1>10. ASSUME NEW c \in Connections, CreateFail(c) PROVE ReleasedHeld'
    <2>1. /\ \A d \in Connections \ {c} : Creating(d)' = Creating(d)
          /\ UNCHANGED <<tasks, purger>>
      BY <1>10 DEF CreateFail, TypeOK, Creating
    <2>2. \A u \in ConnectorTypes \ {TypeOf[c]} : Holders(u) \subseteq Holders(u)'
      BY <2>1 DEF Holders, Purging
    <2> QED
      BY <1>10, <2>2, HeldRelease DEF CreateFail
  <1>11. ASSUME NEW c \in Connections, PurgeFind(c) \/ PurgeDelete(c) \/ PurgeUnschedule(c)
         PROVE  ReleasedHeld'
    <2>1. \A d \in Connections : Purging(d)' = Purging(d)
      BY <1>11 DEF PurgeFind, PurgeDelete, PurgeUnschedule, TypeOK, Purging
    <2>2. UNCHANGED <<running, tasks, creator>>
      BY <1>11 DEF PurgeFind, PurgeDelete, PurgeUnschedule
    <2> QED
      BY <2>1, <2>2, HeldFrame DEF Creating
  <1>12. ASSUME NEW c \in Connections, PurgeAcquire(c) PROVE ReleasedHeld'
    <2> DEFINE t == TypeOf[c]
    <2>1. \A d \in Connections \ {c} : Purging(d)' = Purging(d)
      BY <1>12 DEF PurgeAcquire, TypeOK, Purging
    <2>2. UNCHANGED <<tasks, creator>>
      BY <1>12 DEF PurgeAcquire
    <2>3. CASE running[t]
      <3>1. Purging(c)' = Purging(c) /\ UNCHANGED running
        BY <1>12, <2>3 DEF PurgeAcquire, TypeOK, Purging
      <3> QED
        BY <2>1, <2>2, <3>1, HeldFrame DEF Creating
    <2>4. CASE ~ running[t]
      <3>1. t \in ConnectorTypes
        OBVIOUS
      <3>2. \A u \in ConnectorTypes \ {t} : running'[u] = running[u]
        BY <1>12, <2>4 DEF PurgeAcquire, TypeOK
      <3>3. \A u \in ConnectorTypes \ {t} : Holders(u) \subseteq Holders(u)'
        BY <2>1, <2>2 DEF Holders, Creating
      <3>4. Purging(c)'
        BY <1>12, <2>4 DEF PurgeAcquire, TypeOK, Purging
      <3>5. <<"purge", c>> \in Holders(t)'
        BY <3>4 DEF Holders
      <3> HIDE DEF t
      <3> QED
        BY <3>1, <3>2, <3>3, <3>5, HeldOf
    <2> QED
      BY <2>3, <2>4
  <1>13. ASSUME NEW c \in Connections, PurgeRefused(c) \/ PurgeEnd(c) PROVE ReleasedHeld'
    <2>1. /\ \A d \in Connections \ {c} : Purging(d)' = Purging(d)
          /\ UNCHANGED <<tasks, creator>>
      BY <1>13 DEF PurgeRefused, PurgeEnd, TypeOK, Purging
    <2>2. \A u \in ConnectorTypes \ {TypeOf[c]} : Holders(u) \subseteq Holders(u)'
      BY <2>1 DEF Holders, Creating
    <2> QED
      BY <1>13, <2>2, HeldRelease DEF PurgeRefused, PurgeEnd
  <1>14. CASE Restart
    BY <1>14 DEF Restart, ReleasedHeld
  <1> QED
    BY <1>1, <1>2, <1>3, <1>4, <1>5, <1>6, <1>7, <1>8, <1>9, <1>10, <1>11,
       <1>12, <1>13, <1>14
       DEF Next, DriverStep, TaskStep, ConnectionStep, CreateStep, PurgeStep

\* A flag whose tasks cannot leave it behind is set only while a task, a
\* create or a purge holds it, whatever else fails: GitHub and SSH are such
\* connectors, the other five are as long as their tasks do not panic.
THEOREM ReleasedHeldAlways == Spec => []ReleasedHeld
  <1>1. Init => ReleasedHeld
    BY DEF Init, ReleasedHeld
  <1> QED
    BY <1>1, HeldStep, SchedTypeCorrect, PTL DEF Spec

\* Where every connector of the instance releases its flag so, no flag stays
\* behind: a connector can always be synchronised again.
THEOREM FlagHeldAlways ==
    ASSUME \A t \in ConnectorTypes : Releases(t)
    PROVE  Spec => []FlagHeld
  <1>1. ReleasedHeld => FlagHeld
    BY DEF ReleasedHeld, FlagHeld
  <1> QED
    BY <1>1, ReleasedHeldAlways, PTL

-----------------------------------------------------------------------------
(* The scheduler and the table agree.  A create holds the flag until it has *)
(* registered the connection, so no purge can remove the row before; ids    *)
(* are new, so nothing is scheduled for one that is still being created.    *)

\* Ids not drawn yet: no part of the process knows them.
UndrawnInv ==
    \A c \in fresh : /\ c \notin rows
                     /\ due[c] = None
                     /\ driver.conn # c
                     /\ manual[c] = "idle"
                     /\ creator[c] = "idle"
                     /\ \A k \in tasks : k.conn # c

\* A create has nothing scheduled yet, and its row from the write on.
CreatedInv ==
    \A c \in Connections :
        /\ Creating(c) => due[c] = None /\ c \notin fresh
        /\ creator[c] = "saved" => c \in rows

\* The inductive invariant behind ScheduledHasRow.
RowInv == UndrawnInv /\ CreatedInv /\ ScheduledHasRow

\* A step that schedules nothing new and removes no row.
LEMMA RowFrame ==
    ASSUME TypeOK, RowInv, UNCHANGED <<fresh, creator, purger>>,
           \A c \in Connections : due[c] = None => due'[c] = None,
           rows \subseteq rows', rows' \cap fresh = {},
           \A c \in fresh : /\ driver'.conn # c
                            /\ manual'[c] = "idle"
                            /\ \A k \in tasks' : k.conn # c
    PROVE  RowInv'
  <1>1. UndrawnInv'
    BY DEF RowInv, UndrawnInv, TypeOK
  <1>2. CreatedInv'
    BY DEF RowInv, CreatedInv, Creating
  <1>3. ScheduledHasRow'
    BY DEF RowInv, ScheduledHasRow
  <1> QED
    BY <1>1, <1>2, <1>3 DEF RowInv

\* Every step keeps the row invariant.
LEMMA RowStep == TypeOK /\ SingleFlight /\ RowInv /\ [Next]_vars => RowInv'
  <1> SUFFICES ASSUME TypeOK, SingleFlight, RowInv, [Next]_vars PROVE RowInv'
    OBVIOUS
  <1> USE ConnectionAssumption
  <1>1. CASE Clock \/ Tick \/ handle_wake
    <2>1. /\ \A c \in Connections : due[c] = None => due'[c] = None
          /\ driver'.conn = driver.conn \/ driver'.conn = None
      BY <1>1 DEF Clock, Tick, handle_wake, Replanned, plan_due, Due
    <2>2. UNCHANGED <<tasks, rows, fresh, manual, creator, purger>>
      BY <1>1 DEF Clock, Tick, handle_wake, commands
    <2> QED
      BY <2>1, <2>2, RowFrame DEF RowInv, UndrawnInv, TypeOK
  <1>2. CASE Resolve
    <2>1. PICK i \in DOMAIN driver.plans, c \in Connections :
            LET rest == [driver.plans EXCEPT ![i] = @ \ {c}]
            IN  IF c \in rows
                THEN driver' = [phase |-> "resolved", plans |-> rest, conn |-> c]
                ELSE driver' = [driver EXCEPT !.plans = rest]
      BY <1>2 DEF Resolve
    <2>2. driver'.conn \in rows \/ driver'.conn = driver.conn
      <3>1. CASE c \in rows
        BY <2>1, <3>1
      <3>2. CASE c \notin rows
        BY <2>1, <3>2 DEF TypeOK
      <3> QED
        BY <3>1, <3>2
    <2> QED
      BY <1>2, <2>2, RowFrame DEF Resolve, commands, RowInv, UndrawnInv
  <1>3. CASE Enqueue
    <2>1. driver'.conn = None /\ driver.conn \in Connections
      BY <1>3 DEF Enqueue, TypeOK
    <2>2. \A k \in tasks' : k \in tasks \/ k.conn = driver.conn
      BY <1>3 DEF Enqueue, spawn_sync
    <2> QED
      BY <1>3, <2>1, <2>2, RowFrame DEF Enqueue, commands, RowInv, UndrawnInv, TypeOK
  <1>4. CASE TickEnd \/ DriverExit \/ RecvTimeout \/ handle_sleep \/ QuitRequest
             \/ RuntimeStop \/ UNCHANGED vars
    <2>1. driver'.conn = None \/ driver'.conn = driver.conn
      BY <1>4 DEF TickEnd, DriverExit, RecvTimeout, Waiting, TypeOK, handle_sleep,
                  QuitRequest, RuntimeStop, vars
    <2>2. UNCHANGED <<due, tasks, rows, fresh, manual, creator, purger>>
      BY <1>4 DEF TickEnd, DriverExit, RecvTimeout, handle_sleep, QuitRequest,
                  RuntimeStop, vars, commands
    <2>3. rows \subseteq rows' /\ rows' \cap fresh = {}
      BY <2>2 DEF RowInv, UndrawnInv
    <2>4. \A c \in fresh : /\ driver'.conn # c
                           /\ manual'[c] = "idle"
                           /\ \A k \in tasks' : k.conn # c
      <3>1. \A c \in fresh : c \in Connections /\ c # None
        BY DEF TypeOK
      <3> QED
        BY <2>1, <2>2, <3>1 DEF RowInv, UndrawnInv
    <2> QED
      BY <2>2, <2>3, <2>4, RowFrame
  <1>5. ASSUME NEW k \in tasks, TaskStep(k) \/ TaskPanic(k) PROVE RowInv'
    <2>1. k.conn \in Connections /\ k \in Tasks
      BY DEF TypeOK, Tasks
    <2>2. \A j \in tasks' : \E m \in tasks : m.conn = j.conn
      BY <1>5, <2>1 DEF TaskStep, TaskBegin, TaskEnd, TaskPanic, Tasks
    <2>3. /\ rows \subseteq rows' /\ rows' \subseteq rows \cup {k.conn}
          /\ UNCHANGED <<due, driver, fresh, manual, creator, purger>>
      BY <1>5 DEF TaskStep, TaskBegin, TaskEnd, TaskPanic, commands
    <2> QED
      BY <2>2, <2>3, RowFrame DEF RowInv, UndrawnInv
  <1>6. ASSUME NEW c \in Connections, ManualRead(c) \/ ManualBegin(c) PROVE RowInv'
    <2>1. /\ c \notin fresh
          /\ \A d \in Connections \ {c} : manual'[d] = manual[d]
          /\ \A k \in tasks' : k \in tasks \/ k.conn = c
      BY <1>6 DEF ManualRead, ManualBegin, spawn_sync, TypeOK, RowInv, UndrawnInv
    <2>2. UNCHANGED <<due, driver, rows, fresh, creator, purger>>
      BY <1>6 DEF ManualRead, ManualBegin
    <2> QED
      BY <2>1, <2>2, RowFrame DEF RowInv, UndrawnInv, TypeOK
  <1>7. ASSUME NEW c \in Connections, CreateBegin(c) PROVE RowInv'
    <2>1. /\ c \in fresh /\ fresh' = fresh \ {c} /\ creator'[c] = "begun"
          /\ \A d \in Connections \ {c} : creator'[d] = creator[d]
          /\ UNCHANGED <<due, driver, tasks, rows, manual, purger>>
      BY <1>7 DEF CreateBegin, TypeOK
    <2>2. UndrawnInv'
      BY <2>1 DEF RowInv, UndrawnInv, TypeOK
    <2>3. CreatedInv'
      BY <2>1 DEF RowInv, UndrawnInv, CreatedInv, Creating
    <2>4. ScheduledHasRow'
      BY <2>1 DEF RowInv, ScheduledHasRow
    <2> QED
      BY <2>2, <2>3, <2>4 DEF RowInv
  <1>8. ASSUME NEW c \in Connections, CreateSave(c) PROVE RowInv'
    <2>1. /\ Creating(c) /\ rows' = rows \cup {c} /\ creator'[c] = "saved"
          /\ \A d \in Connections \ {c} : creator'[d] = creator[d]
          /\ UNCHANGED <<due, driver, tasks, fresh, manual, purger>>
      BY <1>8 DEF CreateSave, TypeOK, Creating
    <2>2. UndrawnInv'
      BY <2>1 DEF RowInv, UndrawnInv, CreatedInv, TypeOK
    <2>3. CreatedInv'
      BY <2>1 DEF RowInv, CreatedInv, Creating
    <2>4. ScheduledHasRow'
      BY <2>1 DEF RowInv, ScheduledHasRow
    <2> QED
      BY <2>2, <2>3, <2>4 DEF RowInv
  <1>9. ASSUME NEW c \in Connections, CreateFinish(c) PROVE RowInv'
    <2>1. /\ creator[c] = "saved" /\ creator'[c] = "idle"
          /\ \A d \in Connections \ {c} : creator'[d] = creator[d] /\ due'[d] = due[d]
          /\ \A k \in tasks' : k \in tasks \/ k.conn = c
          /\ UNCHANGED <<driver, rows, fresh, manual, purger>>
      BY <1>9 DEF CreateFinish, spawn_sync, TypeOK
    <2>2. c \in rows /\ c \notin fresh
      BY <2>1 DEF RowInv, CreatedInv, Creating
    <2>3. UndrawnInv'
      BY <2>1, <2>2 DEF RowInv, UndrawnInv, TypeOK
    <2>4. CreatedInv'
      BY <2>1 DEF RowInv, CreatedInv, Creating
    <2>5. ScheduledHasRow'
      BY <2>1, <2>2 DEF RowInv, ScheduledHasRow
    <2> QED
      BY <2>3, <2>4, <2>5 DEF RowInv
  <1>10. ASSUME NEW c \in Connections, CreateFail(c) PROVE RowInv'
    <2>1. /\ Creating(c) /\ creator'[c] = "idle"
          /\ \A d \in Connections \ {c} : creator'[d] = creator[d]
          /\ rows' = rows \/ rows' = rows \ {c}
          /\ UNCHANGED <<due, driver, tasks, fresh, manual, purger>>
      BY <1>10 DEF CreateFail, TypeOK, Creating
    <2>2. due[c] = None /\ c \notin fresh
      BY <2>1 DEF RowInv, CreatedInv
    <2>3. UndrawnInv'
      BY <2>1, <2>2 DEF RowInv, UndrawnInv, TypeOK
    <2>4. CreatedInv'
      BY <2>1 DEF RowInv, CreatedInv, Creating
    <2>5. ScheduledHasRow'
      BY <2>1, <2>2 DEF RowInv, ScheduledHasRow
    <2> QED
      BY <2>3, <2>4, <2>5 DEF RowInv
  <1>11. ASSUME NEW c \in Connections, PurgeFind(c) \/ PurgeAcquire(c) \/ PurgeRefused(c)
                                       \/ PurgeEnd(c)
         PROVE  RowInv'
    <2>1. /\ purger[c] # "deleted"
          /\ \A d \in Connections \ {c} : purger'[d] = purger[d]
          /\ UNCHANGED <<due, driver, tasks, rows, fresh, manual, creator>>
      BY <1>11 DEF PurgeFind, PurgeAcquire, PurgeRefused, PurgeEnd, TypeOK
    <2>2. UndrawnInv' /\ CreatedInv'
      BY <2>1 DEF RowInv, UndrawnInv, CreatedInv, Creating
    <2>3. ScheduledHasRow'
      BY <2>1 DEF RowInv, ScheduledHasRow
    <2> QED
      BY <2>2, <2>3 DEF RowInv
  <1>12. ASSUME NEW c \in Connections, PurgeDelete(c) PROVE RowInv'
    <2>1. /\ Purging(c) /\ rows' = rows \ {c} /\ purger'[c] = "deleted"
          /\ \A d \in Connections \ {c} : purger'[d] = purger[d]
          /\ UNCHANGED <<due, driver, tasks, fresh, manual, creator>>
      BY <1>12 DEF PurgeDelete, TypeOK, Purging
    <2>2. ~ Creating(c)
      BY <2>1, PurgeExcludes
    <2>3. UndrawnInv' /\ CreatedInv'
      BY <2>1, <2>2 DEF RowInv, UndrawnInv, CreatedInv, Creating
    <2>4. ScheduledHasRow'
      BY <2>1 DEF RowInv, ScheduledHasRow
    <2> QED
      BY <2>3, <2>4 DEF RowInv
  <1>13. ASSUME NEW c \in Connections, PurgeUnschedule(c) PROVE RowInv'
    <2>1. /\ due'[c] = None
          /\ \A d \in Connections \ {c} : purger'[d] = purger[d] /\ due'[d] = due[d]
          /\ UNCHANGED <<driver, tasks, rows, fresh, manual, creator>>
      BY <1>13 DEF PurgeUnschedule, TypeOK
    <2>2. UndrawnInv' /\ CreatedInv'
      BY <2>1 DEF RowInv, UndrawnInv, CreatedInv, Creating, TypeOK
    <2>3. ScheduledHasRow'
      BY <2>1 DEF RowInv, ScheduledHasRow
    <2> QED
      BY <2>2, <2>3 DEF RowInv
  <1>14. CASE Restart
    <2>1. /\ driver'.conn = None /\ tasks' = {}
          /\ \A c \in Connections : c \notin rows => due'[c] = None
          /\ \A c \in Connections : creator'[c] = "idle" /\ manual'[c] = "idle"
          /\ UNCHANGED <<rows, fresh>>
      BY <1>14 DEF Restart, Waiting, Registered
    <2> QED
      BY <2>1 DEF RowInv, UndrawnInv, CreatedInv, ScheduledHasRow, Creating, TypeOK
  <1> QED
    BY <1>1, <1>2, <1>3, <1>4, <1>5, <1>6, <1>7, <1>8, <1>9, <1>10, <1>11,
       <1>12, <1>13, <1>14
       DEF Next, DriverStep, ConnectionStep, CreateStep, PurgeStep

\* The scheduler plans no connection without a row, but for the moment a
\* purge needs to get the runtime mutex, with every command (the manual
\* synchronisation too), a create that fails late and a restart at any point.
THEOREM ScheduledHasRowAlways == Spec => []ScheduledHasRow
  <1>1. Init => RowInv
    BY ConnectionAssumption
       DEF Init, Waiting, Registered, RowInv, UndrawnInv, CreatedInv,
           ScheduledHasRow, Creating
  <1>2. RowInv => ScheduledHasRow
    BY DEF RowInv
  <1> QED
    BY <1>1, <1>2, RowStep, SchedTypeCorrect, SingleFlightAlways, PTL DEF Spec

-----------------------------------------------------------------------------
(* Stopping joins the driver first.                                        *)

\* Once the runtime is stopped the driver thread is gone.
StoppedInv == state \in {"stopped", "failed"} => driver.phase = "gone"

\* Every step keeps it: only a restart starts another driver.
LEMMA StoppedStep == TypeOK /\ StoppedInv /\ [Next]_vars => StoppedInv'
  <1> SUFFICES ASSUME TypeOK, StoppedInv, [Next]_vars PROVE StoppedInv'
    OBVIOUS
  <1>1. CASE RecvTimeout \/ Tick \/ Resolve \/ Enqueue \/ TickEnd \/ DriverExit
    BY <1>1 DEF RecvTimeout, Tick, Resolve, Enqueue, TickEnd, DriverExit, StoppedInv
  <1>2. CASE Clock \/ handle_sleep \/ handle_wake \/ QuitRequest \/ RuntimeStop
             \/ Restart \/ UNCHANGED vars
    BY <1>2 DEF Clock, handle_sleep, handle_wake, QuitRequest, RuntimeStop, Restart,
                StoppedInv, vars
  <1>3. ASSUME NEW k \in tasks, TaskStep(k) \/ TaskPanic(k) PROVE StoppedInv'
    BY <1>3 DEF TaskStep, TaskBegin, TaskEnd, TaskPanic, StoppedInv
  <1>4. ASSUME NEW c \in Connections, ConnectionStep(c) PROVE StoppedInv'
    BY <1>4 DEF ConnectionStep, ManualRead, ManualBegin, CreateBegin, CreateStep,
                CreateSave, CreateFinish, CreateFail, PurgeFind, PurgeStep,
                PurgeAcquire, PurgeDelete, PurgeRefused, PurgeUnschedule, PurgeEnd,
                StoppedInv
  <1> QED
    BY <1>1, <1>2, <1>3, <1>4 DEF Next, DriverStep

\* Only the driver's callback starts a task for the driver.
LEMMA DriverStarts ==
    ASSUME TypeOK, [Next]_vars, NEW k \in tasks' \ tasks,
           k.phase = "spawned", k.origin = "driver"
    PROVE  driver.phase = "resolved"
  <1>1. CASE DriverStep
    BY <1>1 DEF DriverStep, RecvTimeout, Tick, Resolve, Enqueue, TickEnd, DriverExit
  <1>2. CASE Clock \/ handle_sleep \/ handle_wake \/ QuitRequest \/ RuntimeStop
             \/ Restart \/ UNCHANGED vars
    BY <1>2 DEF Clock, handle_sleep, handle_wake, QuitRequest, RuntimeStop, Restart, vars
  <1>3. ASSUME NEW j \in tasks, TaskStep(j) \/ TaskPanic(j) PROVE FALSE
    <2>1. j \in Tasks
      BY DEF TypeOK
    <2>2. k = [j EXCEPT !.phase = "working"]
      BY <1>3 DEF TaskStep, TaskBegin, TaskEnd, TaskPanic
    <2> QED
      BY <2>1, <2>2 DEF Tasks
  <1>4. ASSUME NEW c \in Connections, ConnectionStep(c) PROVE FALSE
    BY <1>4 DEF ConnectionStep, ManualRead, ManualBegin, CreateBegin, CreateStep,
                CreateSave, CreateFinish, CreateFail, PurgeFind, PurgeStep,
                PurgeAcquire, PurgeDelete, PurgeRefused, PurgeUnschedule, PurgeEnd,
                spawn_sync
  <1> QED
    BY <1>1, <1>2, <1>3, <1>4 DEF Next

\* A stopped or failed runtime starts no scheduled task any more, with any
\* number of catch-up plans left, until the process is launched again.
THEOREM StopStartsNothingAlways == Spec => StopStartsNothing
  <1>1. Init => StoppedInv
    BY DEF Init, StoppedInv
  <1>2. TypeOK /\ StoppedInv /\ [Next]_vars
        => [\A k \in tasks' \ tasks : k.phase = "spawned" /\ k.origin = "driver"
                => state \notin {"stopped", "failed"}]_vars
    BY DriverStarts DEF StoppedInv
  <1> QED
    BY <1>1, <1>2, StoppedStep, SchedTypeCorrect, PTL DEF Spec, StopStartsNothing

=============================================================================
