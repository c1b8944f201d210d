----------------------- MODULE ConnectionStatusProofs -----------------------
(***************************************************************************)
(* Proofs about ConnectionStatus: types, the backing of a healthy row and  *)
(* the order of the attempts, for every connector and any number of        *)
(* attempts, faults and stale copies.                                      *)
(***************************************************************************)
EXTENDS ConnectionStatus, TLAPS

-----------------------------------------------------------------------------
(* The connectors.                                                         *)

\* No failure is written as healthy, whichever connector it comes from.
LEMMA FailureUnhealthy ==
    ASSUME type \in ConnectorTypes, NEW code \in Codes
    PROVE  sync.health[code] \in Healths \ {"healthy"}
  BY DEF ConnectorTypes, Codes, Healths, sync, sync_github, sync_ssh, sync_dokploy,
         sync_cloudflare, sync_supabase_managed, sync_aliyun, sync_tencent,
         connector_health, ssh_connector_health, Unreachable

\* A new connection has never succeeded.
LEMMA NewRowFacts ==
    NewRow \in Row /\ NewRow.health # "healthy" /\ NewRow.last_attempt_at = 0
  BY DEF NewRow, Row, Healths

-----------------------------------------------------------------------------
(* The inductive invariant.                                                *)

\* The success that r calls its last was committed.
Backed(r) ==
    r.health = "healthy" => /\ r.last_success_at \in Attempts
                            /\ runs[r.last_success_at] = "succeeded"

\* The flag: the create command, the purge and the task exclude each other.
OneHolder ==
    /\ creator # "idle" => task.phase = "idle" /\ ~purging
    /\ purging => task.phase = "idle"
    /\ creator = "begun" => row = NoRow

\* Nothing can be committed for an attempt that has not reached its answer.
AttemptOpen ==
    /\ \A n \in Attempts : n > attempt => runs[n] = "none"
    /\ task.phase \in {"begun", "keyed", "running"} => runs[attempt] # "succeeded"

\* Row and copies are backed.  The driver may hold the copy of a purged row,
\* and drops it, because the purge has the flag until the driver lets go.
CopiesBacked ==
    /\ row # NoRow => Backed(row)
    /\ task.phase # "idle" => Backed(task.conn)
    /\ purging \/ Backed(held.conn)
    /\ held.origin = "nobody" => held = Nobody

\* The row is not newer than the attempt, the copy of a task is as new.
Stamped ==
    /\ row # NoRow => row.last_attempt_at <= attempt
    /\ task.phase \in {"begun", "keyed", "running", "closing"}
         => task.conn.last_attempt_at = attempt

StatusInv == TypeOK /\ OneHolder /\ AttemptOpen /\ CopiesBacked /\ Stamped

-----------------------------------------------------------------------------
\* A store without the connection, or with one of an earlier release.
LEMMA StatusInit == Init => StatusInv
  <1> SUFFICES ASSUME Init PROVE StatusInv
    OBVIOUS
  <1> USE StatusAssumption, NewRowFacts DEF Init, NoTask, Nobody
  <1>1. TypeOK
    <2>1. row \in Row \cup {NoRow} /\ scheduled \in BOOLEAN
      <3>1. CASE legacy
        BY <3>1
      <3>2. CASE ~legacy
        BY <3>2
      <3> QED
        BY <3>1, <3>2
    <2>2. runs \in [Attempts -> Statuses] /\ attempt \in 0 .. MaxAttempts
      BY DEF Attempts, Statuses
    <2> QED
      BY <2>1, <2>2 DEF TypeOK
  <1>2. OneHolder
    BY DEF OneHolder
  <1>3. AttemptOpen
    BY DEF AttemptOpen, Attempts
  <1>4. CopiesBacked
    BY DEF CopiesBacked, Backed
  <1>5. Stamped
    BY DEF Stamped
  <1> QED
    BY <1>1, <1>2, <1>3, <1>4, <1>5 DEF StatusInv

\* With tasks of the driver alone, every step keeps the invariant.
LEMMA StatusStep ==
    ASSUME Origins \subseteq {"driver"}, StatusInv, [Next]_vars
    PROVE  StatusInv'
  <1> USE StatusAssumption
  <1>0. type \in ConnectorTypes
    BY DEF StatusInv, TypeOK
  <1>1. CASE CreateBegin
    <2> USE <1>1 DEF CreateBegin, store
    <2>1. TypeOK'
      BY NewRowFacts DEF StatusInv, TypeOK, Flagged, Nobody
    <2>2. OneHolder'
      BY DEF StatusInv, OneHolder, Flagged, Nobody
    <2>3. AttemptOpen'
      BY DEF StatusInv, AttemptOpen, TypeOK, Flagged, Nobody
    <2>4. CopiesBacked'
      BY NewRowFacts
         DEF StatusInv, CopiesBacked, Backed, Attempts, OneHolder, AttemptOpen,
             TypeOK, Flagged, Nobody
    <2>5. Stamped'
      BY NewRowFacts DEF StatusInv, Stamped, OneHolder, TypeOK, Flagged, Nobody
    <2> QED
      BY <2>1, <2>2, <2>3, <2>4, <2>5 DEF StatusInv
  <1>2. CASE CreateSave
    <2> USE <1>2 DEF CreateSave
    <2>1. TypeOK'
      BY NewRowFacts DEF StatusInv, TypeOK
    <2>2. OneHolder'
      BY DEF StatusInv, OneHolder
    <2>3. AttemptOpen'
      BY DEF StatusInv, AttemptOpen, TypeOK
    <2>4. CopiesBacked'
      BY NewRowFacts
         DEF StatusInv, CopiesBacked, Backed, Attempts, OneHolder, AttemptOpen,
             TypeOK
    <2>5. Stamped'
      BY NewRowFacts DEF StatusInv, Stamped, OneHolder, TypeOK
    <2> QED
      BY <2>1, <2>2, <2>3, <2>4, <2>5 DEF StatusInv
  <1>3. CASE CreateSecret
    <2> USE <1>3 DEF CreateSecret
    <2>1. TypeOK'
      BY DEF StatusInv, TypeOK
    <2>2. OneHolder'
      BY DEF StatusInv, OneHolder
    <2>3. AttemptOpen'
      BY DEF StatusInv, AttemptOpen, TypeOK
    <2>4. CopiesBacked'
      BY DEF StatusInv, CopiesBacked, Backed, Attempts, OneHolder, AttemptOpen,
             TypeOK
    <2>5. Stamped'
      BY DEF StatusInv, Stamped, OneHolder, TypeOK
    <2> QED
      BY <2>1, <2>2, <2>3, <2>4, <2>5 DEF StatusInv
  <1>4. CASE CreateFinish
    <2> USE <1>4 DEF CreateFinish, store
    <2>1. TypeOK'
      <3>1. scheduled' \in BOOLEAN
        BY DEF has_live_sync_path
      <3> QED
        BY <3>1, NewRowFacts DEF StatusInv, TypeOK
    <2>2. OneHolder'
      BY DEF StatusInv, OneHolder
    <2>3. AttemptOpen'
      BY DEF StatusInv, AttemptOpen, TypeOK
    <2>4. CopiesBacked'
      BY NewRowFacts
         DEF StatusInv, CopiesBacked, Backed, Attempts, OneHolder, AttemptOpen,
             TypeOK
    <2>5. Stamped'
      BY NewRowFacts DEF StatusInv, Stamped, OneHolder, TypeOK
    <2> QED
      BY <2>1, <2>2, <2>3, <2>4, <2>5 DEF StatusInv
  <1>5. CASE CreateFail
    <2> USE <1>5 DEF CreateFail, store
    <2>1. TypeOK'
      BY DEF StatusInv, TypeOK
    <2>2. OneHolder'
      BY DEF StatusInv, OneHolder
    <2>3. AttemptOpen'
      BY DEF StatusInv, AttemptOpen, TypeOK
    <2>4. CopiesBacked'
      BY DEF StatusInv, CopiesBacked, Backed, Attempts, OneHolder, AttemptOpen,
             TypeOK
    <2>5. Stamped'
      BY DEF StatusInv, Stamped, OneHolder, TypeOK
    <2> QED
      BY <2>1, <2>2, <2>3, <2>4, <2>5 DEF StatusInv
  <1>6. CASE \E origin \in Origins : Read(origin)
    <2> USE <1>6 DEF Read, store, commands
    <2>1. TypeOK'
      BY NewRowFacts DEF StatusInv, TypeOK, Nobody
    <2>2. OneHolder'
      BY DEF StatusInv, OneHolder, Nobody
    <2>3. AttemptOpen'
      BY DEF StatusInv, AttemptOpen, TypeOK, Nobody
    <2>4. CopiesBacked'
      BY NewRowFacts
         DEF StatusInv, CopiesBacked, Backed, Attempts, OneHolder, AttemptOpen,
             TypeOK, Nobody
    <2>5. Stamped'
      BY NewRowFacts DEF StatusInv, Stamped, OneHolder, TypeOK, Nobody
    <2> QED
      BY <2>1, <2>2, <2>3, <2>4, <2>5 DEF StatusInv
  <1>7. CASE Enqueue
    <2> USE <1>7 DEF Enqueue, store, commands
    <2>1. TypeOK'
      BY NewRowFacts DEF StatusInv, TypeOK, Flagged, Nobody
    <2>2. OneHolder'
      BY DEF StatusInv, OneHolder, Flagged, Nobody
    <2>3. AttemptOpen'
      BY DEF StatusInv, AttemptOpen, TypeOK, Flagged, Nobody
    <2>4. CopiesBacked'
      BY NewRowFacts
         DEF StatusInv, CopiesBacked, Backed, Attempts, OneHolder, AttemptOpen,
             TypeOK, Flagged, Nobody
    <2>5. Stamped'
      BY NewRowFacts DEF StatusInv, Stamped, OneHolder, TypeOK, Flagged, Nobody
    <2> QED
      BY <2>1, <2>2, <2>3, <2>4, <2>5 DEF StatusInv
  <1>8. CASE Begin
    <2>a. PICK conn \in Row :
              /\ row' = conn
              /\ task' = [phase |-> "begun", conn |-> conn]
              /\ conn.health = task.conn.health
              /\ conn.last_success_at = task.conn.last_success_at
              /\ conn.last_attempt_at = attempt + 1
      <3> DEFINE conn == [task.conn EXCEPT !.last_attempt_at = attempt + 1]
      <3>1. row' = conn /\ task' = [phase |-> "begun", conn |-> conn]
        BY <1>8 DEF Begin
      <3>2. task.conn \in Row /\ attempt + 1 \in Nat /\ "healthy" \in Healths
        BY DEF StatusInv, TypeOK, Healths
      <3>3. /\ conn \in Row
            /\ conn.health = task.conn.health
            /\ conn.last_success_at = task.conn.last_success_at
            /\ conn.last_attempt_at = attempt + 1
        BY <3>2 DEF Row
      <3> QED
        BY <3>1, <3>3
    <2>b. /\ task.phase = "spawned" /\ attempt < MaxAttempts
          /\ attempt' = attempt + 1
          /\ UNCHANGED <<type, secret, runs, legacy, commands, held>>
      BY <1>8 DEF Begin
    <2>1. TypeOK'
      BY <2>a, <2>b DEF StatusInv, TypeOK, commands
    <2>2. OneHolder'
      BY <2>a, <2>b DEF StatusInv, OneHolder, commands
    <2>3. AttemptOpen'
      BY <2>a, <2>b DEF StatusInv, AttemptOpen, Attempts, TypeOK, commands
    <2>4. CopiesBacked'
      BY <2>a, <2>b
         DEF StatusInv, CopiesBacked, Backed, Attempts, OneHolder, AttemptOpen,
             TypeOK, commands
    <2>5. Stamped'
      BY <2>a, <2>b DEF StatusInv, Stamped, OneHolder, TypeOK, commands
    <2> QED
      BY <2>1, <2>2, <2>3, <2>4, <2>5 DEF StatusInv
  <1>9. CASE Credential
    <2> USE <1>9 DEF Credential, store, commands
    <2>1. TypeOK'
      BY DEF StatusInv, TypeOK
    <2>2. OneHolder'
      BY DEF StatusInv, OneHolder
    <2>3. AttemptOpen'
      BY DEF StatusInv, AttemptOpen, TypeOK
    <2>4. CopiesBacked'
      BY DEF StatusInv, CopiesBacked, Backed, Attempts, OneHolder, AttemptOpen,
             TypeOK
    <2>5. Stamped'
      BY DEF StatusInv, Stamped, OneHolder, TypeOK
    <2> QED
      BY <2>1, <2>2, <2>3, <2>4, <2>5 DEF StatusInv
  <1>10. CASE NoCredential
    <2>a. \/ task' = NoTask
          \/ \E conn \in Row :
                /\ task' = [phase |-> "closing", conn |-> conn]
                /\ conn.health # "healthy"
                /\ conn.last_attempt_at = task.conn.last_attempt_at
      <3>1. task.conn \in Row /\ "auth_failed" \in Healths \ {"healthy"}
        BY DEF StatusInv, TypeOK, Healths
      <3> DEFINE conn == [task.conn EXCEPT !.health = "auth_failed"]
      <3>2. /\ conn \in Row /\ conn.health # "healthy"
            /\ conn.last_attempt_at = task.conn.last_attempt_at
        BY <3>1 DEF Row
      <3>3. task' = NoTask \/ task' = [phase |-> "closing", conn |-> conn]
        BY <1>10 DEF NoCredential, Closing
      <3> QED
        BY <3>2, <3>3
    <2>b. /\ task.phase = "begun"
          /\ UNCHANGED <<type, store, legacy, attempt, commands, held>>
      BY <1>10 DEF NoCredential
    <2>1. TypeOK'
      BY <2>a, <2>b, NewRowFacts DEF StatusInv, TypeOK, NoTask, commands, store
    <2>2. OneHolder'
      BY <2>a, <2>b DEF StatusInv, OneHolder, NoTask, commands, store
    <2>3. AttemptOpen'
      BY <2>a, <2>b DEF StatusInv, AttemptOpen, TypeOK, NoTask, commands, store
    <2>4. CopiesBacked'
      BY <2>a, <2>b, NewRowFacts
         DEF StatusInv, CopiesBacked, Backed, Attempts, OneHolder, AttemptOpen,
             TypeOK, NoTask, commands, store
    <2>5. Stamped'
      BY <2>a, <2>b, NewRowFacts
         DEF StatusInv, Stamped, OneHolder, TypeOK, NoTask, commands, store
    <2> QED
      BY <2>1, <2>2, <2>3, <2>4, <2>5 DEF StatusInv
  <1>11. CASE Start
    <2> USE <1>11 DEF Start, commands
    <2>1. TypeOK'
      BY DEF StatusInv, TypeOK, Statuses, Attempts
    <2>2. OneHolder'
      BY DEF StatusInv, OneHolder
    <2>3. AttemptOpen'
      BY DEF StatusInv, AttemptOpen, Attempts, Statuses, TypeOK
    <2>4. CopiesBacked'
      BY DEF StatusInv, CopiesBacked, Backed, Attempts, OneHolder, AttemptOpen,
             TypeOK
    <2>5. Stamped'
      BY DEF StatusInv, Stamped, OneHolder, TypeOK
    <2> QED
      BY <2>1, <2>2, <2>3, <2>4, <2>5 DEF StatusInv
  <1>12. CASE StartFails
    <2>a. PICK conn \in Row :
              /\ task' = [phase |-> "closing", conn |-> conn]
              /\ conn.health # "healthy"
              /\ conn.last_attempt_at = task.conn.last_attempt_at
      <3>1. task.conn \in Row /\ sync.health["internal"] \in Healths \ {"healthy"}
        BY <1>0, FailureUnhealthy DEF StatusInv, TypeOK, Healths, Codes
      <3> DEFINE conn == [task.conn EXCEPT !.health = sync.health["internal"]]
      <3>2. /\ conn \in Row /\ conn.health # "healthy"
            /\ conn.last_attempt_at = task.conn.last_attempt_at
        BY <3>1 DEF Row
      <3>3. task' = [phase |-> "closing", conn |-> conn]
        BY <1>12 DEF StartFails, Closing
      <3> QED
        BY <3>2, <3>3
    <2>b. /\ task.phase = "keyed"
          /\ UNCHANGED <<type, store, legacy, attempt, commands, held>>
      BY <1>12 DEF StartFails
    <2>1. TypeOK'
      BY <2>a, <2>b DEF StatusInv, TypeOK, commands, store
    <2>2. OneHolder'
      BY <2>a, <2>b DEF StatusInv, OneHolder, commands, store
    <2>3. AttemptOpen'
      BY <2>a, <2>b DEF StatusInv, AttemptOpen, TypeOK, commands, store
    <2>4. CopiesBacked'
      BY <2>a, <2>b
         DEF StatusInv, CopiesBacked, Backed, Attempts, OneHolder, AttemptOpen,
             TypeOK, commands, store
    <2>5. Stamped'
      BY <2>a, <2>b DEF StatusInv, Stamped, OneHolder, TypeOK, commands, store
    <2> QED
      BY <2>1, <2>2, <2>3, <2>4, <2>5 DEF StatusInv
  <1>13. CASE Close
    <2> USE <1>13 DEF Close, commands
    <2>1. TypeOK'
      BY NewRowFacts DEF StatusInv, TypeOK, NoTask
    <2>2. OneHolder'
      BY DEF StatusInv, OneHolder, NoTask
    <2>3. AttemptOpen'
      BY DEF StatusInv, AttemptOpen, TypeOK, NoTask
    <2>4. CopiesBacked'
      BY NewRowFacts
         DEF StatusInv, CopiesBacked, Backed, Attempts, OneHolder, AttemptOpen,
             TypeOK, NoTask
    <2>5. Stamped'
      BY NewRowFacts DEF StatusInv, Stamped, OneHolder, TypeOK, NoTask
    <2> QED
      BY <2>1, <2>2, <2>3, <2>4, <2>5 DEF StatusInv
  <1>14. CASE Abort
    <2> USE <1>14 DEF Abort, store, commands
    <2>1. TypeOK'
      BY NewRowFacts DEF StatusInv, TypeOK, NoTask
    <2>2. OneHolder'
      BY DEF StatusInv, OneHolder, NoTask
    <2>3. AttemptOpen'
      BY DEF StatusInv, AttemptOpen, TypeOK, NoTask
    <2>4. CopiesBacked'
      BY NewRowFacts
         DEF StatusInv, CopiesBacked, Backed, Attempts, OneHolder, AttemptOpen,
             TypeOK, NoTask
    <2>5. Stamped'
      BY NewRowFacts DEF StatusInv, Stamped, OneHolder, TypeOK, NoTask
    <2> QED
      BY <2>1, <2>2, <2>3, <2>4, <2>5 DEF StatusInv
  <1>15. CASE \E partial \in BOOLEAN : Answer(partial)
    <2>a. PICK conn \in Row, status \in {"partial", "succeeded"} :
              /\ task' = [phase |-> "closing", conn |-> conn]
              /\ runs' = [runs EXCEPT ![attempt] = status]
              /\ conn.health = "healthy"
                   => status = "succeeded" /\ conn.last_success_at = attempt
              /\ conn.last_attempt_at = task.conn.last_attempt_at
      <3> PICK partial \in BOOLEAN : Answer(partial)
        BY <1>15
      <3>1. /\ task.conn \in Row /\ attempt \in Nat
            /\ {"healthy", "degraded"} \subseteq Healths
        BY DEF StatusInv, TypeOK, Healths
      <3>2. /\ Answered(partial) \in Row
            /\ Answered(partial).health = "healthy"
                 => ~partial /\ Answered(partial).last_success_at = attempt
            /\ Answered(partial).last_attempt_at = task.conn.last_attempt_at
        <4>1. CASE partial
          BY <3>1, <4>1 DEF Answered, Row
        <4>2. CASE ~partial
          BY <3>1, <4>2 DEF Answered, Row
        <4> QED
          BY <4>1, <4>2
      <3> QED
        BY <3>2 DEF Answer
    <2>b. /\ task.phase = "running"
          /\ UNCHANGED <<type, row, secret, legacy, attempt, commands, held>>
      BY <1>15 DEF Answer
    <2>1. TypeOK'
      BY <2>a, <2>b DEF StatusInv, TypeOK, Statuses, Attempts, commands
    <2>2. OneHolder'
      BY <2>a, <2>b DEF StatusInv, OneHolder, commands
    <2>3. AttemptOpen'
      BY <2>a, <2>b DEF StatusInv, AttemptOpen, Attempts, Statuses, TypeOK, commands
    <2>4. CopiesBacked'
      BY <2>a, <2>b
         DEF StatusInv, CopiesBacked, Backed, Attempts, OneHolder, AttemptOpen,
             TypeOK, commands
    <2>5. Stamped'
      BY <2>a, <2>b DEF StatusInv, Stamped, OneHolder, TypeOK, commands
    <2> QED
      BY <2>1, <2>2, <2>3, <2>4, <2>5 DEF StatusInv
  <1>16. CASE \E partial \in BOOLEAN : Unusable(partial)
    <2>a. /\ runs' = runs \/ runs' = [runs EXCEPT ![attempt] = "failed"]
          /\ \/ task' = NoTask
             \/ \E conn \in Row :
                   /\ task' = [phase |-> "closing", conn |-> conn]
                   /\ conn.health # "healthy"
                   /\ conn.last_attempt_at = task.conn.last_attempt_at
      <3> PICK partial \in BOOLEAN : Unusable(partial)
        BY <1>16
      <3>1. /\ task.conn \in Row /\ attempt \in Nat
            /\ {"healthy", "degraded"} \subseteq Healths
            /\ sync.health["internal"] \in Healths \ {"healthy"}
        BY <1>0, FailureUnhealthy DEF StatusInv, TypeOK, Healths, Codes
      <3>2. /\ Answered(partial) \in Row
            /\ Answered(partial).last_attempt_at = task.conn.last_attempt_at
        BY <3>1 DEF Answered, Row
      <3> DEFINE conn == [Answered(partial) EXCEPT !.health = sync.health["internal"]]
      <3>3. /\ conn \in Row /\ conn.health # "healthy"
            /\ conn.last_attempt_at = task.conn.last_attempt_at
        BY <3>1, <3>2 DEF Row
      <3>4. task' = NoTask \/ task' = [phase |-> "closing", conn |-> conn]
        BY DEF Unusable
      <3>5. runs' = runs \/ runs' = [runs EXCEPT ![attempt] = "failed"]
        BY DEF Unusable
      <3> QED
        BY <3>3, <3>4, <3>5
    <2>b. /\ task.phase = "running"
          /\ UNCHANGED <<type, row, secret, legacy, attempt, commands, held>>
      BY <1>16 DEF Unusable
    <2>1. TypeOK'
      BY <2>a, <2>b, NewRowFacts
         DEF StatusInv, TypeOK, Statuses, Attempts, NoTask, commands
    <2>2. OneHolder'
      BY <2>a, <2>b DEF StatusInv, OneHolder, NoTask, commands
    <2>3. AttemptOpen'
      BY <2>a, <2>b
         DEF StatusInv, AttemptOpen, Attempts, Statuses, TypeOK, NoTask, commands
    <2>4. CopiesBacked'
      BY <2>a, <2>b, NewRowFacts
         DEF StatusInv, CopiesBacked, Backed, Attempts, OneHolder, AttemptOpen,
             TypeOK, NoTask, commands
    <2>5. Stamped'
      BY <2>a, <2>b, NewRowFacts
         DEF StatusInv, Stamped, OneHolder, TypeOK, NoTask, commands
    <2> QED
      BY <2>1, <2>2, <2>3, <2>4, <2>5 DEF StatusInv
  <1>17. CASE \E code \in Codes : Failure(code)
    <2>a. PICK conn \in Row :
              /\ task' = [phase |-> "closing", conn |-> conn]
              /\ conn.health # "healthy"
              /\ conn.last_attempt_at = task.conn.last_attempt_at
      <3> PICK code \in Codes : Failure(code)
        BY <1>17
      <3>1. task.conn \in Row /\ sync.health[code] \in Healths \ {"healthy"}
        BY <1>0, FailureUnhealthy DEF StatusInv, TypeOK, Healths, Codes
      <3> DEFINE conn == [task.conn EXCEPT !.health = sync.health[code]]
      <3>2. /\ conn \in Row /\ conn.health # "healthy"
            /\ conn.last_attempt_at = task.conn.last_attempt_at
        BY <3>1 DEF Row
      <3>3. task' = [phase |-> "closing", conn |-> conn]
        BY DEF Failure, Closing
      <3> QED
        BY <3>2, <3>3
    <2>b. /\ runs' = [runs EXCEPT ![attempt] = "failed"]
          /\ task.phase = "running"
          /\ UNCHANGED <<type, row, secret, legacy, attempt, commands, held>>
      BY <1>17 DEF Failure
    <2>1. TypeOK'
      BY <2>a, <2>b DEF StatusInv, TypeOK, Statuses, Attempts, commands
    <2>2. OneHolder'
      BY <2>a, <2>b DEF StatusInv, OneHolder, commands
    <2>3. AttemptOpen'
      BY <2>a, <2>b DEF StatusInv, AttemptOpen, Attempts, Statuses, TypeOK, commands
    <2>4. CopiesBacked'
      BY <2>a, <2>b
         DEF StatusInv, CopiesBacked, Backed, Attempts, OneHolder, AttemptOpen,
             TypeOK, commands
    <2>5. Stamped'
      BY <2>a, <2>b DEF StatusInv, Stamped, OneHolder, TypeOK, commands
    <2> QED
      BY <2>1, <2>2, <2>3, <2>4, <2>5 DEF StatusInv
  <1>18. CASE PurgeDelete
    <2> USE <1>18 DEF PurgeDelete
    <2>1. TypeOK'
      BY DEF StatusInv, TypeOK, Statuses, Attempts, Flagged
    <2>2. OneHolder'
      BY DEF StatusInv, OneHolder, Flagged
    <2>3. AttemptOpen'
      BY DEF StatusInv, AttemptOpen, Attempts, Statuses, TypeOK, Flagged
    <2>4. CopiesBacked'
      BY DEF StatusInv, CopiesBacked, Backed, Attempts, OneHolder, AttemptOpen,
             TypeOK, Flagged
    <2>5. Stamped'
      BY DEF StatusInv, Stamped, OneHolder, TypeOK, Flagged
    <2> QED
      BY <2>1, <2>2, <2>3, <2>4, <2>5 DEF StatusInv
  <1>19. CASE PurgeEnd
    <2> USE <1>19 DEF PurgeEnd, store
    <2>1. TypeOK'
      BY DEF StatusInv, TypeOK
    <2>2. OneHolder'
      BY DEF StatusInv, OneHolder
    <2>3. AttemptOpen'
      BY DEF StatusInv, AttemptOpen, TypeOK
    <2>4. CopiesBacked'
      <3>1. held.origin = "nobody"
        BY DEF StatusInv, TypeOK
      <3>2. held.conn = NewRow
        BY <3>1 DEF StatusInv, CopiesBacked, Nobody
      <3> QED
        BY <3>1, <3>2, NewRowFacts DEF StatusInv, CopiesBacked, Backed
    <2>5. Stamped'
      BY DEF StatusInv, Stamped, OneHolder, TypeOK
    <2> QED
      BY <2>1, <2>2, <2>3, <2>4, <2>5 DEF StatusInv
  <1>20. CASE Crash
    <2> USE <1>20 DEF Crash
    <2>1. TypeOK'
      BY NewRowFacts DEF StatusInv, TypeOK, Statuses, Attempts, NoTask, Nobody
    <2>2. OneHolder'
      BY DEF StatusInv, OneHolder, NoTask, Nobody
    <2>3. AttemptOpen'
      BY DEF StatusInv, AttemptOpen, Attempts, Statuses, TypeOK, NoTask, Nobody
    <2>4. CopiesBacked'
      BY NewRowFacts
         DEF StatusInv, CopiesBacked, Backed, Attempts, OneHolder, AttemptOpen,
             TypeOK, NoTask, Nobody
    <2>5. Stamped'
      BY NewRowFacts DEF StatusInv, Stamped, OneHolder, TypeOK, NoTask, Nobody
    <2> QED
      BY <2>1, <2>2, <2>3, <2>4, <2>5 DEF StatusInv
  <1>21. CASE UNCHANGED vars
    <2> USE <1>21 DEF vars, store, commands
    <2>1. TypeOK'
      BY DEF StatusInv, TypeOK
    <2>2. OneHolder'
      BY DEF StatusInv, OneHolder
    <2>3. AttemptOpen'
      BY DEF StatusInv, AttemptOpen, TypeOK
    <2>4. CopiesBacked'
      BY DEF StatusInv, CopiesBacked, Backed, Attempts, OneHolder, AttemptOpen,
             TypeOK
    <2>5. Stamped'
      BY DEF StatusInv, Stamped, OneHolder, TypeOK
    <2> QED
      BY <2>1, <2>2, <2>3, <2>4, <2>5 DEF StatusInv
  <1> QED
    BY <1>1, <1>2, <1>3, <1>4, <1>5, <1>6, <1>7, <1>8, <1>9, <1>10,
       <1>11, <1>12, <1>13, <1>14, <1>15, <1>16, <1>17, <1>18, <1>19, <1>20,
       <1>21
       DEF Next, TaskStep

-----------------------------------------------------------------------------
(* The theorems.                                                           *)

\* The invariant, where tasks are started by the create command and by the
\* driver.  (manual_github_sync reads its row long before it takes the flag,
\* and may hold a copy that a purge has taken the backing from.)
THEOREM StatusInvariant ==
    ASSUME Origins \subseteq {"driver"}
    PROVE  Spec => []StatusInv
  <1>1. Init => StatusInv
    BY StatusInit
  <1>2. StatusInv /\ [Next]_vars => StatusInv'
    BY StatusStep
  <1> QED
    BY <1>1, <1>2, PTL DEF Spec

\* Types.
THEOREM StatusTypeCorrect ==
    ASSUME Origins \subseteq {"driver"}
    PROVE  Spec => []TypeOK
  <1>1. StatusInv => TypeOK
    BY DEF StatusInv
  <1> QED
    BY <1>1, StatusInvariant, PTL

\* A row that says healthy has a committed run at its last success, for every
\* connector, any number of attempts and every fault (sync_github and its six
\* siblings, purge_connection, recover_startup).
THEOREM HealthyIsBackedAlways ==
    ASSUME Origins \subseteq {"driver"}
    PROVE  Spec => []HealthyIsBacked
  <1>1. StatusInv => HealthyIsBacked
    BY DEF StatusInv, CopiesBacked, Backed, HealthyIsBacked
  <1> QED
    BY <1>1, StatusInvariant, PTL

\* The last attempt of a row never goes back, although rows are written back
\* whole from copies of any age (upsert_connection in sync_github and its
\* siblings).
THEOREM AttemptsAdvanceAlways ==
    ASSUME Origins \subseteq {"driver"}
    PROVE  Spec => AttemptsAdvance
  <1> DEFINE Advance == (row # NoRow /\ row' # NoRow)
                          => row'.last_attempt_at >= row.last_attempt_at
  <1>1. ASSUME StatusInv, [Next]_vars
        PROVE  [Advance]_vars
    <2> SUFFICES ASSUME row # NoRow, row' # NoRow
                 PROVE  row'.last_attempt_at >= row.last_attempt_at
      OBVIOUS
    <2>1. row \in Row /\ attempt \in Nat /\ row.last_attempt_at \in Nat
      BY <1>1, StatusAssumption DEF StatusInv, TypeOK, Row
    <2>2. CASE row' = row
      BY <2>1, <2>2
    <2>3. CASE CreateSave
      BY <1>1, <2>3 DEF CreateSave, StatusInv, OneHolder
    <2>4. CASE Begin
      <3>1. row' = [task.conn EXCEPT !.last_attempt_at = attempt + 1]
        BY <2>4 DEF Begin
      <3>2. row'.last_attempt_at = attempt + 1
        BY <1>1, <3>1 DEF StatusInv, TypeOK, Row
      <3> QED
        BY <1>1, <2>1, <3>2 DEF StatusInv, Stamped
    <2>5. CASE Close
      BY <1>1, <2>1, <2>5 DEF Close, StatusInv, Stamped
    <2>6. row' = row \/ row' = NoRow \/ CreateSave \/ Begin \/ Close
      BY <1>1
         DEF Next, TaskStep, vars, store, CreateBegin, CreateSecret, CreateFinish,
             CreateFail, Read, Enqueue, Credential, NoCredential, Start, StartFails,
             Abort, Answer, Unusable, Failure, PurgeDelete, PurgeEnd, Crash
    <2> QED
      BY <2>2, <2>3, <2>4, <2>5, <2>6
  <1> QED
    BY <1>1, StatusInvariant, PTL DEF Spec, AttemptsAdvance

=============================================================================
