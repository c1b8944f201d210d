--------------------------- MODULE LocalRpcProofs ---------------------------
(* Proofs about LocalRpc: the types, that a stop closes every stream, that *)
(* the permits of a session are exact, that a bridge reports what was      *)
(* written for its query, and that it never waits for nothing.             *)
EXTENDS LocalRpc, FiniteSetTheorems, TLAPS

\* The first element of a sequence, the others, and one more.
LEMMA TailFacts ==
  ASSUME NEW S, NEW s \in Seq(S), s # <<>>
  PROVE  /\ Head(s) \in S /\ Head(s) = s[1]
         /\ Tail(s) \in Seq(S)
         /\ 1 \in DOMAIN s
         /\ \A i \in DOMAIN Tail(s) :
              i + 1 \in DOMAIN s /\ i + 1 # 1 /\ Tail(s)[i] = s[i + 1]
OBVIOUS

LEMMA AppendFacts ==
  ASSUME NEW S, NEW s \in Seq(S), NEW x \in S
  PROVE  /\ Append(s, x) \in Seq(S)
         /\ \A i \in DOMAIN Append(s, x) :
              \/ i \in DOMAIN s /\ Append(s, x)[i] = s[i]
              \/ i = Len(s) + 1 /\ i \notin DOMAIN s /\ Append(s, x)[i] = x
OBVIOUS

-----------------------------------------------------------------------------
(* Types.                                                                  *)

\* The accept thread holds a stream as long as it is at work on it, and it
\* is joined before LocalRpcHost is dropped.
HandInv ==
    /\ hand # None <=> accept \in {"accepted", "admitted"}
    /\ stopper \in {"joined", "stopped"} => accept = "gone"

\* A reply is written with its type.
LEMMA WriteType ==
  ASSUME TypeOK, NEW c \in Clients, NEW n \in Queries,
         NEW body \in {"answer", "error"}, WriteLocked(c, n, body)
  PROVE  down' \in [Clients -> Seq(Reply)] /\ sent' \in [Clients -> SUBSET Reply]
<1>1. PICK x \in Reply : x = [id |-> n, body |-> body]
  BY DEF Reply
<1>2. Append(down[c], x) \in Seq(Reply)
  BY AppendFacts DEF TypeOK
<1> QED
  BY <1>1, <1>2 DEF WriteLocked, TypeOK

\* The initial state has the types.
LEMMA InitType == Init => TypeOK
<1> SUFFICES ASSUME Init PROVE TypeOK
  OBVIOUS
<1> USE RpcAssumption DEF Init
<1>1. /\ up \in [Clients -> Seq(Queries)]
      /\ down \in [Clients -> Seq(Reply)]
  OBVIOUS
<1>2. result \in [Clients -> [Queries -> Results]]
  BY DEF Results
<1>3. stop \in BOOLEAN
  OBVIOUS
<1> QED
  BY <1>1, <1>2, <1>3 DEF TypeOK

\* Every step of the accept thread and of the stop keeps the types.
LEMMA ListenerType ==
  ASSUME TypeOK, HandInv, AcceptStep \/ AcceptFails \/ SetStop \/ StopStep
  PROVE  TypeOK'
<1> USE RpcAssumption DEF TypeOK, workers, wires, callers
<1>1. CASE AcceptStep
  <2>1. CASE Accept
    <3>1. CASE AcceptEnd({})
      BY <2>1, <3>1 DEF Accept, AcceptEnd, Shut, Backlog
    <3>2. CASE /\ \E c \in Backlog :
                    hand' = c /\ stream' = [stream EXCEPT ![c] = "open"]
               /\ accept' = "accepted"
      BY <2>1, <3>2 DEF Accept, Backlog
    <3> QED
      BY <2>1, <3>1, <3>2 DEF Accept
  <2>2. CASE Admit
    <3>1. CASE AcceptEnd({hand})
      BY <2>2, <3>1 DEF Admit, AcceptEnd, Shut, Backlog
    <3>2. CASE accept' = "admitted" /\ UNCHANGED <<hand, stream>>
      BY <2>2, <3>2 DEF Admit
    <3>3. CASE accept' = "loop" /\ hand' = None /\ Shut({hand})
      BY <2>2, <3>3 DEF Admit, Shut
    <3> QED
      BY <2>2, <3>1, <3>2, <3>3 DEF Admit
  <2>3. CASE Register
    <3>1. hand \in Clients
      BY <2>3 DEF Register, HandInv
    <3> QED
      BY <2>3, <3>1 DEF Register
  <2> QED
    BY <1>1, <2>1, <2>2, <2>3 DEF AcceptStep
<1>2. CASE AcceptFails
  BY <1>2 DEF AcceptFails, AcceptEnd, Shut, Backlog
<1>3. CASE SetStop
  BY <1>3 DEF SetStop
<1>4. CASE StopStep
  BY <1>4 DEF StopStep, Drain, Join, DropHost, ShutdownActive, Shut
<1> QED
  BY <1>1, <1>2, <1>3, <1>4

\* Every step of the thread of a session keeps the types.
LEMMA SessionType ==
  ASSUME TypeOK, NEW c \in Clients, SessionStep(c)
  PROVE  TypeOK'
<1> USE RpcAssumption DEF TypeOK, listener, workers, wires, callers
<1>1. CASE Handshake(c) \/ Reap(c) \/ EndOfStream(c) \/ JoinAll(c)
  <2>1. PICK t \in {"looping", "reading", "joining", "ended", "rejected"} :
          session' = [session EXCEPT ![c] = t]
    BY <1>1 DEF Handshake, Reap, EndOfStream, JoinAll
  <2>2. session' \in [Clients -> {"none", "handshake", "looping", "reading",
                                 "joining", "ended", "rejected"}]
    BY <2>1
  <2> QED
    <3>1. UNCHANGED <<listener, stream, workers, wires, callers>>
      BY <1>1 DEF Handshake, Reap, EndOfStream, JoinAll
    <3> QED
      BY <2>2, <3>1
<1>2. ASSUME up[c] # <<>>, up' = [up EXCEPT ![c] = Tail(@)]
      PROVE  Head(up[c]) \in Queries /\ up' \in [Clients -> Seq(Queries)]
  BY <1>2, TailFacts
<1>3. CASE Refuse(c)
  <2>1. Head(up[c]) \in Queries /\ up' \in [Clients -> Seq(Queries)]
    BY <1>2, <1>3 DEF Refuse
  <2>2. down' \in [Clients -> Seq(Reply)] /\ sent' \in [Clients -> SUBSET Reply]
    BY <1>3, <2>1, WriteType DEF Refuse
  <2>3. session' \in [Clients -> {"none", "handshake", "looping", "reading",
                                 "joining", "ended", "rejected"}]
    <3>1. PICK t \in {"looping", "ended"} : session' = [session EXCEPT ![c] = t]
      BY <1>3 DEF Refuse
    <3> QED
      BY <3>1
  <2> QED
    BY <1>3, <2>1, <2>2, <2>3 DEF Refuse
<1>4. CASE Spawn(c)
  BY <1>2, <1>4 DEF Spawn
<1> QED
  BY <1>1, <1>3, <1>4 DEF SessionStep

\* A worker holds a permit, so the counter does not go below zero.
LEMMA WorkerType ==
  ASSUME TypeOK, NEW c \in Clients, NEW n \in Queries,
         WorkerStep(c, n) \/ Panic(c, n),
         n \in handling[c] \cup replied[c] => in_flight[c] > 0
  PROVE  TypeOK'
<1> USE RpcAssumption DEF TypeOK, listener, workers, wires, callers
<1>1. CASE HandleRequest(c, n)
  <2>1. down' \in [Clients -> Seq(Reply)] /\ sent' \in [Clients -> SUBSET Reply]
    <3>1. CASE UNCHANGED <<down, sent>>
      BY <3>1
    <3>2. CASE \E body \in {"answer", "error"} : WriteLocked(c, n, body)
      BY <3>2, WriteType
    <3> QED
      BY <1>1, <3>1, <3>2 DEF HandleRequest
  <2> QED
    BY <1>1, <2>1 DEF HandleRequest
<1>2. CASE Panic(c, n)
  BY <1>2 DEF Panic
<1>3. CASE DropPermit(c, n)
  BY <1>3 DEF DropPermit
<1> QED
  BY <1>1, <1>2, <1>3 DEF WorkerStep

\* What a call returns is a result, and not "none".
LEMMA ReturnType ==
  ASSUME TypeOK, NEW c \in Clients, call[c] # None,
         NEW r \in Results \ {"none"}, Return(c, r)
  PROVE  /\ call' \in [Clients -> Queries \cup {None}]
         /\ result' \in [Clients -> [Queries -> Results]]
         /\ \A d \in Clients, n \in Queries :
              result'[d][n] = "none" => result[d][n] = "none"
<1>1. call[c] \in Queries /\ result[c] \in [Queries -> Results]
  BY DEF TypeOK
<1>2. result' = [result EXCEPT ![c] = [result[c] EXCEPT ![call[c]] = r]]
  BY DEF Return, TypeOK
<1> QED
  BY <1>1, <1>2 DEF Return, TypeOK

\* Every step of a bridge keeps the types.
LEMMA ClientType ==
  ASSUME TypeOK, NEW c \in Clients,
         ClientStep(c) \/ \E n \in Queries : Query(c, n)
  PROVE  TypeOK'
<1> USE RpcAssumption DEF TypeOK, listener, workers, wires
<1>1. CASE Connect(c)
  BY <1>1 DEF Connect
<1>4. CASE Greeted(c) \/ Close(c)
  <2>1. PICK t \in {"ready", "closed"} : client' = [client EXCEPT ![c] = t]
    BY <1>4 DEF Greeted, Close
  <2>2. client' \in [Clients -> {"idle", "hello", "ready", "closed"}]
    BY <2>1
  <2> QED
    BY <1>4, <2>2 DEF Greeted, Close
<1>2. CASE Receive(c)
  <2>1. PICK r \in {"answered", "refused", "unavailable"} : Return(c, r)
    BY <1>2 DEF Receive, Outcome
  <2>2. call' \in [Clients -> Queries \cup {None}]
        /\ result' \in [Clients -> [Queries -> Results]]
    BY <1>2, <2>1, ReturnType DEF Receive, Results
  <2>3. down' \in [Clients -> Seq(Reply)]
    BY <1>2, TailFacts DEF Receive
  <2> QED
    BY <1>2, <2>2, <2>3 DEF Receive
<1>3. CASE ReceiveTorn(c) \/ GiveUp(c)
  <2>1. call[c] # None /\ Return(c, "unavailable")
    BY <1>3 DEF ReceiveTorn, GiveUp
  <2>2. call' \in [Clients -> Queries \cup {None}]
        /\ result' \in [Clients -> [Queries -> Results]]
    BY <2>1, ReturnType DEF Results
  <2>3. down' \in [Clients -> Seq(Reply)] /\ torn' \subseteq Clients
    <3>1. CASE UNCHANGED down
      BY <1>3, <3>1 DEF ReceiveTorn, GiveUp
    <3>2. CASE ReceiveTorn(c) /\ down' = [down EXCEPT ![c] = Tail(@)]
      <4>1. Tail(down[c]) \in Seq(Reply)
        BY <3>2, TailFacts DEF ReceiveTorn
      <4> QED
        BY <3>2, <4>1 DEF ReceiveTorn
    <3> QED
      BY <1>3, <3>1, <3>2 DEF ReceiveTorn, GiveUp
  <2> QED
    BY <1>3, <2>2, <2>3 DEF ReceiveTorn, GiveUp
<1>5. ASSUME NEW n \in Queries, Query(c, n)
      PROVE  TypeOK'
  <2>1. up' \in [Clients -> Seq(Queries)] /\ call' \in [Clients -> Queries \cup {None}]
    <3>1. Append(up[c], n) \in Seq(Queries)
      BY AppendFacts
    <3> QED
      <4>1. CASE stream[c] = "open"
        <5>1. /\ up' = [up EXCEPT ![c] = Append(up[c], n)]
              /\ call' = [call EXCEPT ![c] = n]
          BY <1>5, <4>1 DEF Query
        <5>2. up' \in [Clients -> Seq(Queries)]
          BY <3>1, <5>1
        <5>3. call' \in [Clients -> Queries \cup {None}]
          BY <5>1
        <5> QED
          BY <5>2, <5>3
      <4>2. CASE stream[c] # "open"
        BY <1>5, <4>2 DEF Query
      <4> QED
        BY <4>1, <4>2
  <2>2. PICK r \in Results : result' = [result EXCEPT ![c][n] = r]
    BY <1>5 DEF Query, Results
  <2>3. result' \in [Clients -> [Queries -> Results]]
    BY <2>2
  <2> QED
    BY <1>5, <2>1, <2>3 DEF Query
<1> QED
  BY <1>1, <1>2, <1>3, <1>4, <1>5 DEF ClientStep

-----------------------------------------------------------------------------
(* A stop closes every stream.                                             *)

\* Whoever shuts streams down finds every open one: it is registered or
\* still in the hand of the accept thread, and one that was not accepted
\* goes with the listener.
StreamInv ==
    \A c \in Clients :
        /\ stream[c] = "open" => c \in active \/ hand = c
        /\ stream[c] = "backlog" => accept # "gone"

StopInv == HandInv /\ StreamInv /\ StopClosesAll

\* Every step keeps what the stop relies on.
LEMMA StopKeeps ==
  ASSUME TypeOK, StopInv, [Next]_vars
  PROVE  StopInv'
<1> USE RpcAssumption DEF TypeOK, StopInv, HandInv, StreamInv, StopClosesAll
<1>1. CASE Accept
  <2>1. CASE AcceptEnd({})
    BY <1>1, <2>1 DEF Accept, AcceptEnd, Shut, Backlog
  <2>2. ASSUME NEW c \in Backlog, hand' = c,
               stream' = [stream EXCEPT ![c] = "open"], accept' = "accepted"
        PROVE  StopInv'
    BY <1>1, <2>2 DEF Accept, Backlog
  <2> QED
    BY <1>1, <2>1, <2>2 DEF Accept
<1>2. CASE Admit
  <2>1. CASE AcceptEnd({hand})
    BY <1>2, <2>1 DEF Admit, AcceptEnd, Shut, Backlog
  <2>2. CASE accept' = "admitted" /\ UNCHANGED <<hand, stream>>
    BY <1>2, <2>2 DEF Admit
  <2>3. CASE accept' = "loop" /\ hand' = None /\ Shut({hand})
    BY <1>2, <2>3 DEF Admit, Shut
  <2> QED
    BY <1>2, <2>1, <2>2, <2>3 DEF Admit
<1>3. CASE Register
  BY <1>3 DEF Register
<1>4. CASE AcceptFails
  BY <1>4 DEF AcceptFails, AcceptEnd, Shut, Backlog
<1>5. CASE SetStop
  BY <1>5 DEF SetStop
<1>6. CASE Drain
  BY <1>6 DEF Drain, ShutdownActive, Shut
<1>7. CASE Join
  BY <1>7 DEF Join
<1>8. CASE DropHost
  BY <1>8 DEF DropHost, ShutdownActive, Shut
<1>9. ASSUME NEW c \in Clients, Connect(c)
      PROVE  StopInv'
  BY <1>9 DEF Connect, listener
<1>10. CASE UNCHANGED <<listener, stream>>
  BY <1>10 DEF listener
<1> QED
  BY <1>1, <1>2, <1>3, <1>4, <1>5, <1>6, <1>7, <1>8, <1>9, <1>10
  DEF Next, vars, AcceptStep, StopStep, SessionStep, WorkerStep, ClientStep,
      Handshake, Reap, Refuse, Spawn, EndOfStream, JoinAll, HandleRequest,
      DropPermit, Panic, Greeted, Receive, ReceiveTorn, GiveUp, Close, Query

-----------------------------------------------------------------------------
(* The permits of a session.                                               *)

Busy(c) == handling[c] \cup replied[c]

\* A request id travels once: it is with its caller, in the stream, or with
\* a worker, and with one worker at most.
IdInv ==
    \A c \in Clients :
        /\ handling[c] \cap replied[c] = {}
        /\ \A n \in Busy(c) : result[c][n] # "none"
        /\ \A i \in DOMAIN up[c] :
             /\ result[c][up[c][i]] # "none"
             /\ up[c][i] \notin Busy(c)
             /\ \A j \in DOMAIN up[c] : up[c][i] = up[c][j] => i = j

\* The counter, with what counting takes.
PermitInv ==
    \A c \in Clients :
        /\ IsFiniteSet(Busy(c))
        /\ in_flight[c] = Cardinality(Busy(c))
        /\ in_flight[c] <= Limit

\* Nobody but the reader gives work, and nobody forgets a query.
LEMMA IdFrame ==
  ASSUME TypeOK, IdInv, UNCHANGED <<handling, replied>>,
         \A d \in Clients, n \in Queries :
            result'[d][n] = "none" => result[d][n] = "none",
         UNCHANGED up
  PROVE  IdInv'
BY DEF IdInv, Busy, TypeOK

LEMMA IdKeeps ==
  ASSUME TypeOK, IdInv, [Next]_vars
  PROVE  IdInv'
<1> USE RpcAssumption
<1>1. ASSUME NEW c \in Clients, Refuse(c)
      PROVE  IdInv'
  <2>1. up[c] \in Seq(Queries) /\ up[c] # <<>>
    BY <1>1 DEF Refuse, TypeOK
  <2> QED
    BY <1>1, <2>1, TailFacts DEF Refuse, IdInv, Busy, TypeOK, workers, callers
<1>2. ASSUME NEW c \in Clients, Spawn(c)
      PROVE  IdInv'
  <2>1. up[c] \in Seq(Queries) /\ up[c] # <<>>
    BY <1>2 DEF Spawn, TypeOK
  <2> QED
    <3>1. /\ Head(up[c]) \in Queries /\ Head(up[c]) = up[c][1]
          /\ 1 \in DOMAIN up[c]
          /\ \A i \in DOMAIN Tail(up[c]) :
               i + 1 \in DOMAIN up[c] /\ i + 1 # 1 /\ Tail(up[c])[i] = up[c][i + 1]
          /\ \A i \in DOMAIN Tail(up[c]), j \in DOMAIN Tail(up[c]) :
               i + 1 = j + 1 => i = j
      BY <2>1, TailFacts
    <3>2. /\ UNCHANGED <<replied, result>>
          /\ up'[c] = Tail(up[c])
          /\ handling'[c] = handling[c] \cup {Head(up[c])}
          /\ \A d \in Clients \ {c} : up'[d] = up[d] /\ handling'[d] = handling[d]
      BY <1>2 DEF Spawn, TypeOK, callers
    <3>3. /\ Busy(c)' = Busy(c) \cup {Head(up[c])}
          /\ \A d \in Clients \ {c} : Busy(d)' = Busy(d)
      BY <3>2 DEF Busy
    <3>4. ASSUME NEW d \in Clients \ {c}
          PROVE  /\ handling'[d] \cap replied'[d] = {}
                 /\ \A m \in Busy(d)' : result'[d][m] # "none"
                 /\ \A i \in DOMAIN up'[d] :
                      /\ result'[d][up'[d][i]] # "none"
                      /\ up'[d][i] \notin Busy(d)'
                      /\ \A j \in DOMAIN up'[d] : up'[d][i] = up'[d][j] => i = j
      BY <3>2, <3>3 DEF IdInv
    <3>5. /\ handling'[c] \cap replied'[c] = {}
          /\ \A m \in Busy(c)' : result'[c][m] # "none"
      BY <3>1, <3>2, <3>3 DEF IdInv, Busy
    <3>6. ASSUME NEW i \in DOMAIN Tail(up[c])
          PROVE  /\ result[c][Tail(up[c])[i]] # "none"
                 /\ Tail(up[c])[i] \notin Busy(c) \cup {Head(up[c])}
                 /\ \A j \in DOMAIN Tail(up[c]) :
                      Tail(up[c])[i] = Tail(up[c])[j] => i = j
      BY <3>1 DEF IdInv
    <3> QED
      BY <3>2, <3>3, <3>4, <3>5, <3>6 DEF IdInv
<1>3. ASSUME NEW c \in Clients, NEW n \in Queries,
             WorkerStep(c, n) \/ Panic(c, n)
      PROVE  IdInv'
  <2>1. UNCHANGED <<up, result>>
    BY <1>3 DEF WorkerStep, HandleRequest, DropPermit, Panic, wires, callers
  <2>2. /\ handling'[c] \cap replied'[c] = {}
        /\ Busy(c)' \subseteq Busy(c)
        /\ \A d \in Clients \ {c} : /\ handling'[d] = handling[d]
                                    /\ replied'[d] = replied[d]
    BY <1>3 DEF WorkerStep, HandleRequest, DropPermit, Panic, IdInv, Busy, TypeOK
  <2>3. \A d \in Clients : Busy(d)' \subseteq Busy(d)
    BY <2>2 DEF Busy
  <2> QED
    BY <2>1, <2>2, <2>3 DEF IdInv
<1>4. ASSUME NEW c \in Clients, NEW n \in Queries, Query(c, n)
      PROVE  IdInv'
  <2>1. PICK r \in {"waiting", "unavailable"} :
          result' = [result EXCEPT ![c][n] = r]
    BY <1>4 DEF Query
  <2>2. /\ \A d \in Clients, m \in Queries :
             result'[d][m] = "none" => result[d][m] = "none"
        /\ result'[c][n] # "none"
    BY <2>1 DEF TypeOK
  <2>3. UNCHANGED <<handling, replied>>
    BY <1>4 DEF Query, workers
  <2>4. CASE UNCHANGED up
    BY <2>2, <2>3, <2>4, IdFrame
  <2>5. CASE up' = [up EXCEPT ![c] = Append(@, n)]
    <3>1. up[c] \in Seq(Queries) /\ result[c][n] = "none"
      BY <1>4 DEF TypeOK, Query
    <3>2. n \notin Busy(c) /\ \A i \in DOMAIN up[c] : up[c][i] # n
      BY <3>1 DEF IdInv
    <3>3. /\ up'[c] = Append(up[c], n)
          /\ \A d \in Clients \ {c} : up'[d] = up[d]
      BY <2>5 DEF TypeOK
    <3>4. \A i \in DOMAIN up'[c] :
            \/ i \in DOMAIN up[c] /\ up'[c][i] = up[c][i]
            \/ i = Len(up[c]) + 1 /\ i \notin DOMAIN up[c] /\ up'[c][i] = n
      BY <3>1, <3>3, AppendFacts
    <3>5. \A d \in Clients : Busy(d)' = Busy(d)
      BY <2>3 DEF Busy
    <3>6. \A d \in Clients : /\ Busy(d) \subseteq Queries
                             /\ \A i \in DOMAIN up[d] : up[d][i] \in Queries
      BY DEF TypeOK, Busy
    <3>7. ASSUME NEW d \in Clients
          PROVE  /\ handling'[d] \cap replied'[d] = {}
                 /\ \A m \in Busy(d)' : result'[d][m] # "none"
      BY <2>2, <2>3, <3>5, <3>6 DEF IdInv
    <3>8. ASSUME NEW d \in Clients, NEW i \in DOMAIN up'[d]
          PROVE  /\ result'[d][up'[d][i]] # "none"
                 /\ up'[d][i] \notin Busy(d)'
                 /\ \A j \in DOMAIN up'[d] : up'[d][i] = up'[d][j] => i = j
      <4>1. CASE d # c
        BY <2>2, <3>3, <3>5, <3>6, <3>8, <4>1 DEF IdInv
      <4>2. CASE d = c
        BY <2>2, <3>2, <3>4, <3>5, <3>6, <3>8, <4>2 DEF IdInv
      <4> QED
        BY <4>1, <4>2
    <3> QED
      BY <3>7, <3>8 DEF IdInv
  <2> QED
    BY <1>4, <2>4, <2>5 DEF Query
<1>5. ASSUME NEW c \in Clients, Receive(c) \/ ReceiveTorn(c) \/ GiveUp(c)
      PROVE  IdInv'
  <2>1. PICK r \in {"answered", "refused", "unavailable"} :
          call[c] # None /\ Return(c, r)
    BY <1>5 DEF Receive, ReceiveTorn, GiveUp, Outcome
  <2>2. \A d \in Clients, n \in Queries :
          result'[d][n] = "none" => result[d][n] = "none"
    BY <2>1, ReturnType DEF Results
  <2> QED
    BY <1>5, <2>2, IdFrame DEF Receive, ReceiveTorn, GiveUp, workers
<1>6. CASE UNCHANGED <<workers, up, result>>
  BY <1>6, IdFrame DEF workers
<1> QED
  BY <1>1, <1>2, <1>3, <1>4, <1>5, <1>6
  DEF Next, vars, AcceptStep, StopStep, SessionStep, ClientStep, wires, callers,
      Accept, AcceptFails, Admit, Register, SetStop, Drain, Join, DropHost,
      ShutdownActive, Handshake, Reap, EndOfStream, JoinAll, Connect, Greeted,
      Close

\* A step that leaves the workers and the counters alone.
LEMMA PermitFrame ==
  ASSUME PermitInv, UNCHANGED <<in_flight, handling, replied>>
  PROVE  PermitInv'
BY DEF PermitInv, Busy

\* A step that changes the workers of one session only.
LEMMA PermitOne ==
  ASSUME PermitInv, NEW c \in Clients,
         \A d \in Clients \ {c} : /\ Busy(d)' = Busy(d)
                                  /\ in_flight'[d] = in_flight[d],
         IsFiniteSet(Busy(c)'),
         in_flight'[c] = Cardinality(Busy(c)'),
         in_flight'[c] <= Limit
  PROVE  PermitInv'
<1> SUFFICES ASSUME NEW d \in Clients
             PROVE  /\ IsFiniteSet(Busy(d)')
                    /\ in_flight'[d] = Cardinality(Busy(d)')
                    /\ in_flight'[d] <= Limit
  BY DEF PermitInv
<1>1. CASE d = c
  BY <1>1
<1>2. CASE d # c
  BY <1>2 DEF PermitInv
<1> QED
  BY <1>1, <1>2

\* A worker that ends gives back one permit, and only that.
LEMMA PermitBack ==
  ASSUME TypeOK, PermitInv, NEW c \in Clients, NEW n \in Busy(c),
         \A d \in Clients \ {c} : Busy(d)' = Busy(d),
         Busy(c)' = Busy(c) \ {n},
         in_flight' = [in_flight EXCEPT ![c] = @ - 1]
  PROVE  PermitInv'
<1>1. /\ IsFiniteSet(Busy(c)')
      /\ Cardinality(Busy(c)') = Cardinality(Busy(c)) - 1
  <2>1. IsFiniteSet(Busy(c))
    BY DEF PermitInv
  <2>2. /\ IsFiniteSet(Busy(c) \ {n})
        /\ Cardinality(Busy(c) \ {n}) = Cardinality(Busy(c)) - 1
    BY <2>1, FS_RemoveElement, Zenon
  <2> QED
    BY <2>2, Zenon
<1>2. /\ in_flight'[c] = in_flight[c] - 1
      /\ \A d \in Clients \ {c} : in_flight'[d] = in_flight[d]
  BY DEF TypeOK
<1>3. in_flight'[c] = Cardinality(Busy(c)')
  BY <1>1, <1>2 DEF PermitInv
<1>4. in_flight'[c] <= Limit
  BY <1>2, RpcAssumption DEF PermitInv, TypeOK
<1> QED
  BY <1>1, <1>2, <1>3, <1>4, PermitOne

\* Every step keeps the counters exact.
LEMMA PermitKeeps ==
  ASSUME TypeOK, IdInv, PermitInv, [Next]_vars
  PROVE  PermitInv'
<1> USE RpcAssumption
<1>1. ASSUME NEW c \in Clients, Spawn(c)
      PROVE  PermitInv'
  <2>1. up[c] \in Seq(Queries) /\ up[c] # <<>>
    BY <1>1 DEF Spawn, TypeOK
  <2>2. PICK n \in Queries : n = Head(up[c]) /\ n \notin Busy(c)
    BY <2>1, TailFacts DEF IdInv
  <2>3. /\ Busy(c)' = Busy(c) \cup {n}
        /\ in_flight'[c] = in_flight[c] + 1
        /\ \A d \in Clients \ {c} : /\ Busy(d)' = Busy(d)
                                    /\ in_flight'[d] = in_flight[d]
    BY <1>1, <2>2 DEF Spawn, Busy, TypeOK
  <2>4. /\ IsFiniteSet(Busy(c)')
        /\ Cardinality(Busy(c)') = Cardinality(Busy(c)) + 1
    <3>1. IsFiniteSet(Busy(c))
      BY DEF PermitInv
    <3>2. /\ IsFiniteSet(Busy(c) \cup {n})
          /\ Cardinality(Busy(c) \cup {n}) = Cardinality(Busy(c)) + 1
      BY <2>2, <3>1, FS_AddElement, Zenon
    <3> QED
      BY <2>3, <3>2, Zenon
  <2>5. in_flight'[c] = Cardinality(Busy(c)')
    BY <2>3, <2>4 DEF PermitInv
  <2>6. in_flight'[c] <= Limit
    BY <1>1, <2>3 DEF Spawn, Admissible, TypeOK
  <2> QED
    BY <2>3, <2>4, <2>5, <2>6, PermitOne
<1>2. ASSUME NEW c \in Clients, NEW n \in Queries, HandleRequest(c, n)
      PROVE  PermitInv'
  <2>1. \A d \in Clients : Busy(d)' = Busy(d)
    BY <1>2 DEF HandleRequest, Busy, TypeOK
  <2>2. UNCHANGED in_flight
    BY <1>2 DEF HandleRequest
  <2> QED
    BY <2>1, <2>2 DEF PermitInv
<1>3. ASSUME NEW c \in Clients, NEW n \in Queries, Panic(c, n) \/ DropPermit(c, n)
      PROVE  PermitInv'
  <2>1. /\ n \in Busy(c)
        /\ \A d \in Clients \ {c} : Busy(d)' = Busy(d)
        /\ Busy(c)' = Busy(c) \ {n}
    BY <1>3 DEF Panic, DropPermit, Busy, TypeOK, IdInv
  <2>2. in_flight' = [in_flight EXCEPT ![c] = @ - 1]
    BY <1>3 DEF Panic, DropPermit
  <2> QED
    BY <2>1, <2>2, PermitBack
<1>4. CASE UNCHANGED <<in_flight, handling, replied>>
  BY <1>4, PermitFrame
<1> QED
  BY <1>1, <1>2, <1>3, <1>4
  DEF Next, vars, AcceptStep, StopStep, SessionStep, WorkerStep, ClientStep,
      workers, Accept, AcceptFails, Admit, Register, SetStop, Drain, Join,
      DropHost, ShutdownActive, Handshake, Reap, Refuse, EndOfStream, JoinAll,
      Connect, Greeted, Query, Receive, ReceiveTorn, GiveUp, Close

-----------------------------------------------------------------------------
(* The inductive invariant and the theorems.                               *)

RpcInv == TypeOK /\ StopInv /\ IdInv /\ PermitInv

LEMMA InitRpc == Init => RpcInv
<1> SUFFICES ASSUME Init PROVE RpcInv
  OBVIOUS
<1>1. TypeOK
  BY InitType
<1>2. StopInv
  BY RpcAssumption DEF Init, StopInv, HandInv, StreamInv, StopClosesAll
<1>3. \A c \in Clients : Busy(c) = {} /\ DOMAIN up[c] = {} /\ handling[c] = {}
  BY DEF Init, Busy
<1>4. IdInv
  BY <1>3 DEF IdInv
<1>5. \A c \in Clients : in_flight[c] = 0
  BY DEF Init
<1>6. PermitInv
  BY <1>3, <1>5, FS_EmptySet, RpcAssumption DEF PermitInv
<1> QED
  BY <1>1, <1>2, <1>4, <1>6 DEF RpcInv

LEMMA TypeKeeps ==
  ASSUME RpcInv, [Next]_vars
  PROVE  TypeOK'
<1> USE DEF RpcInv
<1>1. CASE AcceptStep \/ AcceptFails \/ SetStop \/ StopStep
  BY <1>1, ListenerType DEF StopInv
<1>2. ASSUME NEW c \in Clients, SessionStep(c)
      PROVE  TypeOK'
  BY <1>2, SessionType
<1>3. ASSUME NEW c \in Clients, NEW n \in Queries,
             WorkerStep(c, n) \/ Panic(c, n)
      PROVE  TypeOK'
  <2>1. IsFiniteSet(Busy(c)) /\ in_flight[c] = Cardinality(Busy(c))
    BY DEF PermitInv
  <2>2. n \in Busy(c) => Cardinality(Busy(c)) # 0
    BY <2>1, FS_EmptySet
  <2>3. n \in handling[c] \cup replied[c] => in_flight[c] > 0
    BY <2>1, <2>2 DEF Busy, TypeOK
  <2> QED
    BY <1>3, <2>3, WorkerType
<1>4. ASSUME NEW c \in Clients, ClientStep(c) \/ \E n \in Queries : Query(c, n)
      PROVE  TypeOK'
  BY <1>4, ClientType
<1>5. CASE UNCHANGED vars
  BY <1>5 DEF TypeOK, vars, listener, workers, wires, callers
<1> QED
  BY <1>1, <1>2, <1>3, <1>4, <1>5 DEF Next

LEMMA RpcInvariant == Spec => []RpcInv
<1>1. RpcInv /\ [Next]_vars => RpcInv'
  BY TypeKeeps, StopKeeps, IdKeeps, PermitKeeps DEF RpcInv
<1> QED
  BY <1>1, InitRpc, PTL DEF Spec

\* The types, the counters of the sessions among them, which are natural
\* numbers although AtomicUsize would wrap.
THEOREM RpcTypeCorrect == Spec => []TypeOK
<1>1. RpcInv => TypeOK
  BY DEF RpcInv
<1> QED
  BY <1>1, RpcInvariant, PTL

\* After LocalRpcHost::stop no stream of any bridge is open, for any number
\* of bridges and wherever the accept thread was when the flag was set.
THEOREM StopClosesAllAlways == Spec => []StopClosesAll
<1>1. RpcInv => StopClosesAll
  BY DEF RpcInv, StopInv
<1> QED
  BY <1>1, RpcInvariant, PTL

\* The in-flight counter of every session is the number of its workers and
\* never above the limit, whatever the limit and however the workers end.
THEOREM PermitsExactAlways == Spec => []PermitsExact
<1>1. RpcInv => PermitsExact
  BY DEF RpcInv, PermitInv, PermitsExact, Busy
<1> QED
  BY <1>1, RpcInvariant, PTL

-----------------------------------------------------------------------------
(* What a bridge reports of a query.                                       *)

\* Every frame on its way to a bridge is one the host has written to it.
WrittenInv ==
    \A c \in Clients : \A i \in DOMAIN down[c] : down[c][i] \in sent[c]

\* The inductive invariant behind AnswersAreOwn.
OwnInv == WrittenInv /\ AnswersAreOwn

\* A step that writes at most one frame and completes no query.
LEMMA OwnWrite ==
  ASSUME TypeOK, TypeOK', OwnInv, NEW c \in Clients,
         NEW n \in Queries, NEW body \in {"answer", "error"},
         WriteLocked(c, n, body) \/ UNCHANGED <<down, sent>>,
         UNCHANGED result
  PROVE  OwnInv'
<1>1. CASE UNCHANGED <<down, sent>>
  BY <1>1 DEF OwnInv, WrittenInv, AnswersAreOwn
<1>2. CASE WriteLocked(c, n, body)
  <2>1. PICK x \in Reply : x = [id |-> n, body |-> body]
    BY DEF Reply
  <2>2. /\ down'[c] = Append(down[c], x) /\ sent'[c] = sent[c] \cup {x}
        /\ \A d \in Clients \ {c} : down'[d] = down[d] /\ sent'[d] = sent[d]
    BY <1>2, <2>1 DEF WriteLocked, TypeOK
  <2>3. down[c] \in Seq(Reply)
    BY DEF TypeOK
  <2>4. \A i \in DOMAIN down'[c] :
          (i \in DOMAIN down[c] /\ down'[c][i] = down[c][i]) \/ down'[c][i] = x
    BY <2>2, <2>3, AppendFacts
  <2>5. WrittenInv'
    BY <2>2, <2>4 DEF OwnInv, WrittenInv
  <2>6. \A d \in Clients : sent[d] \subseteq sent'[d]
    BY <2>2
  <2>7. AnswersAreOwn'
    BY <2>6 DEF OwnInv, AnswersAreOwn
  <2> QED
    BY <2>5, <2>7 DEF OwnInv
<1> QED
  BY <1>1, <1>2

\* A call that returns with what the first frame says, or with nothing.
LEMMA OwnReturn ==
  ASSUME TypeOK, OwnInv, NEW c \in Clients, call[c] # None,
         NEW r \in {"answered", "refused", "unavailable"}, Return(c, r),
         r = "answered" => [id |-> call[c], body |-> "answer"] \in sent[c],
         r = "refused" => [id |-> call[c], body |-> "error"] \in sent[c],
         UNCHANGED sent
  PROVE  AnswersAreOwn'
<1>1. call[c] \in Queries /\ result[c] \in [Queries -> Results]
  BY DEF TypeOK
<1>2. /\ result'[c] = [result[c] EXCEPT ![call[c]] = r]
      /\ \A d \in Clients \ {c} : result'[d] = result[d]
  BY DEF Return, TypeOK
<1>3. ASSUME NEW d \in Clients, NEW n \in Queries
      PROVE  /\ result'[d][n] = "answered" => [id |-> n, body |-> "answer"] \in sent[d]
             /\ result'[d][n] = "refused" => [id |-> n, body |-> "error"] \in sent[d]
  <2>1. CASE d = c /\ n = call[c]
    BY <1>1, <1>2, <2>1
  <2>2. CASE d # c \/ n # call[c]
    <3>1. result'[d][n] = result[d][n]
      BY <1>1, <1>2, <2>2
    <3> QED
      BY <3>1 DEF OwnInv, AnswersAreOwn
  <2> QED
    BY <2>1, <2>2
<1> QED
  BY <1>3 DEF AnswersAreOwn

\* Reading a frame leaves only written ones.
LEMMA OwnRead ==
  ASSUME TypeOK, OwnInv, NEW c \in Clients, down[c] # <<>>, UNCHANGED sent,
         down' = [down EXCEPT ![c] = Tail(@)]
  PROVE  WrittenInv'
<1>1. down[c] \in Seq(Reply)
  BY DEF TypeOK
<1>2. /\ down'[c] = Tail(down[c])
      /\ \A d \in Clients \ {c} : down'[d] = down[d]
  BY DEF TypeOK
<1>3. \A i \in DOMAIN down'[c] : down'[c][i] \in sent[c]
  BY <1>1, <1>2, TailFacts DEF OwnInv, WrittenInv
<1> QED
  BY <1>2, <1>3 DEF OwnInv, WrittenInv

\* Every step keeps it: replies are matched with the query by their id.
LEMMA OwnKeeps ==
  ASSUME TypeOK, TypeOK', OwnInv, [Next]_vars
  PROVE  OwnInv'
<1> USE RpcAssumption
<1>1. ASSUME NEW c \in Clients, Refuse(c)
      PROVE  OwnInv'
  <2>1. PICK n \in Queries : n = Head(up[c])
    BY <1>1, TailFacts DEF Refuse, TypeOK
  <2> QED
    BY <1>1, <2>1, OwnWrite DEF Refuse, callers
<1>2. ASSUME NEW c \in Clients, NEW n \in Queries, HandleRequest(c, n)
      PROVE  OwnInv'
  BY <1>2, OwnWrite DEF HandleRequest, callers
<1>3. ASSUME NEW c \in Clients, Receive(c)
      PROVE  OwnInv'
  <2>1. down[c] \in Seq(Reply) /\ down[c] # <<>> /\ UNCHANGED sent /\ call[c] # None
    BY <1>3 DEF Receive, TypeOK
  <2>2. PICK x \in Reply : x = Head(down[c]) /\ x \in sent[c]
    BY <2>1, TailFacts DEF OwnInv, WrittenInv
  <2>3. PICK r \in {"answered", "refused", "unavailable"} :
          /\ Return(c, r)
          /\ r = "answered" => x.id = call[c] /\ x.body = "answer"
          /\ r = "refused" => x.id = call[c] /\ x.body # "answer"
    BY <1>3, <2>2 DEF Receive, Outcome
  <2>4. /\ r = "answered" => x = [id |-> call[c], body |-> "answer"]
        /\ r = "refused" => x = [id |-> call[c], body |-> "error"]
    BY <2>2, <2>3 DEF Reply
  <2>5. AnswersAreOwn'
    BY <2>1, <2>2, <2>3, <2>4, OwnReturn
  <2>6. WrittenInv'
    BY <1>3, <2>1, OwnRead DEF Receive
  <2> QED
    BY <2>5, <2>6 DEF OwnInv
<1>4. ASSUME NEW c \in Clients, ReceiveTorn(c) \/ GiveUp(c)
      PROVE  OwnInv'
  <2>1. call[c] # None /\ Return(c, "unavailable") /\ UNCHANGED sent
    BY <1>4 DEF ReceiveTorn, GiveUp
  <2>2. AnswersAreOwn'
    BY <2>1, OwnReturn
  <2>3. CASE UNCHANGED down
    BY <2>1, <2>2, <2>3 DEF OwnInv, WrittenInv
  <2>4. CASE ReceiveTorn(c) /\ down' = [down EXCEPT ![c] = Tail(@)]
    BY <2>1, <2>2, <2>4, OwnRead DEF OwnInv, ReceiveTorn
  <2> QED
    BY <1>4, <2>3, <2>4 DEF ReceiveTorn, GiveUp
<1>5. ASSUME NEW c \in Clients, NEW n \in Queries, Query(c, n)
      PROVE  OwnInv'
  <2>1. PICK r \in {"waiting", "unavailable"} :
          result' = [result EXCEPT ![c][n] = r]
    BY <1>5 DEF Query
  <2>2. \A d \in Clients, m \in Queries :
          result'[d][m] = result[d][m] \/ result'[d][m] \in {"waiting", "unavailable"}
    BY <2>1 DEF TypeOK
  <2>3. UNCHANGED <<down, sent>>
    BY <1>5 DEF Query
  <2> QED
    BY <2>2, <2>3 DEF OwnInv, WrittenInv, AnswersAreOwn
<1>6. CASE UNCHANGED <<down, sent, result>>
  BY <1>6 DEF OwnInv, WrittenInv, AnswersAreOwn
<1> QED
  BY <1>1, <1>2, <1>3, <1>4, <1>5, <1>6
  DEF Next, vars, AcceptStep, StopStep, SessionStep, WorkerStep, ClientStep,
      wires, callers, Accept, AcceptFails, Admit, Register, SetStop, Drain, Join,
      DropHost, ShutdownActive, Handshake, Reap, Spawn, EndOfStream, JoinAll,
      Panic, DropPermit, Connect, Greeted, Close

\* What a bridge reports of a query is what the host wrote for that query,
\* with any number of late replies of given-up queries before it, and however
\* often a deadline comes in the middle of a frame.
THEOREM AnswersAreOwnAlways == Spec => []AnswersAreOwn
<1>1. Init => OwnInv
  <2> SUFFICES ASSUME Init PROVE OwnInv
    OBVIOUS
  <2>1. \A c \in Clients : DOMAIN down[c] = {}
    BY DEF Init
  <2>2. \A c \in Clients, n \in Queries : result[c][n] = "none"
    BY DEF Init
  <2> QED
    BY <2>1, <2>2 DEF OwnInv, WrittenInv, AnswersAreOwn
<1>2. OwnInv => AnswersAreOwn
  BY DEF OwnInv
<1>3. TypeOK /\ TypeOK' /\ OwnInv /\ [Next]_vars => OwnInv'
  BY OwnKeeps
<1> QED
  BY <1>1, <1>2, <1>3, RpcTypeCorrect, PTL DEF Spec

-----------------------------------------------------------------------------
(* A bridge that waits has something to wait for.                          *)

\* The stages of a connection follow each other: a session is served only
\* after the hello of its client was accepted, and a query sent only after
\* the hello of the session was read.
StageInv ==
    \A c \in Clients :
        /\ client[c] = "idle" => session[c] = "none" /\ hand # c
        /\ stream[c] = "backlog" => session[c] = "none" /\ hand # c /\ client[c] # "idle"
        /\ hand = c => session[c] = "none"
        /\ client[c] = "ready" => session[c] \notin {"none", "handshake", "rejected"}
        /\ call[c] # None => client[c] = "ready"

\* A step that leaves the stages alone or only closes streams.
LEMMA StageFrame ==
  ASSUME TypeOK, StageInv, UNCHANGED <<client, call, session>>,
         hand' = hand \/ hand' = None,
         \A c \in Clients : stream'[c] = stream[c] \/ stream'[c] = "shut"
  PROVE  StageInv'
BY RpcAssumption DEF StageInv, TypeOK

\* Every step keeps the order of the stages.
LEMMA StageKeeps ==
  ASSUME TypeOK, HandInv, StageInv, [Next]_vars
  PROVE  StageInv'
<1> USE RpcAssumption
<1>1. CASE Accept
  <2>1. CASE AcceptEnd({})
    BY <1>1, <2>1, StageFrame DEF Accept, AcceptEnd, Shut, callers
  <2>2. ASSUME NEW c \in Backlog, hand' = c,
               stream' = [stream EXCEPT ![c] = "open"], accept' = "accepted"
        PROVE  StageInv'
    BY <1>1, <2>2 DEF Accept, Backlog, StageInv, TypeOK, callers
  <2> QED
    BY <1>1, <2>1, <2>2 DEF Accept
<1>2. CASE Admit \/ AcceptFails
  BY <1>2, StageFrame DEF Admit, AcceptFails, AcceptEnd, Shut, callers
<1>3. CASE Register
  <2>1. hand \in Clients /\ hand' = None
    BY <1>3 DEF Register, HandInv, TypeOK
  <2>2. /\ \A d \in Clients \ {hand} : session'[d] = session[d]
        /\ UNCHANGED <<client, call, stream>>
    BY <1>3 DEF Register, callers, TypeOK
  <2> QED
    BY <2>1, <2>2 DEF StageInv, TypeOK
<1>4. CASE SetStop \/ StopStep
  BY <1>4, StageFrame
     DEF SetStop, StopStep, Drain, Join, DropHost, ShutdownActive, Shut, callers
<1>5. ASSUME NEW c \in Clients, SessionStep(c)
      PROVE  StageInv'
  <2>1. session[c] # "none" /\ session'[c] # "none"
    BY <1>5 DEF SessionStep, Handshake, Reap, Refuse, Spawn, EndOfStream, JoinAll, TypeOK
  <2>2. session[c] = "handshake" \/ session'[c] \notin {"handshake", "rejected"}
    BY <1>5 DEF SessionStep, Handshake, Reap, Refuse, Spawn, EndOfStream, JoinAll, TypeOK
  <2>3. \A d \in Clients \ {c} : session'[d] = session[d]
    BY <1>5 DEF SessionStep, Handshake, Reap, Refuse, Spawn, EndOfStream, JoinAll, TypeOK
  <2>4. UNCHANGED <<hand, stream, client, call>>
    BY <1>5 DEF SessionStep, Handshake, Reap, Refuse, Spawn, EndOfStream, JoinAll,
                listener, callers
  <2> QED
    BY <2>1, <2>2, <2>3, <2>4 DEF StageInv
<1>6. ASSUME NEW c \in Clients, NEW n \in Queries, WorkerStep(c, n) \/ Panic(c, n)
      PROVE  StageInv'
  <2>1. UNCHANGED <<hand, stream, session, client, call>>
    BY <1>6 DEF WorkerStep, HandleRequest, DropPermit, Panic, listener, callers
  <2> QED
    BY <2>1, StageFrame
<1>7. ASSUME NEW c \in Clients, NEW n \in Queries, Query(c, n)
      PROVE  StageInv'
  <2>1. /\ client[c] = "ready"
        /\ \A d \in Clients \ {c} : call'[d] = call[d]
        /\ UNCHANGED <<hand, stream, session, client>>
    BY <1>7 DEF Query, TypeOK, listener
  <2> QED
    BY <2>1 DEF StageInv
<1>8. ASSUME NEW c \in Clients, ClientStep(c)
      PROVE  StageInv'
  <2>1. CASE Connect(c)
    BY <2>1 DEF Connect, StageInv, TypeOK, listener
  <2>2. CASE Greeted(c) \/ Close(c)
    <3>1. /\ client[c] # "idle" /\ client'[c] \in {"ready", "closed"}
          /\ client'[c] = "ready" => session[c] \in {"looping", "reading", "joining", "ended"}
          /\ \A d \in Clients \ {c} : client'[d] = client[d]
          /\ UNCHANGED <<hand, stream, session, call>>
      BY <2>2 DEF Greeted, Close, TypeOK, listener
    <3>2. call[c] = None
      BY <2>2 DEF Greeted, Close, StageInv
    <3> QED
      BY <3>1, <3>2 DEF StageInv
  <2>3. CASE Receive(c) \/ ReceiveTorn(c) \/ GiveUp(c)
    <3>1. /\ \A d \in Clients : call'[d] = call[d] \/ call'[d] = None
          /\ UNCHANGED <<hand, stream, session, client>>
      BY <2>3 DEF Receive, ReceiveTorn, GiveUp, Return, TypeOK, listener
    <3> QED
      BY <3>1 DEF StageInv
  <2> QED
    BY <1>8, <2>1, <2>2, <2>3 DEF ClientStep
<1>9. CASE UNCHANGED vars
  BY <1>9, StageFrame DEF vars, listener, callers
<1> QED
  BY <1>1, <1>2, <1>3, <1>4, <1>5, <1>6, <1>7, <1>8, <1>9 DEF Next, AcceptStep

\* Where the reply to query n of client c can be.
Coming(c, n) ==
    \/ \E i \in DOMAIN up[c] : up[c][i] = n
    \/ n \in handling[c]
    \/ \E i \in DOMAIN down[c] : down[c][i].id = n

\* A step that makes no client wait and keeps what is under way.
LEMMA ComingFrame ==
  ASSUME ReplyComing,
         \A c \in Clients :
            \/ call'[c] = None
            \/ c \in failed'
            \/ session'[c] \notin {"looping", "reading"}
            \/ /\ call'[c] = call[c]
               /\ stream'[c] = "open" => stream[c] = "open"
               /\ c \in failed => c \in failed'
               /\ session[c] \in {"looping", "reading"}
               /\ Coming(c, call[c]) => Coming(c, call[c])'
  PROVE  ReplyComing'
<1> SUFFICES ASSUME NEW c \in Clients, call'[c] # None, stream'[c] = "open",
                    c \notin failed', session'[c] \in {"looping", "reading"}
             PROVE  Coming(c, call[c])'
  BY DEF ReplyComing, Coming
<1>1. /\ call'[c] = call[c] /\ stream[c] = "open" /\ c \notin failed
      /\ session[c] \in {"looping", "reading"}
      /\ Coming(c, call[c]) => Coming(c, call[c])'
  OBVIOUS
<1>2. Coming(c, call[c])
  BY <1>1 DEF ReplyComing, Coming
<1> QED
  BY <1>1, <1>2

\* Taking the first request out of the stream loses no other.
LEMMA ComingTail ==
  ASSUME NEW S, NEW s \in Seq(S), s # <<>>, NEW i \in DOMAIN s
  PROVE  s[i] = Head(s) \/ \E j \in DOMAIN Tail(s) : Tail(s)[j] = s[i]
<1>1. i \in 1 .. Len(s)
  OBVIOUS
<1>2. CASE i = 1
  BY <1>1, <1>2
<1>3. CASE i # 1
  <2>1. i - 1 \in DOMAIN Tail(s) /\ Tail(s)[i - 1] = s[i]
    BY <1>1, <1>3
  <2> QED
    BY <1>1, <2>1
<1> QED
  BY <1>2, <1>3

\* A frame that is written joins the ones under way.
LEMMA ComingWrite ==
  ASSUME TypeOK, NEW c \in Clients, NEW n \in Queries,
         NEW body \in {"answer", "error"}, WriteLocked(c, n, body)
  PROVE  /\ \E i \in DOMAIN down'[c] : down'[c][i].id = n
         /\ \A m : (\E i \in DOMAIN down[c] : down[c][i].id = m)
                   => \E i \in DOMAIN down'[c] : down'[c][i].id = m
         /\ \A d \in Clients \ {c} : down'[d] = down[d]
<1>1. PICK x \in Reply : x = [id |-> n, body |-> body]
  BY DEF Reply
<1>2. /\ down'[c] = Append(down[c], x)
      /\ \A d \in Clients \ {c} : down'[d] = down[d]
  BY <1>1 DEF WriteLocked, TypeOK
<1>3. down[c] \in Seq(Reply)
  BY DEF TypeOK
<1>4. /\ Len(down[c]) + 1 \in DOMAIN down'[c]
      /\ down'[c][Len(down[c]) + 1] = x
      /\ \A i \in DOMAIN down[c] : i \in DOMAIN down'[c] /\ down'[c][i] = down[c][i]
  BY <1>2, <1>3
<1>5. x.id = n
  BY <1>1
<1> QED
  BY <1>2, <1>4, <1>5

\* Every step keeps it: a request leaves the stream for a worker or for an
\* error reply, and a worker leaves it as a reply or fails the session.
LEMMA ComingKeeps ==
  ASSUME TypeOK, HandInv, StageInv, ReplyComing, [Next]_vars
  PROVE  ReplyComing'
<1> USE RpcAssumption
<1>1. CASE AcceptStep \/ AcceptFails \/ SetStop \/ StopStep
  <2>1. UNCHANGED <<call, failed, up, handling, down>>
    BY <1>1 DEF AcceptStep, Accept, AcceptFails, Admit, Register, SetStop, StopStep,
                Drain, Join, DropHost, ShutdownActive, workers, wires, callers
  <2>2. ASSUME NEW c \in Clients
        PROVE  \/ session'[c] \notin {"looping", "reading"}
               \/ /\ session[c] \in {"looping", "reading"}
                  /\ stream'[c] = "open" => stream[c] = "open"
    <3>1. CASE Accept
      <4>1. CASE AcceptEnd({})
        BY <3>1, <4>1 DEF Accept, AcceptEnd, Shut
      <4>2. ASSUME NEW d \in Backlog, stream' = [stream EXCEPT ![d] = "open"]
            PROVE  \/ session'[c] \notin {"looping", "reading"}
                   \/ /\ session[c] \in {"looping", "reading"}
                      /\ stream'[c] = "open" => stream[c] = "open"
        BY <3>1, <4>2 DEF Accept, Backlog, StageInv, TypeOK
      <4> QED
        BY <3>1, <4>1, <4>2 DEF Accept
    <3>2. CASE Register
      <4>1. hand \in Clients
        BY <3>2 DEF Register, HandInv, TypeOK
      <4> QED
        BY <3>2, <4>1 DEF Register, TypeOK
    <3>3. CASE Admit \/ AcceptFails \/ SetStop \/ StopStep
      BY <3>3 DEF Admit, AcceptFails, AcceptEnd, SetStop, StopStep, Drain, Join,
                  DropHost, ShutdownActive, Shut
    <3> QED
      BY <1>1, <3>1, <3>2, <3>3 DEF AcceptStep
  <2> QED
    BY <2>1, <2>2, ComingFrame DEF Coming
<1>2. ASSUME NEW c \in Clients, Handshake(c) \/ Reap(c) \/ EndOfStream(c) \/ JoinAll(c)
      PROVE  ReplyComing'
  <2>1. UNCHANGED <<call, client, stream, failed, up, handling, down>>
    BY <1>2 DEF Handshake, Reap, EndOfStream, JoinAll, listener, workers, wires, callers
  <2>2. /\ \A d \in Clients \ {c} : session'[d] = session[d]
        /\ \/ session[c] = "handshake"
           \/ session'[c] \notin {"looping", "reading"}
           \/ session[c] \in {"looping", "reading"}
    BY <1>2 DEF Handshake, Reap, EndOfStream, JoinAll, TypeOK
  <2>3. session[c] = "handshake" => call[c] = None
    BY DEF StageInv
  <2> QED
    BY <2>1, <2>2, <2>3, ComingFrame DEF Coming
<1>3. ASSUME NEW c \in Clients, Refuse(c)
      PROVE  ReplyComing'
  <2>1. up[c] \in Seq(Queries) /\ up[c] # <<>>
    BY <1>3 DEF Refuse, TypeOK
  <2>2. PICK n \in Queries : n = Head(up[c])
    BY <2>1, TailFacts
  <2>3. /\ up'[c] = Tail(up[c]) /\ session[c] = "reading"
        /\ \A d \in Clients \ {c} : session'[d] = session[d] /\ up'[d] = up[d]
        /\ UNCHANGED <<call, stream, failed, handling>>
    BY <1>3 DEF Refuse, TypeOK, workers, callers
  <2>4. CASE WriteLocked(c, n, "error")
    <3>1. ASSUME Coming(c, call[c]) PROVE Coming(c, call[c])'
      <4>1. \/ call[c] = n
            \/ \E i \in DOMAIN up'[c] : up'[c][i] = call[c]
            \/ call[c] \in handling[c]
            \/ \E i \in DOMAIN down[c] : down[c][i].id = call[c]
        <5>1. ASSUME NEW i \in DOMAIN up[c], up[c][i] = call[c]
              PROVE  call[c] = n \/ \E j \in DOMAIN up'[c] : up'[c][j] = call[c]
          BY <2>1, <2>2, <2>3, <5>1, ComingTail
        <5> QED
          BY <3>1, <5>1 DEF Coming
      <4>2. /\ \E i \in DOMAIN down'[c] : down'[c][i].id = n
            /\ \A m : (\E i \in DOMAIN down[c] : down[c][i].id = m)
                      => \E i \in DOMAIN down'[c] : down'[c][i].id = m
        BY <2>4, ComingWrite
      <4> QED
        BY <2>3, <4>1, <4>2 DEF Coming
    <3>2. \A d \in Clients \ {c} : Coming(d, call[d]) => Coming(d, call[d])'
      BY <2>3, <2>4, ComingWrite DEF Coming
    <3> QED
      BY <2>3, <3>1, <3>2, ComingFrame
  <2>5. CASE session' = [session EXCEPT ![c] = "ended"] /\ UNCHANGED down
    <3>1. session'[c] = "ended"
      BY <2>5 DEF TypeOK
    <3>2. \A d \in Clients \ {c} : Coming(d, call[d]) => Coming(d, call[d])'
      BY <2>3, <2>5 DEF Coming
    <3> QED
      BY <2>3, <3>1, <3>2, ComingFrame
  <2> QED
    BY <1>3, <2>2, <2>4, <2>5 DEF Refuse
<1>4. ASSUME NEW c \in Clients, Spawn(c)
      PROVE  ReplyComing'
  <2>1. up[c] \in Seq(Queries) /\ up[c] # <<>>
    BY <1>4 DEF Spawn, TypeOK
  <2>2. /\ up'[c] = Tail(up[c]) /\ session[c] = "reading"
        /\ handling'[c] = handling[c] \cup {Head(up[c])}
        /\ \A d \in Clients \ {c} : /\ session'[d] = session[d] /\ up'[d] = up[d]
                                    /\ handling'[d] = handling[d]
        /\ UNCHANGED <<call, stream, failed, down>>
    BY <1>4 DEF Spawn, TypeOK, callers
  <2>3. ASSUME Coming(c, call[c]) PROVE Coming(c, call[c])'
    <3>1. CASE \E i \in DOMAIN up[c] : up[c][i] = call[c]
      <4>1. call[c] = Head(up[c]) \/ \E i \in DOMAIN up'[c] : up'[c][i] = call[c]
        <5>1. PICK i \in DOMAIN up[c] : up[c][i] = call[c]
          BY <3>1
        <5> QED
          BY <2>1, <2>2, <5>1, ComingTail
      <4> QED
        BY <2>2, <4>1 DEF Coming
    <3>2. CASE ~ \E i \in DOMAIN up[c] : up[c][i] = call[c]
      BY <2>2, <2>3, <3>2 DEF Coming
    <3> QED
      BY <3>1, <3>2
  <2>4. \A d \in Clients \ {c} : Coming(d, call[d]) => Coming(d, call[d])'
    BY <2>2 DEF Coming
  <2> QED
    BY <2>2, <2>3, <2>4, ComingFrame
<1>5. ASSUME NEW c \in Clients, NEW n \in Queries, WorkerStep(c, n) \/ Panic(c, n)
      PROVE  ReplyComing'
  <2>1. /\ \A d \in Clients \ {c} : handling'[d] = handling[d]
        /\ handling[c] \ {n} \subseteq handling'[c]
        /\ failed \subseteq failed'
        /\ UNCHANGED <<call, stream, session, up>>
    BY <1>5 DEF WorkerStep, HandleRequest, DropPermit, Panic, TypeOK, wires, callers
  <2>2. CASE UNCHANGED down /\ (handling[c] \subseteq handling'[c] \/ c \in failed')
    <3>1. \A d \in Clients : (d = c /\ c \in failed') \/ (Coming(d, call[d]) => Coming(d, call[d])')
      BY <2>1, <2>2 DEF Coming
    <3> QED
      BY <2>1, <3>1, ComingFrame
  <2>3. ASSUME NEW body \in {"answer", "error"}, WriteLocked(c, n, body)
        PROVE  ReplyComing'
    <3>1. ASSUME Coming(c, call[c]) PROVE Coming(c, call[c])'
      BY <2>1, <2>3, <3>1, ComingWrite DEF Coming
    <3>2. \A d \in Clients \ {c} : Coming(d, call[d]) => Coming(d, call[d])'
      BY <2>1, <2>3, ComingWrite DEF Coming
    <3> QED
      BY <2>1, <3>1, <3>2, ComingFrame
  <2> QED
    BY <1>5, <2>2, <2>3
       DEF WorkerStep, HandleRequest, DropPermit, Panic, wires
<1>6. ASSUME NEW c \in Clients, NEW n \in Queries, Query(c, n)
      PROVE  ReplyComing'
  <2>1. UNCHANGED <<stream, session, failed, handling, down>>
    BY <1>6 DEF Query, workers
  <2>2. CASE stream[c] = "open"
    <3>1. /\ up'[c] = Append(up[c], n) /\ call'[c] = n
          /\ \A d \in Clients \ {c} : up'[d] = up[d] /\ call'[d] = call[d]
      BY <1>6, <2>2 DEF Query, TypeOK
    <3>2. \E i \in DOMAIN up'[c] : up'[c][i] = n
      <4>1. up[c] \in Seq(Queries)
        BY DEF TypeOK
      <4>2. Len(up[c]) + 1 \in DOMAIN Append(up[c], n) /\ Append(up[c], n)[Len(up[c]) + 1] = n
        BY <4>1
      <4> QED
        BY <3>1, <4>2
    <3> QED
      BY <2>1, <3>1, <3>2 DEF ReplyComing
  <2>3. CASE stream[c] # "open"
    BY <1>6, <2>1, <2>3 DEF Query, ReplyComing
  <2> QED
    BY <2>2, <2>3
<1>7. ASSUME NEW c \in Clients, Receive(c) \/ ReceiveTorn(c) \/ GiveUp(c)
      PROVE  ReplyComing'
  <2>1. /\ call'[c] = None
        /\ \A d \in Clients \ {c} : call'[d] = call[d] /\ down'[d] = down[d]
        /\ UNCHANGED <<stream, session, failed, up, handling>>
    BY <1>7 DEF Receive, ReceiveTorn, GiveUp, Return, TypeOK, workers
  <2> QED
    BY <2>1 DEF ReplyComing
<1>8. ASSUME NEW c \in Clients, Connect(c) \/ Greeted(c) \/ Close(c)
      PROVE  ReplyComing'
  <2>1. /\ \A d \in Clients : stream'[d] = "open" => stream[d] = "open"
        /\ UNCHANGED <<call, session, failed, up, handling, down>>
    BY <1>8 DEF Connect, Greeted, Close, TypeOK, workers, wires
  <2> QED
    BY <2>1 DEF ReplyComing
<1>9. CASE UNCHANGED vars
  BY <1>9 DEF vars, workers, wires, callers, ReplyComing
<1> QED
  BY <1>1, <1>2, <1>3, <1>4, <1>5, <1>6, <1>7, <1>8, <1>9
     DEF Next, SessionStep, ClientStep

\* No request gets lost in the host: while the session of a waiting bridge is
\* in order its query is on the way to the host, with a worker, or on the way
\* back, whatever the limit and however many queries were given up before.
THEOREM ReplyComingAlways == Spec => []ReplyComing
<1>1. Init => StageInv /\ ReplyComing
  BY RpcAssumption DEF Init, StageInv, ReplyComing
<1>2. RpcInv /\ StageInv /\ ReplyComing /\ [Next]_vars => (StageInv /\ ReplyComing)'
  BY StageKeeps, ComingKeeps DEF RpcInv, StopInv
<1> QED
  BY <1>1, <1>2, RpcInvariant, PTL DEF Spec

=============================================================================
