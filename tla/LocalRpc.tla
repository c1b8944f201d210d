------------------------------ MODULE LocalRpc ------------------------------
(***************************************************************************)
(* The Local RPC listener of the host and its sessions with the bridges.   *)
(*                                                                         *)
(* One thread accepts; each stream has a thread that reads requests and a  *)
(* thread for each request it admits; replies share the stream under a     *)
(* mutex.  A bridge makes one connection for its life and has one query at *)
(* a time under way on it, each with a deadline.  LocalRpcHost::stop runs  *)
(* in the main thread of the host.                                         *)
(*                                                                         *)
(* Data abstraction.  A query is its request id.  A frame is written in    *)
(* one step (no sender of a small frame is ever kept waiting), but may be  *)
(* read in part when the deadline comes.  A reply carries the id of its    *)
(* request and an answer or an error.  Whether two hellos agree is a       *)
(* constant, as is what the host supports.                                 *)
(***************************************************************************)
EXTENDS Integers, Sequences, FiniteSets

CONSTANTS
    Clients,      \* bridges, each with one connection
    Queries,      \* request ids
    Compatible,   \* the clients whose hello the host accepts
    Supported,    \* queries of a capability the host has announced
    Limit,        \* MAX_IN_FLIGHT_REQUESTS
    Faults,       \* which faults happen in this instance
    None

ASSUME RpcAssumption ==
    /\ None \notin Clients /\ None \notin Queries
    /\ Compatible \subseteq Clients
    /\ Supported \subseteq Queries
    /\ Limit \in Nat \ {0}
    /\ Faults \subseteq {"accept", "clone", "oversized", "panic"}

VARIABLES
    accept,     \* where the accept thread is
    hand,       \* the stream it holds
    stop,       \* the flag LocalRpcHost.stop
    stopper,    \* how far LocalRpcHost::stop is
    active,     \* LocalRpcHost.active_streams
    stream,     \* the state of each connection
    session,    \* where the thread of each stream is
    in_flight,  \* its counter
    handling,   \* requests whose worker has not replied yet
    replied,    \* requests whose worker has replied and has its permit still
    failed,     \* streams with a worker that ended in an error
    up,         \* requests on their way to the host
    down,       \* replies on their way to the client
    sent,       \* history: the replies the host has written to each stream
    torn,       \* streams of which the client has read a part of a frame
    client,     \* where each bridge is
    call,       \* the query it is waiting for
    result      \* what became of each query

listener == <<accept, hand, stop, stopper, active>>
workers == <<in_flight, handling, replied, failed>>
wires == <<up, down, sent, torn>>
callers == <<client, call, result>>
vars == <<listener, stream, session, workers, wires, callers>>

Reply == [id : Queries, body : {"answer", "error"}]

Results == {"none", "waiting", "answered", "refused", "unavailable"}

Init ==
    /\ accept = "loop" /\ hand = None
    /\ stop = FALSE /\ stopper = "serving"
    /\ active = {}
    /\ stream = [c \in Clients |-> "none"]
    /\ session = [c \in Clients |-> "none"]
    /\ in_flight = [c \in Clients |-> 0]
    /\ handling = [c \in Clients |-> {}]
    /\ replied = [c \in Clients |-> {}]
    /\ failed = {}
    /\ up = [c \in Clients |-> <<>>]
    /\ down = [c \in Clients |-> <<>>]
    /\ sent = [c \in Clients |-> {}]
    /\ torn = {}
    /\ client = [c \in Clients |-> "idle"]
    /\ call = [c \in Clients |-> None]
    /\ result = [c \in Clients |-> [n \in Queries |-> "none"]]

-----------------------------------------------------------------------------
(* The accept thread.                                                      *)

\* shutdown(Both), or the last descriptor of the host is closed.
Shut(S) == stream' = [c \in Clients |-> IF c \in S THEN "shut" ELSE stream[c]]

Backlog == { c \in Clients : stream[c] = "backlog" }

\* The thread ends and the listener with it: who was not accepted is reset.
AcceptEnd(dropped) ==
    /\ accept' = "gone"
    /\ hand' = None
    /\ Shut(Backlog \cup dropped)

\* The head of the loop, and accept; a turn without a stream changes nothing.
Accept ==
    /\ accept = "loop"
    /\ \/ stop /\ AcceptEnd({})
       \/ /\ ~stop
          /\ \E c \in Backlog :
               /\ hand' = c
               /\ stream' = [stream EXCEPT ![c] = "open"]
          /\ accept' = "accepted"
    /\ UNCHANGED <<stop, stopper, active, session, workers, wires, callers>>

\* Any other error of accept ends the thread; nobody is told.
AcceptFails ==
    /\ "accept" \in Faults
    /\ accept = "loop" /\ ~stop
    /\ AcceptEnd({})
    /\ UNCHANGED <<stop, stopper, active, session, workers, wires, callers>>

\* The flag is looked at again with the stream in hand.
Admit ==
    /\ accept = "accepted"
    /\ \/ stop /\ AcceptEnd({hand})
       \/ ~stop /\ accept' = "admitted" /\ UNCHANGED <<hand, stream>>
       \/ /\ ~stop /\ "clone" \in Faults
          /\ accept' = "loop" /\ hand' = None /\ Shut({hand})
    /\ UNCHANGED <<stop, stopper, active, session, workers, wires, callers>>

\* The stream is registered and a thread is spawned to serve it.
Register ==
    /\ accept = "admitted"
    /\ active' = active \cup {hand}
    /\ session' = [session EXCEPT ![hand] = "handshake"]
    /\ accept' = "loop" /\ hand' = None
    /\ UNCHANGED <<stop, stopper, stream, workers, wires, callers>>

-----------------------------------------------------------------------------
(* LocalRpcHost::stop, and the Drop of the value it consumes.              *)

\* Mutant: the flag is not set.
SetStopForgotten ==
    /\ stopper = "serving" /\ stopper' = "flagged"
    /\ UNCHANGED <<accept, hand, stop, active, stream, session, workers,
                   wires, callers>>

SetStop ==
    /\ stopper = "serving" /\ stopper' = "flagged"
    /\ stop' = TRUE
    /\ UNCHANGED <<accept, hand, active, stream, session, workers, wires,
                   callers>>

ShutdownActive(from, to) ==
    /\ stopper = from /\ stopper' = to
    /\ Shut(active)
    /\ active' = {}
    /\ UNCHANGED <<accept, hand, stop, session, workers, wires, callers>>

Drain == ShutdownActive("flagged", "drained")

Join ==
    /\ stopper = "drained" /\ stopper' = "joined"
    /\ accept = "gone"
    /\ UNCHANGED <<accept, hand, stop, active, stream, session, workers,
                   wires, callers>>

\* Mutant: no Drop, or one that relies on the drain before the join.
DropNothing ==
    /\ stopper = "joined" /\ stopper' = "stopped"
    /\ UNCHANGED <<accept, hand, stop, active, stream, session, workers,
                   wires, callers>>

\* What the accept thread has registered since the drain is shut here.
DropHost == ShutdownActive("joined", "stopped")

-----------------------------------------------------------------------------
(* A session: serve_stream and its workers.                                *)

\* A write of the host to c; once the stream is of no use it is an error.
Writable(c) == stream[c] = "open" /\ client[c] # "closed"

WriteLocked(c, n, body) ==
    /\ down' = [down EXCEPT ![c] = Append(@, [id |-> n, body |-> body])]
    /\ sent' = [sent EXCEPT ![c] = @ \cup {[id |-> n, body |-> body]}]

\* The hello is there since the connection; the answer is written or not.
Handshake(c) ==
    /\ session[c] = "handshake"
    /\ session' = [session EXCEPT ![c] =
                     IF c \in Compatible /\ Writable(c) THEN "looping"
                                                        ELSE "rejected"]
    /\ UNCHANGED <<listener, stream, workers, wires, callers>>

\* reap_finished: a worker that failed ends the session with its error, once
\* its thread is over.
Reap(c) ==
    /\ session[c] = "looping"
    /\ \/ session' = [session EXCEPT ![c] = "reading"]
       \/ c \in failed /\ session' = [session EXCEPT ![c] = "ended"]
    /\ UNCHANGED <<listener, stream, workers, wires, callers>>

\* Whether a supported query gets a worker.
Admissible(c) == in_flight[c] < Limit

\* Mutant: a request above the limit is dropped without a reply.
RefuseSilently(c) ==
    /\ session[c] = "reading" /\ up[c] # <<>>
    /\ ~(Head(up[c]) \in Supported /\ Admissible(c))
    /\ up' = [up EXCEPT ![c] = Tail(@)]
    /\ session' = [session EXCEPT ![c] = "looping"]
    /\ UNCHANGED <<listener, stream, workers, down, sent, torn, callers>>

\* A request of a capability the host lacks, or one too many: the reader
\* writes the error itself.
Refuse(c) ==
    /\ session[c] = "reading" /\ up[c] # <<>>
    /\ ~(Head(up[c]) \in Supported /\ Admissible(c))
    /\ up' = [up EXCEPT ![c] = Tail(@)]
    /\ \/ /\ Writable(c)
          /\ WriteLocked(c, Head(up[c]), "error")
          /\ session' = [session EXCEPT ![c] = "looping"]
       \/ /\ ~Writable(c)
          /\ session' = [session EXCEPT ![c] = "ended"]
          /\ UNCHANGED <<down, sent>>
    /\ UNCHANGED <<listener, stream, workers, torn, callers>>

Spawn(c) ==
    /\ session[c] = "reading" /\ up[c] # <<>>
    /\ Head(up[c]) \in Supported /\ Admissible(c)
    /\ up' = [up EXCEPT ![c] = Tail(@)]
    /\ in_flight' = [in_flight EXCEPT ![c] = @ + 1]
    /\ handling' = [handling EXCEPT ![c] = @ \cup {Head(up[c])}]
    /\ session' = [session EXCEPT ![c] = "looping"]
    /\ UNCHANGED <<listener, stream, replied, failed, down, sent, torn,
                   callers>>

\* Mutant: the host shuts down its writing half only.
EndOfClient(c) ==
    /\ session[c] = "reading"
    /\ client[c] = "closed" /\ up[c] = <<>>
    /\ session' = [session EXCEPT ![c] = "joining"]
    /\ UNCHANGED <<listener, stream, workers, wires, callers>>

\* The end of the stream; what is still in it may be lost with a shutdown.
\* A client that leaves replies unread makes the read an error instead, and
\* the workers are not waited for.
EndOfStream(c) ==
    /\ session[c] = "reading"
    /\ \/ stream[c] = "shut"
       \/ client[c] = "closed" /\ up[c] = <<>>
    /\ \/ session' = [session EXCEPT ![c] = "joining"]
       \/ /\ client[c] = "closed" /\ down[c] # <<>>
          /\ session' = [session EXCEPT ![c] = "ended"]
    /\ UNCHANGED <<listener, stream, workers, wires, callers>>

\* join_all returns at the first worker that failed.
JoinAll(c) ==
    /\ session[c] = "joining"
    /\ handling[c] \cup replied[c] = {} \/ c \in failed
    /\ session' = [session EXCEPT ![c] = "ended"]
    /\ UNCHANGED <<listener, stream, workers, wires, callers>>

\* handle_request: the handler's answer or error is written.  It is lost
\* when it exceeds the frame limit or nobody can read it.
HandleRequest(c, n) ==
    /\ n \in handling[c]
    /\ handling' = [handling EXCEPT ![c] = @ \ {n}]
    /\ replied' = [replied EXCEPT ![c] = @ \cup {n}]
    /\ \/ /\ Writable(c)
          /\ \E body \in {"answer", "error"} : WriteLocked(c, n, body)
          /\ UNCHANGED failed
       \/ /\ ~Writable(c) \/ "oversized" \in Faults
          /\ failed' = failed \cup {c}
          /\ UNCHANGED <<down, sent>>
    /\ UNCHANGED <<listener, stream, session, in_flight, up, torn, callers>>

\* Mutant: the permit is given back at the end of the closure and not by
\* a drop, which a panic skips.
PanicWithPermit(c, n) ==
    /\ "panic" \in Faults
    /\ n \in handling[c]
    /\ handling' = [handling EXCEPT ![c] = @ \ {n}]
    /\ failed' = failed \cup {c}
    /\ UNCHANGED <<listener, stream, session, in_flight, replied, wires,
                   callers>>

\* The handler panics; InFlightPermit is dropped by the unwinding.
Panic(c, n) ==
    /\ "panic" \in Faults
    /\ n \in handling[c]
    /\ handling' = [handling EXCEPT ![c] = @ \ {n}]
    /\ in_flight' = [in_flight EXCEPT ![c] = @ - 1]
    /\ failed' = failed \cup {c}
    /\ UNCHANGED <<listener, stream, session, replied, wires, callers>>

DropPermit(c, n) ==
    /\ n \in replied[c]
    /\ replied' = [replied EXCEPT ![c] = @ \ {n}]
    /\ in_flight' = [in_flight EXCEPT ![c] = @ - 1]
    /\ UNCHANGED <<listener, stream, session, handling, failed, wires, callers>>

-----------------------------------------------------------------------------
(* A bridge: RpcClient under the mutex of LocalRpcMcpClient.               *)

\* connect and the hello; the listener's socket is there as long as its thread.
Connect(c) ==
    /\ client[c] = "idle"
    /\ accept # "gone"
    /\ client' = [client EXCEPT ![c] = "hello"]
    /\ stream' = [stream EXCEPT ![c] = "backlog"]
    /\ UNCHANGED <<listener, session, workers, wires, call, result>>

\* The host has accepted in time; else the stream is given up.  What it wrote
\* before a shutdown can still be read.
Greeted(c) ==
    /\ client[c] = "hello"
    /\ \/ /\ session[c] \in {"looping", "reading", "joining", "ended"}
          /\ client' = [client EXCEPT ![c] = "ready"]
       \/ client' = [client EXCEPT ![c] = "closed"]
    /\ UNCHANGED <<listener, stream, session, workers, wires, call, result>>

\* The ids are drawn before the mutex is locked, so they come in any order.
\* A write to a stream that was shut fails.
Query(c, n) ==
    /\ client[c] = "ready"
    /\ call[c] = None
    /\ result[c][n] = "none"
    /\ IF stream[c] = "open"
         THEN /\ up' = [up EXCEPT ![c] = Append(@, n)]
              /\ call' = [call EXCEPT ![c] = n]
              /\ result' = [result EXCEPT ![c][n] = "waiting"]
         ELSE /\ result' = [result EXCEPT ![c][n] = "unavailable"]
              /\ UNCHANGED <<up, call>>
    /\ UNCHANGED <<listener, stream, session, workers, down, sent, torn,
                   client>>

Return(c, r) ==
    /\ call' = [call EXCEPT ![c] = None]
    /\ result' = [result EXCEPT ![c][call[c]] = r]

Outcome(reply) == IF reply.body = "answer" THEN "answered" ELSE "refused"

\* Mutant: the request id of the reply is not compared.
ReceiveAny(c) ==
    /\ call[c] # None /\ down[c] # <<>> /\ c \notin torn
    /\ down' = [down EXCEPT ![c] = Tail(@)]
    /\ Return(c, Outcome(Head(down[c])))
    /\ UNCHANGED <<listener, stream, session, workers, up, sent, torn,
                   client>>

\* One frame is read, whosever it is.
Receive(c) ==
    /\ call[c] # None /\ down[c] # <<>> /\ c \notin torn
    /\ down' = [down EXCEPT ![c] = Tail(@)]
    /\ Return(c, IF Head(down[c]).id = call[c] THEN Outcome(Head(down[c]))
                                              ELSE "unavailable")
    /\ UNCHANGED <<listener, stream, session, workers, up, sent, torn,
                   client>>

\* In the middle of a frame every four bytes read as a length above the
\* limit, until they happen to end where the frame does.
ReceiveTorn(c) ==
    /\ call[c] # None /\ down[c] # <<>> /\ c \in torn
    /\ Return(c, "unavailable")
    /\ \/ UNCHANGED <<down, torn>>
       \/ down' = [down EXCEPT ![c] = Tail(@)] /\ torn' = torn \ {c}
    /\ UNCHANGED <<listener, stream, session, workers, up, sent, client>>

\* The deadline passes, perhaps in the middle of a frame; or the stream ends.
GiveUp(c) ==
    /\ call[c] # None
    /\ Return(c, "unavailable")
    /\ \/ UNCHANGED torn
       \/ down[c] # <<>> /\ torn' = torn \cup {c}
    /\ UNCHANGED <<listener, stream, session, workers, up, down, sent,
                   client>>

\* The bridge exits.
Close(c) ==
    /\ client[c] = "ready" /\ call[c] = None
    /\ client' = [client EXCEPT ![c] = "closed"]
    /\ UNCHANGED <<listener, stream, session, workers, wires, call, result>>

-----------------------------------------------------------------------------
AcceptStep == Accept \/ Admit \/ Register

StopStep == Drain \/ Join \/ DropHost

SessionStep(c) ==
    \/ Handshake(c) \/ Reap(c) \/ Refuse(c) \/ Spawn(c) \/ EndOfStream(c)
    \/ JoinAll(c)

WorkerStep(c, n) == HandleRequest(c, n) \/ DropPermit(c, n)

ClientStep(c) ==
    \/ Connect(c) \/ Greeted(c) \/ Receive(c) \/ ReceiveTorn(c) \/ GiveUp(c)
    \/ Close(c)

Next ==
    \/ AcceptStep \/ AcceptFails \/ SetStop \/ StopStep
    \/ \E c \in Clients :
        \/ SessionStep(c) \/ ClientStep(c)
        \/ \E n \in Queries : WorkerStep(c, n) \/ Panic(c, n) \/ Query(c, n)

Spec == Init /\ [][Next]_vars

\* The threads of the host run: accept is polled every 20 ms, a read of a
\* stream that was shut returns, and a query reads the store and ends.  The
\* bridges, whoever stops the host, and faults owe nothing.
Fairness ==
    /\ WF_vars(AcceptStep)
    /\ WF_vars(StopStep)
    /\ \A c \in Clients :
        /\ WF_vars(SessionStep(c))
        /\ \A n \in Queries : WF_vars(WorkerStep(c, n))

FairSpec == Spec /\ Fairness

-----------------------------------------------------------------------------
(* Properties.                                                             *)

\* The types.
TypeOK ==
    /\ accept \in {"loop", "accepted", "admitted", "gone"}
    /\ hand \in Clients \cup {None}
    /\ stop \in BOOLEAN
    /\ stopper \in {"serving", "flagged", "drained", "joined", "stopped"}
    /\ active \subseteq Clients
    /\ stream \in [Clients -> {"none", "backlog", "open", "shut"}]
    /\ session \in [Clients -> {"none", "handshake", "looping", "reading",
                                "joining", "ended", "rejected"}]
    /\ in_flight \in [Clients -> Nat]
    /\ handling \in [Clients -> SUBSET Queries]
    /\ replied \in [Clients -> SUBSET Queries]
    /\ failed \subseteq Clients
    /\ up \in [Clients -> Seq(Queries)]
    /\ down \in [Clients -> Seq(Reply)]
    /\ sent \in [Clients -> SUBSET Reply]
    /\ torn \subseteq Clients
    /\ client \in [Clients -> {"idle", "hello", "ready", "closed"}]
    /\ call \in [Clients -> Queries \cup {None}]
    /\ result \in [Clients -> [Queries -> Results]]

\* After LocalRpcHost::stop no stream of any bridge is open: not one that the
\* accept thread took from the listener before the flag and registered after
\* the drain, which only the Drop after the join can meet.
StopClosesAll ==
    stopper = "stopped" => \A c \in Clients : stream[c] \in {"none", "shut"}

\* The counter of a session is the number of its workers, at most the limit,
\* however they end: a permit that is lost would refuse queries for ever, one
\* returned twice would let more than eight in.
PermitsExact ==
    \A c \in Clients :
        /\ in_flight[c] = Cardinality(handling[c] \cup replied[c])
        /\ in_flight[c] <= Limit

\* What a bridge reports of a query is what the host wrote for that query,
\* although replies of queries it gave up on come before it in the stream.
AnswersAreOwn ==
    \A c \in Clients, n \in Queries :
        /\ result[c][n] = "answered" => [id |-> n, body |-> "answer"] \in sent[c]
        /\ result[c][n] = "refused" => [id |-> n, body |-> "error"] \in sent[c]

\* A bridge waits for something: while its session is in order, its query is
\* on the way to the host, with a worker, or on the way back.
ReplyComing ==
    \A c \in Clients :
        /\ call[c] # None
        /\ stream[c] = "open" /\ c \notin failed
        /\ session[c] \in {"looping", "reading"}
        => \/ \E i \in DOMAIN up[c] : up[c][i] = call[c]
           \/ call[c] \in handling[c]
           \/ \E i \in DOMAIN down[c] : down[c][i].id = call[c]

\* LocalRpcHost::stop returns.
StopReturns == stopper = "flagged" ~> stopper = "stopped"

\* The thread of a stream that was shut ends, whatever its workers do.
SessionsEnd ==
    \A c \in Clients : stream[c] = "shut" ~> session[c] \in {"none", "ended", "rejected"}

=============================================================================
