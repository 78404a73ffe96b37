------------------------------- MODULE Gateway -------------------------------
(***************************************************************************)
(* The gateway process, cmd/vbdbd and internal/httpapi, over the row       *)
(* store: the bounded listener and its Serve goroutine, the connections    *)
(* and the tracked handlers that run on them, the shutdown sequence with   *)
(* its hard deadline, and crashes.  net/http is external: it accepts,      *)
(* reads requests, calls the handler, and closes connections.              *)
(***************************************************************************)
EXTENDS RowStore

CONSTANTS
    Conns,
    maxGatewayConnections,
    maxGatewayActiveRequests,
    MaxStarts       \* bound: how often the process is started

ASSUME GatewayAssumption ==
    /\ maxGatewayConnections \in Nat \ {0}
    /\ maxGatewayActiveRequests \in Nat \ {0}
    /\ MaxStarts \in Nat

VARIABLES
    main,           \* where serveGatewayWithReady is
    armed,          \* the hard-exit timer
    acceptor,       \* where boundedListener.Accept is
    listening,      \* the listener is not closed
    slots,          \* boundedListener.slots in use
    conn,           \* a connection: "none", "open", or "closed" by Shutdown or Close
                    \* beneath the goroutine that serves it and closes it again
    handler,        \* where the connection's request is
    requestSlots, open, stopping,   \* trackedHandler
    acked,          \* ghost: the Puts that were answered with success
    starts

process == <<main, armed>>
listener == <<acceptor, listening, slots>>
tracked == <<requestSlots, open, stopping>>
vars == <<storage, process, listener, conn, handler, tracked, acked, starts>>

Condition == {"none", "create"} \cup Versions

\* What a PUT asks for.  A handler looks at its request once, when it calls the
\* store, so that is where the model chooses it.
Request == [key: RowKeys, condition: Condition]

running == main # "down"

Init ==
    /\ db = noRecords /\ sequence = 0 /\ store = "closed"
    /\ main = "down" /\ armed = FALSE
    /\ acceptor = "returned" /\ listening = FALSE /\ slots = 0
    /\ conn = [c \in Conns |-> "none"]
    /\ handler = [c \in Conns |-> "idle"]
    /\ requestSlots = 0 /\ open = 0 /\ stopping = FALSE
    /\ acked = {} /\ starts = 0

\* The process starts: storage.Open, the listener, the Serve goroutine.
Start ==
    /\ ~ running /\ starts < MaxStarts
    /\ OpenStore
    /\ main' = "serving"
    /\ acceptor' = "acquire" /\ listening' = TRUE
    /\ starts' = starts + 1
    /\ UNCHANGED <<armed, slots, conn, handler, tracked, acked>>

\* The process ends and only the engine's records are left.
Stop ==
    /\ main' = "down" /\ armed' = FALSE
    /\ acceptor' = "returned" /\ listening' = FALSE /\ slots' = 0
    /\ conn' = [c \in Conns |-> "none"]
    /\ handler' = [c \in Conns |-> "idle"]
    /\ requestSlots' = 0 /\ open' = 0 /\ stopping' = FALSE
    /\ sequence' = 0 /\ store' = "closed"
    /\ UNCHANGED <<db, acked, starts>>

Crash == running /\ Stop

\* triggerHardExit, by AfterFunc or by waitForTracked at the same deadline.
HardExit == armed /\ Stop

(***************************************************************************)
(* The bounded listener.                                                   *)
(***************************************************************************)
Acquire ==
    /\ running /\ acceptor = "acquire"
    /\ slots < maxGatewayConnections
    /\ slots' = slots + 1
    /\ acceptor' = "accept"
    /\ UNCHANGED <<storage, process, listening, conn, handler, tracked, acked, starts>>

\* A slot is not waited for once the listener is closed.
AcquireClosed ==
    /\ acceptor = "acquire" /\ ~ listening
    /\ acceptor' = "returned"
    /\ UNCHANGED <<storage, process, listening, slots, conn, handler, tracked, acked, starts>>

Accept(c) ==
    /\ acceptor = "accept" /\ listening
    /\ conn[c] = "none"
    /\ conn' = [conn EXCEPT ![c] = "open"]
    /\ acceptor' = "acquire"
    /\ UNCHANGED <<storage, process, listening, slots, handler, tracked, acked, starts>>

\* The slot is given back.  Serve tries again after a temporary error; after
\* another it closes the listener and returns.
AcceptFails ==
    /\ acceptor = "accept"
    /\ \/ listening /\ acceptor' = "acquire" /\ UNCHANGED listening
       \/ acceptor' = "returned" /\ listening' = FALSE
    /\ slots' = slots - 1
    /\ UNCHANGED <<storage, process, conn, handler, tracked, acked, starts>>

\* Mutant: every Close gives back a slot.
releaseAlways(cs) == slots' = slots - Cardinality(cs)

\* boundedConn.Close of some connections: the first Close of each gives back its
\* slot.
releaseOnce(cs) == slots' = slots - Cardinality({c \in cs : conn[c] = "open"})

\* The goroutine of a connection ends and closes it.
CloseConn(c) ==
    /\ conn[c] # "none" /\ handler[c] = "idle"
    /\ conn' = [conn EXCEPT ![c] = "none"]
    /\ releaseOnce({c})
    /\ UNCHANGED <<storage, process, acceptor, listening, handler, tracked, acked, starts>>

(***************************************************************************)
(* Requests.                                                               *)
(***************************************************************************)
Read(c) ==
    /\ conn[c] = "open" /\ handler[c] = "idle"
    /\ handler' = [handler EXCEPT ![c] = "read"]
    /\ UNCHANGED <<storage, process, listener, conn, tracked, acked, starts>>

\* Mutant: requests are admitted during shutdown.
AdmitAlways(c) ==
    /\ handler[c] = "read"
    /\ IF requestSlots = maxGatewayActiveRequests
       THEN /\ handler' = [handler EXCEPT ![c] = "idle"]
            /\ UNCHANGED tracked
       ELSE /\ handler' = [handler EXCEPT ![c] = "admitted"]
            /\ requestSlots' = requestSlots + 1 /\ open' = open + 1
            /\ UNCHANGED stopping
    /\ UNCHANGED <<storage, process, listener, conn, acked, starts>>

\* trackedHandler.ServeHTTP up to the handler: a request is refused while the
\* server shuts down, and when every request slot is taken.
Admit(c) ==
    /\ handler[c] = "read"
    /\ IF stopping \/ requestSlots = maxGatewayActiveRequests
       THEN /\ handler' = [handler EXCEPT ![c] = "idle"]
            /\ UNCHANGED tracked
       ELSE /\ handler' = [handler EXCEPT ![c] = "admitted"]
            /\ requestSlots' = requestSlots + 1 /\ open' = open + 1
            /\ UNCHANGED stopping
    /\ UNCHANGED <<storage, process, listener, conn, acked, starts>>

\* What handlePut tells the client of a Put that succeeded.
answer(r, row) ==
    [row |-> row, condition |-> r.condition, created |-> readHeadLocked(r.key) = {}]

handled(c) ==
    /\ handler[c] = "admitted"
    /\ handler' = [handler EXCEPT ![c] = "handled"]
    /\ UNCHANGED <<process, listener, conn, tracked, starts>>

\* A GET; a request that is refused before it reaches the store; a PUT that
\* the store refuses or that fails without a trace.
Answer(c) ==
    /\ handled(c)
    /\ UNCHANGED <<storage, acked>>

Put(c) ==
    /\ handled(c)
    /\ \E r \in Request : \E row \in newRows(r.key, r.condition) :
          /\ PutSucceeds(row)
          /\ acked' = acked \cup {answer(r, row)}

PutFails(c) ==
    /\ handled(c)
    /\ \E r \in Request : \E row \in newRows(r.key, r.condition) : PutPoisons(row)
    /\ UNCHANGED acked

\* The deferred end of trackedHandler.ServeHTTP.
Finish(c) ==
    /\ handler[c] = "handled"
    /\ handler' = [handler EXCEPT ![c] = "idle"]
    /\ requestSlots' = requestSlots - 1 /\ open' = open - 1
    /\ UNCHANGED <<storage, process, listener, conn, stopping, acked, starts>>

(***************************************************************************)
(* Shutdown.                                                               *)
(***************************************************************************)
\* shutdown.begin and tracked.stop.
begin == armed' = TRUE /\ stopping' = TRUE

\* Shutdown and Close of net/http close the connections they know of: one
\* that was only just accepted may be missed.
closeKnown ==
    \E missed \in SUBSET {c \in Conns : conn[c] = "open" /\ handler[c] = "idle"} :
        LET cs == {c \in Conns : conn[c] = "open"} \ missed
        IN  /\ conn' = [c \in Conns |-> IF c \in cs THEN "closed" ELSE conn[c]]
            /\ releaseOnce(cs)

\* The signal; server.Shutdown begins by closing the listener.
Signal ==
    /\ main = "serving"
    /\ begin
    /\ main' = "shutdown"
    /\ listening' = FALSE
    /\ UNCHANGED <<storage, acceptor, slots, conn, handler, requestSlots, open, acked, starts>>

\* server.Shutdown returns, or its context expires and server.Close follows:
\* either way handlers may still run.
CloseConnections ==
    /\ main = "shutdown"
    /\ closeKnown
    /\ main' = "drain"
    /\ UNCHANGED <<storage, armed, acceptor, listening, handler, tracked, acked, starts>>

\* listenErr := <-errCh.
Drain ==
    /\ main = "drain" /\ acceptor = "returned"
    /\ main' = "wait"
    /\ UNCHANGED <<storage, armed, listener, conn, handler, tracked, acked, starts>>

\* Serve returned by itself.
ServeFailed ==
    /\ main = "serving" /\ acceptor = "returned"
    /\ begin
    /\ closeKnown
    /\ main' = "wait"
    /\ UNCHANGED <<storage, acceptor, listening, handler, requestSlots, open, acked, starts>>

\* Mutant: the timer is stopped before the store is closed.
CloseDisarmed ==
    /\ main = "wait" /\ open = 0
    /\ CloseStore
    /\ main' = "closing" /\ armed' = FALSE
    /\ UNCHANGED <<listener, conn, handler, tracked, acked, starts>>

\* waitForTracked returns, and so does serveGatewayWithReady: the deferred
\* closeStore runs before the deferred stop of the timer.
Close ==
    /\ main = "wait" /\ open = 0
    /\ CloseStore
    /\ main' = "closing"
    /\ UNCHANGED <<armed, listener, conn, handler, tracked, acked, starts>>

Exit == main = "closing" /\ Stop

Serving(c) == Admit(c) \/ Answer(c) \/ Put(c) \/ PutFails(c) \/ Finish(c)

Next ==
    \/ Start \/ Crash \/ HardExit
    \/ Acquire \/ AcquireClosed \/ AcceptFails
    \/ \E c \in Conns : Accept(c) \/ CloseConn(c) \/ Read(c) \/ Serving(c)
    \/ Signal \/ CloseConnections \/ Drain \/ ServeFailed \/ Close \/ Exit

Spec == Init /\ [][Next]_vars

\* Goroutines that can run do.  Closing the store may hang, and the timer is
\* counted on only then.
Fairness ==
    /\ WF_vars(Acquire \/ AcquireClosed)
    /\ WF_vars(~ listening /\ AcceptFails)
    /\ \A c \in Conns : WF_vars(Serving(c))
    /\ WF_vars(CloseConnections \/ Drain \/ ServeFailed \/ Close)
    /\ WF_vars(main = "closing" /\ HardExit)

FairSpec == Spec /\ Fairness

(***************************************************************************)
(* Properties.                                                             *)
(***************************************************************************)
\* The store is not closed while a handler may still use it, whatever requests
\* race with the shutdown (trackedHandler, serveGatewayWithReady).
StoreOutlivesHandlers ==
    running /\ store = "closed" =>
        \A c \in Conns : handler[c] \notin {"admitted", "handled"}

\* Every slot in use has its holder and no limit is exceeded: a connection slot
\* belongs to an open connection or to the Accept that waits for one, a request
\* slot to a handler.  None leaks when Accept fails, and none is given back twice
\* when a connection is closed by Shutdown or Close and again by the goroutine
\* that serves it (boundedListener, boundedConn.Close, trackedHandler).
SlotsAreHeld ==
    /\ slots = Cardinality({c \in Conns : conn[c] = "open"}) + (IF acceptor = "accept" THEN 1 ELSE 0)
    /\ slots <= maxGatewayConnections
    /\ requestSlots = Cardinality({c \in Conns : handler[c] \in {"admitted", "handled"}})
    /\ requestSlots <= maxGatewayActiveRequests
    /\ open = requestSlots

\* Whenever the process is killed, also around a Put whose batch may or may
\* not have reached the disk, Open accepts the records it finds.
Reopens == opens(db)

\* A Put that was answered with success is durable, and the row it replaced
\* is the one its condition named: no update that the client had not seen is
\* lost, and "created" says that there was none (Engine.Put, handlePut).
NoLostUpdate ==
    \A a \in acked :
        LET before == GetAt(a.row.key, a.row.sequence - 1)
        IN  /\ a.row \in GetAt(a.row.key, a.row.sequence)
            /\ a.condition \in Versions => \E b \in before : b.version = a.condition
            /\ a.condition = "create" => before = {}
            /\ a.created <=> before = {}

\* What GetAt says of a sequence that was reached stays so: later Puts,
\* failed ones and restarts included, never rewrite it.
HistoryIsImmutable ==
    [][\A k \in RowKeys, s \in 0 .. storedSequence(db) : GetAt(k, s)' = GetAt(k, s)]_vars

\* A shutdown, by signal or by a failing listener, comes to its end: handlers
\* and the Serve goroutine are drained without help from the timer, and the
\* timer is still armed when closing the store hangs.
ShutdownEnds == armed ~> main = "down"
=============================================================================
