----------------------------- MODULE ReadFence ------------------------------
(***************************************************************************)
(* Linearizable reads of internal/raftstore (read.go): admission of a      *)
(* ReadIndex request, its ReadState through the ready loop, the wait for   *)
(* the applied index, the read and the check of the route.                 *)
(*                                                                         *)
(* One replica, one key.  Entry 1 of the log is the leader's empty entry,  *)
(* every later one writes the key, so the row at applied index i is number *)
(* i - 1 and the key is missing at index 1.  Every action is one critical  *)
(* section, or one call of raft.  A request context is its call: readSeq   *)
(* never repeats.  Raft, external, answers a request at most once with a   *)
(* commit index that was current after the request, or loses it.           *)
(***************************************************************************)
EXTENDS Naturals, FiniteSets, FiniteSetsExt

CONSTANTS
    Calls,       \* calls of ReadIndex
    Bytes,       \* what a call retains while it is pending: [Calls -> Nat]
    MaxReads,    \* maxPendingReads
    MaxReadBytes, \* maxPendingReadByte
    MaxSeq,      \* the last sequence number of a context, ^uint64(0)
    MaxRetired,  \* maxRetiredReads
    MaxCommit,   \* bound on the log
    MaxCatalog,  \* bound on catalog versions
    Stops        \* the ways to stop there are: "stopped" (Close), "fatal" (fail)

ASSUME ReadFenceAssumption ==
    /\ {MaxReads, MaxReadBytes, MaxSeq, MaxRetired, MaxCommit, MaxCatalog} \subseteq Nat
    /\ Bytes \in [Calls -> Nat]
    /\ Stops \subseteq {"stopped", "fatal"}

VARIABLES
    commit,    \* the group's commit index
    applied,   \* state.lastApplied
    loop,      \* the ready loop: "idle", "signal" or "dead"
    catalog,   \* version of the installed catalog
    life,      \* [closed, fatal, todo]: flags, what Close and fail have left to do;
               \* either error is "stopped" to a reader
    reads,     \* calls in Replica.reads
    readBytes, \* what they retain
    readSeq,   \* the last sequence number given to a context
    retired,   \* calls in Replica.retiredReads
    asked,     \* requests raft works on: [call, from], from the commit index then
    states,    \* ReadStates not delivered yet: [call, index]
    calls      \* [Calls -> [at, start, catalog, index, row, box]]

vars == <<commit, applied, loop, catalog, life, reads, readBytes, readSeq, retired, asked,
          states, calls>>
raftVars == <<commit, asked, states>>
stateVars == <<applied, loop>>
tableVars == <<reads, readBytes, readSeq, retired>>

stopped == life.closed \/ life.fatal

set(c, r) == calls' = [calls EXCEPT ![c] = r]

goto(c, at) == set(c, [calls[c] EXCEPT !.at = at])

\* The call returns; of its locals only what the properties need is kept.
answered(c, a) ==
    set(c, [calls[c] EXCEPT !.at = "done", !.box = {a}, !.catalog = 0, !.index = 0])

(***************************************************************************)
(* ReadIndex.                                                              *)
(***************************************************************************)

\* readOpen, and the route and version of the catalog
ReadIndex(c) ==
    /\ calls[c].at = "idle"
    /\ IF stopped THEN answered(c, "stopped")
       ELSE set(c, [calls[c] EXCEPT !.at = "admit", !.start = commit, !.catalog = catalog])
    /\ UNCHANGED <<raftVars, stateVars, catalog, life, tableVars>>

\* A sequence number is used up even when the bytes do not fit.
admitRead(c) ==
    /\ calls[c].at = "admit"
    /\ IF stopped \/ Cardinality(reads) >= MaxReads \/ readSeq = MaxSeq
       THEN /\ answered(c, IF stopped THEN "stopped"
                           ELSE IF Cardinality(reads) >= MaxReads THEN "backpressure"
                           ELSE "exhausted")
            /\ UNCHANGED <<reads, readBytes, readSeq>>
       ELSE /\ readSeq' = readSeq + 1
            /\ IF readBytes + Bytes[c] > MaxReadBytes
               THEN answered(c, "backpressure") /\ UNCHANGED <<reads, readBytes>>
               ELSE /\ goto(c, "ask") /\ reads' = reads \cup {c}
                    /\ readBytes' = readBytes + Bytes[c]
    /\ UNCHANGED <<raftVars, stateVars, catalog, life, retired>>

\* Mutant: whoever is not pending any more gives back its bytes once more.
releasedAgain(c) ==
    /\ reads' = reads \ {c}
    /\ readBytes' = IF Bytes[c] > readBytes THEN 0 ELSE readBytes - Bytes[c]
    /\ UNCHANGED readSeq

\* A pending read leaves the table and gives back its bytes.
released(c) ==
    /\ reads' = reads \ {c}
    /\ readBytes' = IF c \notin reads THEN readBytes
                    ELSE IF Bytes[c] > readBytes THEN 0 ELSE readBytes - Bytes[c]
    /\ UNCHANGED readSeq

\* Mutant: a cancelled context is not retired.
cancelReadForgets(c) == released(c) /\ UNCHANGED retired

\* Mutant: retired contexts are never evicted.
cancelReadUnbounded(c) ==
    /\ released(c)
    /\ retired' = IF c \in reads THEN retired \cup {c} ELSE retired

\* cancelRead and retireReadLocked, which may evict any retired context.
cancelRead(c) ==
    /\ released(c)
    /\ LET all == IF c \in reads THEN retired \cup {c} ELSE retired IN
       IF Cardinality(all) > MaxRetired
       THEN \E old \in all : retired' = all \ {old}
       ELSE retired' = all

\* node.ReadIndex: raft takes the request, or the node is already stopped (and
\* see Cancel).
Ask(c) ==
    /\ calls[c].at = "ask"
    /\ \/ /\ goto(c, "await")
          /\ asked' = asked \cup {[call |-> c, from |-> commit]}
          /\ UNCHANGED tableVars
       \/ loop = "dead" /\ answered(c, "stopped") /\ cancelRead(c) /\ UNCHANGED asked
    /\ UNCHANGED <<commit, states, stateVars, catalog, life>>

Receive(c) ==
    /\ calls[c].at = "await" /\ calls[c].box # {}
    /\ \E a \in calls[c].box :
          IF a = "index" THEN goto(c, "fence") ELSE answered(c, a)
    /\ UNCHANGED <<raftVars, stateVars, catalog, life, tableVars>>

\* The caller's context ends: before admission, before raft took the request
\* (node.ReadIndex fails), before the delivery, or during the wait.
Cancel(c) ==
    /\ calls[c].at \in {"admit", "ask", "await", "wait", "woken"}
    /\ IF calls[c].at \in {"ask", "await"}
       THEN answered(c, "abandoned") /\ cancelRead(c)
       ELSE answered(c, "cancelled") /\ UNCHANGED tableVars
    /\ UNCHANGED <<raftVars, stateVars, catalog, life>>

\* Mutant: the fence is one entry short.
reachedEarly(c) == applied + 1 >= calls[c].index

\* waitApplied: lastApplied under stateMu ...
reached(c) == applied >= calls[c].index

CheckApplied(c) ==
    /\ calls[c].at = "fence"
    /\ IF reached(c) THEN set(c, [calls[c] EXCEPT !.at = "read", !.index = 0])
       ELSE goto(c, "subscribe")
    /\ UNCHANGED <<raftVars, stateVars, catalog, life, tableVars>>

\* ... then, under mu, appliedCh is taken ...
Subscribe(c) ==
    /\ calls[c].at = "subscribe"
    /\ IF stopped THEN answered(c, "stopped")
       ELSE goto(c, "wait")
    /\ UNCHANGED <<raftVars, stateVars, catalog, life, tableVars>>

\* ... which is closed.
Wake(c) ==
    /\ calls[c].at = "woken"
    /\ goto(c, "fence")
    /\ UNCHANGED <<raftVars, stateVars, catalog, life, tableVars>>

\* readOpen and state.get; a missing row is returned at once.
Read(c) ==
    /\ calls[c].at = "read"
    /\ IF stopped THEN answered(c, "stopped")
       ELSE IF applied = 1 THEN answered(c, "notfound")
       ELSE set(c, [calls[c] EXCEPT !.at = "validate", !.row = applied - 1])
    /\ UNCHANGED <<raftVars, stateVars, catalog, life, tableVars>>

validateReadRoute(c) ==
    /\ calls[c].at = "validate"
    /\ answered(c, IF catalog = calls[c].catalog THEN "row" ELSE "moved")
    /\ UNCHANGED <<raftVars, stateVars, catalog, life, tableVars>>

(***************************************************************************)
(* Raft and the ready loop.                                                *)
(***************************************************************************)
Commit ==
    /\ commit < MaxCommit
    /\ commit' = commit + 1
    /\ UNCHANGED <<asked, states, stateVars, catalog, life, tableVars, calls>>

Answer(q) ==
    /\ loop # "dead"
    /\ asked' = asked \ {q}
    /\ \E i \in q.from .. commit : states' = states \cup {[call |-> q.call, index |-> i]}
    /\ UNCHANGED <<commit, stateVars, catalog, life, tableVars, calls>>

Lose(q) ==
    /\ asked' = asked \ {q}
    /\ UNCHANGED <<commit, states, stateVars, catalog, life, tableVars, calls>>

\* appliedCh is closed and replaced.
signalApplied ==
    calls' = [c \in Calls |-> IF calls[c].at = "wait" THEN [calls[c] EXCEPT !.at = "woken"]
                              ELSE calls[c]]

\* state.apply of one committed entry; entries and ReadStates of a Ready are
\* taken in any order, which covers every way raft batches them ...
Apply ==
    /\ loop = "idle" /\ applied < commit
    /\ applied' = applied + 1
    /\ loop' = "signal"
    /\ UNCHANGED <<raftVars, catalog, life, tableVars, calls>>

\* ... and signalApplied.
Signal ==
    /\ loop = "signal"
    /\ signalApplied
    /\ loop' = IF life.fatal THEN "dead" ELSE "idle"
    /\ UNCHANGED <<raftVars, applied, catalog, life, tableVars>>

failed == [life EXCEPT !.fatal = TRUE, !.todo = @ \cup {"finish", "wake"}]

\* deliverReadState
Deliver(s) ==
    /\ loop = "idle"
    /\ states' = states \ {s}
    /\ released(s.call)
    /\ calls' = IF s.call \in reads
                THEN [calls EXCEPT ![s.call].box = {"index"}, ![s.call].index = s.index]
                ELSE calls
    /\ life' = IF s.call \in reads \cup retired THEN life ELSE failed
    /\ loop' = IF life'.fatal THEN "dead" ELSE "idle"
    /\ UNCHANGED <<commit, asked, applied, catalog, retired>>

LoopStop ==
    /\ loop = "idle" /\ stopped
    /\ loop' = "dead"
    /\ UNCHANGED <<raftVars, applied, catalog, life, tableVars, calls>>

\* InstallRangeCatalog
InstallCatalog ==
    /\ ~stopped /\ catalog < MaxCatalog
    /\ catalog' = catalog + 1
    /\ UNCHANGED <<raftVars, stateVars, life, tableVars, calls>>

(***************************************************************************)
(* Close and fail: finishReads, and stopTransport or signalApplied.        *)
(***************************************************************************)
Close ==
    /\ "stopped" \in Stops /\ ~life.closed
    /\ life' = [life EXCEPT !.closed = TRUE, !.todo = @ \cup {"finish", "wake"}]
    /\ UNCHANGED <<raftVars, stateVars, catalog, tableVars, calls>>

Fail ==
    /\ "fatal" \in Stops /\ ~life.fatal
    /\ life' = failed
    /\ loop' \in IF loop = "idle" THEN {"idle", "dead"} ELSE {loop}
    /\ UNCHANGED <<raftVars, applied, catalog, tableVars, calls>>

finishReads ==
    /\ "finish" \in life.todo
    /\ life' = [life EXCEPT !.todo = @ \ {"finish"}]
    /\ calls' = [c \in Calls |-> IF c \in reads THEN [calls[c] EXCEPT !.box = {"stopped"}]
                              ELSE calls[c]]
    /\ reads' = {} /\ readBytes' = 0
    /\ UNCHANGED <<raftVars, stateVars, catalog, readSeq, retired>>

\* Mutant: the waiters for the applied index are not woken.
StopQuietly ==
    /\ "wake" \in life.todo
    /\ life' = [life EXCEPT !.todo = @ \ {"wake"}]
    /\ UNCHANGED <<raftVars, stateVars, catalog, tableVars, calls>>

StopWakes ==
    /\ "wake" \in life.todo
    /\ life' = [life EXCEPT !.todo = @ \ {"wake"}]
    /\ signalApplied
    /\ UNCHANGED <<raftVars, stateVars, catalog, tableVars>>

\* A replica that has served any number of reads, none of them pending.
Init ==
    /\ commit = 1 /\ applied = 1 /\ loop = "idle" /\ catalog = 1
    /\ life = [closed |-> FALSE, fatal |-> FALSE, todo |-> {}]
    /\ reads = {} /\ readBytes = 0 /\ readSeq \in 0 .. MaxSeq /\ retired = {} /\ asked = {} /\ states = {}
    /\ calls = [c \in Calls |-> [at |-> "idle", start |-> 0, catalog |-> 0, index |-> 0,
                                 row |-> 0, box |-> {}]]

CallStep(c) ==
    \/ admitRead(c) \/ Ask(c) \/ Receive(c)
    \/ CheckApplied(c) \/ Subscribe(c) \/ Wake(c)
    \/ Read(c) \/ validateReadRoute(c)

LoopStep == Apply \/ Signal \/ LoopStop \/ \E s \in states : Deliver(s)

StopStep == StopWakes \/ finishReads

Next ==
    \/ \E c \in Calls : ReadIndex(c) \/ CallStep(c) \/ Cancel(c)
    \/ Commit \/ \E q \in asked : Answer(q) \/ Lose(q)
    \/ LoopStep
    \/ InstallCatalog
    \/ Close \/ Fail \/ StopStep

Spec == Init /\ [][Next]_vars

\* Goroutines run; raft need not answer and no context need end.
Fairness ==
    /\ \A c \in Calls : WF_vars(CallStep(c))
    /\ WF_vars(LoopStep)
    /\ WF_vars(StopStep)

FairSpec == Spec /\ Fairness

(***************************************************************************)
(* Properties.                                                             *)
(***************************************************************************)

\* Fields have their types; the tables keep their bounds (admitRead,
\* retireReadLocked).
TypeOK ==
    /\ applied \in 1 .. commit /\ loop \in {"idle", "signal", "dead"}
    /\ Cardinality(reads) <= MaxReads /\ readBytes <= MaxReadBytes /\ readSeq <= MaxSeq
    /\ Cardinality(retired) <= MaxRetired
    /\ \A s \in states : s.index \in 1 .. commit
    /\ \A c \in Calls : calls[c].index \in 0 .. commit /\ Cardinality(calls[c].box) <= 1

\* readBytes is what the pending reads retain, however they leave the table:
\* none is charged for after it was delivered, cancelled or stopped, and none is
\* given back twice (admitRead, cancelRead, deliverReadState, finishReads).
ReadBytesExact == readBytes = MapThenSumSet(LAMBDA c : Bytes[c], reads)

\* A read returns every write that was committed before the call began: the
\* commit index of the ReadState is after the call, and the row is read at or
\* beyond it.  A missing row counts as row zero.
ReadsAreLinearizable ==
    \A c \in Calls :
        calls[c].at = "done" /\ calls[c].box \subseteq {"row", "notfound"} /\ calls[c].box # {}
            => calls[c].row >= calls[c].start - 1

\* A late ReadState of a cancelled request stops a replica that is open only
\* when more requests were cancelled than contexts are retained: otherwise it
\* finds its context, pending or retired (deliverReadState, retireReadLocked).
NoUnknownContext ==
    [][~stopped /\ states' \subseteq states /\ states' # states /\ life'.fatal =>
          Cardinality({c \in Calls : calls[c].box = {"abandoned"}}) > MaxRetired]_vars

\* After Close or a fatal error every reader returns, wherever it waits.
StopReleasesReaders == stopped ~> \A c \in Calls : calls[c].at \in {"idle", "done"}

\* A reader whose fence is applied gets on, whether or not anything is ever
\* applied again (waitApplied).
AppliedFenceWakes ==
    \A c \in Calls :
        (calls[c].at \in {"fence", "subscribe", "wait", "woken"} /\ applied >= calls[c].index)
            ~> calls[c].at \notin {"fence", "subscribe", "wait", "woken"}
=============================================================================
