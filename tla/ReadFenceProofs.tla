-------------------------- MODULE ReadFenceProofs ---------------------------
(***************************************************************************)
(* Linearizable reads, for any number of calls, any limits and any log.    *)
(*                                                                         *)
(* The commit index a call started at bounds, from below, the index of its *)
(* request, of its ReadState, of its fence and at last the applied index   *)
(* it reads at.  A request stays known, pending or retired, for as long as *)
(* no more requests were abandoned than contexts are retained.             *)
(***************************************************************************)
EXTENDS ReadFence, FiniteSetTheorems, WellFoundedInduction, TLAPS

At == {"idle", "admit", "ask", "await", "fence", "subscribe", "wait", "woken", "read",
       "validate", "done"}

Result == {"index", "stopped", "backpressure", "abandoned", "cancelled", "row", "notfound",
           "moved", "exhausted"}

Call == [at: At, start: Nat, catalog: Nat, index: Nat, row: Nat, box: SUBSET Result]

Life == [closed: BOOLEAN, fatal: BOOLEAN, todo: SUBSET {"finish", "wake"}]

\* A call for given commit and applied indices: how far its start is known to
\* be behind it.
callOK(r, cm, ap) ==
    /\ r \in Call
    /\ r.start <= cm /\ r.index <= cm
    /\ r.box = {} \/ \E a \in r.box : r.box = {a}
    /\ r.at \in {"idle", "admit"} => r.box = {}
    /\ r.at = "ask" => r.box \subseteq {"stopped"}
    /\ r.at # "done" => r.box \subseteq {"index", "stopped"}
    /\ r.at = "await" /\ r.box = {"index"} => r.start <= r.index
    /\ r.at \in {"fence", "subscribe", "wait", "woken"} => r.start <= r.index
    /\ r.at = "read" => r.start <= ap
    /\ r.at = "validate" => r.start <= r.row + 1
    /\ r.at = "done" /\ r.box \subseteq {"row", "notfound"} => r.start <= r.row + 1

\* Nobody pends who was answered.
tablesOK ==
    /\ reads \subseteq Calls /\ IsFiniteSet(reads) /\ Cardinality(reads) <= MaxReads
    /\ retired \subseteq Calls /\ IsFiniteSet(retired) /\ Cardinality(retired) <= MaxRetired
    /\ \A c \in reads : calls[c].at \in {"ask", "await"} /\ calls[c].box = {}

begun(c) == calls[c].at \notin {"idle", "admit", "ask"}

\* Raft has at most one request or ReadState of a call, no older than it.
requestsOK ==
    /\ asked \subseteq [call: Calls, from: Nat] /\ states \subseteq [call: Calls, index: Nat]
    /\ \A q \in asked : /\ begun(q.call) /\ 1 <= q.from /\ q.from <= commit
                        /\ calls[q.call].start <= q.from
    /\ \A s \in states : /\ begun(s.call) /\ 1 <= s.index /\ s.index <= commit
                         /\ calls[s.call].start <= s.index
    /\ \A q, r \in asked : q.call = r.call => q = r
    /\ \A s, t \in states : s.call = t.call => s = t
    /\ \A q \in asked, s \in states : q.call # s.call

abandoned == {c \in Calls : calls[c].box = {"abandoned"}}

\* While the replica is open, every request is known unless more were
\* abandoned than are retained.
retainedOK ==
    /\ IsFiniteSet(abandoned)
    /\ ~ stopped => /\ loop # "dead" /\ life.todo = {}
                    /\ \A c \in Calls : calls[c].at = "ask" => c \in reads
                    /\ retired \subseteq abandoned
                    /\ Cardinality(abandoned) <= MaxRetired =>
                          \A x \in asked \cup states : x.call \in reads \cup retired

IInv ==
    /\ commit \in Nat /\ applied \in Nat /\ catalog \in Nat /\ life \in Life
    /\ 1 <= applied /\ applied <= commit
    /\ loop \in {"idle", "signal", "dead"}
    /\ calls \in [Calls -> Call] /\ \A c \in Calls : callOK(calls[c], commit, applied)
    /\ tablesOK /\ requestsOK /\ retainedOK

\* Init establishes it.
LEMMA InitIInv == Init => IInv
<1> SUFFICES ASSUME Init PROVE IInv
  OBVIOUS
<1>1. \A c \in Calls : calls[c] = [at |-> "idle", start |-> 0, catalog |-> 0, index |-> 0,
                                   row |-> 0, box |-> {}]
  BY DEF Init
<1>2. calls \in [Calls -> Call] /\ \A c \in Calls : callOK(calls[c], commit, applied)
  BY DEF Init, callOK, Call, At
<1>3. tablesOK /\ requestsOK
  BY FS_EmptySet, ReadFenceAssumption DEF Init, tablesOK, requestsOK
<1>4. retainedOK
  <2>1. abandoned = {}
    BY <1>1 DEF abandoned
  <2> QED
    BY <2>1, FS_EmptySet DEF Init, retainedOK
<1>5. life \in Life
  BY DEF Init, Life
<1> QED
  BY <1>2, <1>3, <1>4, <1>5 DEF Init, IInv

-----------------------------------------------------------------------------
(***************************************************************************)
(* Steps of a call.                                                        *)
(***************************************************************************)
\* A step of one call that takes part in no request.
LEMMA OneCall ==
    ASSUME IInv, NEW c \in Calls, NEW r, calls' = [calls EXCEPT ![c] = r],
           UNCHANGED <<raftVars, stateVars, catalog, life, reads, retired>>,
           callOK(r, commit, applied),
           c \notin reads, r.at # "ask",
           r.start = calls[c].start \/ calls[c].at = "idle",
           begun(c) => r.at \notin {"idle", "admit", "ask"},
           r.box = {"abandoned"} <=> calls[c].box = {"abandoned"}
    PROVE  IInv'
<1>1. /\ calls' \in [Calls -> Call]
      /\ \A x \in Calls : calls'[x] = IF x = c THEN r ELSE calls[x]
  BY DEF IInv, callOK
<1>2. UNCHANGED <<commit, applied, loop, catalog, life, reads, retired, asked, states>>
  BY DEF raftVars, stateVars
<1>3. \A x \in Calls : callOK(calls'[x], commit', applied')
  BY <1>1, <1>2 DEF IInv
<1>4. tablesOK'
  BY <1>1, <1>2 DEF IInv, tablesOK
<1>5. requestsOK'
  <2>1. \A x \in Calls : begun(x) => begun(x)' /\ calls'[x].start = calls[x].start
    BY <1>1 DEF begun
  <2> QED
    BY <1>2, <2>1 DEF IInv, requestsOK
<1>6. retainedOK'
  <2>1. abandoned' = abandoned /\ stopped' = stopped
    BY <1>1, <1>2 DEF abandoned, stopped
  <2> QED
    BY <1>1, <1>2, <2>1 DEF IInv, retainedOK
<1> QED
  BY <1>1, <1>2, <1>3, <1>4, <1>5, <1>6 DEF IInv

\* An answer closes the call.
LEMMA Answered ==
    ASSUME calls \in [Calls -> Call], NEW c \in Calls, NEW a \in Result, answered(c, a)
    PROVE  \E e \in Call : /\ calls' = [calls EXCEPT ![c] = e]
                           /\ e.at = "done" /\ e.start = calls[c].start /\ e.index = 0
                           /\ e.row = calls[c].row /\ e.box = {a}
<1> DEFINE e == [calls[c] EXCEPT !.at = "done", !.box = {a}, !.catalog = 0, !.index = 0]
<1>1. calls' = [calls EXCEPT ![c] = e]
  BY DEF answered, set
<1>2. /\ e \in Call /\ e.at = "done" /\ e.start = calls[c].start /\ e.index = 0
      /\ e.row = calls[c].row /\ e.box = {a}
  BY Zenon DEF Call, At
<1> HIDE DEF e
<1> QED
  BY <1>1, <1>2, Zenon

\* A row, or its absence, that is as new as the call.
LEMMA AnsweredOK ==
    ASSUME NEW r \in Call, NEW cm \in Nat, NEW ap, callOK(r, cm, ap), NEW a \in Result,
           a \in {"row", "notfound"} => r.start <= r.row + 1,
           NEW e \in Call, e.at = "done", e.start = r.start, e.index = 0, e.row = r.row,
           e.box = {a}
    PROVE  callOK(e, cm, ap)
BY DEF callOK

\* A call that is not pending returns.
LEMMA ReturnStep ==
    ASSUME IInv, NEW c \in Calls, c \notin reads, NEW a \in Result \ {"abandoned"},
           answered(c, a), calls[c].box # {"abandoned"},
           a \in {"row", "notfound"} => calls[c].start <= calls[c].row + 1,
           UNCHANGED <<raftVars, stateVars, catalog, life, reads, retired>>
    PROVE  IInv'
<1>1. /\ calls[c] \in Call /\ callOK(calls[c], commit, applied) /\ commit \in Nat
      /\ calls \in [Calls -> Call]
  BY DEF IInv
<1>2. PICK e \in Call : /\ calls' = [calls EXCEPT ![c] = e]
                        /\ e.at = "done" /\ e.start = calls[c].start /\ e.index = 0
                        /\ e.row = calls[c].row /\ e.box = {a}
  BY <1>1, Answered
<1>3. callOK(e, commit, applied)
  BY <1>1, <1>2, AnsweredOK
<1> QED
  BY <1>2, <1>3, OneCall, Zenon

\* ReadIndex notes the commit index.
LEMMA ReadIndexStep ==
    ASSUME IInv, NEW c \in Calls, ReadIndex(c)
    PROVE  IInv'
<1>1. /\ calls[c] \in Call /\ callOK(calls[c], commit, applied) /\ commit \in Nat
      /\ calls[c].at = "idle" /\ calls[c].box = {} /\ c \notin reads /\ catalog \in Nat
  BY DEF IInv, ReadIndex, tablesOK, callOK
<1>2. UNCHANGED <<raftVars, stateVars, catalog, life, reads, retired>>
  BY DEF ReadIndex, tableVars
<1>3. CASE stopped
  BY <1>1, <1>2, <1>3, ReturnStep DEF ReadIndex, Result
<1>4. CASE ~ stopped
  <2> DEFINE r == [calls[c] EXCEPT !.at = "admit", !.start = commit, !.catalog = catalog]
  <2>1. calls' = [calls EXCEPT ![c] = r]
    BY <1>4 DEF ReadIndex, set
  <2>2. /\ r \in Call /\ r.at = "admit" /\ r.start = commit
        /\ r.index = calls[c].index /\ r.box = {}
    BY <1>1, Zenon DEF Call, At
  <2> HIDE DEF r
  <2>3. callOK(r, commit, applied)
    BY <1>1, <2>2 DEF callOK
  <2> QED
    BY <1>1, <1>2, <2>1, <2>2, <2>3, OneCall, Zenon DEF begun
<1> QED
  BY <1>3, <1>4

\* goto changes where the call is and nothing else.
LEMMA Goto ==
    ASSUME NEW r \in Call, NEW at \in At, NEW e, e = [r EXCEPT !.at = at]
    PROVE  /\ e \in Call /\ e.at = at /\ e.start = r.start /\ e.index = r.index
           /\ e.row = r.row /\ e.box = r.box
BY DEF Call

\* Receive takes the index of the ReadState, or the error.
LEMMA ReceiveStep ==
    ASSUME IInv, NEW c \in Calls, Receive(c)
    PROVE  IInv'
<1>1. /\ calls[c] \in Call /\ callOK(calls[c], commit, applied) /\ commit \in Nat
      /\ calls[c].at = "await" /\ calls[c].box # {} /\ c \notin reads
  BY DEF IInv, Receive, tablesOK
<1>2. PICK a \in calls[c].box : IF a = "index" THEN goto(c, "fence") ELSE answered(c, a)
  BY DEF Receive
<1>3. calls[c].box = {a} /\ a \in {"index", "stopped"}
  BY <1>1, <1>2 DEF callOK
<1>4. UNCHANGED <<raftVars, stateVars, catalog, life, reads, retired>>
  BY DEF Receive, tableVars
<1>5. CASE a = "index"
  <2> DEFINE r == [calls[c] EXCEPT !.at = "fence"]
  <2>1. calls' = [calls EXCEPT ![c] = r]
    BY <1>2, <1>5 DEF goto, set
  <2>2. /\ r \in Call /\ r.at = "fence" /\ r.start = calls[c].start
        /\ r.index = calls[c].index /\ r.box = {"index"}
    BY <1>1, <1>3, <1>5, Goto DEF At
  <2> HIDE DEF r
  <2>3. callOK(r, commit, applied)
    BY <1>1, <1>3, <1>5, <2>2 DEF callOK
  <2> QED
    BY <1>1, <1>3, <1>4, <1>5, <2>1, <2>2, <2>3, OneCall, Zenon
<1>6. CASE a = "stopped"
  BY <1>1, <1>2, <1>3, <1>4, <1>6, ReturnStep DEF Result
<1> QED
  BY <1>3, <1>5, <1>6

\* waitApplied: the call goes on when the applied index has reached its fence.
LEMMA WaitAppliedStep ==
    ASSUME IInv, NEW c \in Calls, CheckApplied(c) \/ Subscribe(c) \/ Wake(c)
    PROVE  IInv'
<1>1. /\ calls[c] \in Call /\ callOK(calls[c], commit, applied)
      /\ commit \in Nat /\ applied \in Nat
      /\ calls[c].at \in {"fence", "subscribe", "woken"} /\ c \notin reads
  BY DEF IInv, CheckApplied, Subscribe, Wake, tablesOK
<1>2. UNCHANGED <<raftVars, stateVars, catalog, life, reads, retired>>
  BY DEF CheckApplied, Subscribe, Wake, tableVars
<1>3. ASSUME NEW at \in {"fence", "subscribe", "wait"}, goto(c, at)
      PROVE  IInv'
  <2> DEFINE r == [calls[c] EXCEPT !.at = at]
  <2>1. calls' = [calls EXCEPT ![c] = r]
    BY <1>3 DEF goto, set
  <2>2. /\ r \in Call /\ r.at = at /\ r.start = calls[c].start /\ r.index = calls[c].index
        /\ r.box = calls[c].box
    BY <1>1, Goto DEF At
  <2> HIDE DEF r
  <2>3. callOK(r, commit, applied)
    BY <1>1, <2>2 DEF callOK
  <2> QED
    BY <1>1, <1>2, <2>1, <2>2, <2>3, OneCall, Zenon
<1>4. ASSUME CheckApplied(c), reached(c)
      PROVE  IInv'
  <2> DEFINE r == [calls[c] EXCEPT !.at = "read", !.index = 0]
  <2>1. calls' = [calls EXCEPT ![c] = r]
    BY <1>4 DEF CheckApplied, set
  <2>2. /\ r \in Call /\ r.at = "read" /\ r.start = calls[c].start /\ r.index = 0
        /\ r.box = calls[c].box
    BY <1>1, Zenon DEF Call, At
  <2>3. calls[c].start <= applied
    <3>1. calls[c].start <= calls[c].index /\ calls[c].index <= applied
      BY <1>1, <1>4 DEF CheckApplied, reached, callOK, Call
    <3> QED
      BY <1>1, <3>1 DEF Call
  <2> HIDE DEF r
  <2>4. callOK(r, commit, applied)
    BY <1>1, <2>2, <2>3 DEF callOK
  <2> QED
    BY <1>1, <1>2, <2>1, <2>2, <2>4, OneCall, Zenon
<1>5. ASSUME answered(c, "stopped"), calls[c].at = "subscribe"
      PROVE  IInv'
  <2>1. calls[c].box # {"abandoned"}
    BY <1>1, <1>5 DEF callOK
  <2> QED
    BY <1>1, <1>2, <1>5, <2>1, ReturnStep DEF Result
<1> QED
  BY <1>3, <1>4, <1>5 DEF CheckApplied, Subscribe, Wake

\* The read, at an applied index that is not behind the start of the call, and
\* the check of the route.
LEMMA ReadStep ==
    ASSUME IInv, NEW c \in Calls, Read(c) \/ validateReadRoute(c)
    PROVE  IInv'
<1>1. /\ calls[c] \in Call /\ callOK(calls[c], commit, applied)
      /\ commit \in Nat /\ applied \in Nat /\ 1 <= applied
      /\ calls[c].at \in {"read", "validate"} /\ c \notin reads
  BY DEF IInv, Read, validateReadRoute, tablesOK
<1>2. UNCHANGED <<raftVars, stateVars, catalog, life, reads, retired>>
  BY DEF Read, validateReadRoute, tableVars
<1>3. calls[c].box # {"abandoned"}
  BY <1>1 DEF callOK
<1>4. ASSUME NEW a \in {"stopped", "moved"}, answered(c, a)
      PROVE  IInv'
  BY <1>1, <1>2, <1>3, <1>4, ReturnStep DEF Result
<1>5. ASSUME calls[c].at = "read", applied = 1, answered(c, "notfound")
      PROVE  IInv'
  <2>1. calls[c].start <= calls[c].row + 1
    BY <1>1, <1>5 DEF callOK, Call
  <2> QED
    BY <1>1, <1>2, <1>3, <1>5, <2>1, ReturnStep DEF Result
<1>6. ASSUME calls[c].at = "validate", answered(c, "row")
      PROVE  IInv'
  <2>1. calls[c].start <= calls[c].row + 1
    BY <1>1, <1>6 DEF callOK
  <2> QED
    BY <1>1, <1>2, <1>3, <1>6, <2>1, ReturnStep DEF Result
<1>7. ASSUME calls[c].at = "read", applied # 1,
             set(c, [calls[c] EXCEPT !.at = "validate", !.row = applied - 1])
      PROVE  IInv'
  <2> DEFINE r == [calls[c] EXCEPT !.at = "validate", !.row = applied - 1]
  <2>1. calls' = [calls EXCEPT ![c] = r]
    BY <1>7 DEF set
  <2>0. applied - 1 \in Nat
    BY <1>1
  <2>2. /\ r \in Call /\ r.at = "validate" /\ r.start = calls[c].start
        /\ r.index = calls[c].index /\ r.box = calls[c].box /\ r.row = applied - 1
    BY <1>1, <2>0, Zenon DEF Call, At
  <2> HIDE DEF r
  <2>3. callOK(r, commit, applied)
    BY <1>1, <1>7, <2>2 DEF callOK
  <2> QED
    BY <1>1, <1>2, <2>1, <2>2, <2>3, OneCall, Zenon
<1> QED
  BY <1>4, <1>5, <1>6, <1>7 DEF Read, validateReadRoute

\* admitRead puts the call into the table while there is room.
LEMMA AdmitReadStep ==
    ASSUME IInv, NEW c \in Calls, admitRead(c)
    PROVE  IInv'
<1>1. /\ calls[c] \in Call /\ callOK(calls[c], commit, applied) /\ calls \in [Calls -> Call]
      /\ commit \in Nat /\ calls[c].at = "admit" /\ calls[c].box = {} /\ c \notin reads
      /\ reads \subseteq Calls /\ IsFiniteSet(reads) /\ Cardinality(reads) \in Nat
      /\ MaxReads \in Nat
  BY ReadFenceAssumption, FS_CardinalityType, Zenon DEF IInv, admitRead, tablesOK, callOK
<1> DEFINE fits == /\ ~ (stopped \/ Cardinality(reads) >= MaxReads \/ readSeq = MaxSeq)
                   /\ ~ (readBytes + Bytes[c] > MaxReadBytes)
<1>2. CASE ~ fits
  <2>1. UNCHANGED <<raftVars, stateVars, catalog, life, reads, retired>>
    BY <1>2 DEF admitRead
  <2>2. PICK a \in {"stopped", "backpressure", "exhausted"} : answered(c, a)
    BY <1>2 DEF admitRead
  <2> QED
    BY <1>1, <2>1, <2>2, ReturnStep DEF Result
<1>3. CASE fits
  <2> DEFINE r == [calls[c] EXCEPT !.at = "ask"]
  <2>1. /\ calls' = [calls EXCEPT ![c] = r] /\ reads' = reads \cup {c}
        /\ UNCHANGED <<commit, asked, states, applied, loop, catalog, life, retired>>
    BY <1>3 DEF admitRead, goto, set, raftVars, stateVars
  <2>2. /\ r \in Call /\ r.at = "ask" /\ r.start = calls[c].start /\ r.index = calls[c].index
        /\ r.box = {}
    BY <1>1, Goto DEF At
  <2> HIDE DEF r
  <2>3. callOK(r, commit, applied)
    BY <1>1, <2>2 DEF callOK
  <2>4. /\ calls' \in [Calls -> Call]
        /\ \A x \in Calls : calls'[x] = IF x = c THEN r ELSE calls[x]
    BY <1>1, <2>1, <2>2
  <2>5. tablesOK'
    <3>1. IsFiniteSet(reads') /\ Cardinality(reads') = Cardinality(reads) + 1
      BY <1>1, <2>1, FS_AddElement
    <3>2. Cardinality(reads') <= MaxReads
      BY <1>1, <1>3, <3>1
    <3> QED
      BY <1>1, <2>1, <2>2, <2>4, <3>1, <3>2 DEF IInv, tablesOK
  <2>6. requestsOK'
    <3>1. \A x \in Calls : begun(x) => begun(x)' /\ calls'[x].start = calls[x].start
      BY <1>1, <2>4 DEF begun
    <3> QED
      BY <2>1, <3>1 DEF IInv, requestsOK
  <2>7. retainedOK'
    <3>1. abandoned' = abandoned /\ stopped' = stopped
      BY <1>1, <2>1, <2>2, <2>4, Zenon DEF abandoned, stopped
    <3> QED
      BY <2>1, <2>4, <3>1, Zenon DEF IInv, retainedOK
  <2> QED
    BY <2>1, <2>3, <2>4, <2>5, <2>6, <2>7 DEF IInv
<1> QED
  BY <1>2, <1>3, Zenon

\* node.ReadIndex takes the request.
LEMMA AskedStep ==
    ASSUME IInv, NEW c \in Calls, calls[c].at = "ask", goto(c, "await"),
           asked' = asked \cup {[call |-> c, from |-> commit]},
           UNCHANGED <<commit, states, stateVars, catalog, life, reads, retired>>
    PROVE  IInv'
<1>1. /\ calls[c] \in Call /\ callOK(calls[c], commit, applied) /\ calls \in [Calls -> Call]
      /\ commit \in Nat /\ 1 <= commit /\ calls[c].box \subseteq {"stopped"}
      /\ calls[c].start <= commit
  BY DEF IInv, callOK
<1> DEFINE r == [calls[c] EXCEPT !.at = "await"]
           new == [call |-> c, from |-> commit]
<1>2. /\ calls' = [calls EXCEPT ![c] = r]
      /\ UNCHANGED <<commit, states, applied, loop, catalog, life, reads, retired>>
  BY DEF goto, set, stateVars, tableVars
<1>3. /\ r \in Call /\ r.at = "await" /\ r.start = calls[c].start /\ r.index = calls[c].index
      /\ r.box = calls[c].box
  BY <1>1, Goto DEF At
<1>4. new \in [call: Calls, from: Nat] /\ new.call = c /\ new.from = commit
  BY <1>1, Zenon
<1> HIDE DEF r, new
<1>5. callOK(r, commit, applied)
  BY <1>1, <1>3, Zenon DEF callOK
<1>6. /\ calls' \in [Calls -> Call]
      /\ \A x \in Calls : calls'[x] = IF x = c THEN r ELSE calls[x]
  BY <1>1, <1>2, <1>3, Zenon
<1>7. tablesOK'
  BY <1>2, <1>3, <1>6, Zenon DEF IInv, tablesOK
<1>8. asked' = asked \cup {new}
  BY Zenon DEF new
<1>9. \A x \in asked \cup states : x.call \in Calls /\ x.call # c
  BY Zenon DEF IInv, requestsOK, begun
<1>10. requestsOK'
  <2>1. \A x \in Calls : calls'[x].start = calls[x].start /\ (begun(x) => begun(x)')
    BY <1>3, <1>6, Zenon DEF begun
  <2>2. begun(c)'
    BY <1>3, <1>6 DEF begun
  <2>3. requestsOK
    BY Zenon DEF IInv
  <2>4. asked' \subseteq [call: Calls, from: Nat]
    BY <1>4, <1>8, <2>3, Zenon DEF requestsOK
  <2>5. \A q \in asked' : /\ begun(q.call)' /\ 1 <= q.from /\ q.from <= commit'
                          /\ calls'[q.call].start <= q.from
    BY <1>1, <1>2, <1>4, <1>8, <1>9, <2>1, <2>2, <2>3 DEF requestsOK
  <2>6. \A q, x \in asked' : q.call = x.call => q = x
    BY <1>4, <1>8, <1>9, <2>3, Zenon DEF requestsOK
  <2>7. \A q \in asked', x \in states : q.call # x.call
    BY <1>4, <1>8, <1>9, <2>3, Zenon DEF requestsOK
  <2> QED
    BY <1>2, <1>9, <2>1, <2>3, <2>4, <2>5, <2>6, <2>7, Zenon DEF requestsOK
<1>11. retainedOK'
  <2>1. abandoned' = abandoned /\ stopped' = stopped
    BY <1>1, <1>2, <1>3, <1>6, ZenonT(40) DEF abandoned, stopped
  <2>2. ~ stopped => c \in reads
    BY DEF IInv, retainedOK
  <2> QED
    BY <1>2, <1>3, <1>4, <1>6, <1>8, <2>1, <2>2, Zenon DEF IInv, retainedOK
<1> QED
  BY <1>2, <1>5, <1>6, <1>7, <1>10, <1>11, Zenon DEF IInv

\* cancelRead retires a pending context and evicts another only when the table
\* of retired contexts is full.
LEMMA CancelRead ==
    ASSUME tablesOK, NEW c \in Calls, cancelRead(c)
    PROVE  /\ reads' = reads \ {c} /\ retired' \subseteq retired \cup {c}
           /\ IsFiniteSet(reads') /\ Cardinality(reads') <= MaxReads
           /\ IsFiniteSet(retired') /\ Cardinality(retired') <= MaxRetired
           /\ Cardinality(retired \cup {c}) <= MaxRetired =>
                 retired \subseteq retired' /\ (c \in reads => c \in retired')
<1> DEFINE all == IF c \in reads THEN retired \cup {c} ELSE retired
<1>1. /\ IsFiniteSet(retired) /\ Cardinality(retired) \in Nat /\ IsFiniteSet(reads)
      /\ Cardinality(reads) \in Nat
      /\ Cardinality(retired) <= MaxRetired /\ Cardinality(reads) <= MaxReads
      /\ MaxRetired \in Nat /\ MaxReads \in Nat
  BY ReadFenceAssumption, FS_CardinalityType, Zenon DEF tablesOK
<1>2. /\ IsFiniteSet(retired \cup {c}) /\ Cardinality(retired \cup {c}) \in Nat
      /\ Cardinality(retired \cup {c}) <= Cardinality(retired) + 1
  <2>1. /\ IsFiniteSet(retired \cup {c})
        /\ Cardinality(retired \cup {c}) =
              IF c \in retired THEN Cardinality(retired) ELSE Cardinality(retired) + 1
    BY <1>1, FS_AddElement
  <2> QED
    BY <1>1, <2>1
<1>3. /\ IsFiniteSet(all) /\ Cardinality(all) \in Nat /\ Cardinality(all) <= MaxRetired + 1
      /\ retired \subseteq all /\ all \subseteq retired \cup {c} /\ (c \in reads => c \in all)
      /\ Cardinality(retired \cup {c}) <= MaxRetired => Cardinality(all) <= MaxRetired
  BY <1>1, <1>2
<1>4. /\ reads' = reads \ {c}
      /\ IF Cardinality(all) > MaxRetired
         THEN \E old \in all : retired' = all \ {old}
         ELSE retired' = all
  BY DEF cancelRead, released
<1> HIDE DEF all
<1>5. IsFiniteSet(reads') /\ Cardinality(reads') <= MaxReads
  <2>1. /\ IsFiniteSet(reads \ {c})
        /\ Cardinality(reads \ {c}) =
              IF c \in reads THEN Cardinality(reads) - 1 ELSE Cardinality(reads)
    BY <1>1, FS_RemoveElement, Zenon
  <2> QED
    BY <1>1, <1>4, <2>1
<1>6. CASE Cardinality(all) > MaxRetired
  <2>1. PICK old \in all : retired' = all \ {old}
    BY <1>4, <1>6
  <2>2. IsFiniteSet(retired') /\ Cardinality(retired') = Cardinality(all) - 1
    BY <1>3, <2>1, FS_RemoveElement
  <2> QED
    BY <1>1, <1>3, <1>4, <1>5, <1>6, <2>1, <2>2
<1>7. CASE ~ (Cardinality(all) > MaxRetired)
  BY <1>1, <1>3, <1>4, <1>5, <1>7
<1> QED
  BY <1>6, <1>7

\* A call that is cancelled before it is answered, by its context or because
\* the node was stopped.
LEMMA CancelledStep ==
    ASSUME IInv, NEW c \in Calls, calls[c].at \in {"ask", "await"},
           NEW a \in {"stopped", "abandoned"}, answered(c, a), cancelRead(c),
           a = "stopped" => stopped,
           UNCHANGED <<raftVars, stateVars, catalog, life>>
    PROVE  IInv'
<1>1. /\ calls[c] \in Call /\ callOK(calls[c], commit, applied) /\ calls \in [Calls -> Call]
      /\ commit \in Nat /\ tablesOK /\ requestsOK /\ retainedOK
      /\ a \in Result /\ calls[c].box # {"abandoned"}
  BY Zenon DEF IInv, callOK, Result
<1>2. PICK e \in Call : /\ calls' = [calls EXCEPT ![c] = e]
                        /\ e.at = "done" /\ e.start = calls[c].start /\ e.index = 0
                        /\ e.row = calls[c].row /\ e.box = {a}
  BY <1>1, Answered, Zenon
<1>3. callOK(e, commit, applied)
  BY <1>1, <1>2, AnsweredOK, Zenon
<1>4. UNCHANGED <<commit, asked, states, applied, loop, catalog, life>>
  BY Zenon DEF raftVars, stateVars
<1>5. /\ calls' \in [Calls -> Call]
      /\ \A x \in Calls : calls'[x] = IF x = c THEN e ELSE calls[x]
  BY <1>1, <1>2, Zenon
<1>6. /\ reads' = reads \ {c} /\ retired' \subseteq retired \cup {c}
      /\ IsFiniteSet(reads') /\ Cardinality(reads') <= MaxReads
      /\ IsFiniteSet(retired') /\ Cardinality(retired') <= MaxRetired
      /\ Cardinality(retired \cup {c}) <= MaxRetired =>
            retired \subseteq retired' /\ (c \in reads => c \in retired')
  BY <1>1, CancelRead, Zenon
<1>7. tablesOK'
  BY <1>1, <1>5, <1>6, Zenon DEF tablesOK
<1>8. requestsOK'
  <2>1. \A x \in Calls : begun(x) => begun(x)' /\ calls'[x].start = calls[x].start
    BY <1>2, <1>5, Zenon DEF begun
  <2> QED
    BY <1>1, <1>4, <2>1, Zenon DEF requestsOK
<1>9. retainedOK'
  <2>1. abandoned' = IF a = "abandoned" THEN abandoned \cup {c} ELSE abandoned
    BY <1>1, <1>2, <1>5, Zenon DEF abandoned
  <2>2. IsFiniteSet(abandoned) /\ IsFiniteSet(abandoned \cup {c}) /\ stopped' = stopped
    BY <1>1, <1>4, FS_AddElement, Zenon DEF retainedOK, stopped
  <2>3. CASE stopped
    BY <2>1, <2>2, <2>3, Zenon DEF retainedOK
  <2>4. CASE ~ stopped
    <3>1. a = "abandoned" /\ abandoned' = abandoned \cup {c} /\ retired \subseteq abandoned
      BY <1>1, <2>1, <2>4, Zenon DEF retainedOK
    <3>2. retired' \subseteq abandoned'
      BY <1>6, <3>1, Zenon
    <3>3. \A x \in Calls : calls'[x].at = "ask" => x \in reads'
      BY <1>1, <1>2, <1>5, <1>6, <2>4, Zenon DEF retainedOK
    <3>4. ASSUME Cardinality(abandoned') <= MaxRetired
          PROVE  \A x \in asked \cup states : x.call \in reads' \cup retired'
      <4>1. retired \cup {c} \in SUBSET (abandoned \cup {c}) /\ abandoned \in SUBSET (abandoned \cup {c})
        BY <3>1, Zenon
      <4>2. /\ Cardinality(retired \cup {c}) <= Cardinality(abandoned')
            /\ Cardinality(abandoned) <= Cardinality(abandoned')
            /\ IsFiniteSet(retired \cup {c})
        BY <2>2, <3>1, <4>1, FS_Subset, Zenon
      <4>3. /\ Cardinality(retired \cup {c}) \in Nat /\ Cardinality(abandoned) \in Nat
            /\ Cardinality(abandoned') \in Nat /\ MaxRetired \in Nat
        BY <2>2, <3>1, <4>2, FS_CardinalityType, ReadFenceAssumption, Zenon
      <4>4. Cardinality(retired \cup {c}) <= MaxRetired /\ Cardinality(abandoned) <= MaxRetired
        BY <3>4, <4>2, <4>3
      <4> QED
        BY <1>1, <1>6, <2>4, <4>4, Zenon DEF retainedOK
    <3> QED
      BY <1>1, <1>4, <2>1, <2>2, <2>4, <3>2, <3>3, <3>4, Zenon DEF retainedOK
  <2> QED
    BY <2>3, <2>4, Zenon
<1> QED
  BY <1>3, <1>4, <1>5, <1>7, <1>8, <1>9, Zenon DEF IInv

\* node.ReadIndex, and a context that ends.
LEMMA AskCancelStep ==
    ASSUME IInv, NEW c \in Calls, Ask(c) \/ Cancel(c)
    PROVE  IInv'
<1>1. CASE Ask(c) /\ goto(c, "await") /\ asked' = asked \cup {[call |-> c, from |-> commit]}
           /\ UNCHANGED tableVars
  BY <1>1, AskedStep, Zenon DEF Ask, tableVars
<1>2. CASE Ask(c) /\ loop = "dead" /\ answered(c, "stopped") /\ cancelRead(c) /\ UNCHANGED asked
  <2>1. stopped
    BY <1>2, Zenon DEF IInv, retainedOK
  <2>2. calls[c].at = "ask" /\ UNCHANGED <<raftVars, stateVars, catalog, life>>
    BY <1>2, Zenon DEF Ask, raftVars
  <2> QED
    BY <1>2, <2>1, <2>2, CancelledStep, Zenon
<1>3. CASE Cancel(c) /\ calls[c].at \in {"ask", "await"}
  <2>1. /\ answered(c, "abandoned") /\ cancelRead(c)
        /\ UNCHANGED <<raftVars, stateVars, catalog, life>>
    BY <1>3, Zenon DEF Cancel
  <2> QED
    BY <1>3, <2>1, CancelledStep, Zenon
<1>4. CASE Cancel(c) /\ calls[c].at \notin {"ask", "await"}
  <2>1. /\ answered(c, "cancelled") /\ UNCHANGED tableVars
        /\ UNCHANGED <<raftVars, stateVars, catalog, life>>
    BY <1>4 DEF Cancel
  <2>2. calls[c].at \in {"admit", "wait", "woken"}
    BY <1>4, Zenon DEF Cancel
  <2>3. c \notin reads /\ calls[c].box # {"abandoned"}
    BY <2>2, Zenon DEF IInv, tablesOK, callOK
  <2> QED
    BY <2>1, <2>3, ReturnStep DEF Result, tableVars
<1> QED
  BY <1>1, <1>2, <1>3, <1>4, Zenon DEF Ask

-----------------------------------------------------------------------------
(***************************************************************************)
(* Steps of raft, of the ready loop and of the stop.                       *)
(***************************************************************************)
\* A later commit or applied index keeps what is known of a call.
LEMMA LaterOK ==
    ASSUME NEW r, NEW cm \in Nat, NEW ap \in Nat, callOK(r, cm, ap),
           NEW cm2 \in Nat, NEW ap2 \in Nat, cm <= cm2, ap <= ap2
    PROVE  callOK(r, cm2, ap2)
<1>1. r.start \in Nat /\ r.index \in Nat
  BY DEF callOK, Call
<1> QED
  BY <1>1 DEF callOK

\* Raft commits an entry; the ready loop applies one.
LEMMA LogStep ==
    ASSUME IInv, Commit \/ Apply
    PROVE  IInv'
<1>1. /\ commit' \in Nat /\ applied' \in Nat /\ commit <= commit' /\ applied <= applied'
      /\ 1 <= applied' /\ applied' <= commit' /\ commit \in Nat /\ applied \in Nat
      /\ loop' \in {"idle", "signal", "dead"} /\ (loop' = "dead" => loop = "dead")
      /\ UNCHANGED <<asked, states, catalog, life, reads, retired, calls>>
  BY DEF IInv, Commit, Apply, raftVars, stateVars, tableVars
<1>2. \A c \in Calls : callOK(calls'[c], commit', applied')
  BY <1>1, LaterOK, Zenon DEF IInv
<1>3. tablesOK'
  BY <1>1, Zenon DEF IInv, tablesOK
<1>4. requestsOK'
  <2>1. \A c : begun(c)' = begun(c)
    BY <1>1 DEF begun
  <2>2. (\A q \in asked : q.from \in Nat) /\ (\A s \in states : s.index \in Nat)
    BY Zenon DEF IInv, requestsOK
  <2> QED
    BY <1>1, <2>1, <2>2 DEF IInv, requestsOK
<1>5. retainedOK'
  <2>1. abandoned' = abandoned /\ stopped' = stopped
    BY <1>1, Zenon DEF abandoned, stopped
  <2> QED
    BY <1>1, <2>1, Zenon DEF IInv, retainedOK
<1> QED
  BY <1>1, <1>2, <1>3, <1>4, <1>5 DEF IInv

\* Raft answers a request with an index that is not behind it, or loses it.
LEMMA RaftStep ==
    ASSUME IInv, NEW q \in asked, Answer(q) \/ Lose(q)
    PROVE  IInv'
<1>1. /\ q.call \in Calls /\ q.from \in Nat /\ begun(q.call) /\ 1 <= q.from
      /\ calls[q.call].start <= q.from /\ calls[q.call].start \in Nat /\ commit \in Nat
      /\ \A s \in states : s.call # q.call
  BY Zenon DEF IInv, requestsOK, callOK, Call
<1>2. /\ asked' = asked \ {q}
      /\ UNCHANGED <<commit, applied, loop, catalog, life, reads, retired, calls>>
  BY DEF Answer, Lose, stateVars, tableVars
<1>3. \/ states' = states
      \/ \E i \in q.from .. commit : states' = states \cup {[call |-> q.call, index |-> i]}
  BY DEF Answer, Lose
<1>4. requestsOK'
  <2>1. \A c : begun(c)' = begun(c)
    BY <1>2, Zenon DEF begun
  <2>2. CASE states' = states
    BY <1>2, <2>1, <2>2, Zenon DEF IInv, requestsOK
  <2>3. ASSUME NEW i \in q.from .. commit,
               states' = states \cup {[call |-> q.call, index |-> i]}
        PROVE  requestsOK'
    <3> DEFINE new == [call |-> q.call, index |-> i]
    <3>1. /\ new \in [call: Calls, index: Nat] /\ new.call = q.call /\ new.index = i
          /\ i \in Nat /\ 1 <= i /\ i <= commit /\ calls[q.call].start <= i
      BY <1>1
    <3>2. states' = states \cup {new}
      BY <2>3, Zenon
    <3> HIDE DEF new
    <3>3. \A x \in asked' : x.call # q.call
      BY <1>2, Zenon DEF IInv, requestsOK
    <3> QED
      BY <1>1, <1>2, <2>1, <3>1, <3>2, <3>3, SMTT(20) DEF IInv, requestsOK
  <2> QED
    BY <1>3, <2>2, <2>3
<1>5. \A x \in asked' \cup states' : \E y \in asked \cup states : x.call = y.call
  BY <1>2, <1>3
<1>6. retainedOK'
  <2>1. abandoned' = abandoned /\ stopped' = stopped
    BY <1>2 DEF abandoned, stopped
  <2> QED
    BY <1>2, <1>5, <2>1, Zenon DEF IInv, retainedOK
<1> QED
  BY <1>2, <1>4, <1>6, Zenon DEF IInv, tablesOK

\* signalApplied wakes the waiters and changes nothing else of a call.
LEMMA SignalApplied ==
    ASSUME IInv, signalApplied
    PROVE  /\ calls' \in [Calls -> Call]
           /\ \A c \in Calls : /\ callOK(calls'[c], commit, applied)
                               /\ calls'[c].box = calls[c].box
                               /\ calls'[c].start = calls[c].start
                               /\ begun(c)' = begun(c)
                               /\ calls[c].at \in {"ask", "await"} => calls'[c] = calls[c]
                               /\ calls'[c].at = "ask" => calls[c].at = "ask"
<1>1. \A c \in Calls : calls[c] \in Call /\ callOK(calls[c], commit, applied)
  BY DEF IInv
<1>2. \A c \in Calls : calls'[c] = IF calls[c].at = "wait" THEN [calls[c] EXCEPT !.at = "woken"]
                                   ELSE calls[c]
  BY Zenon DEF signalApplied
<1>3. ASSUME NEW c \in Calls, calls[c].at = "wait"
      PROVE  /\ calls'[c] \in Call /\ calls'[c].at = "woken"
             /\ calls'[c].box = calls[c].box /\ calls'[c].start = calls[c].start
             /\ callOK(calls'[c], commit, applied)
  <2>1. /\ calls'[c] \in Call /\ calls'[c].at = "woken"
        /\ calls'[c].box = calls[c].box /\ calls'[c].start = calls[c].start
        /\ calls'[c].index = calls[c].index
    <3>1. calls'[c] = [calls[c] EXCEPT !.at = "woken"] /\ calls[c] \in Call /\ "woken" \in At
      BY <1>1, <1>2, <1>3 DEF At
    <3> QED
      BY <3>1, Goto
  <2> QED
    BY <1>1, <1>3, <2>1 DEF callOK
<1>4. calls' \in [Calls -> Call]
  BY <1>1, <1>2, <1>3 DEF signalApplied
<1> QED
  BY <1>1, <1>2, <1>3, <1>4 DEF begun

\* What happens to life only stops the replica; the loop dies only then.
LEMMA LifeStep ==
    ASSUME IInv, life' \in Life, loop' \in {"idle", "signal", "dead"},
           stopped => stopped', loop' = "dead" => loop = "dead" \/ stopped',
           ~ stopped' => life'.todo = {},
           catalog' \in Nat,
           UNCHANGED <<raftVars, applied, reads, retired>>,
           calls' \in [Calls -> Call],
           \A c \in Calls : /\ callOK(calls'[c], commit, applied)
                            /\ calls'[c].box = calls[c].box
                            /\ calls'[c].start = calls[c].start
                            /\ begun(c)' = begun(c)
                            /\ calls[c].at \in {"ask", "await"} => calls'[c] = calls[c]
                            /\ calls'[c].at = "ask" => calls[c].at = "ask"
    PROVE  IInv'
<1>1. UNCHANGED <<commit, asked, states, applied, reads, retired>>
  BY Zenon DEF raftVars
<1>2. tablesOK'
  BY <1>1, Zenon DEF IInv, tablesOK
<1>3. requestsOK'
  BY <1>1 DEF IInv, requestsOK
<1>4. retainedOK'
  <2>1. abandoned' = abandoned
    BY Zenon DEF abandoned
  <2> QED
    BY <1>1, <2>1, Zenon DEF IInv, retainedOK
<1> QED
  BY <1>1, <1>2, <1>3, <1>4, Zenon DEF IInv

\* The rest of the loop, the catalog, and the stop but for finishReads.
LEMMA QuietStep ==
    ASSUME IInv, \/ Signal \/ LoopStop \/ InstallCatalog \/ Close \/ Fail \/ StopWakes
                 \/ UNCHANGED vars
    PROVE  IInv'
<1>1. /\ life \in Life /\ loop \in {"idle", "signal", "dead"} /\ catalog \in Nat
      /\ calls \in [Calls -> Call]
      /\ \A c \in Calls : callOK(calls[c], commit, applied)
      /\ ~ stopped => loop # "dead" /\ life.todo = {}
  BY Zenon DEF IInv, retainedOK
<1>2. /\ life' \in Life /\ (stopped => stopped') /\ (~ stopped' => life'.todo = {})
  <2>1. CASE UNCHANGED life
    BY <1>1, <2>1 DEF stopped
  <2>2. CASE Close \/ Fail
    BY <1>1, <2>2, Zenon DEF Close, Fail, failed, Life, stopped
  <2>3. CASE StopWakes
    BY <1>1, <2>3 DEF StopWakes, Life, stopped
  <2> QED
    BY <2>1, <2>2, <2>3, Zenon DEF Signal, LoopStop, InstallCatalog, vars
<1>3. loop' \in {"idle", "signal", "dead"} /\ (loop' = "dead" => loop = "dead" \/ stopped')
  BY <1>1, Zenon DEF Signal, LoopStop, InstallCatalog, Close, Fail, failed, StopWakes, vars, stateVars,
     stopped, Life
<1>4. catalog' \in Nat /\ UNCHANGED <<raftVars, applied, reads, retired>>
  BY <1>1 DEF Signal, LoopStop, InstallCatalog, Close, Fail, StopWakes, vars, stateVars,
     raftVars, tableVars
<1>5. CASE calls' = calls
  BY <1>1, <1>2, <1>3, <1>4, <1>5, LifeStep, Zenon DEF begun
<1>6. CASE signalApplied
  BY <1>2, <1>3, <1>4, <1>6, SignalApplied, LifeStep, Zenon
<1> QED
  BY <1>5, <1>6, Zenon DEF Signal, LoopStop, InstallCatalog, Close, Fail, StopWakes, vars

\* deliverReadState: the index of the ReadState becomes the fence of a pending
\* call; a context that is neither pending nor retired is fatal.
LEMMA DeliverStep ==
    ASSUME IInv, NEW s \in states, Deliver(s)
    PROVE  IInv'
<1>1. /\ tablesOK /\ requestsOK /\ retainedOK /\ life \in Life /\ commit \in Nat
      /\ calls \in [Calls -> Call] /\ loop = "idle"
      /\ \A x \in Calls : callOK(calls[x], commit, applied)
  BY DEF IInv, Deliver
<1>2. /\ s.call \in Calls /\ begun(s.call) /\ s.index \in Nat /\ s.index <= commit
      /\ calls[s.call].start <= s.index
  BY <1>1 DEF requestsOK
<1>3. /\ states' = states \ {s} /\ reads' = reads \ {s.call}
      /\ life' = IF s.call \in reads \cup retired THEN life ELSE failed
      /\ loop' = IF life'.fatal THEN "dead" ELSE "idle"
      /\ UNCHANGED <<commit, asked, applied, catalog, retired>>
  BY Zenon DEF Deliver, released
<1>4. /\ calls' \in [Calls -> Call]
      /\ \A x \in Calls :
            /\ callOK(calls'[x], commit, applied)
            /\ calls'[x].start = calls[x].start /\ calls'[x].at = calls[x].at
            /\ calls'[x].box = {"abandoned"} <=> calls[x].box = {"abandoned"}
            /\ x # s.call => calls'[x] = calls[x]
  <2>1. CASE s.call \notin reads
    BY <1>1, <2>1, Zenon DEF Deliver
  <2>2. CASE s.call \in reads
    <3> DEFINE r == [calls[s.call] EXCEPT !.box = {"index"}, !.index = s.index]
    <3>1. calls[s.call] \in Call /\ calls[s.call].at = "await" /\ calls[s.call].box = {}
      BY <1>1, <1>2, <2>2, Zenon DEF tablesOK, begun
    <3>2. /\ r \in Call /\ r.at = "await" /\ r.start = calls[s.call].start /\ r.index = s.index
          /\ r.box = {"index"}
      BY <1>2, <3>1, Zenon DEF Call, Result
    <3>3. \A x \in Calls : calls'[x] = IF x = s.call THEN r ELSE calls[x]
      BY <1>1, <1>2, <2>2, Zenon DEF Deliver
    <3>4. calls' \in [Calls -> Call]
      BY <1>1, <1>2, <2>2, <3>2, Zenon DEF Deliver
    <3> HIDE DEF r
    <3>5. callOK(r, commit, applied)
      BY <1>1, <1>2, <3>1, <3>2, ZenonT(40) DEF callOK
    <3> QED
      BY <1>1, <3>1, <3>2, <3>3, <3>4, <3>5, Zenon
  <2> QED
    BY <2>1, <2>2, Zenon
<1>5. tablesOK'
  <2>1. IsFiniteSet(reads') /\ Cardinality(reads') <= Cardinality(reads)
    BY <1>1, <1>3, FS_Subset, Zenon DEF tablesOK
  <2>2. Cardinality(reads') \in Nat /\ Cardinality(reads) \in Nat /\ MaxReads \in Nat
    BY <1>1, <2>1, FS_CardinalityType, ReadFenceAssumption, Zenon DEF tablesOK
  <2>3. Cardinality(reads') <= MaxReads
    BY <1>1, <2>1, <2>2 DEF tablesOK
  <2> QED
    BY <1>1, <1>3, <1>4, <2>1, <2>3, Zenon DEF tablesOK
<1>6. requestsOK'
  <2>1. \A x \in Calls : begun(x)' = begun(x)
    BY <1>4 DEF begun
  <2> QED
    BY <1>1, <1>3, <1>4, <2>1, Zenon DEF requestsOK
<1>7. life' \in Life /\ (stopped => stopped') /\ (loop' = "dead" => stopped')
      /\ (~ stopped' => s.call \in reads \cup retired /\ life' = life)
  BY <1>1, <1>3, Zenon DEF failed, Life, stopped
<1>8. retainedOK'
  <2>1. abandoned' = abandoned
    BY <1>4, Zenon DEF abandoned
  <2>2. \A x \in asked \cup states' : x.call # s.call
    BY <1>1, <1>3, Zenon DEF requestsOK
  <2>3. CASE stopped'
    BY <1>1, <2>1, <2>3, Zenon DEF retainedOK
  <2>4. CASE ~ stopped'
    <3>1. ~ stopped /\ loop' # "dead" /\ life' = life
      BY <1>7, <2>4, Zenon
    <3>2. \A x \in Calls : calls'[x].at = "ask" => x \in reads'
      BY <1>1, <1>2, <1>3, <1>4, <3>1, Zenon DEF retainedOK, begun
    <3>3. Cardinality(abandoned') <= MaxRetired =>
              \A x \in asked' \cup states' : x.call \in reads' \cup retired'
      BY <1>1, <1>3, <2>1, <2>2, <3>1, Zenon DEF retainedOK
    <3> QED
      BY <1>1, <1>3, <2>1, <3>1, <3>2, <3>3, Zenon DEF retainedOK
  <2> QED
    BY <2>3, <2>4, Zenon
<1> QED
  BY <1>3, <1>4, <1>5, <1>6, <1>7, <1>8, Zenon DEF IInv

\* finishReads answers whoever is pending when the replica stops.
LEMMA FinishReadsStep ==
    ASSUME IInv, finishReads
    PROVE  IInv'
<1>1. /\ tablesOK /\ requestsOK /\ retainedOK /\ life \in Life
      /\ calls \in [Calls -> Call]
      /\ \A x \in Calls : callOK(calls[x], commit, applied)
  BY DEF IInv
<1>2. stopped
  BY <1>1 DEF retainedOK, finishReads
<1>3. /\ life' = [life EXCEPT !.todo = @ \ {"finish"}] /\ reads' = {}
      /\ UNCHANGED <<commit, asked, states, applied, loop, catalog, retired>>
  BY DEF finishReads, raftVars, stateVars
<1>4. life' \in Life /\ stopped'
  BY <1>1, <1>2, <1>3 DEF Life, stopped
<1>5. /\ calls' \in [Calls -> Call]
      /\ \A x \in Calls :
            /\ callOK(calls'[x], commit, applied)
            /\ calls'[x].start = calls[x].start /\ calls'[x].at = calls[x].at
            /\ calls'[x].box = {"abandoned"} <=> calls[x].box = {"abandoned"}
  <2>1. \A x \in Calls : calls'[x] = IF x \in reads THEN [calls[x] EXCEPT !.box = {"stopped"}]
                                     ELSE calls[x]
    BY Zenon DEF finishReads
  <2>2. ASSUME NEW x \in reads
        PROVE  /\ calls'[x] \in Call /\ callOK(calls'[x], commit, applied)
               /\ calls'[x].start = calls[x].start /\ calls'[x].at = calls[x].at
               /\ calls'[x].box = {"stopped"} /\ calls[x].box = {}
    <3>1. x \in Calls /\ calls[x] \in Call /\ calls[x].at \in {"ask", "await"} /\ calls[x].box = {}
      BY <1>1 DEF tablesOK
    <3>2. calls'[x] = [calls[x] EXCEPT !.box = {"stopped"}]
      BY <2>1, <3>1
    <3>3. /\ calls'[x] \in Call /\ calls'[x].start = calls[x].start /\ calls'[x].at = calls[x].at
          /\ calls'[x].box = {"stopped"} /\ calls'[x].index = calls[x].index
      BY <3>1, <3>2 DEF Call, Result
    <3> QED
      BY <1>1, <3>1, <3>3, Zenon DEF callOK
  <2>3. calls' \in [Calls -> Call]
    BY <1>1, <2>1, <2>2, Zenon DEF finishReads
  <2> QED
    BY <1>1, <2>1, <2>2, <2>3, Zenon
<1>6. tablesOK'
  BY <1>1, <1>3, FS_EmptySet, ReadFenceAssumption DEF tablesOK
<1>7. requestsOK'
  <2>1. \A x \in Calls : begun(x)' = begun(x)
    BY <1>5, Zenon DEF begun
  <2> QED
    BY <1>1, <1>3, <1>5, <2>1, Zenon DEF requestsOK
<1>8. retainedOK'
  <2>1. abandoned' = abandoned
    BY <1>5, Zenon DEF abandoned
  <2> QED
    BY <1>1, <1>4, <2>1, Zenon DEF retainedOK
<1> QED
  BY <1>3, <1>4, <1>5, <1>6, <1>7, <1>8 DEF IInv

\* The invariant holds in every reachable state.
LEMMA ReadFenceInductive == Spec => []IInv
<1>1. IInv /\ [Next]_vars => IInv'
  BY SMTT(20), ReadIndexStep, AdmitReadStep, AskCancelStep, ReceiveStep, WaitAppliedStep, ReadStep,
     LogStep, RaftStep, QuietStep, DeliverStep, FinishReadsStep
  DEF Next, CallStep, LoopStep, StopStep
<1> QED
  BY <1>1, InitIInv, PTL DEF Spec

-----------------------------------------------------------------------------
(***************************************************************************)
(* The bytes of the pending reads.  Their sum is defined by recursion over *)
(* sets; what it is for a finite set follows from the smallest set that    *)
(* would be a counterexample.                                              *)
(***************************************************************************)
held(S) == MapThenSumSet(LAMBDA c : Bytes[c], S)

\* A set of subsets of a finite set has a smallest member.
LEMMA SmallestSubset ==
    ASSUME NEW U, IsFiniteSet(U), NEW B, B \subseteq SUBSET U, B # {}
    PROVE  \E T \in B : \A W \in B : W \subseteq T => W = T
<1> DEFINE R == StrictSubsetOrdering(U)
<1>1. IsWellFoundedOn(R, SUBSET U)
  BY FS_StrictSubsetOrderingWellFounded, FS_FiniteSubsetsOfFinite, Zenon
<1>2. \E T \in B : \A W \in B : ~ (<<W, T>> \in R)
  <2> HIDE DEF R
  <2> QED
    BY <1>1, WFMin
<1> QED
  BY <1>2, Zenon DEF StrictSubsetOrdering

\* The element the recursion takes next.
chosen(s) == CHOOSE x \in s : TRUE

\* f is the recursive sum on the subsets of S.
sumsOn(f, S) ==
    f = [s \in SUBSET S |-> IF s = {} THEN 0 ELSE Bytes[chosen(s)] + f[s \ {chosen(s)}]]

LEMMA ChosenMember ==
    ASSUME NEW s, s # {}
    PROVE  chosen(s) \in s
BY DEF chosen

\* Two recursive sums agree where both are defined.
LEMMA SumsAgree ==
    ASSUME NEW S, NEW T, NEW U, IsFiniteSet(U), U \subseteq S, U \subseteq T,
           NEW f, sumsOn(f, S), NEW g, sumsOn(g, T)
    PROVE  f[U] = g[U]
<1> DEFINE B == {s \in SUBSET U : f[s] # g[s]}
<1> SUFFICES ASSUME B # {} PROVE FALSE
  OBVIOUS
<1>1. PICK s \in B : \A w \in B : w \subseteq s => w = s
  <2>1. B \subseteq SUBSET U
    OBVIOUS
  <2> HIDE DEF B
  <2> QED
    BY <2>1, SmallestSubset
<1>2. \A t \in SUBSET S : f[t] = IF t = {} THEN 0 ELSE Bytes[chosen(t)] + f[t \ {chosen(t)}]
  BY Zenon DEF sumsOn
<1>3. \A t \in SUBSET T : g[t] = IF t = {} THEN 0 ELSE Bytes[chosen(t)] + g[t \ {chosen(t)}]
  BY Zenon DEF sumsOn
<1>4. s # {}
  BY <1>2, <1>3, ZenonT(40)
<1>5. s \ {chosen(s)} \in SUBSET U /\ s \ {chosen(s)} # s
  BY <1>4, ChosenMember
<1>6. f[s \ {chosen(s)}] = g[s \ {chosen(s)}]
  BY <1>1, <1>5
<1> QED
  BY <1>2, <1>3, <1>4, <1>6

\* A finite set has its recursive sum.
LEMMA SumsExist ==
    ASSUME NEW S, IsFiniteSet(S)
    PROVE  \E f : sumsOn(f, S)
<1> DEFINE B == {s \in SUBSET S : ~ \E f : sumsOn(f, s)}
<1> SUFFICES ASSUME B # {} PROVE FALSE
  OBVIOUS
<1>1. PICK T \in B : \A w \in B : w \subseteq T => w = T
  <2>1. B \subseteq SUBSET S
    OBVIOUS
  <2> HIDE DEF B
  <2> QED
    BY <2>1, SmallestSubset
<1> DEFINE sums(s) == CHOOSE f : sumsOn(f, s)
           rest(s) == s \ {chosen(s)}
           F == [s \in SUBSET T |-> IF s = {} THEN 0
                                    ELSE Bytes[chosen(s)] + sums(rest(s))[rest(s)]]
<1>2. \A s \in SUBSET T : s # T => sumsOn(sums(s), s)
  BY <1>1
<1>3. \A s \in SUBSET T : s # {} => rest(s) \in SUBSET T /\ rest(s) # T /\ rest(s) # s
  BY ChosenMember
<1>4. ASSUME NEW t \in SUBSET T, t # T
      PROVE  F[t] = sums(t)[t]
  <2>1. sumsOn(sums(t), t)
    BY <1>2, <1>4
  <2>2. sums(t)[t] = IF t = {} THEN 0 ELSE Bytes[chosen(t)] + sums(t)[rest(t)]
    <3> HIDE DEF sums
    <3>1. t \in SUBSET t
      OBVIOUS
    <3> QED
      BY <2>1, <3>1, Zenon DEF sumsOn
  <2>3. CASE t = {}
    BY <2>2, <2>3
  <2>4. CASE t # {}
    <3>1. sumsOn(sums(rest(t)), rest(t)) /\ IsFiniteSet(rest(t)) /\ rest(t) \subseteq t
      BY <1>2, <1>3, <2>4, FS_Subset
    <3>2. sums(t)[rest(t)] = sums(rest(t))[rest(t)]
      <4> HIDE DEF sums, rest
      <4> QED
        BY <2>1, <3>1, SumsAgree
    <3> QED
      BY <2>2, <2>4, <3>2
  <2> QED
    BY <2>3, <2>4
<1>5. F = [s \in SUBSET T |-> IF s = {} THEN 0 ELSE Bytes[chosen(s)] + F[rest(s)]]
  <2>1. \A s \in SUBSET T : s # {} => F[rest(s)] = sums(rest(s))[rest(s)]
    BY <1>3, <1>4, Zenon
  <2> HIDE DEF sums, rest
  <2> QED
    BY <2>1, Zenon
<1>6. sumsOn(F, T)
  BY <1>5, Zenon DEF sumsOn
<1> QED
  BY <1>1, <1>6

\* held takes one element off at a time.
LEMMA HeldRecursion ==
    ASSUME NEW S, IsFiniteSet(S)
    PROVE  held(S) = IF S = {} THEN 0
                         ELSE Bytes[chosen(S)] + held(S \ {chosen(S)})
<1> DEFINE sums(s) == CHOOSE f : sumsOn(f, s)
<1>1. \A s : held(s) = sums(s)[s]
  BY DEF held, MapThenSumSet, MapThenFoldSet, sumsOn, chosen
<1>2. \A s \in SUBSET S : sumsOn(sums(s), s)
  BY SumsExist, FS_Subset
<1> HIDE DEF sums
<1>3. S \in SUBSET S /\ sumsOn(sums(S), S)
  BY <1>2
<1>4. sums(S)[S] = IF S = {} THEN 0 ELSE Bytes[chosen(S)] + sums(S)[S \ {chosen(S)}]
  BY <1>3, Zenon DEF sumsOn
<1>5. S # {} => sums(S)[S \ {chosen(S)}] = sums(S \ {chosen(S)})[S \ {chosen(S)}]
  <2>1. S \ {chosen(S)} \in SUBSET S /\ IsFiniteSet(S \ {chosen(S)})
    BY FS_Subset
  <2> QED
    BY <1>2, <1>3, <2>1, SumsAgree
<1> QED
  BY <1>1, <1>4, <1>5

\* Pending reads, which retain the bytes of calls.
sized(S) == IsFiniteSet(S) /\ S \subseteq Calls

LEMMA SizedSubset ==
    ASSUME NEW S, sized(S), NEW T, T \subseteq S
    PROVE  sized(T) /\ \A p \in T : Bytes[p] \in Nat
BY FS_Subset, ReadFenceAssumption DEF sized

\* What reads retain is a number.
LEMMA HeldType ==
    ASSUME NEW S, sized(S)
    PROVE  held(S) \in Nat
<1> DEFINE B == {s \in SUBSET S : held(s) \notin Nat}
<1> SUFFICES ASSUME B # {} PROVE FALSE
  OBVIOUS
<1>1. PICK T \in B : \A w \in B : w \subseteq T => w = T
  <2>1. B \subseteq SUBSET S /\ IsFiniteSet(S)
    BY DEF sized
  <2> HIDE DEF B
  <2> QED
    BY <2>1, SmallestSubset
<1>2. sized(T) /\ IsFiniteSet(T) /\ \A p \in T : Bytes[p] \in Nat
  BY SizedSubset DEF sized
<1>3. T # {} /\ held(T) = Bytes[chosen(T)] + held(T \ {chosen(T)})
  BY <1>1, <1>2, HeldRecursion
<1>4. T \ {chosen(T)} \subseteq T /\ T \ {chosen(T)} # T /\ chosen(T) \in T
  BY <1>3, ChosenMember
<1>5. held(T \ {chosen(T)}) \in Nat
  BY <1>1, <1>4
<1> QED
  BY <1>1, <1>2, <1>3, <1>4, <1>5

\* The order in which reads are taken does not matter.
LEMMA HeldMember ==
    ASSUME NEW S, sized(S), NEW x \in S
    PROVE  held(S) = Bytes[x] + held(S \ {x})
<1> DEFINE B == {s \in SUBSET S : \E y \in s : held(s) # Bytes[y] + held(s \ {y})}
<1> SUFFICES ASSUME B # {} PROVE FALSE
  BY Zenon
<1>1. PICK T \in B : \A w \in B : w \subseteq T => w = T
  <2>1. B \subseteq SUBSET S /\ IsFiniteSet(S)
    BY DEF sized
  <2> HIDE DEF B
  <2> QED
    BY <2>1, SmallestSubset
<1>2. PICK y \in T : held(T) # Bytes[y] + held(T \ {y})
  OBVIOUS
<1> DEFINE z == chosen(T)
<1>3. z \in T /\ held(T) = Bytes[z] + held(T \ {z})
  <2>1. IsFiniteSet(T)
    BY FS_Subset DEF sized
  <2> QED
    BY <2>1, ChosenMember, HeldRecursion
<1> HIDE DEF z
<1>4. y # z
  BY <1>2, <1>3, SMTT(20)
<1>5. held(T \ {z}) = Bytes[y] + held((T \ {z}) \ {y})
  <2>1. T \ {z} \in SUBSET S /\ T \ {z} \subseteq T /\ T \ {z} # T /\ y \in T \ {z}
    BY <1>3, <1>4
  <2> QED
    BY <1>1, <2>1, Zenon
<1>6. held(T \ {y}) = Bytes[z] + held((T \ {y}) \ {z})
  <2>1. T \ {y} \in SUBSET S /\ T \ {y} \subseteq T /\ T \ {y} # T /\ z \in T \ {y}
    BY <1>3, <1>4
  <2> QED
    BY <1>1, <2>1, Zenon
<1>7. (T \ {z}) \ {y} = (T \ {y}) \ {z}
  OBVIOUS
<1>8. /\ held((T \ {y}) \ {z}) \in Nat /\ Bytes[y] \in Nat /\ Bytes[z] \in Nat
  <2>1. (T \ {y}) \ {z} \subseteq S /\ y \in S /\ z \in S
    BY <1>3
  <2> QED
    BY <2>1, SizedSubset, HeldType
<1>9. \A a, b, n \in Nat : a + (b + n) = b + (a + n)
  OBVIOUS
<1>10. held(T) = Bytes[z] + (Bytes[y] + held((T \ {y}) \ {z}))
  BY <1>3, <1>5, <1>7, SMTT(20)
<1> QED
  BY <1>2, <1>6, <1>8, <1>9, <1>10

\* The account of the pending reads, and the numbers of their contexts.
bytesOK ==
    /\ readBytes = held(reads) /\ readBytes <= MaxReadBytes
    /\ readSeq \in Nat /\ readSeq <= MaxSeq

\* The empty table retains nothing.
LEMMA HeldEmpty == held({}) = 0
BY HeldRecursion, FS_EmptySet, Zenon

\* A read that leaves the table gives back what it retained, and was charged
\* for: readBytes is never clamped.
LEMMA ReleasedBytes ==
    ASSUME tablesOK, bytesOK, NEW c \in Calls, released(c)
    PROVE  bytesOK'
<1>1. sized(reads) /\ held(reads) \in Nat /\ readSeq' = readSeq /\ MaxReadBytes \in Nat
  BY HeldType, ReadFenceAssumption DEF tablesOK, sized, released
<1>2. CASE c \notin reads
  <2>1. reads' = reads /\ readBytes' = readBytes
    BY <1>2 DEF released
  <2> QED
    BY <1>1, <2>1 DEF bytesOK
<1>3. CASE c \in reads
  <2>1. held(reads) = Bytes[c] + held(reads \ {c})
    BY <1>1, <1>3, HeldMember, Zenon
  <2>2. held(reads \ {c}) \in Nat /\ Bytes[c] \in Nat
    BY <1>1, <1>3, SizedSubset, HeldType
  <2>3. reads' = reads \ {c} /\ readBytes = held(reads) /\ readBytes <= MaxReadBytes
    BY DEF released, bytesOK
  <2>4. readBytes' = held(reads \ {c}) /\ readBytes' <= MaxReadBytes
    <3>1. readBytes' = IF Bytes[c] > readBytes THEN 0 ELSE readBytes - Bytes[c]
      BY <1>3 DEF released
    <3> HIDE DEF held
    <3> QED
      BY <1>1, <2>1, <2>2, <2>3, <3>1
  <2> QED
    BY <1>1, <2>3, <2>4 DEF bytesOK
<1> QED
  BY <1>2, <1>3

\* admitRead charges for the read it puts into the table, within the limit.
LEMMA AdmitBytes ==
    ASSUME IInv, bytesOK, NEW c \in Calls, admitRead(c)
    PROVE  bytesOK'
<1>1. /\ sized(reads) /\ held(reads) \in Nat /\ IsFiniteSet(reads) /\ reads \subseteq Calls
      /\ {MaxReadBytes, MaxSeq} \subseteq Nat /\ Bytes[c] \in Nat /\ c \notin reads
  BY HeldType, ReadFenceAssumption DEF IInv, tablesOK, sized, admitRead
<1>2. /\ readSeq' \in {readSeq, readSeq + 1} /\ readSeq \in Nat
      /\ readSeq' = readSeq + 1 => readSeq # MaxSeq \/ readSeq' = readSeq
  BY DEF admitRead, bytesOK
<1>3. readSeq' \in Nat /\ readSeq' <= MaxSeq
  BY <1>1, <1>2 DEF bytesOK
<1>4. CASE UNCHANGED <<reads, readBytes>>
  BY <1>3, <1>4 DEF bytesOK
<1>5. CASE /\ reads' = reads \cup {c} /\ readBytes' = readBytes + Bytes[c]
           /\ ~ (readBytes + Bytes[c] > MaxReadBytes)
  <2>1. sized(reads') /\ c \in reads' /\ reads' \ {c} = reads
    BY <1>1, <1>5, FS_AddElement DEF sized
  <2>2. held(reads') = Bytes[c] + held(reads)
    BY <2>1, HeldMember
  <2> HIDE DEF held
  <2> QED
    BY <1>1, <1>3, <1>5, <2>2 DEF bytesOK
<1> QED
  BY <1>4, <1>5 DEF admitRead

\* Every step keeps the account.
LEMMA BytesStep ==
    ASSUME IInv, bytesOK, [Next]_vars
    PROVE  bytesOK'
<1>1. tablesOK /\ requestsOK
  BY DEF IInv
<1>2. CASE UNCHANGED tableVars
  BY <1>2 DEF bytesOK, tableVars
<1>3. CASE \E c \in Calls : admitRead(c)
  BY <1>3, AdmitBytes
<1>4. CASE \E c \in Calls : released(c)
  BY <1>1, <1>4, ReleasedBytes
<1>5. CASE finishReads
  <2>1. reads' = {} /\ readBytes' = 0 /\ readSeq' = readSeq /\ MaxReadBytes \in Nat
    BY <1>5, ReadFenceAssumption DEF finishReads
  <2> QED
    BY <2>1, HeldEmpty DEF bytesOK
<1>6. \A s \in states : s.call \in Calls
  BY <1>1 DEF requestsOK
<1> QED
  BY <1>2, <1>3, <1>4, <1>5, <1>6, Zenon DEF Next, CallStep, LoopStep, StopStep, vars, tableVars,
     ReadIndex, Ask, Receive, Cancel, cancelRead, CheckApplied, Subscribe, Wake, Read,
     validateReadRoute, Commit, Answer, Lose, Apply, Signal, LoopStop, Deliver, InstallCatalog,
     Close, Fail, StopWakes

LEMMA ReadFenceBytes == Spec => []bytesOK
<1>1. Init => bytesOK
  BY HeldEmpty, ReadFenceAssumption DEF Init, bytesOK
<1>2. IInv /\ bytesOK /\ [Next]_vars => bytesOK'
  BY BytesStep
<1> QED
  BY <1>1, <1>2, ReadFenceInductive, PTL DEF Spec

-----------------------------------------------------------------------------
(***************************************************************************)
(* The results.                                                            *)
(***************************************************************************)
\* The tables of pending and retired reads keep their bounds.
THEOREM ReadFenceTypeCorrect == Spec => []TypeOK
<1>1. IInv /\ bytesOK => TypeOK
  <2> SUFFICES ASSUME IInv, bytesOK PROVE TypeOK
    BY Zenon
  <2>1. \A c \in Calls : calls[c].index \in 0 .. commit
    BY DEF IInv, callOK, Call
  <2>2. \A c \in Calls : Cardinality(calls[c].box) <= 1
    <3> SUFFICES ASSUME NEW c \in Calls PROVE Cardinality(calls[c].box) <= 1
      BY Zenon
    <3>1. CASE calls[c].box = {}
      BY <3>1, FS_EmptySet
    <3>2. ASSUME NEW a, calls[c].box = {a}
          PROVE  Cardinality(calls[c].box) <= 1
      <4>1. Cardinality({a}) = 1
        BY FS_Singleton, Zenon
      <4> QED
        BY <3>2, <4>1
    <3> QED
      BY <3>1, <3>2, Zenon DEF IInv, callOK
  <2>3. \A s \in states : s.index \in 1 .. commit
    BY DEF IInv, requestsOK
  <2> QED
    BY <2>1, <2>2, <2>3 DEF IInv, TypeOK, tablesOK, bytesOK
<1> QED
  BY <1>1, ReadFenceInductive, ReadFenceBytes, PTL

\* readBytes is what the pending reads retain, however they leave the table
\* (admitRead, cancelRead, deliverReadState, finishReads).
THEOREM ReadFenceBytesExact == Spec => []ReadBytesExact
<1>1. bytesOK => ReadBytesExact
  BY DEF bytesOK, ReadBytesExact, held
<1> QED
  BY <1>1, ReadFenceBytes, PTL

\* A read that returns a row, or that there is none, misses no write that was
\* committed before the call (ReadIndex, waitApplied).
THEOREM ReadFenceLinearizable == Spec => []ReadsAreLinearizable
<1>1. IInv => ReadsAreLinearizable
  <2> SUFFICES ASSUME IInv, NEW c \in Calls,
                      calls[c].at = "done", calls[c].box \subseteq {"row", "notfound"}
               PROVE  calls[c].row >= calls[c].start - 1
    BY Zenon DEF ReadsAreLinearizable
  <2>1. calls[c].start <= calls[c].row + 1 /\ calls[c].start \in Nat /\ calls[c].row \in Nat
    BY Zenon DEF IInv, callOK, Call
  <2> QED
    BY <2>1
<1> QED
  BY <1>1, ReadFenceInductive, PTL

\* deliverReadState stops an open replica only when more requests were
\* cancelled than retireReadLocked retains.
THEOREM ReadFenceNoUnknownContext == Spec => NoUnknownContext
<1> DEFINE known == ~stopped /\ states' \subseteq states /\ states' # states /\ life'.fatal =>
                       Cardinality({c \in Calls : calls[c].box = {"abandoned"}}) > MaxRetired
<1>1. IInv /\ [Next]_vars => [known]_vars
  <2> SUFFICES ASSUME IInv, [Next]_vars, ~ stopped, states' \subseteq states,
                      states' # states, life'.fatal
               PROVE  Cardinality(abandoned) > MaxRetired
    BY Zenon DEF abandoned
  <2>1. PICK s \in states : Deliver(s)
    BY Zenon DEF Next, CallStep, LoopStep, StopStep, vars, raftVars, stateVars, ReadIndex, admitRead,
       Ask, Receive, Cancel, CheckApplied, Subscribe, Wake, Read, validateReadRoute, Commit,
       Answer, Lose, Apply, Signal, LoopStop, InstallCatalog, Close, Fail, finishReads, StopWakes
  <2>2. s.call \notin reads \cup retired
    BY <2>1, Zenon DEF Deliver, stopped
  <2>3. ~ (Cardinality(abandoned) <= MaxRetired)
    BY <2>2, Zenon DEF IInv, retainedOK
  <2>4. Cardinality(abandoned) \in Nat /\ MaxRetired \in Nat
    BY FS_CardinalityType, ReadFenceAssumption, Zenon DEF IInv, retainedOK
  <2> QED
    BY <2>3, <2>4
<1> QED
  BY <1>1, ReadFenceInductive, PTL DEF Spec, NoUnknownContext
=============================================================================
