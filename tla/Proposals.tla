----------------------------- MODULE Proposals ------------------------------
(***************************************************************************)
(* Propose of internal/raftstore: admission of commands by one replica,    *)
(* the pending map that joins retries of an operation, the goroutine that  *)
(* hands a command to raft, and the ready loop that answers.               *)
(*                                                                         *)
(* Every action is one critical section of Replica.mu or stateMu, or one   *)
(* call of raft.Node.  Raft is external: it admits, commits and loses      *)
(* entries and changes its role at any time, also while the ready loop     *)
(* handles a Ready; the next Ready has a SoftState when the role is not    *)
(* the one the last Ready had.  The messages of an election go out through *)
(* the loop: raft asks for votes once a Ready had its pre-vote (PreVote is *)
(* set), and wins once one had its candidacy.                              *)
(***************************************************************************)
EXTENDS Naturals, Sequences, FiniteSets, FiniteSetsExt

CONSTANTS
    Calls,         \* calls of Propose
    Commands,      \* records [op, body, bytes]
    MaxPending,    \* maxPendingProposals
    MaxBytes,      \* maxPendingProposalBytes
    MaxChanges,    \* bound on role changes
    Stops          \* the ways to stop there are: "stopped" (Close), "fatal" (fail)

ASSUME ProposalsAssumption ==
    /\ \A c \in Commands : c.bytes \in Nat \ {0}
    /\ {MaxPending, MaxBytes, MaxChanges} \subseteq Nat
    /\ Stops \subseteq {"stopped", "fatal"}

VARIABLES
    results,   \* the commands bound to their operation by state.apply
    log,       \* entries raft admitted and has not committed yet
    role,      \* raft's: "leader", "follower", "candidate" or "none", no leader known
    seen,      \* the role in the last SoftState of a Ready
    changes,   \* number of changes
    loop,      \* the ready loop: [at, cmd], cmd the applied one, if any
    life,      \* [closed, fatal, finishing]: flags, errors of finishPending calls due
    pending,   \* the pending map: a set of [cmd, reg, waiters, submitted]
    bytes,     \* pendingBytes
    epoch,     \* admissionEpoch
    calls,     \* [Calls -> [at, cmd, epoch, reg, box]]
    submits    \* goroutines in submitProposal: a set of [cmd, reg, at, err]

raftVars == <<log, role, seen, changes>>
tableVars == <<pending, bytes>>
vars == <<results, raftVars, loop, life, tableVars, epoch, calls, submits>>

(***************************************************************************)
(* The pending map.                                                        *)
(***************************************************************************)
pendingOf(op) == {p \in pending : p.cmd.op = op}

\* A proposal of exactly this command.
samePending(cmd) == {p \in pending : p.cmd = cmd}

\* The bytes some proposals retain.
retained(ps) == MapThenSumSet(LAMBDA p : p.cmd.bytes, ps)

\* Mutant: the command's bytes are not released.
removePendingKeepsBytes(ps) == pending' = pending \ ps /\ UNCHANGED bytes

\* removePendingLocked for some operations, and finishPending
removePending(ps) ==
    /\ pending' = pending \ ps
    /\ bytes' = bytes - retained(ps)

\* One delivery into the channel of every waiter of the proposals; answer maps
\* a waiter's command to what it is told.
deliver(ps, answer) ==
    calls' = [c \in Calls |->
                IF \E p \in ps : c \in p.waiters
                THEN [calls[c] EXCEPT !.box = {answer[calls[c].cmd]}] ELSE calls[c]]

(***************************************************************************)
(* Propose.                                                                *)
(***************************************************************************)
stopError == IF life.closed THEN "stopped" ELSE "fatal"

stopped == life.closed \/ life.fatal

goto(c, at) == calls' = [calls EXCEPT ![c].at = at]

answered(c, a) == calls' = [calls EXCEPT ![c].at = "done", ![c].epoch = 0, ![c].box = {a}]

\* readOpen and the lookup of a stored result; a stop between the two is found
\* by the check that follows either way.
Propose(c, cmd) ==
    /\ calls[c].at = "idle"
    /\ calls' = [calls EXCEPT
          ![c].cmd = cmd, ![c].box = IF stopped THEN {stopError} ELSE {},
          ![c].at = IF stopped THEN "done"
                    ELSE IF \E x \in results : x.op = cmd.op THEN "cached" ELSE "admit"]
    /\ UNCHANGED <<results, raftVars, loop, life, tableVars, epoch, submits>>

\* Results never change, so the one found is the one there now.
Cached(c) ==
    /\ calls[c].at = "cached"
    /\ answered(c, IF stopped THEN stopError
                   ELSE IF calls[c].cmd \in results THEN "applied" ELSE "conflict")
    /\ UNCHANGED <<results, raftVars, loop, life, tableVars, epoch, submits>>

Admit(c) ==
    /\ calls[c].at = "admit"
    /\ IF stopped THEN answered(c, stopError)
       ELSE calls' = [calls EXCEPT ![c].at = "status", ![c].epoch = epoch]
    /\ UNCHANGED <<results, raftVars, loop, life, tableVars, epoch, submits>>

\* Node.Status, with no lock held
Status(c) ==
    /\ calls[c].at = "status"
    /\ IF role = "leader" THEN goto(c, "register") ELSE answered(c, "notleader")
    /\ UNCHANGED <<results, raftVars, loop, life, tableVars, epoch, submits>>

\* Mutant: the admission epoch is not compared.
refusalUnfenced(c, cmd) ==
    IF stopped THEN {stopError}
    ELSE IF pendingOf(cmd.op) # {} /\ samePending(cmd) = {} THEN {"conflict"}
    ELSE IF pendingOf(cmd.op) = {} /\ (Cardinality(pending) >= MaxPending
                                       \/ cmd.bytes > MaxBytes - bytes)
    THEN {"backpressure"} ELSE {}

\* What Propose returns instead of registering, in the order of its checks.
refusal(c, cmd) ==
    CASE stopped -> {stopError}
      [] ~stopped /\ calls[c].epoch # epoch -> {"ambiguous"}
      [] ~stopped /\ calls[c].epoch = epoch /\ pendingOf(cmd.op) = {} ->
            IF Cardinality(pending) >= MaxPending \/ cmd.bytes > MaxBytes - bytes
            THEN {"backpressure"} ELSE {}
      [] OTHER -> IF samePending(cmd) = {} THEN {"conflict"} ELSE {}

\* The call joins the pending proposal of its command or, as the owner, makes
\* one and starts submitProposal.
enter(c, cmd) ==
    LET owner == pendingOf(cmd.op) = {}
        joined == IF owner THEN [cmd |-> cmd, reg |-> c, waiters |-> {}, submitted |-> FALSE]
                  ELSE CHOOSE p \in samePending(cmd) : TRUE
    IN  /\ pending' = (pending \ {joined}) \cup {[joined EXCEPT !.waiters = @ \cup {c}]}
        /\ bytes' = IF owner THEN bytes + cmd.bytes ELSE bytes
        /\ submits' = IF owner
                      THEN submits \cup {[cmd |-> cmd, reg |-> c, at |-> "start", err |-> ""]}
                      ELSE submits
        /\ calls' = [calls EXCEPT ![c].at = "wait", ![c].epoch = 0, ![c].reg = {joined.reg}]

Register(c) ==
    /\ calls[c].at = "register"
    /\ LET no == refusal(c, calls[c].cmd) IN
       IF no # {}
       THEN /\ \E a \in no : answered(c, a)
            /\ UNCHANGED <<tableVars, submits>>
       ELSE enter(c, calls[c].cmd)
    /\ UNCHANGED <<results, raftVars, loop, life, epoch>>

\* awaitProposal: a delivery ...
Receive(c) ==
    /\ calls[c].at = "wait" /\ calls[c].box # {}
    /\ goto(c, "done")
    /\ UNCHANGED <<results, raftVars, loop, life, tableVars, epoch, submits>>

\* Mutant: a cancelled owner takes the other waiters with it.
CancelAll(c) ==
    /\ calls[c].at = "wait"
    /\ answered(c, "ambiguous")
    /\ LET mine == {p \in pending : c \in p.waiters} IN
       IF \E p \in mine : ~p.submitted
       THEN removePending(mine)
       ELSE /\ pending' = (pending \ mine) \cup {[p EXCEPT !.waiters = @ \ {c}] : p \in mine}
            /\ UNCHANGED bytes
    /\ UNCHANGED <<results, raftVars, loop, life, epoch, submits>>

\* ... or the end of the caller's context, and removeWaiter.
Cancel(c) ==
    /\ calls[c].at = "wait"
    /\ answered(c, "ambiguous")
    /\ LET mine == {p \in pending : c \in p.waiters}
           left(p) == [p EXCEPT !.waiters = @ \ {c}]
       IN  IF \E p \in mine : p.waiters = {c} /\ ~p.submitted
           THEN removePending(mine)
           ELSE /\ pending' = (pending \ mine) \cup {left(p) : p \in mine}
                /\ UNCHANGED bytes
    /\ UNCHANGED <<results, raftVars, loop, life, epoch, submits>>

(***************************************************************************)
(* submitProposal.                                                         *)
(***************************************************************************)
SubmitStart(g) ==
    /\ g.at = "start"
    /\ LET ps == samePending(g.cmd) IN
       /\ pending' = (pending \ ps) \cup {[p EXCEPT !.submitted = TRUE] : p \in ps}
       /\ submits' = (submits \ {g}) \cup
                     (IF ps = {} THEN {} ELSE {[g EXCEPT !.at = "propose"]})
    /\ UNCHANGED <<results, raftVars, loop, life, bytes, epoch, calls>>

nodeStopped == loop.at = "dead"

\* node.Propose admits the entry ...
SubmitAdmitted(g) ==
    /\ g.at = "propose" /\ ~nodeStopped /\ role = "leader"
    /\ log' = Append(log, [cmd |-> g.cmd, reg |-> g.reg])
    /\ submits' = submits \ {g}
    /\ UNCHANGED <<results, role, seen, changes, loop, life, tableVars, epoch, calls>>

\* ... or refuses it, being full, a follower (DisableProposalForwarding) or
\* stopped; it blocks while no leader is known.
SubmitRefused(g) ==
    /\ g.at = "propose" /\ (nodeStopped \/ role \in {"leader", "follower"})
    /\ submits' = (submits \ {g}) \cup
                  {[g EXCEPT !.at = "fail",
                             !.err = IF nodeStopped THEN "stopped" ELSE "backpressure"]}
    /\ UNCHANGED <<results, raftVars, loop, life, tableVars, epoch, calls>>

\* failPending
SubmitFail(g) ==
    /\ g.at = "fail"
    /\ LET ps == samePending(g.cmd) IN
       /\ removePending(ps)
       /\ deliver(ps, [cmd \in Commands |-> g.err])
    /\ submits' = submits \ {g}
    /\ UNCHANGED <<results, raftVars, loop, life, epoch>>

(***************************************************************************)
(* The ready loop.                                                         *)
(***************************************************************************)

\* state.apply of the next committed entry: the first command of an operation
\* is bound to it.
Commit ==
    /\ loop.at = "idle" /\ log # <<>>
    /\ LET cmd == Head(log).cmd IN
       /\ results' = IF \E x \in results : x.op = cmd.op THEN results ELSE results \cup {cmd}
       /\ loop' = [at |-> "notify", cmd |-> {cmd}]
    /\ log' = Tail(log)
    /\ UNCHANGED <<role, seen, changes, life, tableVars, epoch, calls, submits>>

\* Mutant: the result is delivered whatever command it is of.
outcomeUncompared(entry, cmd) == IF entry \in results THEN "applied" ELSE "conflict"

\* notify and notifyErrors: what a waiter with command cmd is told of an entry.
outcome(entry, cmd) == IF entry \in results /\ cmd = entry THEN "applied" ELSE "conflict"

Notify ==
    /\ loop.at = "notify"
    /\ LET entry == CHOOSE x \in loop.cmd : TRUE
           ps == pendingOf(entry.op)
       IN  removePending(ps) /\ deliver(ps, [cmd \in Commands |-> outcome(entry, cmd)])
    /\ loop' = [at |-> IF life.fatal THEN "dead" ELSE "idle", cmd |-> {}]
    /\ UNCHANGED <<results, raftVars, life, epoch, submits>>

\* A Ready with a SoftState ...
TakeSoftState ==
    /\ loop.at = "idle" /\ role # seen
    /\ seen' = role
    /\ loop' = [loop EXCEPT !.at = "soft"]
    /\ UNCHANGED <<results, log, role, changes, life, tableVars, epoch, calls, submits>>

\* ... observeSoftState ...
Observe ==
    /\ loop.at = "soft"
    /\ epoch' = epoch + 1
    /\ loop' = [loop EXCEPT !.at = IF seen = "leader" THEN "idle" ELSE "finish"]
    /\ UNCHANGED <<results, raftVars, life, tableVars, calls, submits>>

\* Mutant: the waiters are answered and stay.
FinishKeepsPending ==
    /\ loop.at = "finish"
    /\ deliver(pending, [cmd \in Commands |-> "ambiguous"])
    /\ loop' = [loop EXCEPT !.at = "idle"]
    /\ UNCHANGED <<results, raftVars, life, tableVars, epoch, submits>>

\* ... and, without the lead, finishPending(ErrAmbiguous).
FinishAmbiguous ==
    /\ loop.at = "finish"
    /\ removePending(pending)
    /\ deliver(pending, [cmd \in Commands |-> "ambiguous"])
    /\ loop' = [loop EXCEPT !.at = "idle"]
    /\ UNCHANGED <<results, raftVars, life, epoch, submits>>

(***************************************************************************)
(* Close and fail.                                                         *)
(***************************************************************************)
Close ==
    /\ "stopped" \in Stops /\ ~life.closed
    /\ life' = [life EXCEPT !.closed = TRUE, !.finishing = @ \cup {"stopped"}]
    /\ UNCHANGED <<results, raftVars, loop, tableVars, epoch, calls, submits>>

\* fail, for a storage error of the loop or a bad snapshot in Step
Fail ==
    /\ "fatal" \in Stops /\ ~life.fatal /\ loop.at # "dead"
    /\ life' = [life EXCEPT !.fatal = TRUE, !.finishing = @ \cup {"fatal"}]
    /\ UNCHANGED <<results, raftVars, loop, tableVars, epoch, calls, submits>>

\* their finishPending
Finish(err) ==
    /\ err \in life.finishing
    /\ life' = [life EXCEPT !.finishing = @ \ {err}]
    /\ removePending(pending)
    /\ deliver(pending, [cmd \in Commands |-> err])
    /\ UNCHANGED <<results, raftVars, loop, epoch, submits>>

\* stopTransport ends the loop, and stopNode then stops raft.
LoopStop ==
    /\ loop.at = "idle"
    /\ life.fatal \/ (life.closed /\ "stopped" \notin life.finishing)
    /\ loop' = [loop EXCEPT !.at = "dead"]
    /\ UNCHANGED <<results, raftVars, life, tableVars, epoch, calls, submits>>

\* The messages of the Ready with the last SoftState have been sent.
sent == loop.at \notin {"soft", "finish"}

\* Raft wins or loses the lead or its leader; entries at the end of its log
\* may be lost.
ChangeRole(new) ==
    /\ ~nodeStopped /\ changes < MaxChanges /\ new # role
    /\ new = "candidate" => role = "none" /\ seen = "none" /\ sent
    /\ new = "leader" => role = "candidate" /\ seen = "candidate" /\ sent
    /\ role' = new
    /\ changes' = changes + 1
    /\ \E n \in 0 .. Len(log) : log' = SubSeq(log, 1, n)
    /\ UNCHANGED <<results, seen, loop, life, tableVars, epoch, calls, submits>>

\* The replica leads, or campaigns; nobody has called yet.
Init ==
    /\ results = {} /\ log = <<>> /\ role \in {"leader", "candidate"} /\ seen = role /\ changes = 0
    /\ loop = [at |-> "idle", cmd |-> {}]
    /\ life = [closed |-> FALSE, fatal |-> FALSE, finishing |-> {}]
    /\ pending = {} /\ bytes = 0 /\ epoch = 0 /\ submits = {}
    /\ calls \in [Calls -> {[at |-> "idle", cmd |-> c, epoch |-> 0, reg |-> {}, box |-> {}] :
                               c \in {CHOOSE d \in Commands : TRUE}}]

CallStep(c) ==
    Cached(c) \/ Admit(c) \/ Status(c) \/ Register(c) \/ Receive(c)

LoopStep ==
    Commit \/ Notify \/ TakeSoftState \/ Observe \/ FinishAmbiguous \/ LoopStop

SubmitStep(g) ==
    SubmitStart(g) \/ SubmitAdmitted(g) \/ SubmitRefused(g) \/ SubmitFail(g)

Next ==
    \/ \E c \in Calls : CallStep(c) \/ Cancel(c) \/ \E cmd \in Commands : Propose(c, cmd)
    \/ \E g \in submits : SubmitStep(g)
    \/ LoopStep
    \/ Close \/ Fail
    \/ \E err \in Stops : Finish(err)
    \/ \E new \in {"leader", "follower", "candidate", "none"} : ChangeRole(new)

Spec == Init /\ [][Next]_vars

\* Goroutines run, and raft under a stable leader commits what it admitted.
\* No caller's context ends, no role changes, unless it so happens.
Fairness ==
    /\ \A c \in Calls : WF_vars(CallStep(c))
    /\ WF_vars(LoopStep)
    /\ WF_vars(\E g \in submits : SubmitStep(g))
    /\ \A err \in Stops : WF_vars(Finish(err))

FairSpec == Spec /\ Fairness

(***************************************************************************)
(* Properties.                                                             *)
(***************************************************************************)
\* The pending map holds callers that still wait and were not answered: an
\* answer sent twice would go to a closed channel, and panic (notify,
\* notifyErrors, failPending and finishPending send and close in turn; a
\* caller that gave up is taken out by removeWaiter).
AnsweredOnce ==
    \A p \in pending : \A c \in p.waiters : calls[c].at = "wait" /\ calls[c].box = {}

\* One pending proposal per operation, and pendingBytes is exactly what they
\* retain, within the limits: the branches that report corrupt accounting
\* (removePendingLocked, finishPending, Propose) are never taken.
AccountingExact ==
    /\ \A p, q \in pending : p.cmd.op = q.cmd.op => p = q
    /\ bytes = retained(pending)
    /\ bytes <= MaxBytes /\ Cardinality(pending) <= MaxPending

\* A caller told that its command was applied is told so of its own command,
\* which is bound to the operation for good (notify, the cached results).
AppliedIsBound ==
    \A c \in Calls : calls[c].at = "done" /\ calls[c].box = {"applied"} => calls[c].cmd \in results

\* A waiting caller has its answer or is known to the pending map; nobody is
\* forgotten by another caller's cancellation, a failed submission, a lost
\* lead or a stop (removeWaiter, failPending, finishPending).
NobodyForgotten ==
    \A c \in Calls : calls[c].at = "wait" /\ calls[c].box = {} => \E p \in pending : c \in p.waiters

\* Every Propose returns, even with a context that never ends: the admission
\* epoch keeps a call from registering after the loss of the lead was handled.
EveryCallReturns == <>[](\A c \in Calls : calls[c].at \in {"idle", "done"})

\* "Raft did not admit this entry": a caller told of backpressure after it
\* registered has no entry of its registration in raft's log (submitProposal).
BackpressureMeansNotAdmitted ==
    \A c \in Calls : calls[c].box = {"backpressure"} =>
        \A i \in DOMAIN log : log[i].reg \notin calls[c].reg
=============================================================================
