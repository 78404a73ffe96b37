-------------------------- MODULE ProposalsProofs ---------------------------
(***************************************************************************)
(* Propose keeps its accounts: one pending proposal per operation, the     *)
(* bytes they retain, and no waiter forgotten, for every set of calls and  *)
(* commands and every limit.                                               *)
(*                                                                         *)
(* First the sum of the bytes.  It is defined by recursion over sets; what *)
(* it is for a finite set follows from the smallest set that would be a    *)
(* counterexample (WFMin and the strict subset ordering).                  *)
(***************************************************************************)
EXTENDS Proposals, FiniteSetTheorems, WellFoundedInduction, TLAPS

\* A set of subsets of a finite set has a smallest member.
LEMMA SmallestSubset ==
    ASSUME NEW U, IsFiniteSet(U), NEW B, B \subseteq SUBSET U, B # {}
    PROVE  \E T \in B : \A W \in B : W \subseteq T => W = T
<1> DEFINE R == StrictSubsetOrdering(U)
<1>1. IsWellFoundedOn(R, SUBSET U)
  BY FS_StrictSubsetOrderingWellFounded, FS_FiniteSubsetsOfFinite, Zenon
<1>2. \E T \in B : \A W \in B : ~ (<<W, T>> \in R)
  <2> HIDE DEF R
  <2> QED
    BY <1>1, WFMin
<1> QED
  BY <1>2, Zenon DEF StrictSubsetOrdering

\* The element the recursion takes next.
chosen(s) == CHOOSE x \in s : TRUE

\* f is the recursive sum on the subsets of S.
sumsOn(f, S) ==
    f = [s \in SUBSET S |-> IF s = {} THEN 0 ELSE chosen(s).cmd.bytes + f[s \ {chosen(s)}]]

LEMMA ChosenMember ==
    ASSUME NEW s, s # {}
    PROVE  chosen(s) \in s
BY DEF chosen

\* Two recursive sums agree where both are defined.
LEMMA SumsAgree ==
    ASSUME NEW S, NEW T, NEW U, IsFiniteSet(U), U \subseteq S, U \subseteq T,
           NEW f, sumsOn(f, S), NEW g, sumsOn(g, T)
    PROVE  f[U] = g[U]
<1> DEFINE B == {s \in SUBSET U : f[s] # g[s]}
<1> SUFFICES ASSUME B # {} PROVE FALSE
  OBVIOUS
<1>1. PICK s \in B : \A w \in B : w \subseteq s => w = s
  <2>1. B \subseteq SUBSET U
    OBVIOUS
  <2> HIDE DEF B
  <2> QED
    BY <2>1, SmallestSubset
<1>2. \A t \in SUBSET S : f[t] = IF t = {} THEN 0 ELSE chosen(t).cmd.bytes + f[t \ {chosen(t)}]
  BY Zenon DEF sumsOn
<1>3. \A t \in SUBSET T : g[t] = IF t = {} THEN 0 ELSE chosen(t).cmd.bytes + g[t \ {chosen(t)}]
  BY Zenon DEF sumsOn
<1>4. s # {}
  BY <1>2, <1>3, ZenonT(40)
<1>5. s \ {chosen(s)} \in SUBSET U /\ s \ {chosen(s)} # s
  BY <1>4, ChosenMember
<1>6. f[s \ {chosen(s)}] = g[s \ {chosen(s)}]
  BY <1>1, <1>5
<1> QED
  BY <1>2, <1>3, <1>4, <1>6

\* A finite set has its recursive sum.
LEMMA SumsExist ==
    ASSUME NEW S, IsFiniteSet(S)
    PROVE  \E f : sumsOn(f, S)
<1> DEFINE B == {s \in SUBSET S : ~ \E f : sumsOn(f, s)}
<1> SUFFICES ASSUME B # {} PROVE FALSE
  OBVIOUS
<1>1. PICK T \in B : \A w \in B : w \subseteq T => w = T
  <2>1. B \subseteq SUBSET S
    OBVIOUS
  <2> HIDE DEF B
  <2> QED
    BY <2>1, SmallestSubset
<1> DEFINE sums(s) == CHOOSE f : sumsOn(f, s)
           rest(s) == s \ {chosen(s)}
           F == [s \in SUBSET T |-> IF s = {} THEN 0
                                    ELSE chosen(s).cmd.bytes + sums(rest(s))[rest(s)]]
<1>2. \A s \in SUBSET T : s # T => sumsOn(sums(s), s)
  BY <1>1
<1>3. \A s \in SUBSET T : s # {} => rest(s) \in SUBSET T /\ rest(s) # T /\ rest(s) # s
  BY ChosenMember
<1>4. ASSUME NEW t \in SUBSET T, t # T
      PROVE  F[t] = sums(t)[t]
  <2>1. sumsOn(sums(t), t)
    BY <1>2, <1>4
  <2>2. sums(t)[t] = IF t = {} THEN 0 ELSE chosen(t).cmd.bytes + sums(t)[rest(t)]
    <3> HIDE DEF sums
    <3>1. t \in SUBSET t
      OBVIOUS
    <3> QED
      BY <2>1, <3>1, Zenon DEF sumsOn
  <2>3. CASE t = {}
    BY <2>2, <2>3
  <2>4. CASE t # {}
    <3>1. sumsOn(sums(rest(t)), rest(t)) /\ IsFiniteSet(rest(t)) /\ rest(t) \subseteq t
      BY <1>2, <1>3, <2>4, FS_Subset
    <3>2. sums(t)[rest(t)] = sums(rest(t))[rest(t)]
      <4> HIDE DEF sums, rest
      <4> QED
        BY <2>1, <3>1, SumsAgree
    <3> QED
      BY <2>2, <2>4, <3>2
  <2> QED
    BY <2>3, <2>4
<1>5. F = [s \in SUBSET T |-> IF s = {} THEN 0 ELSE chosen(s).cmd.bytes + F[rest(s)]]
  <2>1. \A s \in SUBSET T : s # {} => F[rest(s)] = sums(rest(s))[rest(s)]
    BY <1>3, <1>4, Zenon
  <2> HIDE DEF sums, rest
  <2> QED
    BY <2>1, Zenon
<1>6. sumsOn(F, T)
  BY <1>5, Zenon DEF sumsOn
<1> QED
  BY <1>1, <1>6

\* retained takes one element off at a time.
LEMMA RetainedRecursion ==
    ASSUME NEW S, IsFiniteSet(S)
    PROVE  retained(S) = IF S = {} THEN 0
                         ELSE chosen(S).cmd.bytes + retained(S \ {chosen(S)})
<1> DEFINE sums(s) == CHOOSE f : sumsOn(f, s)
<1>1. \A s : retained(s) = sums(s)[s]
  BY DEF retained, MapThenSumSet, MapThenFoldSet, sumsOn, chosen
<1>2. \A s \in SUBSET S : sumsOn(sums(s), s)
  BY SumsExist, FS_Subset
<1> HIDE DEF sums
<1>3. S \in SUBSET S /\ sumsOn(sums(S), S)
  BY <1>2
<1>4. sums(S)[S] = IF S = {} THEN 0 ELSE chosen(S).cmd.bytes + sums(S)[S \ {chosen(S)}]
  BY <1>3, Zenon DEF sumsOn
<1>5. S # {} => sums(S)[S \ {chosen(S)}] = sums(S \ {chosen(S)})[S \ {chosen(S)}]
  <2>1. S \ {chosen(S)} \in SUBSET S /\ IsFiniteSet(S \ {chosen(S)})
    BY FS_Subset
  <2> QED
    BY <1>2, <1>3, <2>1, SumsAgree
<1> QED
  BY <1>1, <1>4, <1>5

\* Proposals whose commands have the bytes of commands.
sized(S) == IsFiniteSet(S) /\ \A p \in S : p.cmd \in Commands

LEMMA SizedSubset ==
    ASSUME NEW S, sized(S), NEW T, T \subseteq S
    PROVE  sized(T) /\ \A p \in T : p.cmd.bytes \in Nat
BY FS_Subset, ProposalsAssumption DEF sized

\* What proposals retain is a number.
LEMMA RetainedType ==
    ASSUME NEW S, sized(S)
    PROVE  retained(S) \in Nat
<1> DEFINE B == {s \in SUBSET S : retained(s) \notin Nat}
<1> SUFFICES ASSUME B # {} PROVE FALSE
  OBVIOUS
<1>1. PICK T \in B : \A w \in B : w \subseteq T => w = T
  <2>1. B \subseteq SUBSET S /\ IsFiniteSet(S)
    BY DEF sized
  <2> HIDE DEF B
  <2> QED
    BY <2>1, SmallestSubset
<1>2. sized(T) /\ IsFiniteSet(T) /\ \A p \in T : p.cmd.bytes \in Nat
  BY SizedSubset DEF sized
<1>3. T # {} /\ retained(T) = chosen(T).cmd.bytes + retained(T \ {chosen(T)})
  BY <1>1, <1>2, RetainedRecursion
<1>4. T \ {chosen(T)} \subseteq T /\ T \ {chosen(T)} # T /\ chosen(T) \in T
  BY <1>3, ChosenMember
<1>5. retained(T \ {chosen(T)}) \in Nat
  BY <1>1, <1>4
<1> QED
  BY <1>1, <1>2, <1>3, <1>4, <1>5

\* The order in which proposals are taken does not matter.
LEMMA RetainedMember ==
    ASSUME NEW S, sized(S), NEW x \in S
    PROVE  retained(S) = x.cmd.bytes + retained(S \ {x})
<1> DEFINE B == {s \in SUBSET S : \E y \in s : retained(s) # y.cmd.bytes + retained(s \ {y})}
<1> SUFFICES ASSUME B # {} PROVE FALSE
  BY Zenon
<1>1. PICK T \in B : \A w \in B : w \subseteq T => w = T
  <2>1. B \subseteq SUBSET S /\ IsFiniteSet(S)
    BY DEF sized
  <2> HIDE DEF B
  <2> QED
    BY <2>1, SmallestSubset
<1>2. PICK y \in T : retained(T) # y.cmd.bytes + retained(T \ {y})
  OBVIOUS
<1> DEFINE z == chosen(T)
<1>3. z \in T /\ retained(T) = z.cmd.bytes + retained(T \ {z})
  <2>1. IsFiniteSet(T)
    BY FS_Subset DEF sized
  <2> QED
    BY <2>1, ChosenMember, RetainedRecursion
<1> HIDE DEF z
<1>4. y # z
  BY <1>2, <1>3, SMTT(20)
<1>5. retained(T \ {z}) = y.cmd.bytes + retained((T \ {z}) \ {y})
  <2>1. T \ {z} \in SUBSET S /\ T \ {z} \subseteq T /\ T \ {z} # T /\ y \in T \ {z}
    BY <1>3, <1>4
  <2> QED
    BY <1>1, <2>1, Zenon
<1>6. retained(T \ {y}) = z.cmd.bytes + retained((T \ {y}) \ {z})
  <2>1. T \ {y} \in SUBSET S /\ T \ {y} \subseteq T /\ T \ {y} # T /\ z \in T \ {y}
    BY <1>3, <1>4
  <2> QED
    BY <1>1, <2>1, Zenon
<1>7. (T \ {z}) \ {y} = (T \ {y}) \ {z}
  OBVIOUS
<1>8. /\ retained((T \ {y}) \ {z}) \in Nat /\ y.cmd.bytes \in Nat /\ z.cmd.bytes \in Nat
  <2>1. (T \ {y}) \ {z} \subseteq S /\ y \in S /\ z \in S
    BY <1>3
  <2> QED
    BY <2>1, SizedSubset, RetainedType
<1>9. \A a, b, n \in Nat : a + (b + n) = b + (a + n)
  OBVIOUS
<1>10. retained(T) = z.cmd.bytes + (y.cmd.bytes + retained((T \ {y}) \ {z}))
  BY <1>3, <1>5, <1>7, SMTT(20)
<1> QED
  BY <1>2, <1>6, <1>8, <1>9, <1>10

\* Removing proposals releases exactly what they retain.
LEMMA RetainedDifference ==
    ASSUME NEW S, sized(S), NEW ps, ps \subseteq S
    PROVE  retained(S \ ps) = retained(S) - retained(ps)
<1> DEFINE B == {s \in SUBSET ps : retained(S \ s) # retained(S) - retained(s)}
<1> SUFFICES ASSUME B # {} PROVE FALSE
  OBVIOUS
<1>1. PICK T \in B : \A w \in B : w \subseteq T => w = T
  <2>1. B \subseteq SUBSET ps /\ IsFiniteSet(ps)
    BY FS_Subset DEF sized
  <2> HIDE DEF B
  <2> QED
    BY <2>1, SmallestSubset
<1>2. T # {}
  <2>1. retained({}) = 0 /\ retained(S) \in Nat
    BY RetainedRecursion, FS_EmptySet, RetainedType, Zenon
  <2>2. retained(S \ T) # retained(S) - retained(T)
    BY <1>1
  <2>3. T = {} => S \ T = S
    OBVIOUS
  <2>4. \A n \in Nat : n - 0 = n
    OBVIOUS
  <2> HIDE DEF B
  <2>5. CASE T = {}
    <3>1. retained(S \ T) = retained(S) /\ retained(T) = 0
      BY <2>1, <2>3, <2>5
    <3> QED
      BY <2>1, <2>2, <2>4, <3>1
  <2> QED
    BY <2>5
<1>3. PICK x \in T : TRUE
  BY <1>2
<1> DEFINE W == T \ {x}
<1>4. retained(S \ W) = retained(S) - retained(W)
  BY <1>1
<1>5. retained(T) = x.cmd.bytes + retained(W)
  BY SizedSubset, RetainedMember, ZenonT(40)
<1>6. retained(S \ W) = x.cmd.bytes + retained(S \ T)
  <2>1. sized(S \ W) /\ x \in S \ W /\ (S \ W) \ {x} = S \ T
    BY SizedSubset
  <2> QED
    BY <2>1, RetainedMember
<1>7. /\ retained(W) \in Nat /\ retained(S \ T) \in Nat /\ retained(S) \in Nat /\ retained(T) \in Nat
      /\ x.cmd.bytes \in Nat
  BY SizedSubset, RetainedType
<1> QED
  BY <1>1, <1>4, <1>5, <1>6, <1>7

-----------------------------------------------------------------------------
(***************************************************************************)
(* The invariant.                                                          *)
(***************************************************************************)
At == {"idle", "cached", "admit", "status", "register", "wait", "done"}

Answer == {"applied", "conflict", "notleader", "ambiguous", "backpressure", "stopped", "fatal"}

\* Commands, and what a call holds before its Propose.
AnyCommand == Commands \cup {CHOOSE d \in Commands : TRUE}

Call == [at: At, cmd: AnyCommand, epoch: Nat, reg: SUBSET Calls, box: SUBSET Answer]

Pending == [cmd: Commands, reg: Calls, waiters: SUBSET Calls, submitted: BOOLEAN]

LogEntry == [cmd: Commands, reg: Calls]

Submit == [cmd: Commands, reg: Calls, at: {"start", "propose", "fail"},
           err: {"", "stopped", "backpressure"}]

Loop == [at: {"idle", "notify", "soft", "finish", "dead"}, cmd: SUBSET Commands]

Life == [closed: BOOLEAN, fatal: BOOLEAN, finishing: SUBSET {"stopped", "fatal"}]

\* A call has at most one answer, and none before it waits; "applied" is the
\* answer to a bound command (res are the results).
callOK(r, res) ==
    /\ r \in Call
    /\ r.box = {} \/ \E a \in r.box : r.box = {a}
    /\ r.at # "idle" => r.cmd \in Commands
    /\ r.at \in {"idle", "cached", "admit", "status", "register"} => r.box = {}
    /\ r.box = {"applied"} => r.cmd \in res

\* The pending map P and its bytes b.
tableOK(P, b) ==
    /\ P \subseteq Pending /\ IsFiniteSet(P)
    /\ \A p, q \in P : p.cmd.op = q.cmd.op => p = q
    /\ b = retained(P)
    /\ b <= MaxBytes /\ Cardinality(P) <= MaxPending

unanswered(r) == r.at = "wait" /\ r.box = {}

\* The waiters of a proposal are the unanswered calls with its command.
waitersOK(P, cs) ==
    /\ \A p \in P : \A c \in p.waiters : unanswered(cs[c]) /\ cs[c].cmd = p.cmd
    /\ \A c \in Calls : unanswered(cs[c]) => \E p \in P : c \in p.waiters

submitsOK == submits \subseteq Submit /\ \A g \in submits : g.at = "fail" => g.err # ""

loopOK == loop \in Loop /\ (loop.at = "notify" => \E x \in Commands : loop.cmd = {x})

othersOK ==
    /\ results \subseteq Commands /\ log \in Seq(LogEntry) /\ life \in Life /\ epoch \in Nat
    /\ submitsOK /\ loopOK

callsOK(cs, res) == cs \in [Calls -> Call] /\ \A c \in Calls : callOK(cs[c], res)

IInv ==
    /\ othersOK /\ callsOK(calls, results) /\ tableOK(pending, bytes) /\ waitersOK(pending, calls)

LEMMA InitIInv == Init => IInv
<1> SUFFICES ASSUME Init PROVE IInv
  OBVIOUS
<1>1. othersOK
  BY DEF Init, othersOK, submitsOK, loopOK, Loop, Life
<1>2. callsOK(calls, results) /\ waitersOK(pending, calls)
  <2>1. calls \in [Calls -> {[at |-> "idle", cmd |-> CHOOSE d \in Commands : TRUE, epoch |-> 0,
                              reg |-> {}, box |-> {}]}]
    BY DEF Init
  <2>2. \A c \in Calls : /\ calls[c] \in Call /\ calls[c].at = "idle" /\ calls[c].box = {}
    BY <2>1 DEF Call, At, AnyCommand
  <2>3. pending = {} /\ calls \in [Calls -> Call]
    BY <2>1, <2>2, Zenon DEF Init
  <2>4. \A c \in Calls : callOK(calls[c], results)
    BY <2>2 DEF callOK
  <2>5. \A c \in Calls : ~ unanswered(calls[c])
    BY <2>2 DEF unanswered
  <2> QED
    BY <2>3, <2>4, <2>5, Zenon DEF callsOK, waitersOK
<1>3. tableOK(pending, bytes)
  <2>1. retained({}) = 0 /\ Cardinality({}) = 0 /\ IsFiniteSet({})
    BY RetainedRecursion, FS_EmptySet
  <2> QED
    BY <2>1, ProposalsAssumption DEF Init, tableOK
<1> QED
  BY <1>1, <1>2, <1>3 DEF IInv

-----------------------------------------------------------------------------
(***************************************************************************)
(* The pending map.                                                        *)
(***************************************************************************)

\* removePendingLocked and finishPending keep the accounts.
LEMMA TableRemove ==
    ASSUME NEW P, NEW b, tableOK(P, b), NEW ps, ps \subseteq P
    PROVE  tableOK(P \ ps, b - retained(ps))
<1>1. sized(P) /\ sized(ps) /\ sized(P \ ps)
  <2>1. sized(P)
    BY DEF tableOK, sized, Pending
  <2> QED
    BY <2>1, SizedSubset
<1>2. retained(P \ ps) = b - retained(ps) /\ b = retained(P)
  BY <1>1, RetainedDifference DEF tableOK
<1>3. retained(P \ ps) \in Nat /\ retained(ps) \in Nat /\ b \in Nat /\ MaxBytes \in Nat
  BY <1>1, <1>2, RetainedType, ProposalsAssumption
<1>4. b - retained(ps) <= MaxBytes
  BY <1>2, <1>3 DEF tableOK
<1>5. IsFiniteSet(P \ ps) /\ Cardinality(P \ ps) <= Cardinality(P)
  BY FS_Subset DEF tableOK
<1>6. Cardinality(P \ ps) <= MaxPending
  <2>1. Cardinality(P \ ps) \in Nat /\ Cardinality(P) \in Nat /\ MaxPending \in Nat
    BY <1>5, FS_CardinalityType, ProposalsAssumption DEF tableOK
  <2> QED
    BY <1>5, <2>1 DEF tableOK
<1> QED
  BY <1>2, <1>4, <1>5, <1>6 DEF tableOK

\* Changing the waiters or the state of a proposal changes no account.
LEMMA TableReplace ==
    ASSUME NEW P, NEW b, tableOK(P, b), NEW p \in P, NEW q \in Pending, q.cmd = p.cmd
    PROVE  tableOK((P \ {p}) \cup {q}, b)
<1> DEFINE R == P \ {p}
           N == R \cup {q}
<1>1. q \notin R
  BY DEF tableOK
<1>2. sized(P) /\ sized(R) /\ sized(N) /\ IsFiniteSet(R) /\ IsFiniteSet(P)
  BY FS_RemoveElement, FS_AddElement, Zenon DEF tableOK, sized, Pending
<1>3. retained(N) = retained(P)
  <2>1. N \ {q} = R
    BY <1>1
  <2>2. retained(P) = p.cmd.bytes + retained(R)
    BY <1>2, RetainedMember
  <2>3. q \in N
    OBVIOUS
  <2> HIDE DEF N, R
  <2>4. retained(N) = q.cmd.bytes + retained(N \ {q})
    BY <1>2, <2>3, RetainedMember
  <2> QED
    BY <2>1, <2>2, <2>4
<1>4. IsFiniteSet(N) /\ Cardinality(N) = Cardinality(P)
  <2>1. Cardinality(R) = Cardinality(P) - 1
    BY <1>2, FS_RemoveElement
  <2>2. IsFiniteSet(N) /\ Cardinality(N) = Cardinality(R) + 1
    <3> HIDE DEF R
    <3> QED
      BY <1>1, <1>2, FS_AddElement, SMTT(20)
  <2>3. Cardinality(P) \in Nat
    BY <1>2, FS_CardinalityType
  <2> QED
    BY <2>1, <2>2, <2>3
<1>5. \A x, y \in N : x.cmd.op = y.cmd.op => x = y
  BY DEF tableOK
<1> QED
  BY <1>3, <1>4, <1>5 DEF tableOK

\* Registration within the limits.
LEMMA TableAdd ==
    ASSUME NEW P, NEW b, tableOK(P, b), NEW q \in Pending,
           \A p \in P : p.cmd.op # q.cmd.op,
           ~ (Cardinality(P) >= MaxPending), ~ (q.cmd.bytes > MaxBytes - b)
    PROVE  tableOK(P \cup {q}, b + q.cmd.bytes)
<1> DEFINE N == P \cup {q}
<1>1. q \notin P /\ sized(P) /\ IsFiniteSet(P)
  BY DEF tableOK, sized, Pending
<1>2. IsFiniteSet(N) /\ Cardinality(N) = Cardinality(P) + 1
  BY <1>1, FS_AddElement, Zenon
<1>3. retained(N) = q.cmd.bytes + retained(P)
  <2>1. sized(N) /\ q \in N /\ N \ {q} = P
    BY <1>1, <1>2 DEF sized, Pending
  <2> QED
    BY <2>1, RetainedMember
<1>4. /\ retained(P) \in Nat /\ b \in Nat /\ q.cmd.bytes \in Nat /\ MaxBytes \in Nat
      /\ MaxPending \in Nat /\ Cardinality(P) \in Nat
  BY <1>1, RetainedType, FS_CardinalityType, ProposalsAssumption DEF tableOK, Pending
<1>5. b + q.cmd.bytes = retained(N) /\ b + q.cmd.bytes <= MaxBytes /\ Cardinality(N) <= MaxPending
  BY <1>2, <1>3, <1>4 DEF tableOK
<1>6. \A x, y \in N : x.cmd.op = y.cmd.op => x = y
  BY DEF tableOK
<1> QED
  BY <1>2, <1>5, <1>6 DEF tableOK

-----------------------------------------------------------------------------
(***************************************************************************)
(* The steps.                                                              *)
(***************************************************************************)

\* One call moves on without being, or becoming, an unanswered waiter.
LEMMA OneCall ==
    ASSUME IInv, NEW c \in Calls, NEW r, callOK(r, results),
           calls' = [calls EXCEPT ![c] = r], ~ unanswered(calls[c]), ~ unanswered(r),
           UNCHANGED <<results, log, loop, life, tableVars, epoch, submits>>
    PROVE  IInv'
<1>1. callsOK(calls, results) /\ waitersOK(pending, calls) /\ tableOK(pending, bytes) /\ othersOK
  BY DEF IInv
<1>2. othersOK' /\ tableOK(pending', bytes') /\ results' = results
  BY <1>1, Zenon DEF othersOK, submitsOK, loopOK, tableVars
<1>3. callsOK(calls', results)
  BY <1>1, Zenon DEF callsOK, callOK
<1>4. waitersOK(pending', calls')
  <2>1. \A x \in Calls : calls'[x] = IF x = c THEN r ELSE calls[x]
    BY <1>1 DEF callsOK
  <2>2. pending' = pending /\ \A p \in pending : p.waiters \subseteq Calls
    BY <1>1 DEF tableVars, tableOK, Pending
  <2> QED
    BY <1>1, <2>1, <2>2 DEF waitersOK
<1> QED
  BY <1>2, <1>3, <1>4 DEF IInv

\* A return with an answer.
LEMMA Answered ==
    ASSUME NEW c \in Calls, calls \in [Calls -> Call], callOK(calls[c], results),
           calls[c].at # "idle",
           NEW a \in Answer, a = "applied" => calls[c].cmd \in results, answered(c, a)
    PROVE  \E r : /\ calls' = [calls EXCEPT ![c] = r] /\ callOK(r, results)
                  /\ r.at = "done" /\ r.cmd = calls[c].cmd
<1> DEFINE r == [calls[c] EXCEPT !.at = "done", !.epoch = 0, !.box = {a}]
<1>1. calls' = [calls EXCEPT ![c] = r]
  BY Zenon DEF answered
<1>2. r \in Call /\ r.at = "done" /\ r.cmd = calls[c].cmd /\ r.box = {a}
  <2>1. calls[c] \in Call /\ {a} \in SUBSET Answer /\ "done" \in At
    BY DEF At
  <2> QED
    BY <2>1, Zenon DEF Call
<1> HIDE DEF r
<1>3. callOK(r, results)
  BY <1>2 DEF callOK
<1> QED
  BY <1>1, <1>2, <1>3, Zenon

LEMMA AnsweredStep ==
    ASSUME IInv, NEW c \in Calls, calls[c].at # "idle", ~ unanswered(calls[c]),
           NEW a \in Answer, a = "applied" => calls[c].cmd \in results, answered(c, a),
           UNCHANGED <<results, log, loop, life, tableVars, epoch, submits>>
    PROVE  IInv'
<1>1. calls \in [Calls -> Call] /\ callOK(calls[c], results)
  BY DEF IInv, callsOK
<1>2. PICK r : /\ calls' = [calls EXCEPT ![c] = r] /\ callOK(r, results)
               /\ r.at = "done" /\ r.cmd = calls[c].cmd
  BY <1>1, Answered
<1>3. ~ unanswered(r)
  BY <1>2 DEF unanswered
<1> QED
  BY <1>2, <1>3, OneCall, Zenon

LEMMA StopErrorType == stopError \in Answer /\ stopError # "applied"
BY DEF stopError, Answer

LEMMA ProposeStep ==
    ASSUME IInv, NEW c \in Calls, NEW cmd \in Commands, Propose(c, cmd)
    PROVE  IInv'
<1>1. calls \in [Calls -> Call] /\ callOK(calls[c], results) /\ calls[c].at = "idle"
  BY DEF IInv, callsOK, Propose
<1> DEFINE at == IF stopped THEN "done"
                 ELSE IF \E x \in results : x.op = cmd.op THEN "cached" ELSE "admit"
           box == IF stopped THEN {stopError} ELSE {}
           r == [calls[c] EXCEPT !.cmd = cmd, !.box = box, !.at = at]
<1>2. calls' = [calls EXCEPT ![c] = r]
  BY Zenon DEF Propose
<1>3. /\ at \in {"done", "cached", "admit"} /\ at \in At /\ (at # "done" => box = {})
      /\ box \in SUBSET Answer /\ (box = {} \/ \E a \in box : box = {a}) /\ box # {"applied"}
  BY StopErrorType DEF At
<1> HIDE DEF at, box
<1>4. r \in Call /\ r.at = at /\ r.cmd = cmd /\ r.box = box
  <2>1. cmd \in AnyCommand /\ calls[c] \in Call
    BY <1>1 DEF AnyCommand
  <2> QED
    BY <1>3, <2>1, Zenon DEF Call
<1> HIDE DEF r
<1>5. callOK(r, results) /\ ~ unanswered(r) /\ ~ unanswered(calls[c])
  BY <1>1, <1>3, <1>4 DEF callOK, unanswered
<1> QED
  BY <1>2, <1>5, OneCall, Zenon DEF Propose, raftVars

\* A call moves on with no answer yet.
LEMMA Moved ==
    ASSUME IInv, NEW c \in Calls, calls[c].at # "idle", ~ unanswered(calls[c]),
           NEW r \in Call, r.cmd = calls[c].cmd, r.box = calls[c].box,
           r.at \in {"status", "register", "done"}, r.at = "done" \/ r.box = {},
           calls' = [calls EXCEPT ![c] = r],
           UNCHANGED <<results, log, loop, life, tableVars, epoch, submits>>
    PROVE  IInv'
<1>1. callOK(calls[c], results)
  BY Zenon DEF IInv, callsOK
<1>2. callOK(r, results) /\ ~ unanswered(r)
  BY <1>1 DEF callOK, unanswered
<1> QED
  BY <1>2, OneCall, Zenon

LEMMA CallStepLocal ==
    ASSUME IInv, NEW c \in Calls, Cached(c) \/ Admit(c) \/ Status(c) \/ Receive(c)
    PROVE  IInv'
<1>1. calls \in [Calls -> Call] /\ callOK(calls[c], results) /\ calls[c] \in Call /\ epoch \in Nat
  BY DEF IInv, callsOK, othersOK
<1>2. UNCHANGED <<results, log, loop, life, tableVars, epoch, submits>>
  BY DEF Cached, Admit, Status, Receive, raftVars
<1>3. ~ unanswered(calls[c]) /\ calls[c].at # "idle"
  BY DEF Cached, Admit, Status, Receive, unanswered
<1>4. CASE Cached(c)
  <2> DEFINE a == IF stopped THEN stopError
                  ELSE IF calls[c].cmd \in results THEN "applied" ELSE "conflict"
  <2>1. a \in Answer /\ (a = "applied" => calls[c].cmd \in results) /\ answered(c, a)
    BY <1>4, StopErrorType, Zenon DEF Cached, Answer
  <2> HIDE DEF a
  <2> QED
    BY <1>2, <1>3, <2>1, AnsweredStep, Zenon
<1>5. CASE Admit(c) /\ stopped
  BY <1>2, <1>3, <1>5, StopErrorType, AnsweredStep DEF Admit
<1>6. CASE Admit(c) /\ ~ stopped
  <2> DEFINE r == [calls[c] EXCEPT !.at = "status", !.epoch = epoch]
  <2>1. calls' = [calls EXCEPT ![c] = r]
    BY <1>6, Zenon DEF Admit
  <2>2. r \in Call /\ r.at = "status" /\ r.cmd = calls[c].cmd /\ r.box = calls[c].box
    BY <1>1, Zenon DEF Call, At
  <2>3. calls[c].box = {}
    BY <1>1, <1>6, Zenon DEF Admit, callOK
  <2> HIDE DEF r
  <2> QED
    BY <1>2, <1>3, <2>1, <2>2, <2>3, Moved, Zenon
<1>7. CASE Status(c) /\ role # "leader"
  BY <1>2, <1>3, <1>7, AnsweredStep, Zenon DEF Status, Answer
<1>8. CASE Status(c) /\ role = "leader"
  <2> DEFINE r == [calls[c] EXCEPT !.at = "register"]
  <2>1. calls' = [calls EXCEPT ![c] = r]
    BY <1>8 DEF Status, goto
  <2>2. r \in Call /\ r.at = "register" /\ r.cmd = calls[c].cmd /\ r.box = calls[c].box
    BY <1>1, Zenon DEF Call, At
  <2>3. calls[c].box = {}
    BY <1>1, <1>8, Zenon DEF Status, callOK
  <2> HIDE DEF r
  <2> QED
    BY <1>2, <1>3, <2>1, <2>2, <2>3, Moved, Zenon
<1>9. CASE Receive(c)
  <2> DEFINE r == [calls[c] EXCEPT !.at = "done"]
  <2>1. calls' = [calls EXCEPT ![c] = r]
    BY <1>9 DEF Receive, goto
  <2>2. r \in Call /\ r.at = "done" /\ r.cmd = calls[c].cmd /\ r.box = calls[c].box
    BY <1>1 DEF Call, At
  <2> HIDE DEF r
  <2> QED
    BY <1>2, <1>3, <2>1, <2>2, Moved, Zenon
<1> QED
  BY <1>4, <1>5, <1>6, <1>7, <1>8, <1>9

LEMMA Refusals ==
    ASSUME NEW c, NEW cmd
    PROVE  /\ refusal(c, cmd) \subseteq Answer \ {"applied"}
           /\ refusal(c, cmd) = {} =>
                 IF pendingOf(cmd.op) = {}
                 THEN ~ (Cardinality(pending) >= MaxPending) /\ ~ (cmd.bytes > MaxBytes - bytes)
                 ELSE samePending(cmd) # {}
<1>1. stopError \in Answer \ {"applied"}
  BY StopErrorType
<1>2. CASE stopped
  BY <1>1, <1>2 DEF refusal
<1>3. CASE ~ stopped /\ calls[c].epoch # epoch
  BY <1>3 DEF refusal, Answer
<1>4. CASE ~ stopped /\ calls[c].epoch = epoch /\ pendingOf(cmd.op) = {}
  BY <1>4 DEF refusal, Answer
<1>5. CASE ~ stopped /\ calls[c].epoch = epoch /\ pendingOf(cmd.op) # {}
  BY <1>5 DEF refusal, Answer
<1> QED
  BY <1>2, <1>3, <1>4, <1>5

\* A call joins a proposal of its command, or makes one within the limits.
LEMMA EnterStep ==
    ASSUME IInv, NEW c \in Calls, calls[c].at = "register",
           refusal(c, calls[c].cmd) = {}, enter(c, calls[c].cmd),
           UNCHANGED <<results, raftVars, loop, life, epoch>>
    PROVE  IInv'
<1> DEFINE cmd == calls[c].cmd
           owner == pendingOf(cmd.op) = {}
           joined == IF owner THEN [cmd |-> cmd, reg |-> c, waiters |-> {}, submitted |-> FALSE]
                     ELSE CHOOSE p \in samePending(cmd) : TRUE
           q == [joined EXCEPT !.waiters = @ \cup {c}]
           r == [calls[c] EXCEPT !.at = "wait", !.epoch = 0, !.reg = {joined.reg}]
<1>1. /\ callsOK(calls, results) /\ waitersOK(pending, calls) /\ tableOK(pending, bytes)
      /\ othersOK /\ calls \in [Calls -> Call] /\ calls[c] \in Call /\ cmd \in Commands
      /\ calls[c].box = {}
  BY Zenon DEF IInv, callsOK, callOK
<1>2. /\ pending' = (pending \ {joined}) \cup {q}
      /\ bytes' = IF owner THEN bytes + cmd.bytes ELSE bytes
      /\ submits' = IF owner THEN submits \cup {[cmd |-> cmd, reg |-> c, at |-> "start", err |-> ""]}
                    ELSE submits
      /\ calls' = [calls EXCEPT ![c] = r]
  BY Zenon DEF enter
<1>3. /\ joined \in Pending /\ joined.cmd = cmd /\ (~ owner => joined \in pending)
      /\ (owner => joined.waiters = {} /\ joined \notin pending)
  <2>1. CASE owner
    <3>1. joined = [cmd |-> cmd, reg |-> c, waiters |-> {}, submitted |-> FALSE]
      BY <2>1, Zenon
    <3> HIDE DEF joined
    <3>2. /\ joined.cmd = cmd /\ joined.waiters = {}
      BY <3>1, Zenon
    <3>3. joined \in Pending
      BY <1>1, <3>1, Zenon DEF Pending
    <3>4. joined \notin pending
      BY <2>1, <3>2, Zenon DEF pendingOf
    <3> QED
      BY <2>1, <3>2, <3>3, <3>4, Zenon
  <2>2. CASE ~ owner
    <3>1. samePending(cmd) # {}
      BY <2>2, Refusals, Zenon
    <3>2. joined \in samePending(cmd)
      BY <2>2, <3>1, Zenon
    <3> HIDE DEF joined
    <3> QED
      BY <1>1, <2>2, <3>2, Zenon DEF samePending, tableOK
  <2> QED
    BY <2>1, <2>2, Zenon
<1>4. owner => /\ ~ (Cardinality(pending) >= MaxPending) /\ ~ (cmd.bytes > MaxBytes - bytes)
               /\ \A p \in pending : p.cmd.op # cmd.op
  BY Refusals DEF pendingOf
<1> HIDE DEF joined
<1>5. q \in Pending /\ q.cmd = cmd /\ q.waiters = joined.waiters \cup {c} /\ joined.reg \in Calls
  BY <1>3 DEF Pending
<1>6. /\ r \in Call /\ r.at = "wait" /\ r.cmd = cmd /\ r.box = {}
  <2>1. {joined.reg} \in SUBSET Calls /\ "wait" \in At
    BY <1>5 DEF At
  <2> QED
    BY <1>1, <2>1, Zenon DEF Call
<1> HIDE DEF q, r
<1>7. tableOK(pending', bytes')
  <2>1. CASE owner
    <3>1. pending' = pending \cup {q} /\ bytes' = bytes + q.cmd.bytes
      BY <1>2, <1>3, <1>5, <2>1, Zenon
    <3> HIDE DEF owner, cmd
    <3> QED
      BY <1>1, <1>4, <1>5, <2>1, <3>1, TableAdd, Zenon
  <2>2. CASE ~ owner
    <3>1. bytes' = bytes /\ joined \in pending /\ q.cmd = joined.cmd
      BY <1>2, <1>3, <1>5, <2>2, Zenon
    <3> HIDE DEF owner, cmd
    <3> QED
      BY <1>1, <1>2, <1>5, <3>1, TableReplace, Zenon
  <2> QED
    BY <2>1, <2>2
<1>8. \A x \in Calls : calls'[x] = IF x = c THEN r ELSE calls[x]
  BY <1>1, <1>2, Zenon
<1>9. callsOK(calls', results')
  <2>1. callOK(r, results)
    BY <1>1, <1>6, Zenon DEF callOK
  <2>2. calls' \in [Calls -> Call]
    BY <1>1, <1>2, <1>6, Zenon
  <2> QED
    BY <1>1, <1>8, <2>1, <2>2, Zenon DEF callsOK
<1>10. waitersOK(pending', calls')
  <2>1. \A p \in pending : p.waiters \subseteq Calls /\ c \notin p.waiters
    BY <1>1, Zenon DEF tableOK, Pending, waitersOK, unanswered
  <2>2. unanswered(calls'[c]) /\ c \in q.waiters /\ q \in pending' /\ calls'[c].cmd = q.cmd
    BY <1>2, <1>5, <1>6, <1>8, Zenon DEF unanswered
  <2>3. ASSUME NEW p \in pending', NEW x \in p.waiters
        PROVE  unanswered(calls'[x]) /\ calls'[x].cmd = p.cmd
    <3>1. CASE p = q
      <4>1. CASE x = c
        BY <2>2, <3>1, <4>1, Zenon
      <4>2. CASE x # c
        <5>1. x \in joined.waiters /\ joined \in pending
          BY <1>3, <1>5, <2>3, <3>1, <4>2, Zenon
        <5> QED
          BY <1>1, <1>3, <1>5, <1>8, <2>1, <3>1, <4>2, <5>1 DEF waitersOK
      <4> QED
        BY <4>1, <4>2
    <3>2. CASE p # q
      <4>1. p \in pending /\ x \in Calls /\ x # c
        BY <1>2, <2>1, <2>3, <3>2, Zenon
      <4> QED
        BY <1>1, <1>8, <2>3, <4>1 DEF waitersOK
    <3> QED
      BY <3>1, <3>2, Zenon
  <2>4. ASSUME NEW x \in Calls, unanswered(calls'[x])
        PROVE  \E p \in pending' : x \in p.waiters
    <3>1. CASE x = c
      BY <2>2, <3>1
    <3>2. CASE x # c
      <4>1. PICK p \in pending : x \in p.waiters
        BY <1>1, <1>8, <2>4, <3>2, Zenon DEF waitersOK
      <4>2. CASE p = joined
        BY <1>2, <1>5, <4>1, <4>2, Zenon
      <4>3. CASE p # joined
        BY <1>2, <4>1, <4>3, Zenon
      <4> QED
        BY <4>2, <4>3, Zenon
    <3> QED
      BY <3>1, <3>2
  <2> QED
    BY <2>3, <2>4, Zenon DEF waitersOK
<1>11. othersOK'
  <2> DEFINE g == [cmd |-> cmd, reg |-> c, at |-> "start", err |-> ""]
  <2>1. g \in Submit /\ g.at = "start" /\ submits' \subseteq submits \cup {g}
    BY <1>1, <1>2, Zenon DEF Submit
  <2> HIDE DEF g
  <2>2. submitsOK'
    BY <1>1, <2>1, Zenon DEF submitsOK, othersOK
  <2> QED
    BY <1>1, <2>2, Zenon DEF othersOK, loopOK, raftVars
<1> QED
  BY <1>7, <1>9, <1>10, <1>11, Zenon DEF IInv

LEMMA RegisterStep ==
    ASSUME IInv, NEW c \in Calls, Register(c)
    PROVE  IInv'
<1> DEFINE no == refusal(c, calls[c].cmd)
<1>1. calls[c].at = "register" /\ UNCHANGED <<results, raftVars, loop, life, epoch>>
  BY Zenon DEF Register
<1>2. CASE no # {}
  <2>1. PICK a \in no : answered(c, a) /\ UNCHANGED <<tableVars, submits>>
    BY <1>2 DEF Register
  <2>2. a \in Answer /\ a # "applied"
    BY Refusals
  <2>3. UNCHANGED <<results, log, loop, life, tableVars, epoch, submits>>
    BY <1>1, <2>1 DEF raftVars
  <2>4. ~ unanswered(calls[c]) /\ calls[c].at # "idle"
    BY <1>1, Zenon DEF unanswered
  <2> QED
    BY <2>1, <2>2, <2>3, <2>4, AnsweredStep, Zenon
<1>3. CASE no = {}
  <2>1. enter(c, calls[c].cmd)
    BY <1>3 DEF Register
  <2> QED
    BY <1>1, <1>3, <2>1, EnterStep, Zenon
<1> QED
  BY <1>2, <1>3, Zenon

\* The end of a caller's context takes the caller, and nobody else, out of the
\* map.
LEMMA CancelStep ==
    ASSUME IInv, NEW c \in Calls, Cancel(c)
    PROVE  IInv'
<1> DEFINE mine == {p \in pending : c \in p.waiters}
           left(p) == [p EXCEPT !.waiters = @ \ {c}]
<1>1. /\ callsOK(calls, results) /\ waitersOK(pending, calls) /\ tableOK(pending, bytes)
      /\ othersOK /\ calls \in [Calls -> Call] /\ callOK(calls[c], results)
      /\ \A p \in pending : p \in Pending /\ p.waiters \subseteq Calls
  BY DEF IInv, callsOK, tableOK, Pending
<1>2. /\ calls[c].at = "wait" /\ answered(c, "ambiguous")
      /\ UNCHANGED <<results, raftVars, loop, life, epoch, submits>>
      /\ IF \E p \in mine : p.waiters = {c} /\ ~p.submitted
         THEN removePending(mine)
         ELSE pending' = (pending \ mine) \cup {left(p) : p \in mine} /\ UNCHANGED bytes
  BY DEF Cancel
<1>3. "ambiguous" \in Answer /\ "ambiguous" # "applied" /\ calls[c].at # "idle"
  BY <1>2 DEF Answer
<1>4. CASE mine = {}
  <2>1. pending' = pending /\ bytes' = bytes
    BY <1>2, <1>4, Zenon
  <2>2. ~ unanswered(calls[c])
    BY <1>1, <1>4, Zenon DEF waitersOK
  <2>3. UNCHANGED <<results, log, loop, life, tableVars, epoch, submits>>
    BY <1>2, <2>1 DEF raftVars, tableVars
  <2> QED
    BY <1>2, <1>3, <2>2, <2>3, AnsweredStep
<1>5. CASE mine # {}
  <2>1. PICK p \in pending : c \in p.waiters
    BY <1>5
  <2>2. \A q \in pending : c \in q.waiters => q = p
    <3>1. ASSUME NEW q \in pending, c \in q.waiters
          PROVE  q = p
      <4>1. q.cmd = p.cmd
        BY <1>1, <2>1, <3>1, Zenon DEF waitersOK
      <4> QED
        BY <1>1, <4>1, Zenon DEF tableOK
    <3> QED
      BY <3>1, Zenon
  <2>3. mine = {p}
    BY <2>1, <2>2
  <2>4. PICK r : /\ calls' = [calls EXCEPT ![c] = r] /\ callOK(r, results)
                 /\ r.at = "done" /\ r.cmd = calls[c].cmd
    BY <1>1, <1>2, <1>3, Answered, Zenon
  <2>5. \A x \in Calls : calls'[x] = IF x = c THEN r ELSE calls[x]
    BY <1>1, <2>4, Zenon
  <2>6. callsOK(calls', results')
    <3>1. calls' \in [Calls -> Call]
      BY <1>1, <2>4, Zenon DEF callOK
    <3> QED
      BY <1>1, <1>2, <2>4, <2>5, <3>1, Zenon DEF callsOK
  <2>7. othersOK'
    BY <1>1, <1>2, Zenon DEF othersOK, loopOK, submitsOK, raftVars
  <2>8. CASE p.waiters = {c} /\ ~ p.submitted
    <3>1. pending' = pending \ {p} /\ bytes' = bytes - retained({p})
      BY <1>2, <2>3, <2>8, Zenon DEF removePending
    <3>2. tableOK(pending', bytes')
      BY <1>1, <3>1, TableRemove, Zenon
    <3>3. waitersOK(pending', calls')
      BY <1>1, <2>2, <2>4, <2>5, <2>8, <3>1 DEF waitersOK, unanswered
    <3> QED
      BY <2>6, <2>7, <3>2, <3>3 DEF IInv
  <2>9. CASE ~ (p.waiters = {c} /\ ~ p.submitted)
    <3> DEFINE q == left(p)
    <3>1. pending' = (pending \ {p}) \cup {q} /\ bytes' = bytes
      BY <1>2, <2>3, <2>9
    <3>2. q \in Pending /\ q.cmd = p.cmd /\ q.waiters = p.waiters \ {c}
      BY <1>1, Zenon DEF Pending
    <3> HIDE DEF q
    <3>3. tableOK(pending', bytes')
      BY <1>1, <3>1, <3>2, TableReplace, Zenon
    <3>4. waitersOK(pending', calls')
      <4>1. ASSUME NEW y \in pending', NEW x \in y.waiters
            PROVE  unanswered(calls'[x]) /\ calls'[x].cmd = y.cmd
        <5>1. x # c /\ x \in Calls /\ \E z \in pending : x \in z.waiters /\ z.cmd = y.cmd
          BY <1>1, <2>2, <3>1, <3>2, <4>1, Zenon
        <5> QED
          BY <1>1, <2>5, <5>1 DEF waitersOK
      <4>2. ASSUME NEW x \in Calls, unanswered(calls'[x])
            PROVE  \E y \in pending' : x \in y.waiters
        <5>1. x # c /\ \E z \in pending : x \in z.waiters
          BY <1>1, <2>4, <2>5, <4>2, Zenon DEF waitersOK, unanswered
        <5> QED
          BY <3>1, <3>2, <5>1, Zenon
      <4> QED
        BY <4>1, <4>2, Zenon DEF waitersOK
    <3> QED
      BY <2>6, <2>7, <3>3, <3>4, Zenon DEF IInv
  <2> QED
    BY <2>8, <2>9
<1> QED
  BY <1>4, <1>5

\* Some proposals leave the map, and all their waiters are answered.
LEMMA Delivered ==
    ASSUME IInv, NEW ps, ps \subseteq pending, removePending(ps),
           NEW answer, deliver(ps, answer), results' = results,
           \A p \in ps : /\ answer[p.cmd] \in Answer
                         /\ answer[p.cmd] = "applied" => p.cmd \in results
    PROVE  /\ callsOK(calls', results') /\ tableOK(pending', bytes')
           /\ waitersOK(pending', calls')
<1>1. /\ callsOK(calls, results) /\ waitersOK(pending, calls) /\ tableOK(pending, bytes)
      /\ \A p \in pending : p.waiters \subseteq Calls
  BY DEF IInv, tableOK, Pending
<1>2. pending' = pending \ ps /\ bytes' = bytes - retained(ps)
  BY Zenon DEF removePending
<1>3. tableOK(pending', bytes')
  BY <1>1, <1>2, TableRemove, Zenon
<1>4. ASSUME NEW c \in Calls, NEW p \in ps, c \in p.waiters
      PROVE  calls'[c] \in Call /\ callOK(calls'[c], results) /\ ~ unanswered(calls'[c])
  <2>1. /\ unanswered(calls[c]) /\ calls[c].cmd = p.cmd /\ calls[c] \in Call
        /\ callOK(calls[c], results)
    BY <1>1, <1>4, Zenon DEF waitersOK, callsOK
  <2>2. calls'[c] = [calls[c] EXCEPT !.box = {answer[calls[c].cmd]}]
    BY <1>4 DEF deliver
  <2> DEFINE a == answer[p.cmd]
  <2>3. a \in Answer /\ (a = "applied" => p.cmd \in results) /\ {a} \in SUBSET Answer
    OBVIOUS
  <2> HIDE DEF a
  <2>4. calls'[c] = [calls[c] EXCEPT !.box = {a}]
    BY <2>1, <2>2 DEF a
  <2>5. /\ calls'[c] \in Call /\ calls'[c].box = {a} /\ calls'[c].at = calls[c].at
        /\ calls'[c].cmd = calls[c].cmd
    BY <2>1, <2>3, <2>4 DEF Call
  <2> QED
    BY <2>1, <2>3, <2>5, Zenon DEF callOK, unanswered
<1>5. ASSUME NEW c \in Calls, ~ \E p \in ps : c \in p.waiters
      PROVE  calls'[c] = calls[c]
  BY <1>5 DEF deliver
<1>6. callsOK(calls', results')
  <2>1. \A c \in Calls : calls'[c] \in Call /\ callOK(calls'[c], results)
    BY <1>1, <1>4, <1>5, Zenon DEF callsOK
  <2>2. calls' = [c \in Calls |-> calls'[c]]
    BY Zenon DEF deliver
  <2> QED
    BY <2>1, <2>2, Zenon DEF callsOK
<1>7. waitersOK(pending', calls')
  <2>1. ASSUME NEW p \in pending', NEW c \in p.waiters
        PROVE  unanswered(calls'[c]) /\ calls'[c].cmd = p.cmd
    <3>1. c \in Calls /\ p \in pending /\ p \notin ps /\ unanswered(calls[c]) /\ calls[c].cmd = p.cmd
      BY <1>1, <1>2, <2>1, Zenon DEF waitersOK
    <3>2. \A q \in ps : c \notin q.waiters
      <4>1. ASSUME NEW q \in ps, c \in q.waiters
            PROVE  FALSE
        <5>1. q.cmd = p.cmd
          BY <1>1, <3>1, <4>1, Zenon DEF waitersOK
        <5> QED
          BY <1>1, <3>1, <5>1, Zenon DEF tableOK
      <4> QED
        BY <4>1, Zenon
    <3> QED
      BY <1>5, <3>1, <3>2, Zenon
  <2>2. ASSUME NEW c \in Calls, unanswered(calls'[c])
        PROVE  \E p \in pending' : c \in p.waiters
    <3>1. ~ \E p \in ps : c \in p.waiters
      BY <1>4, <2>2, Zenon
    <3>2. unanswered(calls[c])
      BY <1>5, <2>2, <3>1, Zenon
    <3> QED
      BY <1>1, <1>2, <3>1, <3>2, Zenon DEF waitersOK
  <2> QED
    BY <2>1, <2>2, Zenon DEF waitersOK
<1> QED
  BY <1>3, <1>6, <1>7, Zenon

\* submitProposal marks the proposal it submits, if there still is one.
LEMMA SubmitStartStep ==
    ASSUME IInv, NEW g \in submits, SubmitStart(g)
    PROVE  IInv'
<1> DEFINE ps == samePending(g.cmd)
           marked(p) == [p EXCEPT !.submitted = TRUE]
           h == [g EXCEPT !.at = "propose"]
<1>1. /\ callsOK(calls, results) /\ waitersOK(pending, calls) /\ tableOK(pending, bytes)
      /\ othersOK /\ submitsOK /\ g \in Submit
  BY Zenon DEF IInv, othersOK, submitsOK
<1>2. /\ pending' = (pending \ ps) \cup {marked(p) : p \in ps}
      /\ submits' \subseteq submits \cup {h}
      /\ UNCHANGED <<results, raftVars, loop, life, bytes, epoch, calls>>
  BY DEF SubmitStart
<1>3. h \in Submit /\ h.at = "propose"
  BY <1>1, Zenon DEF Submit
<1> HIDE DEF h
<1>4. othersOK'
  BY <1>1, <1>2, <1>3, Zenon DEF othersOK, submitsOK, loopOK, raftVars
<1>5. callsOK(calls', results')
  BY <1>1, <1>2
<1>6. tableOK(pending', bytes') /\ waitersOK(pending', calls')
  <2>1. CASE ps = {}
    BY <1>1, <1>2, <2>1
  <2>2. CASE ps # {}
    <3>1. PICK p \in pending : p.cmd = g.cmd
      BY <2>2, Zenon DEF samePending
    <3>2. ps = {p}
      BY <1>1, <3>1, Zenon DEF samePending, tableOK
    <3> DEFINE q == marked(p)
    <3>3. pending' = (pending \ {p}) \cup {q}
      BY <1>2, <3>2
    <3>4. q \in Pending /\ q.cmd = p.cmd /\ q.waiters = p.waiters
      BY <1>1, Zenon DEF tableOK, Pending
    <3> HIDE DEF q
    <3>5. tableOK(pending', bytes')
      BY <1>1, <1>2, <3>3, <3>4, TableReplace
    <3>6. waitersOK(pending', calls')
      BY <1>1, <1>2, <3>3, <3>4, SMTT(20) DEF waitersOK
    <3> QED
      BY <3>5, <3>6
  <2> QED
    BY <2>1, <2>2
<1> QED
  BY <1>4, <1>5, <1>6 DEF IInv

\* raft's answer to node.Propose.
LEMMA SubmitNodeStep ==
    ASSUME IInv, NEW g \in submits, SubmitAdmitted(g) \/ SubmitRefused(g)
    PROVE  IInv'
<1>1. othersOK /\ submitsOK /\ g \in Submit /\ log \in Seq(LogEntry)
  BY Zenon DEF IInv, othersOK, submitsOK
<1>2. UNCHANGED <<results, loop, life, tableVars, epoch, calls>>
  BY DEF SubmitAdmitted, SubmitRefused
<1>3. log' \in Seq(LogEntry)
  <2>1. [cmd |-> g.cmd, reg |-> g.reg] \in LogEntry
    BY <1>1, Zenon DEF Submit, LogEntry
  <2> QED
    BY <1>1, <2>1 DEF SubmitAdmitted, SubmitRefused, raftVars
<1>4. submitsOK'
  <2>1. CASE SubmitAdmitted(g)
    BY <1>1, <2>1, Zenon DEF SubmitAdmitted, submitsOK
  <2>2. CASE SubmitRefused(g)
    <3> DEFINE e == IF nodeStopped THEN "stopped" ELSE "backpressure"
               h == [g EXCEPT !.at = "fail", !.err = e]
    <3>1. e \in {"stopped", "backpressure"} /\ submits' = (submits \ {g}) \cup {h}
      BY <2>2 DEF SubmitRefused
    <3> HIDE DEF e
    <3>2. h \in Submit /\ h.err = e
      BY <1>1, <3>1, Zenon DEF Submit
    <3> HIDE DEF h
    <3> QED
      BY <1>1, <3>1, <3>2, Zenon DEF submitsOK
  <2> QED
    BY <2>1, <2>2
<1> QED
  BY <1>1, <1>2, <1>3, <1>4 DEF IInv, othersOK, loopOK, tableVars

\* failPending
LEMMA SubmitFailStep ==
    ASSUME IInv, NEW g \in submits, SubmitFail(g)
    PROVE  IInv'
<1> DEFINE ps == samePending(g.cmd)
           answer == [cmd \in Commands |-> g.err]
<1>1. othersOK /\ submitsOK /\ g.err \in {"stopped", "backpressure"} /\ pending \subseteq Pending
  BY Zenon DEF IInv, othersOK, submitsOK, Submit, SubmitFail, tableOK
<1>2. /\ removePending(ps) /\ deliver(ps, answer) /\ submits' = submits \ {g}
      /\ UNCHANGED <<results, raftVars, loop, life, epoch>>
  BY DEF SubmitFail
<1>3. /\ ps \subseteq pending
      /\ \A p \in ps : answer[p.cmd] \in Answer /\ answer[p.cmd] # "applied"
  BY <1>1, Zenon DEF samePending, Answer, Pending
<1> HIDE DEF ps, answer
<1>4. /\ callsOK(calls', results') /\ tableOK(pending', bytes') /\ waitersOK(pending', calls')
  BY <1>2, <1>3, Delivered, Zenon
<1>5. othersOK'
  BY <1>1, <1>2, Zenon DEF othersOK, submitsOK, loopOK, raftVars
<1> QED
  BY <1>4, <1>5 DEF IInv

\* notify tells the waiters of an operation what became of the applied entry.
LEMMA NotifyStep ==
    ASSUME IInv, Notify
    PROVE  IInv'
<1>1. othersOK /\ loopOK /\ pending \subseteq Pending
  BY Zenon DEF IInv, othersOK, tableOK
<1> DEFINE x == CHOOSE y \in loop.cmd : TRUE
<1>2. x \in Commands
  BY <1>1, Zenon DEF Notify, loopOK
<1> DEFINE ps == pendingOf(x.op)
           answer == [cmd \in Commands |-> outcome(x, cmd)]
<1>3. /\ removePending(ps) /\ deliver(ps, answer)
      /\ loop' = [at |-> IF life.fatal THEN "dead" ELSE "idle", cmd |-> {}]
      /\ UNCHANGED <<results, raftVars, life, epoch, submits>>
  BY Zenon DEF Notify
<1> HIDE DEF x
<1>4. /\ ps \subseteq pending
      /\ \A p \in ps : /\ answer[p.cmd] \in Answer
                       /\ answer[p.cmd] = "applied" => p.cmd \in results
  BY <1>1 DEF pendingOf, outcome, Answer, Pending
<1>5. othersOK'
  <2>1. loop' \in Loop /\ loop'.at # "notify"
    BY <1>3, Zenon DEF Loop
  <2> QED
    BY <1>1, <1>3, <2>1, Zenon DEF othersOK, submitsOK, loopOK, raftVars
<1> HIDE DEF ps, answer
<1>6. /\ callsOK(calls', results') /\ tableOK(pending', bytes') /\ waitersOK(pending', calls')
  BY <1>3, <1>4, Delivered, Zenon
<1> QED
  BY <1>5, <1>6 DEF IInv

\* finishPending, after the loss of the lead or by Close and fail.
LEMMA FinishStep ==
    ASSUME IInv, FinishAmbiguous \/ \E err \in Stops : Finish(err)
    PROVE  IInv'
<1>1. othersOK /\ pending \subseteq Pending /\ loop \in Loop /\ life \in Life
      /\ (loop.at = "notify" => \E x \in Commands : loop.cmd = {x})
  BY Zenon DEF IInv, othersOK, tableOK, loopOK
<1>2. PICK a \in {"ambiguous", "stopped", "fatal"} :
        /\ removePending(pending) /\ deliver(pending, [cmd \in Commands |-> a])
        /\ UNCHANGED <<results, raftVars, epoch, submits>>
  BY ProposalsAssumption, Zenon DEF FinishAmbiguous, Finish
<1> DEFINE answer == [cmd \in Commands |-> a]
<1>3. \A p \in pending : answer[p.cmd] \in Answer /\ answer[p.cmd] # "applied"
  BY <1>1, Zenon DEF Answer, Pending
<1> HIDE DEF answer
<1>4. /\ callsOK(calls', results') /\ tableOK(pending', bytes') /\ waitersOK(pending', calls')
  BY <1>2, <1>3, Delivered, Zenon DEF answer
<1>5. loopOK' /\ life' \in Life
  BY <1>1 DEF FinishAmbiguous, Finish, loopOK, Loop, Life
<1>6. othersOK'
  BY <1>1, <1>2, <1>5, Zenon DEF othersOK, submitsOK, raftVars
<1> QED
  BY <1>4, <1>6, Zenon DEF IInv

\* state.apply of a committed entry binds a command to its operation.
LEMMA CommitStep ==
    ASSUME IInv, Commit
    PROVE  IInv'
<1>1. othersOK /\ log \in Seq(LogEntry) /\ log # <<>> /\ results \subseteq Commands
  BY Zenon DEF IInv, othersOK, Commit
<1> DEFINE cmd == Head(log).cmd
<1>2. Head(log) \in LogEntry /\ Tail(log) \in Seq(LogEntry)
  BY <1>1
<1>3. cmd \in Commands
  BY <1>2, ZenonT(40) DEF LogEntry
<1>4. /\ results \subseteq results' /\ results' \subseteq results \cup {cmd} /\ log' = Tail(log)
      /\ loop' = [at |-> "notify", cmd |-> {cmd}]
      /\ UNCHANGED <<life, tableVars, epoch, calls, submits>>
  BY Zenon DEF Commit
<1> HIDE DEF cmd
<1>5. othersOK'
  BY <1>1, <1>2, <1>3, <1>4, Zenon DEF othersOK, submitsOK, loopOK, Loop
<1>6. callsOK(calls', results')
  BY <1>4, Zenon DEF IInv, callsOK, callOK
<1> QED
  BY <1>4, <1>5, <1>6, Zenon DEF IInv, tableVars

\* The steps that touch neither the map nor a call.
LEMMA QuietStep ==
    ASSUME IInv,
           \/ TakeSoftState \/ Observe \/ Close \/ Fail \/ LoopStop
           \/ \E new \in {"leader", "follower", "candidate", "none"} : ChangeRole(new)
           \/ UNCHANGED vars
    PROVE  IInv'
<1>1. othersOK /\ log \in Seq(LogEntry) /\ loop \in Loop /\ life \in Life /\ epoch \in Nat
      /\ (loop.at = "notify" => \E x \in Commands : loop.cmd = {x})
  BY Zenon DEF IInv, othersOK, loopOK
<1>2. UNCHANGED <<results, tableVars, calls, submits>>
  BY DEF TakeSoftState, Observe, Close, Fail, LoopStop, ChangeRole, vars
<1>3. log' \in Seq(LogEntry)
  <2>1. \A n \in 0 .. Len(log) : SubSeq(log, 1, n) \in Seq(LogEntry)
    BY <1>1
  <2> QED
    BY <1>1, <2>1, Zenon DEF TakeSoftState, Observe, Close, Fail, LoopStop, ChangeRole, vars, raftVars
<1>4. loopOK' /\ life' \in Life /\ epoch' \in Nat
  <2>1. CASE Observe
    BY <1>1, <2>1 DEF Observe, loopOK, Loop
  <2>2. CASE LoopStop
    BY <1>1, <2>2 DEF LoopStop, loopOK, Loop
  <2>3. CASE Close
    BY <1>1, <2>3, Zenon DEF Close, loopOK, Life
  <2>4. CASE Fail
    BY <1>1, <2>4, Zenon DEF Fail, loopOK, Life
  <2>5. CASE UNCHANGED <<loop, life, epoch>>
    BY <1>1, <2>5, Zenon DEF loopOK
  <2>6. CASE TakeSoftState
    BY <1>1, <2>6 DEF TakeSoftState, loopOK, Loop
  <2> QED
    BY <2>1, <2>2, <2>3, <2>4, <2>5, <2>6, Zenon DEF ChangeRole, vars
<1>5. othersOK'
  BY <1>1, <1>2, <1>3, <1>4, Zenon DEF othersOK, submitsOK
<1> QED
  BY <1>2, <1>5, Zenon DEF IInv, tableVars

\* The invariant holds in every reachable state.
LEMMA ProposalsInductive == Spec => []IInv
<1>1. IInv /\ [Next]_vars => IInv'
  BY SMTT(20), ProposeStep, CallStepLocal, RegisterStep, CancelStep, SubmitStartStep, SubmitNodeStep,
     SubmitFailStep, NotifyStep, FinishStep, CommitStep, QuietStep
  DEF Next, CallStep, LoopStep, SubmitStep
<1> QED
  BY <1>1, InitIInv, PTL DEF Spec

-----------------------------------------------------------------------------
(***************************************************************************)
(* The results.                                                            *)
(***************************************************************************)

\* Whoever is in the pending map still waits and has no answer yet: notify,
\* failPending and finishPending never send to a channel that one of them has
\* answered and closed, in whatever order they run.
THEOREM ProposalsAnsweredOnce == Spec => []AnsweredOnce
<1>1. IInv => AnsweredOnce
  BY Zenon DEF IInv, waitersOK, unanswered, AnsweredOnce
<1> QED
  BY <1>1, ProposalsInductive, PTL

\* pendingBytes is exactly what the pending proposals retain and stays within
\* the limits: Propose, removePendingLocked and finishPending never find their
\* accounts corrupt.
THEOREM ProposalsAccounting == Spec => []AccountingExact
<1>1. IInv => AccountingExact
  BY Zenon DEF IInv, tableOK, AccountingExact
<1> QED
  BY <1>1, ProposalsInductive, PTL

\* "applied" is only said of the caller's own command, bound for good.
THEOREM ProposalsAppliedIsBound == Spec => []AppliedIsBound
<1>1. IInv => AppliedIsBound
  BY Zenon DEF IInv, callsOK, callOK, AppliedIsBound
<1> QED
  BY <1>1, ProposalsInductive, PTL

\* A waiting caller has its answer or is known to the pending map.
THEOREM ProposalsNobodyForgotten == Spec => []NobodyForgotten
<1>1. IInv => NobodyForgotten
  BY Zenon DEF IInv, waitersOK, unanswered, NobodyForgotten
<1> QED
  BY <1>1, ProposalsInductive, PTL
=============================================================================
