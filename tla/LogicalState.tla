---------------------------- MODULE LogicalState ----------------------------
(***************************************************************************)
(* The deterministic state machine of one shard: logicalState of           *)
(* internal/raftstore/state.go, without its encodings.                     *)
(*                                                                         *)
(* A map of the code whose key is a field of its value (rows by table/key, *)
(* results by operation id, history by table/key and sequence) is the set  *)
(* of its values.  An optional field is a set with at most one element.    *)
(* (table, key) is one element of Keys, a row version UUID is an element   *)
(* of Versions, an operation UUID an element of Ops, a canonical JSON      *)
(* document an element of Values.                                          *)
(***************************************************************************)
EXTENDS Naturals

CONSTANTS Ops, Keys, Versions, Values, Nodes

AtMostOne(S) == \A x, y \in S : x = y

(***************************************************************************)
(* Data.                                                                   *)
(***************************************************************************)
Command == [op: Ops, key: Keys, val: Values, ver: Versions,
            create: BOOLEAN, match: SUBSET Versions]

\* CreateOnly and IfMatch exclude each other; IfMatch names one version.
validateCommand(c) ==
    /\ AtMostOne(c.match)
    /\ c.create => c.match = {}

Row == [key: Keys, ver: Versions, seq: Nat, val: Values]

Status == {"success", "precondition", "versionConflict"}

Result == [cmd: Command, status: Status, row: SUBSET Row, created: BOOLEAN]

ConfState == [voters: SUBSET Nodes, learners: SUBSET Nodes]

State == [rows: SUBSET Row, history: SUBSET Row, results: SUBSET Result,
          versions: SUBSET Versions, lastApplied: Nat, conf: ConfState]

\* A committed raft entry: a command, an empty entry of a new leader, or one
\* simple membership change.
Entry == [kind: {"put"}, cmd: {c \in Command : validateCommand(c)}]
         \cup [kind: {"empty"}]
         \cup [kind: {"conf"}, type: {"addNode", "addLearner", "remove"},
               node: Nodes]

newLogicalState ==
    [rows |-> {}, history |-> {}, results |-> {}, versions |-> {},
     lastApplied |-> 0, conf |-> [voters |-> {}, learners |-> {}]]

(***************************************************************************)
(* Apply.                                                                  *)
(***************************************************************************)
rowsOf(rows, key) == {r \in rows : r.key = key}

resultsOf(results, op) == {x \in results : x.cmd.op = op}

\* Mutant: IfMatch is not checked against a missing row.
conditionFailedMissing(s, c) ==
    LET current == rowsOf(s.rows, c.key) IN
    \/ c.create /\ current # {}
    \/ \E v \in c.match : \E r \in current : r.ver # v

\* The condition of a command against the current row of its key.
conditionFailed(s, c) ==
    LET current == rowsOf(s.rows, c.key) IN
    \/ c.create /\ current # {}
    \/ \E v \in c.match : \A r \in current : r.ver # v

result(c, status, row, created) ==
    [cmd |-> c, status |-> status, row |-> row, created |-> created]

\* Mutant: a failed condition does not reserve the version.
applyUnreserved(s, c, index) ==
    LET row == [key |-> c.key, ver |-> c.ver, seq |-> index, val |-> c.val]
        current == rowsOf(s.rows, c.key)
    IN  IF resultsOf(s.results, c.op) # {} THEN s
        ELSE IF c.ver \in s.versions
        THEN [s EXCEPT !.results = @ \cup {result(c, "versionConflict", {}, FALSE)}]
        ELSE IF conditionFailed(s, c)
        THEN [s EXCEPT !.results = @ \cup {result(c, "precondition", {}, FALSE)}]
        ELSE [s EXCEPT !.versions = @ \cup {c.ver},
                       !.rows = (@ \ current) \cup {row},
                       !.history = @ \cup {row},
                       !.results = @ \cup {result(c, "success", {row}, current = {})}]

\* A command whose operation id already has a result changes nothing but the
\* applied index, whether its bytes are the stored ones or not.  Every other
\* command reserves its version, unless that version is reserved already.
applyCommand(s, c, index) ==
    LET row == [key |-> c.key, ver |-> c.ver, seq |-> index, val |-> c.val]
        current == rowsOf(s.rows, c.key)
    IN  IF resultsOf(s.results, c.op) # {} THEN s
        ELSE IF c.ver \in s.versions
        THEN [s EXCEPT !.results = @ \cup {result(c, "versionConflict", {}, FALSE)}]
        ELSE IF conditionFailed(s, c)
        THEN [s EXCEPT !.versions = @ \cup {c.ver},
                       !.results = @ \cup {result(c, "precondition", {}, FALSE)}]
        ELSE [s EXCEPT !.versions = @ \cup {c.ver},
                       !.rows = (@ \ current) \cup {row},
                       !.history = @ \cup {row},
                       !.results = @ \cup {result(c, "success", {row}, current = {})}]

\* External: the configuration raft's tracker returns for one simple change.
ApplyConfChange(conf, e) ==
    CASE e.type = "addNode" ->
            [voters |-> conf.voters \cup {e.node}, learners |-> conf.learners \ {e.node}]
      [] e.type = "addLearner" ->
            [voters |-> conf.voters \ {e.node}, learners |-> conf.learners \cup {e.node}]
      [] OTHER ->
            [voters |-> conf.voters \ {e.node}, learners |-> conf.learners \ {e.node}]

apply(s, e) ==
    LET index == s.lastApplied + 1
        next  == CASE e.kind = "put"  -> applyCommand(s, e.cmd, index)
                   [] e.kind = "conf" -> [s EXCEPT !.conf = ApplyConfChange(@, e)]
                   [] OTHER -> s
    IN  [next EXCEPT !.lastApplied = index]

\* Mutant: the stored result answers any command with its operation id.
replyUnchecked(s, c) == resultsOf(s.results, c.op)

\* Mutant: the waiter gets the row instead of the result.
replyRow(s, c) == UNION {x.row : x \in resultsOf(s.results, c.op)}

\* What apply hands to the waiter of command c: the stored result if it was
\* stored for the same bytes, the operation conflict otherwise.
reply(s, c) ==
    LET stored == resultsOf(s.results, c.op) IN
    IF \E x \in stored : x.cmd = c THEN stored ELSE {}

(***************************************************************************)
(* The exported image: what a snapshot carries and what the engine holds   *)
(* of a generation.  The reserved versions are in neither; they are        *)
(* rebuilt from history and results.                                       *)
(***************************************************************************)
Image == [rows: SUBSET Row, history: SUBSET Row, results: SUBSET Result]

exportSnapshot(s) ==
    [rows |-> s.rows, history |-> s.history, results |-> s.results]

collectVersions(image) ==
    {h.ver : h \in image.history} \cup {x.cmd.ver : x \in image.results}

\* The errors of collectVersions, as the condition under which it has none.
versionsConsistent(image) ==
    /\ \A x, y \in image.results :
          /\ x.status # "versionConflict" /\ y.status # "versionConflict"
          /\ x.cmd.ver = y.cmd.ver
          => x = y
    /\ \A x \in image.results, h \in image.history :
          x.status = "precondition" => h.ver # x.cmd.ver
    /\ \A x \in image.results : x.status = "versionConflict" =>
          \/ \E h \in image.history : h.ver = x.cmd.ver
          \/ \E y \in image.results : y.status # "versionConflict" /\ y.cmd.ver = x.cmd.ver

\* History: within the applied index, one row per sequence and per version.
historyConsistent(image, lastApplied) ==
    /\ \A h \in image.history : h.seq # 0 /\ h.seq <= lastApplied
    /\ \A g, h \in image.history : g.seq = h.seq \/ g.ver = h.ver => g = h

\* Heads: the row of a key is the latest history record of that key.
headsConsistent(image, lastApplied) ==
    /\ \A r \in image.rows : r.seq # 0 /\ r.seq <= lastApplied
    /\ \A r, q \in image.rows : r.key = q.key => r = q
    /\ \A r \in image.rows :
          /\ r \in image.history
          /\ \A h \in image.history : h.key = r.key => h.seq <= r.seq
    /\ \A h \in image.history : \E r \in image.rows : r.key = h.key

\* Results: a success names a row of history and says truly whether the row
\* was the first of its key; every other result carries no row.
resultConsistent(image, x, lastApplied) ==
    IF x.status = "success"
    THEN \E row \in image.history :
            /\ x.row = {row}
            /\ row.seq # 0 /\ row.seq <= lastApplied
            /\ row.key = x.cmd.key /\ row.ver = x.cmd.ver /\ row.val = x.cmd.val
            /\ x.created = ~\E h \in image.history :
                               h.key = row.key /\ h.seq < row.seq
    ELSE x.row = {} /\ ~x.created

\* The whole validation of load and decodeSnapshot.
validImage(image, lastApplied) ==
    /\ historyConsistent(image, lastApplied)
    /\ headsConsistent(image, lastApplied)
    /\ \A x, y \in image.results : x.cmd.op = y.cmd.op => x = y
    /\ \A x \in image.results : resultConsistent(image, x, lastApplied)
    /\ versionsConsistent(image)

\* Mutant: the versions of commands that wrote no row are forgotten.
decodeHistoryVersions(image, lastApplied, conf) ==
    [rows |-> image.rows, history |-> image.history, results |-> image.results,
     versions |-> {h.ver : h \in image.history}, lastApplied |-> lastApplied,
     conf |-> conf]

\* The state load and decodeSnapshot build from a valid image.
decode(image, lastApplied, conf) ==
    [rows |-> image.rows, history |-> image.history, results |-> image.results,
     versions |-> collectVersions(image), lastApplied |-> lastApplied,
     conf |-> conf]

\* A state whose exported image load accepts, and whose reserved versions are
\* the ones load would rebuild.
wellFormed(s) ==
    /\ validImage(exportSnapshot(s), s.lastApplied)
    /\ s.versions = collectVersions(exportSnapshot(s))
=============================================================================
