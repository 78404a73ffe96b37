------------------------- MODULE ShardReplicaProofs -------------------------
(***************************************************************************)
(* Proofs about ShardReplica for every set of replicas, entries and        *)
(* bounds: what a replica serves and what its engine holds is a prefix of  *)
(* the committed log; what the waiters of commands are told is what that   *)
(* log decides; a stopped replica finds its state in its engine.           *)
(*                                                                         *)
(* The invariant is built from operators whose parameters are the log l,   *)
(* the run f of the state machine over it, and the parts of one replica's  *)
(* state, so that each action is a lemma about values.                     *)
(***************************************************************************)
EXTENDS ShardReplica, TLAPS

USE ZenonT(30)

(***************************************************************************)
(* apply preserves everything load and decodeSnapshot validate, for every  *)
(* set of operations, keys, versions and values.                           *)
(***************************************************************************)
\* The state of a fresh replica passes load's validation.
LEMMA NewStateWellFormed ==
    newLogicalState \in State /\ wellFormed(newLogicalState)
BY DEF newLogicalState, State, ConfState, wellFormed, validImage, exportSnapshot,
       historyConsistent, headsConsistent, versionsConsistent, collectVersions

\* applyCommand keeps the state's type.
LEMMA ApplyCommandType ==
    ASSUME NEW s \in State, NEW c \in Command, NEW index \in Nat
    PROVE  applyCommand(s, c, index) \in State
<1> DEFINE row == [key |-> c.key, ver |-> c.ver, seq |-> index, val |-> c.val]
<1>1. row \in Row
  BY DEF Row, Command
<1>2. \A st \in Status, b \in BOOLEAN, R \in SUBSET Row : result(c, st, R, b) \in Result
  BY DEF result, Result
<1>3. {row} \in SUBSET Row /\ {} \in SUBSET Row
  BY <1>1
<1>4. {"success", "precondition", "versionConflict"} = Status
  BY DEF Status
<1>5. (rowsOf(s.rows, c.key) = {}) \in BOOLEAN
  OBVIOUS
<1>6. /\ result(c, "versionConflict", {}, FALSE) \in Result
      /\ result(c, "precondition", {}, FALSE) \in Result
      /\ result(c, "success", {row}, rowsOf(s.rows, c.key) = {}) \in Result
  BY <1>2, <1>3, <1>4, <1>5
<1>7. c.ver \in Versions
  BY DEF Command
<1> QED
  BY <1>1, <1>6, <1>7 DEF applyCommand, State

\* The image after a command that wrote no row, and after one that did.
rowlessImage(s, c, status) ==
    [rows |-> s.rows, history |-> s.history,
     results |-> s.results \cup {result(c, status, {}, FALSE)}]

newRow(s, c) == [key |-> c.key, ver |-> c.ver, seq |-> s.lastApplied + 1, val |-> c.val]

successResult(s, c) ==
    result(c, "success", {newRow(s, c)}, rowsOf(s.rows, c.key) = {})

successImage(s, c) ==
    [rows |-> (s.rows \ rowsOf(s.rows, c.key)) \cup {newRow(s, c)},
     history |-> s.history \cup {newRow(s, c)},
     results |-> s.results \cup {successResult(s, c)}]

\* A result without a row may join the image: either its version is already
\* reserved (version conflict), or no history row and no other claim has it
\* (failed condition).
LEMMA AddRowlessResult ==
    ASSUME NEW s \in State, wellFormed(s), NEW c \in Command,
           resultsOf(s.results, c.op) = {},
           NEW status, status \in {"versionConflict", "precondition"},
           status = "versionConflict" <=> c.ver \in s.versions,
           NEW n \in Nat, n >= s.lastApplied
    PROVE  /\ validImage(rowlessImage(s, c, status), n)
           /\ collectVersions(rowlessImage(s, c, status)) = s.versions \cup {c.ver}
<1> DEFINE x == result(c, status, {}, FALSE)
           image == rowlessImage(s, c, status)
<1>b. image.rows = s.rows /\ image.history = s.history
      /\ image.results = s.results \cup {x}
  BY DEF rowlessImage
<1> DEFINE m == s.lastApplied
<1>0. m \in Nat /\ s.history \subseteq Row /\ s.rows \subseteq Row
      /\ s.results \subseteq Result
  BY DEF State
<1> DEFINE old == exportSnapshot(s)
<1>1. old.rows = s.rows /\ old.history = s.history /\ old.results = s.results
  BY DEF exportSnapshot
<1> HIDE DEF old
<1>2. x.cmd = c /\ x.status = status /\ x.row = {} /\ x.created = FALSE
  BY DEF result
<1> HIDE DEF x, image
<1> USE <1>b
<1>3. validImage(old, m) /\ s.versions = collectVersions(old)
  BY DEF wellFormed, old
<1>a. \A y \in s.results : y.cmd.op # c.op
  BY DEF resultsOf
<1>4. historyConsistent(image, n)
  BY <1>0, <1>1, <1>3, SMTT(20) DEF validImage, historyConsistent, Row
<1>5. headsConsistent(image, n)
  BY <1>0, <1>1, <1>3, SMTT(20) DEF validImage, headsConsistent, Row
<1>6. \A y, z \in image.results : y.cmd.op = z.cmd.op => y = z
  BY <1>1, <1>2, <1>3, <1>a DEF validImage
<1>7. \A y \in image.results : resultConsistent(image, y, n)
  <2> SUFFICES ASSUME NEW y \in image.results PROVE resultConsistent(image, y, n)
    OBVIOUS
  <2>1. CASE y = x
    BY <2>1, <1>2 DEF resultConsistent
  <2>2. CASE y \in s.results
    <3>1. resultConsistent(old, y, m)
      BY <2>2, <1>1, <1>3 DEF validImage
    <3> QED
      BY <3>1, <1>0, <1>1, SMTT(20) DEF resultConsistent, Row
  <2> QED
    BY <2>1, <2>2
<1>8. versionsConsistent(image)
  <2>1. \A y \in s.results : y.cmd.ver \in s.versions
    BY <1>1, <1>3 DEF collectVersions
  <2>2. \A h \in s.history : h.ver \in s.versions
    BY <1>1, <1>3 DEF collectVersions
  <2>3. versionsConsistent(old)
    BY <1>3 DEF validImage
  <2>4. c.ver \in s.versions =>
          \/ \E h \in s.history : h.ver = c.ver
          \/ \E y \in s.results : y.status # "versionConflict" /\ y.cmd.ver = c.ver
    <3> SUFFICES ASSUME c.ver \in s.versions, \A h \in s.history : h.ver # c.ver
                 PROVE  \E y \in s.results : y.status # "versionConflict" /\ y.cmd.ver = c.ver
      OBVIOUS
    <3>1. PICK z \in s.results : z.cmd.ver = c.ver
      BY <1>1, <1>3 DEF collectVersions
    <3> QED
      BY <3>1, <2>3, <1>1, SMTT(20) DEF versionsConsistent
  <2>5. \A y, z \in image.results :
          y.status # "versionConflict" /\ z.status # "versionConflict"
          /\ y.cmd.ver = z.cmd.ver => y = z
    <3>1. x.status # "versionConflict" => \A z \in s.results : z.cmd.ver # x.cmd.ver
      BY <2>1, <1>2
    <3>2. \A y, z \in s.results :
            y.status # "versionConflict" /\ z.status # "versionConflict"
            /\ y.cmd.ver = z.cmd.ver => y = z
      BY <2>3, <1>1 DEF versionsConsistent
    <3> QED
      BY <3>1, <3>2
  <2>6. \A y \in image.results, h \in image.history :
          y.status = "precondition" => h.ver # y.cmd.ver
    BY <2>2, <2>3, <1>1, <1>2, SMTT(20) DEF versionsConsistent
  <2>7. \A y \in image.results : y.status = "versionConflict" =>
          \/ \E h \in image.history : h.ver = y.cmd.ver
          \/ \E z \in image.results : z.status # "versionConflict" /\ z.cmd.ver = y.cmd.ver
    BY <2>4, <2>3, <1>1, <1>2, SMTT(20) DEF versionsConsistent
  <2> QED
    BY <2>5, <2>6, <2>7 DEF versionsConsistent
<1>9. collectVersions(image) = s.versions \cup {c.ver}
  <2>1. {y.cmd.ver : y \in image.results} = {y.cmd.ver : y \in s.results} \cup {c.ver}
    BY <1>2
  <2> QED
    BY <2>1, <1>1, <1>3 DEF collectVersions
<1> QED
  BY <1>4, <1>5, <1>6, <1>7, <1>8, <1>9 DEF validImage, image

\* A successful write may join the image: its sequence is above every stored
\* one and its version is new, so history, heads and results stay consistent
\* and no stored result's created flag changes.
LEMMA AddSuccess ==
    ASSUME NEW s \in State, wellFormed(s), NEW c \in Command,
           resultsOf(s.results, c.op) = {},
           c.ver \notin s.versions
    PROVE  /\ validImage(successImage(s, c), s.lastApplied + 1)
           /\ collectVersions(successImage(s, c)) = s.versions \cup {c.ver}
<1> DEFINE row == newRow(s, c)
           x == successResult(s, c)
           image == successImage(s, c)
<1>b. /\ image.rows = (s.rows \ rowsOf(s.rows, c.key)) \cup {row}
      /\ image.history = s.history \cup {row}
      /\ image.results = s.results \cup {x}
  BY DEF successImage
<1> DEFINE m == s.lastApplied
           old == exportSnapshot(s)
<1>0. m \in Nat /\ s.history \subseteq Row /\ s.rows \subseteq Row
      /\ s.results \subseteq Result
  BY DEF State
<1>1. old.rows = s.rows /\ old.history = s.history /\ old.results = s.results
  BY DEF exportSnapshot
<1> HIDE DEF old
<1>2. /\ x.cmd = c /\ x.status = "success" /\ x.row = {row}
      /\ x.created = (rowsOf(s.rows, c.key) = {})
  BY DEF result, successResult
<1>3. validImage(old, m) /\ s.versions = collectVersions(old)
  BY DEF wellFormed, old
<1>4. row.key = c.key /\ row.ver = c.ver /\ row.seq = m + 1 /\ row.val = c.val
  BY DEF newRow
<1> HIDE DEF row, x, image
<1> USE <1>b
<1>5. \A y \in s.results : y.cmd.op # c.op
  BY DEF resultsOf
<1>6. /\ \A y \in s.results : y.cmd.ver \in s.versions
      /\ \A h \in s.history : h.ver \in s.versions
  BY <1>1, <1>3 DEF collectVersions
<1>7. /\ \A h \in s.history : h.seq \in Nat /\ h.seq # 0 /\ h.seq <= m
      /\ \A g, h \in s.history : g.seq = h.seq \/ g.ver = h.ver => g = h
  BY <1>0, <1>1, <1>3 DEF validImage, historyConsistent, Row
<1>8. /\ \A r \in s.rows : r \in s.history
      /\ \A r, q \in s.rows : r.key = q.key => r = q
      /\ \A r \in s.rows, h \in s.history : h.key = r.key => h.seq <= r.seq
      /\ \A h \in s.history : \E r \in s.rows : r.key = h.key
  BY <1>1, <1>3 DEF validImage, headsConsistent
<1>9. \A r : r \in image.rows <=> r = row \/ (r \in s.rows /\ r.key # c.key)
  BY DEF rowsOf
<1>10. historyConsistent(image, m + 1)
  BY <1>0, <1>4, <1>6, <1>7, SMTT(20) DEF historyConsistent
<1>11. headsConsistent(image, m + 1)
  <2>1. \A r \in image.rows : r.seq # 0 /\ r.seq <= m + 1 /\ r \in image.history
    BY <1>0, <1>4, <1>7, <1>8, <1>9, SMTT(20)
  <2>2. \A r, q \in image.rows : r.key = q.key => r = q
    BY <1>4, <1>8, <1>9, SMTT(20)
  <2>3. \A r \in image.rows, h \in image.history : h.key = r.key => h.seq <= r.seq
    BY <1>0, <1>4, <1>7, <1>8, <1>9, SMTT(20)
  <2>4. \A h \in image.history : \E r \in image.rows : r.key = h.key
    <3> SUFFICES ASSUME NEW h \in image.history PROVE \E r \in image.rows : r.key = h.key
      OBVIOUS
    <3>1. CASE h.key = c.key
      BY <3>1, <1>4, <1>9
    <3>2. CASE h.key # c.key
      BY <3>2, <1>4, <1>8, <1>9
    <3> QED
      BY <3>1, <3>2
  <2> QED
    BY <2>1, <2>2, <2>3, <2>4 DEF headsConsistent
<1>12. \A y, z \in image.results : y.cmd.op = z.cmd.op => y = z
  BY <1>1, <1>2, <1>3, <1>5 DEF validImage
<1>13. \A y \in image.results : resultConsistent(image, y, m + 1)
  <2> SUFFICES ASSUME NEW y \in image.results PROVE resultConsistent(image, y, m + 1)
    OBVIOUS
  <2>1. CASE y = x
    <3>1. (rowsOf(s.rows, c.key) = {}) <=> ~\E h \in image.history : h.key = row.key /\ h.seq < row.seq
      <4>1. (rowsOf(s.rows, c.key) = {}) <=> ~\E r \in s.rows : r.key = c.key
        BY DEF rowsOf
      <4>2. (\E r \in s.rows : r.key = c.key) <=> (\E h \in s.history : h.key = c.key)
        BY <1>8
      <4>3. (\E h \in s.history : h.key = c.key)
            <=> (\E h \in image.history : h.key = row.key /\ h.seq < row.seq)
        BY <1>0, <1>4, <1>7, SMTT(20)
      <4> QED
        BY <4>1, <4>2, <4>3
    <3>2. row \in image.history /\ x.row = {row} /\ row.seq # 0 /\ row.seq <= m + 1
          /\ row.key = x.cmd.key /\ row.ver = x.cmd.ver /\ row.val = x.cmd.val
      <4>1. row.seq # 0 /\ row.seq <= m + 1
        BY <1>0, <1>4, SMTT(20)
      <4>2. row \in image.history /\ x.row = {row}
        BY <1>2
      <4>3. row.key = x.cmd.key /\ row.ver = x.cmd.ver /\ row.val = x.cmd.val
        BY <1>2, <1>4
      <4> QED
        BY <4>1, <4>2, <4>3
    <3>3. x.created = ~\E h \in image.history : h.key = row.key /\ h.seq < row.seq
      BY <3>1, <1>2
    <3>4. \E q \in image.history :
            /\ x.row = {q}
            /\ q.seq # 0 /\ q.seq <= m + 1
            /\ q.key = x.cmd.key /\ q.ver = x.cmd.ver /\ q.val = x.cmd.val
            /\ x.created = ~\E h \in image.history : h.key = q.key /\ h.seq < q.seq
      <4> HIDE DEF m
      <4> QED BY <3>2, <3>3
    <3> QED
      BY <2>1, <3>4, <1>2 DEF resultConsistent
  <2>2. CASE y \in s.results
    <3>1. resultConsistent(old, y, m)
      BY <2>2, <1>1, <1>3 DEF validImage
    <3>2. CASE y.status # "success"
      BY <3>1, <3>2 DEF resultConsistent
    <3>3. CASE y.status = "success"
      <4>1. PICK q \in s.history :
              /\ y.row = {q}
              /\ q.seq # 0 /\ q.seq <= m
              /\ q.key = y.cmd.key /\ q.ver = y.cmd.ver /\ q.val = y.cmd.val
              /\ y.created = ~\E h \in s.history : h.key = q.key /\ h.seq < q.seq
        BY <3>1, <3>3, <1>1 DEF resultConsistent
      <4>2. (\E h \in s.history : h.key = q.key /\ h.seq < q.seq)
            <=> (\E h \in image.history : h.key = q.key /\ h.seq < q.seq)
        BY <4>1, <1>0, <1>4, <1>7, SMTT(20)
      <4>3. q \in image.history /\ q.seq <= m + 1
        BY <4>1, <1>0, <1>7, SMTT(20)
      <4> QED
        BY <4>1, <4>2, <4>3, <3>3 DEF resultConsistent
    <3> QED
      BY <3>2, <3>3
  <2> QED
    BY <2>1, <2>2
<1>14. versionsConsistent(image)
  <2>1. versionsConsistent(old)
    BY <1>3 DEF validImage
  <2>2. \A y, z \in image.results :
          y.status # "versionConflict" /\ z.status # "versionConflict"
          /\ y.cmd.ver = z.cmd.ver => y = z
    BY <2>1, <1>1, <1>2, <1>6, SMTT(20) DEF versionsConsistent
  <2>3. \A y \in image.results, h \in image.history :
          y.status = "precondition" => h.ver # y.cmd.ver
    BY <2>1, <1>1, <1>2, <1>4, <1>6, SMTT(20) DEF versionsConsistent
  <2>4. \A y \in image.results : y.status = "versionConflict" =>
          \/ \E h \in image.history : h.ver = y.cmd.ver
          \/ \E z \in image.results : z.status # "versionConflict" /\ z.cmd.ver = y.cmd.ver
    BY <2>1, <1>1, <1>2 DEF versionsConsistent
  <2> QED
    BY <2>2, <2>3, <2>4 DEF versionsConsistent
<1>15. collectVersions(image) = s.versions \cup {c.ver}
  <2>1. {y.cmd.ver : y \in image.results} = {y.cmd.ver : y \in s.results} \cup {c.ver}
    BY <1>2
  <2>2. {h.ver : h \in image.history} = {h.ver : h \in s.history} \cup {c.ver}
    BY <1>4, SMTT(20)
  <2> QED
    BY <2>1, <2>2, <1>1, <1>3 DEF collectVersions
<1> QED
  BY <1>10, <1>11, <1>12, <1>13, <1>14, <1>15 DEF validImage, image

\* Only the fields of the image and the applied index decide whether a state
\* is well formed.
LEMMA WellFormedFields ==
    ASSUME NEW s, NEW n,
           validImage(exportSnapshot(s), n),
           s.versions = collectVersions(exportSnapshot(s)),
           NEW next, next.rows = s.rows, next.history = s.history,
           next.results = s.results, next.versions = s.versions,
           next.lastApplied = n
    PROVE  wellFormed(next)
<1>1. exportSnapshot(next) = exportSnapshot(s)
  BY DEF exportSnapshot
<1> QED
  BY <1>1 DEF wellFormed

\* A larger applied index keeps an image valid.
LEMMA ValidImageLater ==
    ASSUME NEW s \in State, wellFormed(s), NEW n \in Nat, n >= s.lastApplied
    PROVE  validImage(exportSnapshot(s), n)
<1> DEFINE image == exportSnapshot(s)
           m == s.lastApplied
<1>1. m \in Nat /\ image.history \subseteq Row /\ image.rows \subseteq Row
  BY DEF State, exportSnapshot
<1>2. validImage(image, m)
  BY DEF wellFormed
<1> HIDE DEF image
<1>3. historyConsistent(image, n) /\ headsConsistent(image, n)
  BY <1>1, <1>2, SMTT(20) DEF validImage, historyConsistent, headsConsistent, Row
<1>4. \A x \in image.results : resultConsistent(image, x, n)
  <2> SUFFICES ASSUME NEW x \in image.results PROVE resultConsistent(image, x, n)
    OBVIOUS
  <2>1. resultConsistent(image, x, m)
    BY <1>2 DEF validImage
  <2> QED
    BY <2>1, <1>1, SMTT(20) DEF resultConsistent, Row
<1> QED
  BY <1>2, <1>3, <1>4 DEF validImage, image

\* applyCommand preserves everything load validates.
LEMMA ApplyCommandValid ==
    ASSUME NEW s \in State, wellFormed(s), NEW c \in Command,
           NEW next, next = applyCommand(s, c, s.lastApplied + 1)
    PROVE  /\ validImage(exportSnapshot(next), s.lastApplied + 1)
           /\ next.versions = collectVersions(exportSnapshot(next))
           /\ s.results \subseteq next.results /\ s.history \subseteq next.history
           /\ next.conf = s.conf
<1> DEFINE n == s.lastApplied + 1
           row == [key |-> c.key, ver |-> c.ver, seq |-> n, val |-> c.val]
           image == exportSnapshot(next)
<1>0. s.lastApplied \in Nat /\ n \in Nat /\ n >= s.lastApplied
  BY SMTT(20) DEF State
<1>1. image.rows = next.rows /\ image.history = next.history /\ image.results = next.results
  BY DEF exportSnapshot
<1>2. CASE resultsOf(s.results, c.op) # {}
  <2>1. next = s
    BY <1>2 DEF applyCommand
  <2> QED
    BY <2>1, <1>0, ValidImageLater DEF wellFormed
<1>3. CASE resultsOf(s.results, c.op) = {} /\ c.ver \in s.versions
  <2> DEFINE x == result(c, "versionConflict", {}, FALSE)
  <2>1. next = [s EXCEPT !.results = @ \cup {x}]
    BY <1>3 DEF applyCommand
  <2>2. next.rows = s.rows /\ next.history = s.history /\ next.results = s.results \cup {x}
        /\ next.versions = s.versions /\ next.conf = s.conf
    BY <2>1 DEF State
  <2>3. image = rowlessImage(s, c, "versionConflict")
    BY <2>2 DEF exportSnapshot, rowlessImage
  <2> HIDE DEF n, image, x
  <2>4. validImage(image, n) /\ collectVersions(image) = s.versions \cup {c.ver}
    BY <1>0, <1>3, <2>3, AddRowlessResult
  <2> QED
    BY <1>3, <2>2, <2>4 DEF n, image
<1>4. CASE resultsOf(s.results, c.op) = {} /\ c.ver \notin s.versions /\ conditionFailed(s, c)
  <2> DEFINE x == result(c, "precondition", {}, FALSE)
  <2>1. next = [s EXCEPT !.versions = @ \cup {c.ver}, !.results = @ \cup {x}]
    BY <1>4 DEF applyCommand
  <2>2. next.rows = s.rows /\ next.history = s.history /\ next.results = s.results \cup {x}
        /\ next.versions = s.versions \cup {c.ver} /\ next.conf = s.conf
    BY <2>1 DEF State
  <2>3. image = rowlessImage(s, c, "precondition")
    BY <2>2 DEF exportSnapshot, rowlessImage
  <2> HIDE DEF n, image, x
  <2>4. validImage(image, n) /\ collectVersions(image) = s.versions \cup {c.ver}
    BY <1>0, <1>4, <2>3, AddRowlessResult
  <2> QED
    BY <2>2, <2>4 DEF n, image
<1>5. CASE resultsOf(s.results, c.op) = {} /\ c.ver \notin s.versions /\ ~conditionFailed(s, c)
  <2> DEFINE current == rowsOf(s.rows, c.key)
             x == result(c, "success", {row}, current = {})
  <2>1. next = [s EXCEPT !.versions = @ \cup {c.ver}, !.rows = (@ \ current) \cup {row},
                         !.history = @ \cup {row}, !.results = @ \cup {x}]
    BY <1>5 DEF applyCommand
  <2>2. next.rows = (s.rows \ current) \cup {row} /\ next.history = s.history \cup {row}
        /\ next.results = s.results \cup {x}
        /\ next.versions = s.versions \cup {c.ver} /\ next.conf = s.conf
    BY <2>1 DEF State
  <2>3. image = successImage(s, c)
    BY <2>2 DEF exportSnapshot, successImage, successResult, newRow
  <2> HIDE DEF image, x, row
  <2>4. validImage(image, s.lastApplied + 1) /\ collectVersions(image) = s.versions \cup {c.ver}
    BY <1>5, <2>3, AddSuccess
  <2> QED
    BY <2>2, <2>4 DEF image
<1> QED
  BY <1>2, <1>3, <1>4, <1>5

\* apply of any committed entry keeps the state loadable (what load and
\* decodeSnapshot validate, and the versions they rebuild), advances the
\* applied index by one and takes nothing back.
THEOREM ApplyWellFormed ==
    ASSUME NEW s \in State, wellFormed(s), NEW e \in Entry
    PROVE  /\ apply(s, e) \in State
           /\ wellFormed(apply(s, e))
           /\ apply(s, e).lastApplied = s.lastApplied + 1
           /\ s.results \subseteq apply(s, e).results
           /\ s.history \subseteq apply(s, e).history
<1> DEFINE n == s.lastApplied + 1
<1>0. s.lastApplied \in Nat /\ n \in Nat /\ n >= s.lastApplied
  BY SMTT(20) DEF State
<1>1. validImage(exportSnapshot(s), n) /\ s.versions = collectVersions(exportSnapshot(s))
  BY <1>0, ValidImageLater DEF wellFormed
<1>2. CASE e.kind = "put"
  <2>1. e.cmd \in Command
    BY <1>2 DEF Entry
  <2> DEFINE mid == applyCommand(s, e.cmd, n)
  <2>2. mid \in State
    BY <2>1, <1>0, ApplyCommandType
  <2>3. /\ validImage(exportSnapshot(mid), n)
        /\ mid.versions = collectVersions(exportSnapshot(mid))
        /\ s.results \subseteq mid.results /\ s.history \subseteq mid.history
    BY <2>1, ApplyCommandValid, SMTT(20)
  <2>4. apply(s, e) = [mid EXCEPT !.lastApplied = n]
    BY <1>2 DEF apply
  <2> HIDE DEF mid, n
  <2>5. /\ apply(s, e) \in State
        /\ apply(s, e).rows = mid.rows /\ apply(s, e).history = mid.history
        /\ apply(s, e).results = mid.results /\ apply(s, e).versions = mid.versions
        /\ apply(s, e).lastApplied = n
    BY <2>2, <2>4, <1>0 DEF State
  <2>6. wellFormed(apply(s, e))
    BY <2>3, <2>5, WellFormedFields
  <2> QED
    BY <2>3, <2>5, <2>6 DEF n
<1>3. CASE e.kind = "conf"
  <2>1. s.conf \in ConfState /\ e.node \in Nodes
    BY <1>3 DEF State, Entry
  <2>2. ApplyConfChange(s.conf, e) \in ConfState
    BY <2>1 DEF ApplyConfChange, ConfState
  <2>3. apply(s, e) = [[s EXCEPT !.conf = ApplyConfChange(@, e)] EXCEPT !.lastApplied = n]
    BY <1>3 DEF apply
  <2> HIDE DEF n
  <2>4. /\ apply(s, e) \in State
        /\ apply(s, e).rows = s.rows /\ apply(s, e).history = s.history
        /\ apply(s, e).results = s.results /\ apply(s, e).versions = s.versions
        /\ apply(s, e).lastApplied = n
    BY <2>2, <2>3, <1>0 DEF State
  <2>5. wellFormed(apply(s, e))
    BY <2>4, <1>1, WellFormedFields
  <2> QED
    BY <2>4, <2>5 DEF n
<1>4. CASE e.kind # "put" /\ e.kind # "conf"
  <2>1. apply(s, e) = [s EXCEPT !.lastApplied = n]
    BY <1>4 DEF apply
  <2> HIDE DEF n
  <2>2. /\ apply(s, e) \in State
        /\ apply(s, e).rows = s.rows /\ apply(s, e).history = s.history
        /\ apply(s, e).results = s.results /\ apply(s, e).versions = s.versions
        /\ apply(s, e).lastApplied = n
    BY <2>1, <1>0 DEF State
  <2>3. wellFormed(apply(s, e))
    BY <2>2, <1>1, WellFormedFields
  <2> QED
    BY <2>2, <2>3 DEF n
<1> QED
  BY <1>2, <1>3, <1>4

-----------------------------------------------------------------------------
(***************************************************************************)
(* The inductive invariant.                                                *)
(***************************************************************************)

\* The snapshot of the state after i entries.
snapshotOf(f, i) ==
    [index |-> i, image |-> exportSnapshot(f[i + 1]), conf |-> f[i + 1].conf]

\* f is the run of the state machine over l.
refOK(l, f) ==
    /\ l \in Seq(Entries) /\ Len(l) <= MaxLog
    /\ f \in Seq(State) /\ Len(f) = Len(l) + 1
    /\ \A i \in 1 .. Len(f) : wellFormed(f[i]) /\ f[i].lastApplied = i - 1
    /\ \A i \in 1 .. Len(l) : f[i + 1] = apply(f[i], l[i])
    /\ \A i, j \in 1 .. Len(f) :
          i <= j => f[i].results \subseteq f[j].results /\ f[i].history \subseteq f[j].history

\* Every snapshot anywhere is the snapshot of a committed prefix.
trueSnapshots(l, f, S) ==
    \A s \in S : s.index \in 0 .. Len(l) /\ s = snapshotOf(f, s.index)

\* The published generation holds the image of the prefix applied.
durableOK(l, f, d) ==
    /\ d.applied \in 0 .. Len(l) /\ d.meta = d.applied
    /\ d.commit \in 0 .. Len(l) /\ d.applied <= d.commit
    /\ \A k \in d.chunks : k.snap.index \in 0 .. Len(l) /\ k.snap = snapshotOf(f, k.snap.index)
    /\ d.images[d.generation].rows = f[d.applied + 1].rows
    /\ d.images[d.generation].history = f[d.applied + 1].history
    /\ d.images[d.generation].results = f[d.applied + 1].results
    /\ d.images[d.generation].dedupe = opsOf(f[d.applied + 1].results)
    /\ d.conf = f[d.applied + 1].conf

\* A snapshot waits to be installed, or a crash cut its installation short.
unfinished(d) ==
    \/ d.snapIndex > d.meta
    \/ \E g \in Generation : g > d.generation /\ d.images[g] # emptyImage

\* Records staged in a generation all belong to the state s.
partOf(image, s) ==
    /\ image.rows \subseteq s.rows
    /\ image.history \subseteq s.history
    /\ image.results \subseteq s.results
    /\ image.dedupe \subseteq opsOf(s.results)

\* What is staged above the published generation are records of the one
\* snapshot that Open will install again: the snapshot at the commit index.
stagedOK(f, d) ==
    /\ d.snapIndex > d.meta => d.snapIndex = d.commit
    /\ unfinished(d) => d.meta < d.commit /\ \A i \in d.entries : i < d.commit
    /\ \A g \in Generation : g > d.generation + 1 => d.images[g] = emptyImage
    /\ \A g \in Generation : g = d.generation + 1 => partOf(d.images[g], f[d.commit + 1])

\* Where readyLoop (p) and CreateSnapshot are decides what may be unfinished.
controlOK(f, d, m, p, u, inc, cre) ==
    /\ p = "down" => cre = {} /\ inc = {}
    /\ p # "down" => m = f[d.applied + 1]
    /\ p \in {"idle", "apply"} => ~unfinished(d)
    /\ p = "apply" => d.applied < u /\ u <= d.commit
    /\ p = "install" =>
          /\ inc = {snapshotOf(f, d.commit)}
          /\ d.meta < d.commit
          /\ \A i \in d.entries : i < d.commit
    /\ \A s \in cre : s.index = d.applied

typeOK(d, m, p, u, inc, cre) ==
    /\ d \in Disk /\ m \in State
    /\ p \in {"down", "idle", "apply", "install"}
    /\ u \in Index
    /\ inc \subseteq Snapshot /\ cre \subseteq Snapshot

replicaOK(l, f, d, m, p, u, inc, cre) ==
    /\ typeOK(d, m, p, u, inc, cre)
    /\ trueSnapshots(l, f, inc) /\ trueSnapshots(l, f, cre)
    /\ durableOK(l, f, d)
    /\ stagedOK(f, d)
    /\ controlOK(f, d, m, p, u, inc, cre)

\* The inductive invariant.
IInv ==
    /\ refOK(log, ref)
    /\ sent \subseteq Snapshot /\ trueSnapshots(log, ref, sent)
    /\ replies \subseteq [cmd: Command, reply: SUBSET Result]
    /\ crashes \in 0 .. MaxCrashes
    /\ mem \in [Replicas -> State] /\ disk \in [Replicas -> Disk]
    /\ pc \in [Replicas -> {"down", "idle", "apply", "install"}]
    /\ upto \in [Replicas -> Index]
    /\ incoming \in [Replicas -> SUBSET Snapshot]
    /\ creating \in [Replicas -> SUBSET Snapshot]
    /\ \A r \in Replicas :
          replicaOK(log, ref, disk[r], mem[r], pc[r], upto[r], incoming[r], creating[r])

(***************************************************************************)
(* The log and the run of the state machine over it.                       *)
(***************************************************************************)

\* A committed entry extends the run and leaves its past alone.
LEMMA CommitRef ==
    ASSUME NEW l, NEW f, refOK(l, f), Len(l) < MaxLog, NEW e \in Entries
    PROVE  /\ refOK(Append(l, e), Append(f, apply(f[Len(f)], e)))
           /\ \A i \in 1 .. Len(f) : Append(f, apply(f[Len(f)], e))[i] = f[i]
<1> DEFINE s == f[Len(f)]
           next == apply(s, e)
           k == Append(l, e)
           h == Append(f, next)
<1>1. e \in Entry /\ MaxLog \in Nat
  BY ShardAssumption
<1>2. l \in Seq(Entries) /\ f \in Seq(State) /\ Len(l) \in Nat /\ Len(f) = Len(l) + 1
      /\ s \in State /\ wellFormed(s) /\ s.lastApplied = Len(l)
  BY SMTT(20) DEF refOK
<1>3. next \in State /\ wellFormed(next) /\ next.lastApplied = Len(l) + 1
      /\ s.results \subseteq next.results /\ s.history \subseteq next.history
  BY <1>1, <1>2, ApplyWellFormed
<1> HIDE DEF next, s
<1>4. k \in Seq(Entries) /\ Len(k) = Len(l) + 1 /\ k[Len(l) + 1] = e
      /\ \A i \in 1 .. Len(l) : k[i] = l[i]
  BY <1>2, SMTT(20)
<1>5. h \in Seq(State) /\ Len(h) = Len(f) + 1 /\ h[Len(f) + 1] = next
      /\ \A i \in 1 .. Len(f) : h[i] = f[i]
  BY <1>2, <1>3, SMTT(20)
<1> HIDE DEF k, h
<1>6. Len(k) <= MaxLog
  BY <1>1, <1>2, <1>4, SMTT(20)
<1>7. \A i \in 1 .. Len(h) : wellFormed(h[i]) /\ h[i].lastApplied = i - 1
  <2> TAKE i \in 1 .. Len(h)
  <2>1. CASE i \in 1 .. Len(f)
    BY <2>1, <1>5 DEF refOK
  <2>2. CASE i = Len(f) + 1
    BY <2>2, <1>2, <1>3, <1>5, SMTT(20)
  <2> QED
    BY <2>1, <2>2, <1>2, <1>5, SMTT(20)
<1>8. \A i \in 1 .. Len(k) : h[i + 1] = apply(h[i], k[i])
  <2> TAKE i \in 1 .. Len(k)
  <2>1. CASE i \in 1 .. Len(l)
    <3>1. f[i + 1] = apply(f[i], l[i]) /\ i \in 1 .. Len(f) /\ i + 1 \in 1 .. Len(f)
      BY <2>1, <1>2, SMTT(20) DEF refOK
    <3> QED
      BY <2>1, <3>1, <1>4, <1>5
  <2>2. CASE i = Len(l) + 1
    <3>1. i \in 1 .. Len(f) /\ i = Len(f) /\ i + 1 = Len(f) + 1
      BY <2>2, <1>2, SMTT(20)
    <3>2. h[i] = s /\ h[i + 1] = next /\ k[i] = e
      BY <2>2, <3>1, <1>4, <1>5 DEF s
    <3> QED
      BY <3>2 DEF next
  <2> QED
    BY <2>1, <2>2, <1>2, <1>4, SMTT(20)
<1>9. \A i, j \in 1 .. Len(h) :
        i <= j => h[i].results \subseteq h[j].results /\ h[i].history \subseteq h[j].history
  <2> SUFFICES ASSUME NEW i \in 1 .. Len(h), NEW j \in 1 .. Len(h), i <= j
               PROVE  h[i].results \subseteq h[j].results /\ h[i].history \subseteq h[j].history
    OBVIOUS
  <2>1. CASE j \in 1 .. Len(f)
    <3>1. i \in 1 .. Len(f) /\ h[i] = f[i] /\ h[j] = f[j]
      BY <2>1, <1>2, <1>5, SMTT(20)
    <3> QED
      BY <2>1, <3>1 DEF refOK
  <2>2. CASE j = Len(f) + 1
    <3>1. CASE i = j
      BY <3>1
    <3>2. CASE i # j
      <4>1. i \in 1 .. Len(f) /\ Len(f) \in 1 .. Len(f) /\ i <= Len(f)
        BY <2>2, <3>2, <1>2, <1>5, SMTT(20)
      <4>2. f[i].results \subseteq s.results /\ f[i].history \subseteq s.history
        BY <4>1 DEF refOK, s
      <4> QED
        BY <4>1, <4>2, <2>2, <1>3, <1>5
    <3> QED
      BY <3>1, <3>2
  <2> QED
    BY <2>1, <2>2, <1>2, <1>5, SMTT(20)
<1>10. refOK(k, h)
  BY <1>2, <1>4, <1>5, <1>6, <1>7, <1>8, <1>9 DEF refOK
<1> QED
  BY <1>5, <1>10 DEF k, h, next, s

\* The lengths of the log and of the run over it.
LEMMA LogLength ==
    ASSUME NEW l, NEW f, refOK(l, f)
    PROVE  /\ l \in Seq(Entries) /\ Len(l) \in Nat /\ Len(l) <= MaxLog
           /\ Len(f) = Len(l) + 1
<1>1. l \in Seq(Entries) /\ Len(l) <= MaxLog /\ Len(f) = Len(l) + 1
  BY DEF refOK
<1> QED
  BY <1>1, SMTT(20)

\* Its entries are entries.
LEMMA LogEntries ==
    ASSUME NEW l, NEW f, refOK(l, f), NEW i \in 1 .. Len(l)
    PROVE  l[i] \in Entry
<1>1. l \in Seq(Entries)
  BY LogLength
<1>2. l[i] \in Entries
  BY <1>1, SMTT(20)
<1> QED
  BY <1>2, ShardAssumption

\* The state after the first i entries, and the snapshot of it.
prefixOK(f, i) ==
    /\ f[i + 1] \in State /\ wellFormed(f[i + 1]) /\ f[i + 1].lastApplied = i
    /\ i + 1 \in 1 .. Len(f) /\ i \in Index
    /\ exportSnapshot(f[i + 1]) \in Image /\ f[i + 1].conf \in ConfState
    /\ snapshotOf(f, i) \in Snapshot

\* A prefix of the run: its type and its exported image.
LEMMA PrefixType ==
    ASSUME NEW l, NEW f, refOK(l, f), NEW i \in 0 .. Len(l)
    PROVE  prefixOK(f, i)
<1>1. l \in Seq(Entries) /\ f \in Seq(State) /\ Len(l) \in Nat /\ Len(f) = Len(l) + 1
      /\ Len(l) <= MaxLog /\ MaxLog \in Nat
  BY ShardAssumption, SMTT(20) DEF refOK
<1>2. i + 1 \in 1 .. Len(f) /\ i \in Index
  BY <1>1, SMTT(20) DEF Index
<1>3. f[i + 1] \in State /\ wellFormed(f[i + 1]) /\ f[i + 1].lastApplied = i
  BY <1>1, <1>2, SMTT(20) DEF refOK
<1>4. exportSnapshot(f[i + 1]) \in Image /\ f[i + 1].conf \in ConfState
  BY <1>3 DEF State, exportSnapshot, Image
<1>5. snapshotOf(f, i) \in Snapshot
  BY <1>2, <1>3, <1>4 DEF snapshotOf, Snapshot
<1> QED
  BY <1>2, <1>3, <1>4, <1>5 DEF prefixOK

\* A longer log changes nothing for a replica.
LEMMA CommitReplica ==
    ASSUME NEW l, NEW f, refOK(l, f), NEW k, NEW h, refOK(k, h), Len(k) = Len(l) + 1,
           \A i \in 1 .. Len(f) : h[i] = f[i],
           NEW d, NEW m, NEW p, NEW u, NEW inc, NEW cre,
           replicaOK(l, f, d, m, p, u, inc, cre)
    PROVE  replicaOK(k, h, d, m, p, u, inc, cre)
<1>1. Len(l) \in Nat /\ Len(f) = Len(l) + 1 /\ \A i \in 0 .. Len(l) : i \in 0 .. Len(k)
  BY SMTT(20) DEF refOK
<1>2. \A i \in 0 .. Len(l) : h[i + 1] = f[i + 1]
  BY <1>1, SMTT(20)
<1>3. \A i \in 0 .. Len(l) : snapshotOf(h, i) = snapshotOf(f, i)
  BY <1>2 DEF snapshotOf
<1>4. trueSnapshots(k, h, inc) /\ trueSnapshots(k, h, cre)
  BY <1>1, <1>3 DEF replicaOK, trueSnapshots
<1>5. durableOK(k, h, d)
  <2>1. durableOK(l, f, d)
    BY DEF replicaOK
  <2>2. d.applied \in 0 .. Len(l) /\ h[d.applied + 1] = f[d.applied + 1]
    BY <2>1, <1>2 DEF durableOK
  <2>3. \A c \in d.chunks : c.snap.index \in 0 .. Len(k) /\ c.snap = snapshotOf(h, c.snap.index)
    BY <2>1, <1>1, <1>3 DEF durableOK
  <2>4. d.applied \in 0 .. Len(k) /\ d.commit \in 0 .. Len(k)
    BY <2>1, <1>1 DEF durableOK
  <2> QED
    BY <2>1, <2>2, <2>3, <2>4 DEF durableOK
<1>6. stagedOK(h, d)
  <2>1. h[d.commit + 1] = f[d.commit + 1]
    BY <1>2 DEF replicaOK, durableOK
  <2> QED
    BY <2>1 DEF replicaOK, stagedOK
<1>7. controlOK(h, d, m, p, u, inc, cre)
  <2>1. h[d.applied + 1] = f[d.applied + 1] /\ snapshotOf(h, d.commit) = snapshotOf(f, d.commit)
    BY <1>2, <1>3 DEF replicaOK, durableOK
  <2> QED
    BY <2>1 DEF replicaOK, controlOK
<1> QED
  BY <1>4, <1>5, <1>6, <1>7 DEF replicaOK

(***************************************************************************)
(* Open and process death.                                                 *)
(***************************************************************************)

\* Open rebuilds the state of the durable prefix, and what it installs is the
\* snapshot at the commit index.
LEMMA OpenReplica ==
    ASSUME NEW l, NEW f, refOK(l, f),
           NEW d, NEW m, NEW u, NEW inc, NEW cre,
           replicaOK(l, f, d, m, "down", u, inc, cre), loadable(d)
    PROVE  LET n == decode(imageOf(d), d.meta, d.conf) IN
           /\ n \in State
           /\ d.snapIndex > d.meta =>
                \A s \in storedSnapshot(d) : replicaOK(l, f, d, n, "install", u, {s}, cre)
           /\ ~(d.snapIndex > d.meta) => replicaOK(l, f, d, n, "idle", u, {}, cre)
<1> DEFINE n == decode(imageOf(d), d.meta, d.conf)
<1>0. /\ typeOK(d, m, "down", u, inc, cre) /\ trueSnapshots(l, f, cre) /\ durableOK(l, f, d)
      /\ stagedOK(f, d) /\ cre = {}
  BY DEF replicaOK, controlOK
<1>1. d.meta = d.applied /\ d.applied \in 0 .. Len(l)
  BY <1>0 DEF durableOK
<1>2. f[d.applied + 1] \in State /\ wellFormed(f[d.applied + 1])
      /\ f[d.applied + 1].lastApplied = d.applied
  <2>1. prefixOK(f, d.applied)
    BY <1>1, PrefixType
  <2> QED
    BY <2>1 DEF prefixOK
<1>3. n = f[d.applied + 1]
  <2> DEFINE s == f[d.applied + 1]
  <2>1. imageOf(d) = exportSnapshot(s)
    BY <1>0 DEF durableOK, imageOf, exportSnapshot
  <2>2. collectVersions(imageOf(d)) = s.versions
    BY <1>2, <2>1 DEF wellFormed
  <2>3. s = [rows |-> s.rows, history |-> s.history, results |-> s.results,
             versions |-> s.versions, lastApplied |-> s.lastApplied, conf |-> s.conf]
    BY <1>2 DEF State
  <2>4. d.conf = s.conf /\ s.lastApplied = d.meta
    BY <1>0, <1>1, <1>2 DEF durableOK
  <2> HIDE DEF s
  <2>5. n = [rows |-> s.rows, history |-> s.history, results |-> s.results,
             versions |-> s.versions, lastApplied |-> s.lastApplied, conf |-> s.conf]
    BY <2>1, <2>2, <2>4, SMTT(20) DEF decode, exportSnapshot
  <2> QED
    BY <2>3, <2>5 DEF s
<1> HIDE DEF n
<1>4. ASSUME d.snapIndex > d.meta, NEW s \in storedSnapshot(d)
      PROVE  replicaOK(l, f, d, n, "install", u, {s}, cre)
  <2>1. s.index = d.snapIndex /\ \E k \in d.chunks : s = k.snap
    BY <1>4, ZenonT(60) DEF storedSnapshot, wholeSnapshots
  <2>2. s.index \in 0 .. Len(l) /\ s = snapshotOf(f, s.index) /\ s \in Snapshot
    <3>1. s.index \in 0 .. Len(l) /\ s = snapshotOf(f, s.index)
      BY <1>0, <2>1 DEF durableOK
    <3>2. prefixOK(f, s.index)
      BY <3>1, PrefixType
    <3> QED
      BY <3>1, <3>2 DEF prefixOK
  <2>3. d.snapIndex = d.commit /\ d.meta < d.commit /\ \A i \in d.entries : i < d.commit
    BY <1>0, <1>4 DEF stagedOK, unfinished
  <2>4. typeOK(d, n, "install", u, {s}, cre)
    BY <1>0, <1>2, <1>3, <2>2 DEF typeOK
  <2>5. trueSnapshots(l, f, {s})
    BY <2>2 DEF trueSnapshots
  <2>6. {s} = {snapshotOf(f, d.commit)}
    BY <2>1, <2>2, <2>3
  <2>7. controlOK(f, d, n, "install", u, {s}, cre)
    BY <1>0, <1>3, <2>3, <2>6 DEF controlOK
  <2> QED
    BY <1>0, <2>4, <2>5, <2>7 DEF replicaOK
<1>5. ASSUME ~(d.snapIndex > d.meta)
      PROVE  replicaOK(l, f, d, n, "idle", u, {}, cre)
  <2>1. ~unfinished(d)
    <3>1. SUFFICES ASSUME unfinished(d) PROVE FALSE
      OBVIOUS
    <3>2. d.meta < d.commit /\ \A i \in d.entries : i < d.commit
      BY <1>0, <3>1 DEF stagedOK
    <3>3. PICK i \in indexes(d) : d.commit <= i
      BY DEF loadable
    <3>4. d.commit \in Nat /\ d.meta \in Nat /\ d.snapIndex \in Nat /\ d.entries \subseteq Nat
      BY <1>0 DEF typeOK, Disk
    <3> QED
      BY <3>2, <3>3, <3>4, <1>5, SMTT(20) DEF indexes
  <2>2. typeOK(d, n, "idle", u, {}, cre)
    BY <1>0, <1>2, <1>3 DEF typeOK
  <2>3. trueSnapshots(l, f, {})
    BY DEF trueSnapshots
  <2>4. controlOK(f, d, n, "idle", u, {}, cre)
    BY <1>0, <1>3, <2>1 DEF controlOK
  <2> QED
    BY <1>0, <2>2, <2>3, <2>4 DEF replicaOK
<1> QED
  BY <1>2, <1>3, <1>4, <1>5 DEF n

\* Death keeps a disk that is consistent by itself.
LEMMA DieReplica ==
    ASSUME NEW l, NEW f, refOK(l, f), NEW d \in Disk, durableOK(l, f, d), stagedOK(f, d)
    PROVE  /\ newLogicalState \in State
           /\ replicaOK(l, f, d, newLogicalState, "down", 0, {}, {})
<1>1. newLogicalState \in State
  BY DEF newLogicalState, State, ConfState
<1>2. 0 \in Index
  BY ShardAssumption, SMTT(20) DEF Index
<1>3. typeOK(d, newLogicalState, "down", 0, {}, {})
  BY <1>1, <1>2 DEF typeOK
<1>4. trueSnapshots(l, f, {})
  BY DEF trueSnapshots
<1>5. controlOK(f, d, newLogicalState, "down", 0, {}, {})
  BY DEF controlOK
<1> QED
  BY <1>1, <1>3, <1>4, <1>5 DEF replicaOK

(***************************************************************************)
(* Entries: persistReady and apply.                                        *)
(***************************************************************************)

LEMMA PersistEntriesReplica ==
    ASSUME NEW l, NEW f, refOK(l, f),
           NEW d, NEW m, NEW u, NEW inc, NEW cre,
           replicaOK(l, f, d, m, "idle", u, inc, cre),
           NEW first \in 1 .. Len(l) + 1, NEW last \in first - 1 .. Len(l),
           NEW commit \in d.commit .. last, NEW to \in m.lastApplied .. commit,
           NEW q, q = IF to > m.lastApplied THEN "apply" ELSE "idle"
    PROVE  replicaOK(l, f, persistEntries(d, first, last, commit), m, q, to, inc, cre)
<1> DEFINE d2 == persistEntries(d, first, last, commit)
<1>0. /\ typeOK(d, m, "idle", u, inc, cre) /\ trueSnapshots(l, f, inc)
      /\ trueSnapshots(l, f, cre) /\ durableOK(l, f, d) /\ stagedOK(f, d)
      /\ controlOK(f, d, m, "idle", u, inc, cre)
  BY DEF replicaOK
<1>1. d \in Disk /\ d.commit \in Nat /\ d.entries \subseteq Nat /\ d.applied \in 0 .. Len(l)
  BY <1>0 DEF typeOK, Disk, durableOK
<1>2. Len(l) \in Nat /\ MaxLog \in Nat /\ Len(l) <= MaxLog
  BY LogLength, ShardAssumption
<1>3. /\ m = f[d.applied + 1] /\ m.lastApplied = d.applied /\ ~unfinished(d)
  <2>1. prefixOK(f, d.applied)
    BY <1>1, PrefixType
  <2> QED
    BY <1>0, <2>1 DEF controlOK, prefixOK
<1>4. commit \in 0 .. Len(l) /\ d.commit <= commit /\ to \in 0 .. Len(l) /\ to <= commit
      /\ d.applied <= to /\ first .. last \subseteq Nat /\ to \in Index
  <2>1. m.lastApplied = d.applied
    BY <1>3
  <2>2. first \in Nat /\ last \in Nat /\ last <= Len(l)
    BY <1>2, SMTT(20)
  <2>3. commit \in 0 .. Len(l) /\ d.commit <= commit
    BY <1>1, <1>2, <2>2, SMTT(20)
  <2>4. to \in 0 .. Len(l) /\ to <= commit /\ d.applied <= to
    BY <1>1, <1>2, <2>1, <2>3, SMTT(20)
  <2>5. first .. last \subseteq Nat
    BY <2>2, SMTT(20)
  <2>6. to \in Index
    BY <1>2, <2>4, SMTT(20) DEF Index
  <2> QED
    BY <2>3, <2>4, <2>5, <2>6
<1>a. d.entries \cup (first .. last) \in SUBSET Nat /\ commit \in Nat
  BY <1>1, <1>4, SMTT(20)
<1>b. d2 \in Disk
  BY <1>1, <1>a DEF persistEntries, Disk
<1>5. /\ d2 \in Disk
      /\ d2.entries = d.entries \cup (first .. last) /\ d2.commit = commit
      /\ d2.images = d.images /\ d2.generation = d.generation /\ d2.applied = d.applied
      /\ d2.meta = d.meta /\ d2.conf = d.conf /\ d2.snapIndex = d.snapIndex
      /\ d2.chunks = d.chunks
  BY <1>1, <1>b DEF persistEntries, Disk
<1> HIDE DEF d2
<1>6. typeOK(d2, m, q, to, inc, cre)
  BY <1>0, <1>4, <1>5 DEF typeOK
<1>7. durableOK(l, f, d2)
  <2>1. d.applied <= commit
    BY <1>1, <1>4, SMTT(20)
  <2> QED
    BY <1>0, <1>4, <1>5, <2>1 DEF durableOK
<1>8. ~unfinished(d2)
  BY <1>3, <1>5 DEF unfinished
<1>9. stagedOK(f, d2)
  <2>1. \A g \in Generation : g > d2.generation + 1 => d2.images[g] = emptyImage
    BY <1>0, <1>5 DEF stagedOK
  <2>2. d2.generation \in Nat /\ \A g \in Generation : g \in Nat
    BY <1>5, ShardAssumption, SMTT(20) DEF Disk, Generation
  <2>3. \A g \in Generation : g = d2.generation + 1 => d2.images[g] = emptyImage
    BY <1>8, <2>2, SMTT(20) DEF unfinished
  <2>4. partOf(emptyImage, f[d2.commit + 1])
    BY DEF partOf, emptyImage
  <2> QED
    BY <1>8, <2>1, <2>3, <2>4 DEF stagedOK, unfinished
<1>10. controlOK(f, d2, m, q, to, inc, cre)
  BY <1>0, <1>3, <1>4, <1>5, <1>8 DEF controlOK
<1> QED
  BY <1>0, <1>6, <1>7, <1>9, <1>10 DEF replicaOK, d2

\* A row that apply replaces makes way for a new row of the same key.
LEMMA ApplyRows ==
    ASSUME NEW s \in State, wellFormed(s), NEW e \in Entry
    PROVE  \A r \in s.rows :
             \/ r \in apply(s, e).rows
             \/ \E n \in apply(s, e).rows \ s.rows : n.key = r.key
<1> DEFINE n == s.lastApplied + 1
           mid == IF e.kind = "put" THEN applyCommand(s, e.cmd, n) ELSE s
<1>0. s.lastApplied \in Nat /\ \A r \in s.rows : r.seq \in Nat /\ r.seq <= s.lastApplied
  BY DEF State, Row, wellFormed, validImage, headsConsistent, exportSnapshot
<1>1. apply(s, e).rows = mid.rows
  <2>1. CASE e.kind = "put"
    <3>1. e.cmd \in Command /\ n \in Nat
      BY <2>1, <1>0, SMTT(20) DEF Entry
    <3>2. mid \in State
      BY <2>1, <3>1, ApplyCommandType
    <3>3. apply(s, e) = [mid EXCEPT !.lastApplied = n]
      BY <2>1 DEF apply
    <3> HIDE DEF mid
    <3> QED
      BY <3>2, <3>3 DEF State
  <2>2. CASE e.kind = "conf"
    <3>1. apply(s, e) = [[s EXCEPT !.conf = ApplyConfChange(@, e)] EXCEPT !.lastApplied = n]
      BY <2>2 DEF apply
    <3>2. mid = s
      BY <2>2
    <3> QED
      BY <3>1, <3>2 DEF State
  <2>3. CASE e.kind # "put" /\ e.kind # "conf"
    <3>1. apply(s, e) = [s EXCEPT !.lastApplied = n] /\ mid = s
      BY <2>3 DEF apply
    <3> QED
      BY <3>1 DEF State
  <2> QED
    BY <2>1, <2>2, <2>3
<1> DEFINE c == e.cmd
           row == [key |-> c.key, ver |-> c.ver, seq |-> n, val |-> c.val]
<1>2. mid.rows = s.rows \/ mid.rows = (s.rows \ rowsOf(s.rows, c.key)) \cup {row}
  <2>1. CASE e.kind = "put"
    BY <2>1 DEF applyCommand, State
  <2>2. CASE e.kind # "put"
    BY <2>2
  <2> QED
    BY <2>1, <2>2
<1>3. row.key = c.key /\ row \notin s.rows
  <2>1. row.seq = n /\ row.key = c.key
    OBVIOUS
  <2> HIDE DEF row
  <2> QED
    BY <1>0, <2>1, SMTT(20)
<1> HIDE DEF mid, row
<1> QED
  BY <1>1, <1>2, <1>3 DEF rowsOf

\* Writing what an entry changes over the image of the state before it gives
\* the image of the state after it.
LEMMA ApplyBatchImage ==
    ASSUME NEW s \in State, wellFormed(s), NEW e \in Entry
    PROVE  /\ putRows(s.rows, apply(s, e).rows \ s.rows) = apply(s, e).rows
           /\ s.history \cup (apply(s, e).history \ s.history) = apply(s, e).history
           /\ putResults(s.results, apply(s, e).results \ s.results) = apply(s, e).results
           /\ opsOf(s.results) \cup opsOf(apply(s, e).results \ s.results)
              = opsOf(apply(s, e).results)
<1> DEFINE next == apply(s, e)
<1>1. /\ next \in State /\ wellFormed(next)
      /\ s.results \subseteq next.results /\ s.history \subseteq next.history
  BY ApplyWellFormed
<1>2. \A r, q \in next.rows : r.key = q.key => r = q
  BY <1>1 DEF wellFormed, validImage, headsConsistent, exportSnapshot
<1>3. \A x, y \in next.results : x.cmd.op = y.cmd.op => x = y
  BY <1>1 DEF wellFormed, validImage, exportSnapshot
<1>4. \A r \in s.rows : r \in next.rows \/ \E n \in next.rows \ s.rows : n.key = r.key
  BY ApplyRows
<1>5. putRows(s.rows, next.rows \ s.rows) = next.rows
  BY <1>2, <1>4 DEF putRows
<1>6. putResults(s.results, next.results \ s.results) = next.results
  BY <1>1, <1>3 DEF putResults
<1>7. opsOf(s.results) \cup opsOf(next.results \ s.results) = opsOf(next.results)
  BY <1>1 DEF opsOf
<1> QED
  BY <1>1, <1>5, <1>6, <1>7

\* The operation ids of results.
LEMMA OpsOfType ==
    ASSUME NEW S, S \subseteq Result
    PROVE  opsOf(S) \subseteq Ops
  BY DEF opsOf, Result, Command

-----------------------------------------------------------------------------
(***************************************************************************)
(* What apply's batch, CreateSnapshot and the steps of an installation do  *)
(* to the records of a replica.                                            *)
(***************************************************************************)
\* d2 holds one entry more than d, and next is the state after it.
batchOK(l, f, d, m, next, d2) ==
    /\ d2 \in Disk /\ durableOK(l, f, d2) /\ stagedOK(f, d2) /\ ~unfinished(d2)
    /\ d2.applied = d.applied + 1 /\ d2.commit = d.commit
    /\ next \in State /\ next = f[d2.applied + 1] /\ next.lastApplied = d2.applied
    /\ m.lastApplied + 1 \in 1 .. Len(l)

\* apply's batch moves the durable state by one entry, whether or not the
\* process survives it.
LEMMA ApplyBatchDisk ==
    ASSUME NEW l, NEW f, refOK(l, f),
           NEW d, NEW m, NEW u, NEW inc,
           replicaOK(l, f, d, m, "apply", u, inc, {}),
           NEW next, next = apply(m, l[m.lastApplied + 1]),
           NEW d2, d2 = applyBatch(d, m, next)
    PROVE  batchOK(l, f, d, m, next, d2)
<1>0. /\ typeOK(d, m, "apply", u, inc, {}) /\ durableOK(l, f, d) /\ stagedOK(f, d)
      /\ controlOK(f, d, m, "apply", u, inc, {})
  BY DEF replicaOK
<1> DEFINE i == d.applied
<1>1. /\ d \in Disk /\ m \in State /\ Len(l) \in Nat
      /\ i \in 0 .. Len(l) /\ d.commit \in 0 .. Len(l) /\ i < d.commit
      /\ i + 1 \in 0 .. Len(l) /\ i + 1 \in 1 .. Len(l)
  <2>1. d \in Disk /\ m \in State /\ u \in Index
    BY <1>0 DEF typeOK
  <2>2. i \in 0 .. Len(l) /\ d.commit \in 0 .. Len(l)
    BY <1>0 DEF durableOK
  <2>3. i < u /\ u <= d.commit
    BY <1>0 DEF controlOK
  <2>4. Len(l) \in Nat
    BY LogLength
  <2>5. u \in Nat
    BY <2>1, ShardAssumption, SMTT(20) DEF Index
  <2> HIDE DEF i
  <2> QED
    BY <2>1, <2>2, <2>3, <2>4, <2>5, SMTT(20)
<1>2. m = f[i + 1] /\ wellFormed(m) /\ m.lastApplied = i
  <2>1. m = f[i + 1]
    BY <1>0 DEF controlOK
  <2>2. wellFormed(f[i + 1]) /\ f[i + 1].lastApplied = i
    <3>1. prefixOK(f, i)
      BY <1>1, PrefixType
    <3> QED
      BY <3>1 DEF prefixOK
  <2> QED
    BY <2>1, <2>2
<1>3. l[i + 1] \in Entry
  <2>1. l \in Seq(Entries) /\ Entries \subseteq Entry
    BY LogLength, ShardAssumption
  <2> QED
    BY <1>1, <2>1, SMTT(20)
<1>4. next = f[(i + 1) + 1]
  BY <1>1, <1>2 DEF refOK
<1>5. next \in State /\ next.lastApplied = i + 1
  <2>1. prefixOK(f, i + 1)
    BY <1>1, PrefixType
  <2> QED
    BY <1>4, <2>1 DEF prefixOK
<1>6. /\ putRows(m.rows, next.rows \ m.rows) = next.rows
      /\ m.history \cup (next.history \ m.history) = next.history
      /\ putResults(m.results, next.results \ m.results) = next.results
      /\ opsOf(m.results) \cup opsOf(next.results \ m.results) = opsOf(next.results)
  <2>1. next = apply(m, l[i + 1])
    BY <1>2
  <2>2. /\ putRows(m.rows, apply(m, l[i + 1]).rows \ m.rows) = apply(m, l[i + 1]).rows
        /\ m.history \cup (apply(m, l[i + 1]).history \ m.history) = apply(m, l[i + 1]).history
        /\ putResults(m.results, apply(m, l[i + 1]).results \ m.results)
             = apply(m, l[i + 1]).results
        /\ opsOf(m.results) \cup opsOf(apply(m, l[i + 1]).results \ m.results)
             = opsOf(apply(m, l[i + 1]).results)
    BY <1>1, <1>2, <1>3, ApplyBatchImage
  <2> QED
    BY <2>1, <2>2
<1> DEFINE g == d.generation
           new == [rows |-> next.rows, history |-> next.history, results |-> next.results,
                   dedupe |-> opsOf(next.results)]
<1>7. /\ d.images[g].rows = m.rows /\ d.images[g].history = m.history
      /\ d.images[g].results = m.results /\ d.images[g].dedupe = opsOf(m.results)
  BY <1>0, <1>2 DEF durableOK
<1>8. new \in StoredImage
  BY <1>5, OpsOfType DEF State, StoredImage
<1>9. g \in Generation /\ d.images \in [Generation -> StoredImage] /\ next.conf \in ConfState
      /\ i + 1 \in Nat
  BY <1>1, <1>5 DEF Disk, State
<1>10. d2 = [d EXCEPT !.images = [@ EXCEPT ![g] = new], !.applied = i + 1, !.meta = i + 1,
                      !.conf = next.conf]
  BY <1>5, <1>6, <1>7 DEF applyBatch
<1> HIDE DEF new, g, i
<1> DEFINE im == [d.images EXCEPT ![g] = new]
<1>11. im \in [Generation -> StoredImage] /\ im[g] = new
       /\ \A j \in Generation : j # g => im[j] = d.images[j]
  BY <1>8, <1>9
<1>12. d2 = [d EXCEPT !.images = im, !.applied = i + 1, !.meta = i + 1, !.conf = next.conf]
  BY <1>10
<1> HIDE DEF im
<1>13. d2 \in Disk
  BY <1>1, <1>9, <1>11, <1>12 DEF Disk
<1>14. /\ d2.images = im /\ d2.generation = g /\ d2.applied = i + 1 /\ d2.meta = i + 1
       /\ d2.conf = next.conf /\ d2.commit = d.commit /\ d2.entries = d.entries
       /\ d2.snapIndex = d.snapIndex /\ d2.chunks = d.chunks
  BY <1>1, <1>12 DEF Disk, g
<1>15. durableOK(l, f, d2)
  <2>1. new.rows = next.rows /\ new.history = next.history /\ new.results = next.results
        /\ new.dedupe = opsOf(next.results)
    BY DEF new
  <2>2. i + 1 <= d.commit
    BY <1>1, SMTT(20) DEF i
  <2> QED
    BY <1>0, <1>1, <1>4, <1>11, <1>14, <2>1, <2>2, ZenonT(60) DEF durableOK, i
<1>16. ~unfinished(d2)
  <2>1. ~unfinished(d) /\ d.meta = i
    BY <1>0 DEF controlOK, durableOK, i
  <2>2. i \in Nat /\ d.snapIndex \in Nat /\ g \in Nat /\ \A j \in Generation : j \in Nat
    <3>1. d.applied \in Nat /\ d.snapIndex \in Nat /\ d.generation \in Generation
      BY <1>1 DEF Disk
    <3>2. \A j \in Generation : j \in Nat
      BY ShardAssumption, SMTT(20) DEF Generation
    <3> QED
      BY <3>1, <3>2 DEF i, g
  <2> QED
    BY <2>1, <2>2, <1>11, <1>14, SMTT(20) DEF unfinished, g
<1>17. stagedOK(f, d2)
  <2>1. g \in Nat /\ \A j \in Generation : j \in Nat
    BY <1>9, ShardAssumption, SMTT(20) DEF Generation
  <2>2. \A j \in Generation : j > d2.generation + 1 => d2.images[j] = emptyImage
    <3>1. \A j \in Generation : j > g + 1 => d.images[j] = emptyImage
      BY <1>0 DEF stagedOK, g
    <3>2. \A j \in Generation : j > g + 1 => j # g
      BY <2>1, SMTT(20)
    <3> QED
      BY <1>11, <1>14, <3>1, <3>2
  <2>3. \A j \in Generation : j = d2.generation + 1 => d2.images[j] = emptyImage
    <3>1. \A j \in Generation : j = g + 1 => j > g
      BY <2>1, SMTT(20)
    <3> QED
      BY <1>14, <1>16, <3>1 DEF unfinished
  <2>4. partOf(emptyImage, f[d2.commit + 1])
    BY DEF partOf, emptyImage
  <2> QED
    BY <1>16, <2>2, <2>3, <2>4 DEF stagedOK, unfinished
<1> QED
  BY <1>1, <1>2, <1>4, <1>5, <1>13, <1>14, <1>15, <1>16, <1>17 DEF i, batchOK

LEMMA ApplyEntryReplica ==
    ASSUME NEW l, NEW f, refOK(l, f),
           NEW d, NEW m, NEW u, NEW inc,
           replicaOK(l, f, d, m, "apply", u, inc, {}),
           NEW next, next = apply(m, l[m.lastApplied + 1]),
           NEW q, q = IF next.lastApplied < u THEN "apply" ELSE "idle"
    PROVE  /\ applyBatch(d, m, next) \in Disk /\ next \in State
           /\ replicaOK(l, f, applyBatch(d, m, next), next, q, u, inc, {})
<1> DEFINE d2 == applyBatch(d, m, next)
<1>0. batchOK(l, f, d, m, next, d2)
  BY ApplyBatchDisk
<1> HIDE DEF d2
<1>1. /\ d2 \in Disk /\ durableOK(l, f, d2) /\ stagedOK(f, d2) /\ ~unfinished(d2)
      /\ d2.applied = d.applied + 1 /\ d2.commit = d.commit
      /\ next \in State /\ next = f[d2.applied + 1] /\ next.lastApplied = d2.applied
  BY <1>0 DEF batchOK
<1>2. /\ typeOK(d, m, "apply", u, inc, {}) /\ trueSnapshots(l, f, inc)
      /\ trueSnapshots(l, f, {}) /\ controlOK(f, d, m, "apply", u, inc, {})
  BY DEF replicaOK
<1>3. typeOK(d2, next, q, u, inc, {})
  BY <1>1, <1>2 DEF typeOK
<1>4. controlOK(f, d2, next, q, u, inc, {})
  BY <1>1, <1>2 DEF controlOK
<1> QED
  BY <1>1, <1>2, <1>3, <1>4 DEF replicaOK, d2

(***************************************************************************)
(* Snapshots.                                                              *)
(***************************************************************************)

\* d2 is d with more chunks, all of them of true snapshots.
chunksStaged(l, f, d, d2) ==
    /\ d2 \in Disk
    /\ \A k \in d2.chunks : k.snap.index \in 0 .. Len(l) /\ k.snap = snapshotOf(f, k.snap.index)
    /\ d2.images = d.images /\ d2.generation = d.generation /\ d2.applied = d.applied
    /\ d2.meta = d.meta /\ d2.conf = d.conf /\ d2.snapIndex = d.snapIndex
    /\ d2.commit = d.commit /\ d2.entries = d.entries

\* Chunks of a true snapshot disturb nothing.
LEMMA StageChunksDisk ==
    ASSUME NEW l, NEW f, NEW d \in Disk, durableOK(l, f, d),
           NEW s \in Snapshot, s.index \in 0 .. Len(l), s = snapshotOf(f, s.index),
           NEW n \in 1 .. Parts
    PROVE  chunksStaged(l, f, d, stageChunks(d, s, n))
<1> DEFINE new == firstChunks(s, n)
           ch == putChunks(d.chunks, new)
<1>1. new \subseteq Chunk /\ \A k \in new : k.snap = s
  <2>1. Parts \in Nat
    BY ShardAssumption
  <2>2. 1 .. n \subseteq 1 .. Parts
    BY <2>1, SMTT(20)
  <2> QED
    BY <2>2, SMTT(20) DEF firstChunks, Chunk
<1>2. d.chunks \subseteq Chunk
  BY DEF Disk
<1>3. ch \subseteq Chunk /\ \A k \in ch : k \in d.chunks \/ k \in new
  BY <1>1, <1>2 DEF putChunks
<1>4. \A k \in ch : k.snap.index \in 0 .. Len(l) /\ k.snap = snapshotOf(f, k.snap.index)
  BY <1>1, <1>3 DEF durableOK
<1>5. stageChunks(d, s, n) = [d EXCEPT !.chunks = ch]
  BY DEF stageChunks
<1> HIDE DEF ch
<1> QED
  BY <1>3, <1>4, <1>5 DEF Disk, chunksStaged

LEMMA StageChunksReplica ==
    ASSUME NEW l, NEW f, NEW d \in Disk, durableOK(l, f, d), stagedOK(f, d),
           NEW s \in Snapshot, s.index \in 0 .. Len(l), s = snapshotOf(f, s.index),
           NEW n \in 1 .. Parts
    PROVE  /\ stageChunks(d, s, n) \in Disk
           /\ durableOK(l, f, stageChunks(d, s, n))
           /\ stagedOK(f, stageChunks(d, s, n))
<1> DEFINE d2 == stageChunks(d, s, n)
<1>0. chunksStaged(l, f, d, d2)
  BY StageChunksDisk
<1> HIDE DEF d2
<1>1. /\ d2 \in Disk
      /\ \A k \in d2.chunks : k.snap.index \in 0 .. Len(l) /\ k.snap = snapshotOf(f, k.snap.index)
      /\ d2.images = d.images /\ d2.generation = d.generation /\ d2.applied = d.applied
      /\ d2.meta = d.meta /\ d2.conf = d.conf /\ d2.snapIndex = d.snapIndex
      /\ d2.commit = d.commit /\ d2.entries = d.entries
  BY <1>0 DEF chunksStaged
<1>2. durableOK(l, f, d2)
  BY <1>1 DEF durableOK
<1>3. stagedOK(f, d2)
  BY <1>1 DEF stagedOK, unfinished
<1> QED
  BY <1>1, <1>2, <1>3, ZenonT(60) DEF d2

\* CreateSnapshot exports the applied prefix.
LEMMA BeginCreateReplica ==
    ASSUME NEW l, NEW f, refOK(l, f),
           NEW d, NEW m, NEW p \in {"idle", "apply"}, NEW u, NEW inc,
           replicaOK(l, f, d, m, p, u, inc, {}),
           NEW s, s = [index |-> m.lastApplied, image |-> exportSnapshot(m), conf |-> d.conf]
    PROVE  s \in Snapshot /\ replicaOK(l, f, d, m, p, u, inc, {s})
<1>0. /\ typeOK(d, m, p, u, inc, {}) /\ trueSnapshots(l, f, inc) /\ durableOK(l, f, d)
      /\ stagedOK(f, d) /\ controlOK(f, d, m, p, u, inc, {})
  BY DEF replicaOK
<1>1. d.applied \in 0 .. Len(l) /\ m = f[d.applied + 1] /\ d.conf = f[d.applied + 1].conf
  BY <1>0 DEF durableOK, controlOK
<1>2. m.lastApplied = d.applied /\ snapshotOf(f, d.applied) \in Snapshot
  <2>1. prefixOK(f, d.applied)
    BY <1>1, PrefixType
  <2> QED
    BY <1>1, <2>1 DEF prefixOK
<1>3. s = snapshotOf(f, d.applied) /\ s.index = d.applied
  BY <1>1, <1>2 DEF snapshotOf
<1>4. s \in Snapshot
  BY <1>2, <1>3
<1>5. trueSnapshots(l, f, {s})
  BY <1>1, <1>3 DEF trueSnapshots
<1>6. typeOK(d, m, p, u, inc, {s})
  BY <1>0, <1>4 DEF typeOK
<1>7. controlOK(f, d, m, p, u, inc, {s})
  BY <1>0, <1>3 DEF controlOK
<1> QED
  BY <1>0, <1>4, <1>5, <1>6, <1>7 DEF replicaOK

\* persistLocalSnapshot publishes the prefix still applied, wherever readyLoop
\* has got to.
LEMMA FinishCreateReplica ==
    ASSUME NEW l, NEW f, refOK(l, f),
           NEW d, NEW m, NEW p, NEW u, NEW inc, NEW cre, NEW s \in cre,
           replicaOK(l, f, d, m, p, u, inc, cre),
           NEW d2, d2 = [stageChunks(d, s, Parts) EXCEPT !.snapIndex = s.index]
    PROVE  /\ d2 \in Disk /\ s \in Snapshot
           /\ s.index \in 0 .. Len(l) /\ s = snapshotOf(f, s.index)
           /\ replicaOK(l, f, d2, m, p, u, inc, {})
<1> DEFINE d1 == stageChunks(d, s, Parts)
<1>0. /\ typeOK(d, m, p, u, inc, cre) /\ trueSnapshots(l, f, inc) /\ durableOK(l, f, d)
      /\ stagedOK(f, d) /\ controlOK(f, d, m, p, u, inc, cre)
      /\ s \in Snapshot /\ s.index \in 0 .. Len(l) /\ s = snapshotOf(f, s.index)
      /\ s.index = d.applied /\ d \in Disk /\ Parts \in 1 .. Parts
  BY ShardAssumption, SMTT(20) DEF replicaOK, typeOK, trueSnapshots, controlOK
<1>1. /\ d1 \in Disk
      /\ \A k \in d1.chunks : k.snap.index \in 0 .. Len(l) /\ k.snap = snapshotOf(f, k.snap.index)
      /\ d1.images = d.images /\ d1.generation = d.generation /\ d1.applied = d.applied
      /\ d1.meta = d.meta /\ d1.conf = d.conf /\ d1.commit = d.commit
      /\ d1.entries = d.entries
  <2>1. chunksStaged(l, f, d, d1)
    BY <1>0, StageChunksDisk
  <2> HIDE DEF d1
  <2> QED
    BY <2>1 DEF chunksStaged
<1>2. d2 = [d1 EXCEPT !.snapIndex = s.index] /\ s.index \in Nat
  BY <1>0 DEF Disk
<1> HIDE DEF d1
<1>3. d2 \in Disk
  BY <1>1, <1>2 DEF Disk
<1>4. /\ d2.chunks = d1.chunks
      /\ d2.images = d.images /\ d2.generation = d.generation /\ d2.applied = d.applied
      /\ d2.meta = d.meta /\ d2.conf = d.conf /\ d2.commit = d.commit
      /\ d2.entries = d.entries /\ d2.snapIndex = s.index
  BY <1>1, <1>2 DEF Disk
<1>5. durableOK(l, f, d2)
  BY <1>0, <1>1, <1>4 DEF durableOK
<1>6. d.meta = d.applied /\ d.applied \in Nat /\ ~(d2.snapIndex > d2.meta)
  BY <1>0, <1>4, SMTT(20) DEF durableOK, Disk
<1>7. unfinished(d2) => unfinished(d)
  BY <1>4, <1>6 DEF unfinished
<1>8. stagedOK(f, d2)
  BY <1>0, <1>4, <1>6, <1>7 DEF stagedOK
<1>9. typeOK(d2, m, p, u, inc, {})
  BY <1>0, <1>3 DEF typeOK
<1>10. controlOK(f, d2, m, p, u, inc, {})
  BY <1>0, <1>4, <1>7 DEF controlOK
<1>11. trueSnapshots(l, f, {})
  BY DEF trueSnapshots
<1> QED
  BY <1>0, <1>3, <1>5, <1>8, <1>9, <1>10, <1>11 DEF replicaOK

\* persistReady of a snapshot ahead of everything stored.
LEMMA PersistSnapshotReplica ==
    ASSUME NEW l, NEW f, refOK(l, f),
           NEW d, NEW m, NEW u, NEW inc, NEW cre,
           replicaOK(l, f, d, m, "idle", u, inc, cre),
           NEW s \in Snapshot, s.index \in 0 .. Len(l), s = snapshotOf(f, s.index),
           \A i \in indexes(d) \cup {d.commit} : i < s.index,
           NEW d2, d2 = [stageChunks(d, s, Parts) EXCEPT !.snapIndex = s.index,
                                                         !.commit = s.index]
    PROVE  d2 \in Disk /\ replicaOK(l, f, d2, m, "install", u, {s}, cre)
<1> DEFINE d1 == stageChunks(d, s, Parts)
<1>0. /\ typeOK(d, m, "idle", u, inc, cre) /\ trueSnapshots(l, f, cre) /\ durableOK(l, f, d)
      /\ stagedOK(f, d) /\ controlOK(f, d, m, "idle", u, inc, cre)
      /\ d \in Disk /\ Parts \in 1 .. Parts
  BY ShardAssumption, SMTT(20) DEF replicaOK, typeOK
<1>1. /\ d1 \in Disk
      /\ \A k \in d1.chunks : k.snap.index \in 0 .. Len(l) /\ k.snap = snapshotOf(f, k.snap.index)
      /\ d1.images = d.images /\ d1.generation = d.generation /\ d1.applied = d.applied
      /\ d1.meta = d.meta /\ d1.conf = d.conf /\ d1.entries = d.entries
  <2>1. chunksStaged(l, f, d, d1)
    BY <1>0, StageChunksDisk
  <2> HIDE DEF d1
  <2> QED
    BY <2>1 DEF chunksStaged
<1>2. d2 = [d1 EXCEPT !.snapIndex = s.index, !.commit = s.index] /\ s.index \in Nat
  BY SMTT(20)
<1> HIDE DEF d1
<1>3. d2 \in Disk
  BY <1>1, <1>2 DEF Disk
<1>4. /\ d2.chunks = d1.chunks
      /\ d2.images = d.images /\ d2.generation = d.generation /\ d2.applied = d.applied
      /\ d2.meta = d.meta /\ d2.conf = d.conf /\ d2.commit = s.index
      /\ d2.entries = d.entries /\ d2.snapIndex = s.index
  BY <1>1, <1>2 DEF Disk
<1>5. /\ d.commit < s.index /\ d.applied <= d.commit /\ d.meta = d.applied
      /\ d.applied \in Nat /\ d.commit \in Nat /\ d.applied < s.index
      /\ \A i \in d.entries : i < s.index
  <2>1. d.commit < s.index /\ \A i \in d.entries : i < s.index
    BY DEF indexes
  <2>2. d.applied <= d.commit /\ d.meta = d.applied
    BY <1>0 DEF durableOK
  <2>3. d.applied \in Nat /\ d.commit \in Nat
    BY <1>0 DEF Disk
  <2>4. s.index \in Nat
    BY <1>2
  <2>5. d.applied < s.index
    BY <2>1, <2>2, <2>3, <2>4, SMTT(20)
  <2> QED
    BY <2>1, <2>2, <2>3, <2>5
<1>6. durableOK(l, f, d2)
  <2>1. d.applied <= s.index
    BY <1>2, <1>5, SMTT(20)
  <2> QED
    BY <1>0, <1>1, <1>4, <2>1 DEF durableOK
<1>7. stagedOK(f, d2)
  <2>1. ~unfinished(d) /\ d.generation \in Nat /\ \A g \in Generation : g \in Nat
    BY <1>0, ShardAssumption, SMTT(20) DEF controlOK, Disk, Generation
  <2>2. \A g \in Generation : g > d.generation => d2.images[g] = emptyImage
    BY <2>1, <1>4 DEF unfinished
  <2>3. partOf(emptyImage, f[d2.commit + 1])
    BY DEF partOf, emptyImage
  <2> QED
    BY <1>4, <1>5, <2>1, <2>2, <2>3, SMTT(20) DEF stagedOK
<1>8. typeOK(d2, m, "install", u, {s}, cre)
  BY <1>0, <1>3 DEF typeOK
<1>9. trueSnapshots(l, f, {s})
  BY DEF trueSnapshots
<1>10. controlOK(f, d2, m, "install", u, {s}, cre)
  <2>1. {s} = {snapshotOf(f, d2.commit)}
    BY <1>4
  <2>2. m = f[d2.applied + 1] /\ \A c \in cre : c.index = d2.applied
    BY <1>0, <1>4 DEF controlOK
  <2>3. d2.meta < d2.commit /\ \A i \in d2.entries : i < d2.commit
    BY <1>4, <1>5
  <2> QED
    BY <2>1, <2>2, <2>3 DEF controlOK
<1> QED
  BY <1>0, <1>3, <1>6, <1>7, <1>8, <1>9, <1>10 DEF replicaOK

\* Writing records of a state over a part of the same state.
LEMMA PutOverPart ==
    ASSUME NEW s \in State, wellFormed(s), NEW old \in StoredImage, partOf(old, s)
    PROVE  /\ putRows(old.rows, s.rows) = s.rows
           /\ old.history \cup s.history = s.history
           /\ putResults(old.results, s.results) = s.results
           /\ old.dedupe \cup opsOf(s.results) = opsOf(s.results)
<1>1. \A r, q \in s.rows : r.key = q.key => r = q
  BY DEF wellFormed, validImage, headsConsistent, exportSnapshot
<1>2. \A x, y \in s.results : x.cmd.op = y.cmd.op => x = y
  BY DEF wellFormed, validImage, exportSnapshot
<1> QED
  BY <1>1, <1>2 DEF putRows, putResults, partOf

\* What a crash leaves of an installation are records of the snapshot.
LEMMA StagedPart ==
    ASSUME NEW f, NEW i, NEW p \in stagedParts(snapshotOf(f, i).image)
    PROVE  partOf(p, f[i + 1])
  BY DEF stagedParts, partOf, snapshotOf, exportSnapshot

\* d2 is d with the next generation staged, wholly when p is the whole snapshot.
stagedFrom(f, d, p, d2) ==
    /\ d2.applied = d.applied /\ d2.commit = d.commit /\ d2.generation = d.generation
    /\ p = whole(snapshotOf(f, d.commit).image) =>
          d2.images[d.generation + 1] =
             [rows |-> f[d.commit + 1].rows, history |-> f[d.commit + 1].history,
              results |-> f[d.commit + 1].results,
              dedupe |-> opsOf(f[d.commit + 1].results)]

\* Staging any part of the snapshot being installed leaves a part of it, and
\* staging the whole of it leaves the whole.
LEMMA StageImageDisk ==
    ASSUME NEW l, NEW f, refOK(l, f),
           NEW d \in Disk, durableOK(l, f, d), stagedOK(f, d),
           d.generation < MaxGeneration, d.meta < d.commit,
           \A i \in d.entries : i < d.commit,
           NEW p, partOf(p, f[d.commit + 1])
    PROVE  LET d2 == stageImage(d, p) IN
           /\ d2 \in Disk /\ durableOK(l, f, d2) /\ stagedOK(f, d2)
           /\ stagedFrom(f, d, p, d2)
<1> DEFINE s == f[d.commit + 1]
           g == d.generation + 1
           old == d.images[g]
           new == [rows    |-> putRows(old.rows, p.rows),
                   history |-> old.history \cup p.history,
                   results |-> putResults(old.results, p.results),
                   dedupe  |-> old.dedupe \cup p.dedupe]
           d2 == stageImage(d, p)
           all == [rows |-> s.rows, history |-> s.history, results |-> s.results,
                   dedupe |-> opsOf(s.results)]
<1>1. /\ g \in Generation /\ d.generation \in Nat /\ \A j \in Generation : j \in Nat
      /\ d.generation \in Generation
  BY ShardAssumption, SMTT(20) DEF Disk, Generation
<1>2. d.images \in [Generation -> StoredImage] /\ old \in StoredImage
  BY <1>1 DEF Disk
<1>3. s \in State /\ wellFormed(s)
  <2>1. prefixOK(f, d.commit)
    BY PrefixType DEF durableOK
  <2> QED
    BY <2>1 DEF prefixOK
<1>4. whole(snapshotOf(f, d.commit).image) = all
  BY DEF whole, snapshotOf, exportSnapshot
<1>5. partOf(old, s)
  BY <1>1 DEF stagedOK
<1>6. /\ putRows(old.rows, s.rows) = s.rows
      /\ old.history \cup s.history = s.history
      /\ putResults(old.results, s.results) = s.results
      /\ old.dedupe \cup opsOf(s.results) = opsOf(s.results)
  BY <1>2, <1>3, <1>5, PutOverPart
<1>7. partOf(p, s)
  OBVIOUS
<1> HIDE DEF old, s, g
<1>8. p = all => new = all
  <2> HAVE p = all
  <2>1. /\ p.rows = s.rows /\ p.history = s.history /\ p.results = s.results
        /\ p.dedupe = opsOf(s.results)
    OBVIOUS
  <2> QED
    BY <1>6, <2>1
<1>10. partOf(new, s)
  BY <1>5, <1>7 DEF partOf, putRows, putResults
<1>9. new \in StoredImage
  <2>1. /\ s.rows \subseteq Row /\ s.history \subseteq Row /\ s.results \subseteq Result
        /\ opsOf(s.results) \subseteq Ops
    BY <1>3, OpsOfType DEF State
  <2>2. /\ new.rows \subseteq Row /\ new.history \subseteq Row /\ new.results \subseteq Result
        /\ new.dedupe \subseteq Ops
    BY <1>10, <2>1 DEF partOf
  <2>3. new = [rows |-> new.rows, history |-> new.history, results |-> new.results,
               dedupe |-> new.dedupe]
    OBVIOUS
  <2> HIDE DEF new
  <2> QED
    BY <2>2, <2>3 DEF StoredImage
<1> DEFINE im == [d.images EXCEPT ![g] = new]
<1>11. d2 = [d EXCEPT !.images = im]
  BY DEF stageImage, old, g
<1> HIDE DEF new
<1>12. im \in [Generation -> StoredImage] /\ im[g] = new
       /\ \A j \in Generation : j # g => im[j] = d.images[j]
  BY <1>1, <1>2, <1>9
<1> HIDE DEF im, d2
<1>13. d2 \in Disk
  BY <1>11, <1>12 DEF Disk
<1>14. /\ d2.images = im /\ d2.generation = d.generation /\ d2.applied = d.applied
       /\ d2.meta = d.meta /\ d2.conf = d.conf /\ d2.snapIndex = d.snapIndex
       /\ d2.commit = d.commit /\ d2.entries = d.entries /\ d2.chunks = d.chunks
  BY <1>11 DEF Disk
<1>15. im[d.generation] = d.images[d.generation]
  BY <1>1, <1>12, SMTT(20) DEF g
<1>16. durableOK(l, f, d2)
  BY <1>14, <1>15 DEF durableOK
<1>17. stagedOK(f, d2)
  <2>1. \A j \in Generation : j > d.generation + 1 => im[j] = emptyImage
    BY <1>1, <1>12, SMTT(20) DEF stagedOK, g
  <2>2. \A j \in Generation : j = d.generation + 1 => partOf(im[j], f[d.commit + 1])
    BY <1>10, <1>12 DEF g, s
  <2> QED
    BY <1>14, <2>1, <2>2 DEF stagedOK
<1> QED
  BY <1>4, <1>8, <1>12, <1>13, <1>14, <1>16, <1>17 DEF d2, s, g, stagedFrom

\* d2 is d with the snapshot at its commit index installed.
publishedOK(l, f, d, d2) ==
    /\ d2 \in Disk /\ durableOK(l, f, d2) /\ stagedOK(f, d2) /\ ~unfinished(d2)
    /\ d2.applied = d.commit

\* The published generation is the whole snapshot, whatever a crash had left
\* of it before.
LEMMA PublishImageDisk ==
    ASSUME NEW l, NEW f, refOK(l, f),
           NEW d \in Disk, durableOK(l, f, d), stagedOK(f, d),
           d.generation < MaxGeneration, d.meta < d.commit,
           \A i \in d.entries : i < d.commit
    PROVE  publishedOK(l, f, d, publishImage(d, snapshotOf(f, d.commit)))
<1> DEFINE s == f[d.commit + 1]
           snap == snapshotOf(f, d.commit)
           g == d.generation + 1
           d1 == stageImage(d, whole(snap.image))
           d2 == publishImage(d, snap)
<1>1. /\ d1 \in Disk /\ durableOK(l, f, d1) /\ stagedOK(f, d1)
      /\ d1.commit = d.commit /\ d1.generation = d.generation
      /\ d1.images[g] = [rows |-> s.rows, history |-> s.history, results |-> s.results,
                         dedupe |-> opsOf(s.results)]
  <2>1. partOf(whole(snap.image), f[d.commit + 1])
    BY DEF partOf, whole, snapshotOf, exportSnapshot
  <2> QED
    <3>1. /\ stageImage(d, whole(snap.image)) \in Disk
          /\ durableOK(l, f, stageImage(d, whole(snap.image)))
          /\ stagedOK(f, stageImage(d, whole(snap.image)))
      BY <2>1, StageImageDisk, ZenonT(60)
    <3>2. stagedFrom(f, d, whole(snap.image), stageImage(d, whole(snap.image)))
      BY <2>1, StageImageDisk, ZenonT(60)
    <3> QED
      BY <3>1, <3>2 DEF stagedFrom
<1>2. /\ d1.snapIndex = d.snapIndex
  BY DEF stageImage, Disk
<1>3. /\ g \in Generation /\ d.generation \in Nat /\ \A j \in Generation : j \in Nat
  BY ShardAssumption, SMTT(20) DEF Disk, Generation
<1>4. /\ d.commit \in 0 .. Len(l) /\ s.conf \in ConfState /\ d.commit \in Nat
      /\ snap.index = d.commit /\ snap.conf = s.conf
  <2>1. d.commit \in 0 .. Len(l)
    BY DEF durableOK
  <2>2. s.conf \in ConfState
    <3>1. prefixOK(f, d.commit)
      BY <2>1, PrefixType
    <3> QED
      BY <3>1 DEF prefixOK
  <2>3. d.commit \in Nat
    BY <2>1, SMTT(20)
  <2>4. snap.index = d.commit /\ snap.conf = s.conf
    BY DEF snapshotOf
  <2> QED
    BY <2>1, <2>2, <2>3, <2>4
<1>5. d2 = [d1 EXCEPT !.generation = g, !.applied = d.commit, !.meta = d.commit, !.conf = s.conf]
  BY <1>4 DEF publishImage
<1> HIDE DEF d1, d2, s, snap, g
<1>6. d2 \in Disk
  BY <1>1, <1>3, <1>4, <1>5 DEF Disk
<1>7. /\ d2.images = d1.images /\ d2.generation = g /\ d2.applied = d.commit
      /\ d2.meta = d.commit /\ d2.conf = s.conf /\ d2.snapIndex = d.snapIndex
      /\ d2.commit = d.commit /\ d2.entries = d1.entries /\ d2.chunks = d1.chunks
  BY <1>1, <1>2, <1>5 DEF Disk
<1>8. /\ d2.images[g].rows = s.rows /\ d2.images[g].history = s.history
      /\ d2.images[g].results = s.results /\ d2.images[g].dedupe = opsOf(s.results)
  <2>1. d2.images[g] = [rows |-> s.rows, history |-> s.history, results |-> s.results,
                        dedupe |-> opsOf(s.results)]
    BY <1>1, <1>7
  <2> QED
    BY <2>1, SMTT(20)
<1>9. durableOK(l, f, d2)
  <2>1. d.commit <= d.commit /\ d.commit \in 0 .. Len(l) /\ d2.chunks = d1.chunks
    <3>1. d.commit <= d.commit
      BY <1>4, SMTT(20)
    <3> QED
      BY <1>4, <1>7, <3>1
  <2>2. \A k \in d2.chunks : k.snap.index \in 0 .. Len(l) /\ k.snap = snapshotOf(f, k.snap.index)
    BY <1>1, <2>1 DEF durableOK
  <2> QED
    BY <1>7, <1>8, <2>1, <2>2, ZenonT(60) DEF durableOK, s
<1>10. d.snapIndex <= d.commit
  BY SMTT(20) DEF stagedOK, Disk
<1>11. \A j \in Generation : j > g => d2.images[j] = emptyImage
  BY <1>1, <1>7 DEF stagedOK, g
<1>12. ~unfinished(d2)
  <2>1. ~(d2.snapIndex > d2.meta)
    <3>1. d.snapIndex \in Nat
      BY DEF Disk
    <3> QED
      BY <3>1, <1>4, <1>7, <1>10, SMTT(20)
  <2> QED
    BY <2>1, <1>7, <1>11 DEF unfinished
<1>13. stagedOK(f, d2)
  <2>1. g \in Nat
    BY <1>3
  <2>2. /\ \A j \in Generation : j > g + 1 => d2.images[j] = emptyImage
        /\ \A j \in Generation : j = g + 1 => d2.images[j] = emptyImage
    BY <1>3, <2>1, <1>11, SMTT(20)
  <2>3. partOf(emptyImage, f[d2.commit + 1])
    BY DEF partOf, emptyImage
  <2>4. ~(d2.snapIndex > d2.meta)
    BY <1>12 DEF unfinished
  <2>5. d2.generation = g
    BY <1>7
  <2> QED
    BY <1>12, <2>2, <2>3, <2>4, <2>5 DEF stagedOK
<1> QED
  BY <1>6, <1>7, <1>9, <1>12, <1>13 DEF d2, snap, publishedOK

-----------------------------------------------------------------------------
(***************************************************************************)
(* Every step keeps the invariant.                                         *)
(***************************************************************************)

LEMMA InitIInv == Init => IInv
<1> SUFFICES ASSUME Init PROVE IInv
  OBVIOUS
<1>1. newLogicalState \in State /\ wellFormed(newLogicalState) /\ newLogicalState.lastApplied = 0
  BY NewStateWellFormed DEF newLogicalState, State, ConfState
<1>2. refOK(<<>>, <<newLogicalState>>)
  <2> DEFINE s == newLogicalState
             f == <<s>>
  <2>1. s \in State /\ wellFormed(s) /\ s.lastApplied = 0
    BY <1>1
  <2> HIDE DEF s
  <2>2. f \in Seq(State) /\ Len(f) = 1 /\ f[1] = s
    BY <2>1, SMTT(20)
  <2>3. <<>> \in Seq(Entries) /\ Len(<<>>) = 0 /\ 0 <= MaxLog
    BY ShardAssumption, SMTT(20)
  <2> HIDE DEF f
  <2> QED
    BY <2>1, <2>2, <2>3, SMTT(20) DEF refOK, f, s
<1>3. emptyImage \in StoredImage
  BY DEF emptyImage, StoredImage
<1>4. emptyDisk \in Disk
  <2>1. [g \in Generation |-> emptyImage] \in [Generation -> StoredImage]
    BY <1>3
  <2>2. 0 \in Generation
    BY ShardAssumption, SMTT(20) DEF Generation
  <2>3. newLogicalState.conf \in ConfState
    BY <1>1 DEF State
  <2> QED
    BY <2>1, <2>2, <2>3 DEF emptyDisk, Disk
<1> DEFINE f == <<newLogicalState>>
<1>5. f[1] = newLogicalState
  OBVIOUS
<1>6. /\ emptyDisk.applied = 0 /\ emptyDisk.meta = 0 /\ emptyDisk.commit = 0
      /\ emptyDisk.chunks = {} /\ emptyDisk.generation = 0 /\ emptyDisk.snapIndex = 0
      /\ emptyDisk.conf = newLogicalState.conf /\ emptyDisk.entries = {}
      /\ \A g \in Generation : emptyDisk.images[g] = emptyImage
      /\ 0 \in Generation
  BY ShardAssumption, SMTT(20) DEF emptyDisk, Generation
<1>7. durableOK(<<>>, f, emptyDisk)
  <2>1. /\ emptyImage.rows = newLogicalState.rows /\ emptyImage.history = newLogicalState.history
        /\ emptyImage.results = newLogicalState.results
        /\ emptyImage.dedupe = opsOf(newLogicalState.results)
    BY DEF emptyImage, newLogicalState, opsOf
  <2>2. Len(<<>>) = 0
    OBVIOUS
  <2> HIDE DEF f
  <2> QED
    BY <1>5, <1>6, <2>1, <2>2, SMTT(20) DEF durableOK
<1>8. stagedOK(f, emptyDisk)
  <2>1. partOf(emptyImage, f[emptyDisk.commit + 1])
    BY DEF partOf, emptyImage
  <2> HIDE DEF f
  <2> QED
    BY <1>6, <2>1 DEF stagedOK, unfinished
<1>9. replicaOK(<<>>, f, emptyDisk, newLogicalState, "down", 0, {}, {})
  BY <1>2, <1>4, <1>7, <1>8, DieReplica
<1>10. 0 \in Index /\ 0 \in 0 .. MaxCrashes /\ trueSnapshots(<<>>, f, {})
  BY ShardAssumption, SMTT(20) DEF Index, trueSnapshots
<1> HIDE DEF f
<1>11. /\ refOK(log, ref) /\ trueSnapshots(log, ref, sent)
       /\ \A r \in Replicas :
             replicaOK(log, ref, disk[r], mem[r], pc[r], upto[r], incoming[r], creating[r])
  BY <1>2, <1>9, <1>10 DEF Init, f
<1> QED
  BY <1>1, <1>4, <1>10, <1>11 DEF Init, IInv

\* A step of replica r leaves the log and the other replicas alone.
onlyReplica(r) ==
    /\ log' = log /\ ref' = ref
    /\ disk' = [disk EXCEPT ![r] = disk'[r]] /\ mem' = [mem EXCEPT ![r] = mem'[r]]
    /\ pc' = [pc EXCEPT ![r] = pc'[r]] /\ upto' = [upto EXCEPT ![r] = upto'[r]]
    /\ incoming' = [incoming EXCEPT ![r] = incoming'[r]]
    /\ creating' = [creating EXCEPT ![r] = creating'[r]]

nextReplicaOK(r) ==
    replicaOK(log, ref, disk'[r], mem'[r], pc'[r], upto'[r], incoming'[r], creating'[r])

commonOK ==
    /\ sent' \subseteq Snapshot /\ trueSnapshots(log, ref, sent')
    /\ replies' \subseteq [cmd: Command, reply: SUBSET Result]
    /\ crashes' \in 0 .. MaxCrashes

LEMMA FrameIInv ==
    ASSUME IInv, NEW r \in Replicas, onlyReplica(r), nextReplicaOK(r), commonOK
    PROVE  IInv'
<1>1. /\ mem \in [Replicas -> State] /\ disk \in [Replicas -> Disk]
      /\ pc \in [Replicas -> {"down", "idle", "apply", "install"}]
      /\ upto \in [Replicas -> Index] /\ incoming \in [Replicas -> SUBSET Snapshot]
      /\ creating \in [Replicas -> SUBSET Snapshot]
  BY DEF IInv
<1>2. /\ mem'[r] \in State /\ disk'[r] \in Disk /\ upto'[r] \in Index
      /\ pc'[r] \in {"down", "idle", "apply", "install"}
      /\ incoming'[r] \subseteq Snapshot /\ creating'[r] \subseteq Snapshot
  BY DEF nextReplicaOK, replicaOK, typeOK
<1>3. /\ mem' \in [Replicas -> State] /\ disk' \in [Replicas -> Disk]
      /\ pc' \in [Replicas -> {"down", "idle", "apply", "install"}]
      /\ upto' \in [Replicas -> Index] /\ incoming' \in [Replicas -> SUBSET Snapshot]
      /\ creating' \in [Replicas -> SUBSET Snapshot]
  BY <1>1, <1>2 DEF onlyReplica
<1>4. \A q \in Replicas :
        replicaOK(log, ref, disk'[q], mem'[q], pc'[q], upto'[q], incoming'[q], creating'[q])
  <2> TAKE q \in Replicas
  <2>1. CASE q = r
    BY <2>1 DEF nextReplicaOK
  <2>2. CASE q # r
    <3>1. /\ disk'[q] = disk[q] /\ mem'[q] = mem[q] /\ pc'[q] = pc[q] /\ upto'[q] = upto[q]
          /\ incoming'[q] = incoming[q] /\ creating'[q] = creating[q]
      BY <2>2, <1>1 DEF onlyReplica
    <3> QED
      BY <3>1 DEF IInv
  <2> QED
    BY <2>1, <2>2
<1>5. refOK(log', ref') /\ trueSnapshots(log', ref', sent')
      /\ \A q \in Replicas :
            replicaOK(log', ref', disk'[q], mem'[q], pc'[q], upto'[q], incoming'[q], creating'[q])
  BY <1>4 DEF IInv, onlyReplica, commonOK
<1> QED
  BY <1>3, <1>5 DEF IInv, commonOK

\* The parts of IInv an action of replica r starts from.
LEMMA IInvFacts ==
    ASSUME IInv, NEW r \in Replicas
    PROVE  /\ refOK(log, ref)
           /\ replicaOK(log, ref, disk[r], mem[r], pc[r], upto[r], incoming[r], creating[r])
           /\ disk[r] \in Disk /\ mem[r] \in State /\ upto[r] \in Index
           /\ pc[r] \in {"down", "idle", "apply", "install"}
           /\ incoming[r] \in SUBSET Snapshot /\ creating[r] \in SUBSET Snapshot
           /\ sent \subseteq Snapshot /\ trueSnapshots(log, ref, sent)
           /\ replies \subseteq [cmd: Command, reply: SUBSET Result]
           /\ crashes \in 0 .. MaxCrashes
           /\ DOMAIN disk = Replicas /\ DOMAIN mem = Replicas /\ DOMAIN pc = Replicas
           /\ DOMAIN upto = Replicas /\ DOMAIN incoming = Replicas /\ DOMAIN creating = Replicas
  BY DEF IInv

LEMMA CommonUnchanged ==
    ASSUME IInv, sent' = sent, replies' = replies, crashes' = crashes
    PROVE  commonOK
  BY DEF IInv, commonOK

LEMMA CommitIInv ==
    ASSUME IInv, NEW e \in Entries, CommitEntry(e)
    PROVE  IInv'
<1>1. refOK(log, ref) /\ Len(log) < MaxLog /\ log' = Append(log, e)
      /\ ref' = Append(ref, apply(ref[Len(ref)], e))
  BY DEF IInv, CommitEntry
<1>2. refOK(log', ref') /\ \A i \in 1 .. Len(ref) : ref'[i] = ref[i]
  BY <1>1, CommitRef
<1>3. Len(log') = Len(log) + 1 /\ Len(log) \in Nat /\ Len(ref) = Len(log) + 1
  BY <1>1, SMTT(20) DEF refOK
<1>4. /\ mem' = mem /\ disk' = disk /\ pc' = pc /\ upto' = upto /\ incoming' = incoming
      /\ creating' = creating /\ sent' = sent /\ replies' = replies /\ crashes' = crashes
  BY DEF CommitEntry
<1>5. \A r \in Replicas :
        replicaOK(log', ref', disk[r], mem[r], pc[r], upto[r], incoming[r], creating[r])
  <2> TAKE r \in Replicas
  <2>1. replicaOK(log, ref, disk[r], mem[r], pc[r], upto[r], incoming[r], creating[r])
    BY DEF IInv
  <2>2. refOK(log, ref)
    BY <1>1
  <2>3. Len(log') = Len(log) + 1
    BY <1>3
  <2> QED
    BY <1>2, <2>1, <2>2, <2>3, CommitReplica
<1>6. trueSnapshots(log', ref', sent)
  <2>1. \A i \in 0 .. Len(log) : i \in 0 .. Len(log') /\ snapshotOf(ref', i) = snapshotOf(ref, i)
    BY <1>2, <1>3, SMTT(20) DEF snapshotOf
  <2> QED
    BY <2>1 DEF IInv, trueSnapshots
<1> QED
  BY <1>2, <1>4, <1>5, <1>6 DEF IInv

LEMMA OpenIInv ==
    ASSUME IInv, NEW r \in Replicas, Open(r)
    PROVE  IInv'
<1> DEFINE n == decode(imageOf(disk[r]), disk[r].meta, disk[r].conf)
<1>1. /\ log' = log /\ ref' = ref /\ disk' = disk /\ upto' = upto /\ creating' = creating
      /\ sent' = sent /\ replies' = replies /\ crashes' = crashes
      /\ pc[r] = "down" /\ loadable(disk[r]) /\ mem' = [mem EXCEPT ![r] = n]
  BY DEF Open
<1>2. /\ n \in State
      /\ disk[r].snapIndex > disk[r].meta => \A s \in storedSnapshot(disk[r]) :
            replicaOK(log, ref, disk[r], n, "install", upto[r], {s}, creating[r])
      /\ ~(disk[r].snapIndex > disk[r].meta) =>
            replicaOK(log, ref, disk[r], n, "idle", upto[r], {}, creating[r])
  <2>1. refOK(log, ref)
    BY IInvFacts
  <2>2. replicaOK(log, ref, disk[r], mem[r], "down", upto[r], incoming[r], creating[r])
    BY <1>1, IInvFacts
  <2>3. loadable(disk[r])
    BY <1>1
  <2> QED
    BY <2>1, <2>2, <2>3, OpenReplica
<1> HIDE DEF n
<1>3. CASE disk[r].snapIndex > disk[r].meta
  <2>1. PICK s \in storedSnapshot(disk[r]) : incoming' = [incoming EXCEPT ![r] = {s}]
    BY <1>3 DEF Open
  <2>2. pc' = [pc EXCEPT ![r] = "install"]
    BY <1>3 DEF Open
  <2>3. replicaOK(log, ref, disk[r], n, "install", upto[r], {s}, creating[r])
    BY <1>2, <1>3
  <2>4. onlyReplica(r)
    BY <1>1, <2>1, <2>2, IInvFacts DEF onlyReplica, IInv
  <2>5. nextReplicaOK(r)
    BY <1>1, <2>1, <2>2, <2>3, IInvFacts DEF nextReplicaOK
  <2> QED
    BY <1>1, <2>4, <2>5, CommonUnchanged, FrameIInv
<1>4. CASE ~(disk[r].snapIndex > disk[r].meta)
  <2>1. incoming' = [incoming EXCEPT ![r] = {}] /\ pc' = [pc EXCEPT ![r] = "idle"]
    BY <1>4 DEF Open
  <2>2. onlyReplica(r)
    BY <1>1, <2>1, IInvFacts DEF onlyReplica, IInv
  <2>3. nextReplicaOK(r)
    BY <1>1, <1>2, <1>4, <2>1, IInvFacts DEF nextReplicaOK
  <2> QED
    BY <1>1, <2>2, <2>3, CommonUnchanged, FrameIInv
<1> QED
  BY <1>3, <1>4

\* Death of replica r with the disk d it leaves.
LEMMA DieIInv ==
    ASSUME IInv, NEW r \in Replicas, NEW d \in Disk,
           durableOK(log, ref, d), stagedOK(ref, d),
           disk' = [disk EXCEPT ![r] = d], Die(r)
    PROVE  IInv'
<1>1. /\ newLogicalState \in State
      /\ replicaOK(log, ref, d, newLogicalState, "down", 0, {}, {})
  BY IInvFacts, DieReplica
<1>2. 0 \in Index /\ crashes' \in 0 .. MaxCrashes
  BY ShardAssumption, SMTT(20) DEF Index, Die, IInv
<1>3. /\ log' = log /\ ref' = ref /\ sent' = sent /\ replies' = replies
      /\ mem' = [mem EXCEPT ![r] = newLogicalState] /\ pc' = [pc EXCEPT ![r] = "down"]
      /\ upto' = [upto EXCEPT ![r] = 0] /\ incoming' = [incoming EXCEPT ![r] = {}]
      /\ creating' = [creating EXCEPT ![r] = {}]
  BY DEF Die
<1>4. onlyReplica(r)
  BY <1>3, IInvFacts DEF onlyReplica, IInv
<1>5. nextReplicaOK(r)
  BY <1>1, <1>3, IInvFacts DEF nextReplicaOK
<1>6. commonOK
  BY <1>2, <1>3, IInvFacts DEF commonOK
<1> QED
  BY <1>4, <1>5, <1>6, FrameIInv

LEMMA PersistEntriesIInv ==
    ASSUME IInv, NEW r \in Replicas, PersistEntries(r)
    PROVE  IInv'
<1>a. PICK first \in 1 .. Len(log) + 1 :
        \E last \in first - 1 .. Len(log) :
        \E commit \in disk[r].commit .. last :
        \E to \in mem[r].lastApplied .. commit :
          /\ disk' = [disk EXCEPT ![r] = persistEntries(@, first, last, commit)]
          /\ upto' = [upto EXCEPT ![r] = to]
          /\ pc' = [pc EXCEPT ![r] = IF to > mem[r].lastApplied THEN "apply" ELSE "idle"]
  BY DEF PersistEntries
<1>b. PICK last \in first - 1 .. Len(log) :
        \E commit \in disk[r].commit .. last :
        \E to \in mem[r].lastApplied .. commit :
          /\ disk' = [disk EXCEPT ![r] = persistEntries(@, first, last, commit)]
          /\ upto' = [upto EXCEPT ![r] = to]
          /\ pc' = [pc EXCEPT ![r] = IF to > mem[r].lastApplied THEN "apply" ELSE "idle"]
  BY <1>a
<1>c. PICK commit \in disk[r].commit .. last :
        \E to \in mem[r].lastApplied .. commit :
          /\ disk' = [disk EXCEPT ![r] = persistEntries(@, first, last, commit)]
          /\ upto' = [upto EXCEPT ![r] = to]
          /\ pc' = [pc EXCEPT ![r] = IF to > mem[r].lastApplied THEN "apply" ELSE "idle"]
  BY <1>b
<1>1. PICK to \in mem[r].lastApplied .. commit :
        /\ disk' = [disk EXCEPT ![r] = persistEntries(@, first, last, commit)]
        /\ upto' = [upto EXCEPT ![r] = to]
        /\ pc' = [pc EXCEPT ![r] = IF to > mem[r].lastApplied THEN "apply" ELSE "idle"]
  BY <1>c
<1>2. /\ log' = log /\ ref' = ref /\ mem' = mem /\ incoming' = incoming /\ creating' = creating
      /\ sent' = sent /\ replies' = replies /\ crashes' = crashes /\ pc[r] = "idle"
  BY DEF PersistEntries
<1> DEFINE q == IF to > mem[r].lastApplied THEN "apply" ELSE "idle"
           d2 == persistEntries(disk[r], first, last, commit)
<1>3. replicaOK(log, ref, d2, mem[r], q, to, incoming[r], creating[r])
  <2>1. refOK(log, ref) /\ replicaOK(log, ref, disk[r], mem[r], "idle", upto[r], incoming[r], creating[r])
    BY <1>2, IInvFacts
  <2> QED
    BY <2>1, PersistEntriesReplica
<1>4. disk' = [disk EXCEPT ![r] = d2] /\ pc' = [pc EXCEPT ![r] = q]
  BY <1>1
<1> HIDE DEF q, d2
<1>5. onlyReplica(r)
  BY <1>1, <1>2, <1>4, IInvFacts DEF onlyReplica, IInv
<1>6. nextReplicaOK(r)
  BY <1>1, <1>2, <1>3, <1>4, IInvFacts DEF nextReplicaOK
<1> QED
  BY <1>2, <1>5, <1>6, CommonUnchanged, FrameIInv

\* What a step about to apply an entry starts from.
LEMMA ApplyingFacts ==
    ASSUME IInv, NEW r \in Replicas, applying(r)
    PROVE  /\ refOK(log, ref)
           /\ replicaOK(log, ref, disk[r], mem[r], "apply", upto[r], incoming[r], {})
           /\ creating[r] = {}
  BY IInvFacts DEF applying

LEMMA ApplyEntryIInv ==
    ASSUME IInv, NEW r \in Replicas, ApplyEntry(r)
    PROVE  IInv'
<1> DEFINE e    == log[mem[r].lastApplied + 1]
           next == apply(mem[r], e)
           q    == IF next.lastApplied < upto[r] THEN "apply" ELSE "idle"
           d2   == applyBatch(disk[r], mem[r], next)
<1>0. refOK(log, ref) /\ creating[r] = {}
      /\ replicaOK(log, ref, disk[r], mem[r], "apply", upto[r], incoming[r], {})
  BY ApplyingFacts DEF ApplyEntry
<1>1. /\ disk' = [disk EXCEPT ![r] = d2] /\ mem' = [mem EXCEPT ![r] = next]
      /\ pc' = [pc EXCEPT ![r] = q]
      /\ replies' = IF e.kind = "put"
                    THEN replies \cup {[cmd |-> e.cmd, reply |-> reply(next, e.cmd)]}
                    ELSE replies
      /\ log' = log /\ ref' = ref /\ upto' = upto /\ incoming' = incoming
      /\ creating' = creating /\ sent' = sent /\ crashes' = crashes
  BY DEF ApplyEntry
<1>2. d2 \in Disk /\ next \in State /\ replicaOK(log, ref, d2, next, q, upto[r], incoming[r], {})
  BY <1>0, ApplyEntryReplica
<1>3. mem[r].lastApplied + 1 \in 1 .. Len(log)
  <2>1. batchOK(log, ref, disk[r], mem[r], next, d2)
    BY <1>0, ApplyBatchDisk
  <2> HIDE DEF d2, next
  <2> QED
    BY <2>1 DEF batchOK
<1>4. e \in Entry
  <2>1. log \in Seq(Entries) /\ Entries \subseteq Entry
    BY <1>0, LogLength, ShardAssumption
  <2> QED
    BY <1>3, <2>1, SMTT(20)
<1>5. replies' \subseteq [cmd: Command, reply: SUBSET Result]
  <2>1. reply(next, e.cmd) \in SUBSET Result
    BY <1>2 DEF reply, resultsOf, State
  <2>2. e.kind = "put" => e.cmd \in Command
    BY <1>4 DEF Entry
  <2>3. replies \subseteq [cmd: Command, reply: SUBSET Result]
    BY IInvFacts
  <2> HIDE DEF e, next
  <2> QED
    BY <1>1, <2>1, <2>2, <2>3, SMTT(20)
<1> HIDE DEF e, next, q, d2
<1>6. onlyReplica(r)
  BY <1>1, IInvFacts DEF onlyReplica, IInv
<1>7. nextReplicaOK(r)
  <2>1. /\ disk'[r] = d2 /\ mem'[r] = next /\ pc'[r] = q
        /\ upto'[r] = upto[r] /\ incoming'[r] = incoming[r] /\ creating'[r] = {}
    BY <1>0, <1>1, IInvFacts
  <2> QED
    BY <1>2, <2>1 DEF nextReplicaOK
<1>8. commonOK
  BY <1>1, <1>5, IInvFacts DEF commonOK
<1> QED
  BY <1>6, <1>7, <1>8, FrameIInv

LEMMA CrashAfterApplyIInv ==
    ASSUME IInv, NEW r \in Replicas, CrashAfterApplyBatch(r)
    PROVE  IInv'
<1> DEFINE next == apply(mem[r], log[mem[r].lastApplied + 1])
           d2   == applyBatch(disk[r], mem[r], next)
<1>0. refOK(log, ref)
      /\ replicaOK(log, ref, disk[r], mem[r], "apply", upto[r], incoming[r], {})
  BY ApplyingFacts DEF CrashAfterApplyBatch
<1>1. d2 \in Disk /\ durableOK(log, ref, d2) /\ stagedOK(ref, d2)
  <2>1. batchOK(log, ref, disk[r], mem[r], next, d2)
    BY <1>0, ApplyBatchDisk
  <2> HIDE DEF d2, next
  <2> QED
    BY <2>1 DEF batchOK
<1>2. disk' = [disk EXCEPT ![r] = d2] /\ Die(r)
  BY DEF CrashAfterApplyBatch
<1> HIDE DEF d2
<1> QED
  BY <1>1, <1>2, DieIInv

LEMMA CrashIInv ==
    ASSUME IInv, NEW r \in Replicas, Crash(r)
    PROVE  IInv'
<1>1. disk[r] \in Disk /\ durableOK(log, ref, disk[r]) /\ stagedOK(ref, disk[r])
  BY IInvFacts DEF replicaOK
<1>2. disk' = [disk EXCEPT ![r] = disk[r]] /\ Die(r)
  BY IInvFacts DEF Crash, IInv
<1> DEFINE d2 == disk[r]
<1>3. d2 \in Disk /\ durableOK(log, ref, d2) /\ stagedOK(ref, d2)
      /\ disk' = [disk EXCEPT ![r] = d2]
  BY <1>1, <1>2
<1> HIDE DEF d2
<1> QED
  BY <1>2, <1>3, DieIInv

LEMMA BeginCreateIInv ==
    ASSUME IInv, NEW r \in Replicas, BeginCreateSnapshot(r)
    PROVE  IInv'
<1> DEFINE s == [index |-> mem[r].lastApplied, image |-> exportSnapshot(mem[r]),
                 conf |-> disk[r].conf]
<1>1. /\ pc[r] \in {"idle", "apply"} /\ creating[r] = {}
      /\ creating' = [creating EXCEPT ![r] = {s}]
      /\ log' = log /\ ref' = ref /\ disk' = disk /\ mem' = mem /\ pc' = pc /\ upto' = upto
      /\ incoming' = incoming /\ sent' = sent /\ replies' = replies /\ crashes' = crashes
  BY DEF BeginCreateSnapshot
<1>2. replicaOK(log, ref, disk[r], mem[r], pc[r], upto[r], incoming[r], {s})
  <2>1. /\ refOK(log, ref) /\ pc[r] \in {"idle", "apply"}
        /\ replicaOK(log, ref, disk[r], mem[r], pc[r], upto[r], incoming[r], {})
    <3>1. creating[r] = {} /\ pc[r] \in {"idle", "apply"}
      BY <1>1
    <3>2. refOK(log, ref)
          /\ replicaOK(log, ref, disk[r], mem[r], pc[r], upto[r], incoming[r], creating[r])
      BY IInvFacts
    <3> QED
      BY <3>1, <3>2
  <2> QED
    BY <2>1, BeginCreateReplica, SMTT(20)
<1> HIDE DEF s
<1>3. onlyReplica(r)
  BY <1>1, IInvFacts DEF onlyReplica, IInv
<1>4. nextReplicaOK(r)
  BY <1>1, <1>2, IInvFacts DEF nextReplicaOK
<1> QED
  BY <1>1, <1>3, <1>4, CommonUnchanged, FrameIInv

LEMMA FinishCreateIInv ==
    ASSUME IInv, NEW r \in Replicas, FinishCreateSnapshot(r)
    PROVE  IInv'
<1>1. PICK s \in creating[r] :
        /\ disk' = [disk EXCEPT ![r] = [stageChunks(@, s, Parts) EXCEPT !.snapIndex = s.index]]
        /\ sent' = sent \cup {s}
  BY DEF FinishCreateSnapshot
<1>2. /\ creating' = [creating EXCEPT ![r] = {}]
      /\ log' = log /\ ref' = ref /\ mem' = mem /\ pc' = pc /\ upto' = upto
      /\ incoming' = incoming /\ replies' = replies /\ crashes' = crashes
  BY DEF FinishCreateSnapshot
<1> DEFINE d2 == [stageChunks(disk[r], s, Parts) EXCEPT !.snapIndex = s.index]
<1>3. /\ s \in Snapshot /\ s.index \in 0 .. Len(log) /\ s = snapshotOf(ref, s.index)
      /\ replicaOK(log, ref, d2, mem[r], pc[r], upto[r], incoming[r], {})
  <2>1. refOK(log, ref)
        /\ replicaOK(log, ref, disk[r], mem[r], pc[r], upto[r], incoming[r], creating[r])
    BY IInvFacts
  <2> QED
    BY <2>1, FinishCreateReplica, SMTT(20)
<1>4. disk' = [disk EXCEPT ![r] = d2]
  BY <1>1
<1> HIDE DEF d2
<1>5. onlyReplica(r)
  BY <1>2, <1>4, IInvFacts DEF onlyReplica, IInv
<1>6. nextReplicaOK(r)
  BY <1>2, <1>3, <1>4, IInvFacts DEF nextReplicaOK
<1>7. sent' \subseteq Snapshot /\ trueSnapshots(log, ref, sent')
  BY <1>1, <1>3, IInvFacts DEF trueSnapshots
<1>8. commonOK
  BY <1>2, <1>7, IInvFacts DEF commonOK
<1> QED
  BY <1>5, <1>6, <1>8, FrameIInv

LEMMA CrashInCreateIInv ==
    ASSUME IInv, NEW r \in Replicas, CrashInCreateSnapshot(r)
    PROVE  IInv'
<1>1. PICK s \in creating[r], n \in 1 .. Parts :
        disk' = [disk EXCEPT ![r] = stageChunks(@, s, n)]
  BY DEF CrashInCreateSnapshot
<1>2. /\ disk[r] \in Disk /\ durableOK(log, ref, disk[r]) /\ stagedOK(ref, disk[r])
      /\ s \in Snapshot /\ s.index \in 0 .. Len(log) /\ s = snapshotOf(ref, s.index)
  BY IInvFacts DEF replicaOK, trueSnapshots
<1> DEFINE d2 == stageChunks(disk[r], s, n)
<1>3. d2 \in Disk /\ durableOK(log, ref, d2) /\ stagedOK(ref, d2)
  BY <1>2, StageChunksReplica
<1>4. disk' = [disk EXCEPT ![r] = d2] /\ Die(r)
  BY <1>1 DEF CrashInCreateSnapshot
<1> HIDE DEF d2
<1> QED
  BY <1>3, <1>4, DieIInv

-----------------------------------------------------------------------------
(***************************************************************************)
(* The steps that receive and install a snapshot, and the results.         *)
(***************************************************************************)
LEMMA PersistSnapshotIInv ==
    ASSUME IInv, NEW r \in Replicas, PersistSnapshot(r)
    PROVE  IInv'
<1>1. PICK s \in sent :
        /\ acceptable(r, s)
        /\ disk' = [disk EXCEPT ![r] =
                        [stageChunks(@, s, Parts) EXCEPT !.snapIndex = s.index,
                                                         !.commit = s.index]]
        /\ incoming' = [incoming EXCEPT ![r] = {s}]
  BY DEF PersistSnapshot
<1>2. /\ pc' = [pc EXCEPT ![r] = "install"]
      /\ log' = log /\ ref' = ref /\ mem' = mem /\ upto' = upto
      /\ creating' = creating /\ sent' = sent /\ replies' = replies /\ crashes' = crashes
  BY DEF PersistSnapshot
<1> DEFINE d2 == [stageChunks(disk[r], s, Parts) EXCEPT !.snapIndex = s.index, !.commit = s.index]
<1>3. replicaOK(log, ref, d2, mem[r], "install", upto[r], {s}, creating[r])
  <2>1. refOK(log, ref)
        /\ replicaOK(log, ref, disk[r], mem[r], "idle", upto[r], incoming[r], creating[r])
    BY <1>1, IInvFacts DEF acceptable
  <2>2. s \in Snapshot /\ s.index \in 0 .. Len(log) /\ s = snapshotOf(ref, s.index)
    BY IInvFacts DEF trueSnapshots
  <2>3. \A i \in indexes(disk[r]) \cup {disk[r].commit} : i < s.index
    BY <1>1 DEF acceptable
  <2> QED
    BY <2>1, <2>2, <2>3, PersistSnapshotReplica
<1>4. disk' = [disk EXCEPT ![r] = d2]
  BY <1>1
<1> HIDE DEF d2
<1>5. onlyReplica(r)
  BY <1>1, <1>2, <1>4, IInvFacts DEF onlyReplica, IInv
<1>6. nextReplicaOK(r)
  BY <1>1, <1>2, <1>3, <1>4, IInvFacts DEF nextReplicaOK
<1> QED
  BY <1>2, <1>5, <1>6, CommonUnchanged, FrameIInv

LEMMA CrashInPersistIInv ==
    ASSUME IInv, NEW r \in Replicas, CrashInPersistSnapshot(r)
    PROVE  IInv'
<1>1. PICK s \in sent, n \in 1 .. Parts : disk' = [disk EXCEPT ![r] = stageChunks(@, s, n)]
  BY DEF CrashInPersistSnapshot
<1>2. /\ disk[r] \in Disk /\ durableOK(log, ref, disk[r]) /\ stagedOK(ref, disk[r])
      /\ s \in Snapshot /\ s.index \in 0 .. Len(log) /\ s = snapshotOf(ref, s.index)
  BY IInvFacts DEF replicaOK, trueSnapshots
<1> DEFINE d2 == stageChunks(disk[r], s, n)
<1>3. d2 \in Disk /\ durableOK(log, ref, d2) /\ stagedOK(ref, d2)
  BY <1>2, StageChunksReplica
<1>4. disk' = [disk EXCEPT ![r] = d2] /\ Die(r)
  BY <1>1 DEF CrashInPersistSnapshot
<1> HIDE DEF d2
<1> QED
  BY <1>3, <1>4, DieIInv

\* What an installation starts from: the snapshot at the commit index.
LEMMA InstallingFacts ==
    ASSUME IInv, NEW r \in Replicas, installing(r)
    PROVE  /\ refOK(log, ref) /\ creating[r] = {}
           /\ disk[r] \in Disk /\ durableOK(log, ref, disk[r]) /\ stagedOK(ref, disk[r])
           /\ incoming[r] = {snapshotOf(ref, disk[r].commit)}
           /\ disk[r].generation < MaxGeneration /\ disk[r].meta < disk[r].commit
           /\ \A i \in disk[r].entries : i < disk[r].commit
           /\ disk[r].commit \in 0 .. Len(log)
  BY IInvFacts DEF installing, replicaOK, controlOK, durableOK

\* decode of an exported prefix is that prefix.
LEMMA DecodeSnapshot ==
    ASSUME NEW l, NEW f, refOK(l, f), NEW i \in 0 .. Len(l)
    PROVE  LET s == snapshotOf(f, i) IN decode(s.image, s.index, s.conf) = f[i + 1]
<1> DEFINE s == f[i + 1]
           snap == snapshotOf(f, i)
<1>1. s \in State /\ wellFormed(s) /\ s.lastApplied = i
  <2>1. prefixOK(f, i)
    BY PrefixType
  <2> QED
    BY <2>1 DEF prefixOK
<1>2. snap.image = exportSnapshot(s) /\ snap.index = i /\ snap.conf = s.conf
  BY DEF snapshotOf
<1>3. collectVersions(snap.image) = s.versions
  BY <1>1, <1>2 DEF wellFormed
<1>4. /\ snap.image.rows = s.rows /\ snap.image.history = s.history
      /\ snap.image.results = s.results
  BY <1>2, SMTT(20) DEF exportSnapshot
<1>5. s = [rows |-> s.rows, history |-> s.history, results |-> s.results,
           versions |-> s.versions, lastApplied |-> s.lastApplied, conf |-> s.conf]
  BY <1>1 DEF State
<1> HIDE DEF s, snap
<1>6. decode(snap.image, snap.index, snap.conf) =
        [rows |-> s.rows, history |-> s.history, results |-> s.results,
         versions |-> s.versions, lastApplied |-> s.lastApplied, conf |-> s.conf]
  BY <1>1, <1>2, <1>3, <1>4 DEF decode
<1> QED
  BY <1>5, <1>6 DEF s, snap

LEMMA InstallIInv ==
    ASSUME IInv, NEW r \in Replicas, InstallSnapshot(r)
    PROVE  IInv'
<1> DEFINE s == snapshotOf(ref, disk[r].commit)
           d2 == publishImage(disk[r], s)
           n == decode(s.image, s.index, s.conf)
<1>1. /\ refOK(log, ref) /\ creating[r] = {} /\ incoming[r] = {s}
      /\ disk[r] \in Disk /\ durableOK(log, ref, disk[r]) /\ stagedOK(ref, disk[r])
      /\ disk[r].generation < MaxGeneration /\ disk[r].meta < disk[r].commit
      /\ \A i \in disk[r].entries : i < disk[r].commit
      /\ disk[r].commit \in 0 .. Len(log)
  BY InstallingFacts DEF InstallSnapshot
<1>2. /\ disk' = [disk EXCEPT ![r] = d2] /\ mem' = [mem EXCEPT ![r] = n]
      /\ incoming' = [incoming EXCEPT ![r] = {}] /\ pc' = [pc EXCEPT ![r] = "idle"]
      /\ log' = log /\ ref' = ref /\ upto' = upto /\ creating' = creating
      /\ sent' = sent /\ replies' = replies /\ crashes' = crashes
  BY <1>1 DEF InstallSnapshot
<1>3. /\ d2 \in Disk /\ durableOK(log, ref, d2) /\ stagedOK(ref, d2) /\ ~unfinished(d2)
      /\ d2.applied = disk[r].commit
  <2>1. publishedOK(log, ref, disk[r], d2)
    BY <1>1, PublishImageDisk
  <2> HIDE DEF d2
  <2> QED
    BY <2>1 DEF publishedOK
<1>4. n = ref[disk[r].commit + 1] /\ n \in State
  <2>1. n = ref[disk[r].commit + 1]
    BY <1>1, DecodeSnapshot
  <2>2. ref[disk[r].commit + 1] \in State
    <3>1. prefixOK(ref, disk[r].commit)
      BY <1>1, PrefixType
    <3> QED
      BY <3>1 DEF prefixOK
  <2> QED
    BY <2>1, <2>2
<1> HIDE DEF d2, n
<1>5. replicaOK(log, ref, d2, n, "idle", upto[r], {}, {})
  <2>1. typeOK(d2, n, "idle", upto[r], {}, {})
    BY <1>3, <1>4, IInvFacts DEF typeOK
  <2>2. trueSnapshots(log, ref, {})
    BY DEF trueSnapshots
  <2>3. controlOK(ref, d2, n, "idle", upto[r], {}, {})
    BY <1>3, <1>4 DEF controlOK
  <2> QED
    BY <1>3, <2>1, <2>2, <2>3 DEF replicaOK
<1>6. onlyReplica(r)
  BY <1>2, IInvFacts DEF onlyReplica, IInv
<1>7. nextReplicaOK(r)
  BY <1>1, <1>2, <1>5, IInvFacts DEF nextReplicaOK
<1> QED
  BY <1>2, <1>6, <1>7, CommonUnchanged, FrameIInv

LEMMA CrashInInstallIInv ==
    ASSUME IInv, NEW r \in Replicas, CrashInInstallSnapshot(r)
    PROVE  IInv'
<1> DEFINE s == snapshotOf(ref, disk[r].commit)
<1>1. /\ refOK(log, ref) /\ incoming[r] = {s}
      /\ disk[r] \in Disk /\ durableOK(log, ref, disk[r]) /\ stagedOK(ref, disk[r])
      /\ disk[r].generation < MaxGeneration /\ disk[r].meta < disk[r].commit
      /\ \A i \in disk[r].entries : i < disk[r].commit
  BY InstallingFacts DEF CrashInInstallSnapshot
<1>2. \/ \E p \in stagedParts(s.image) : disk' = [disk EXCEPT ![r] = stageImage(disk[r], p)]
      \/ disk' = [disk EXCEPT ![r] = publishImage(disk[r], s)]
  BY <1>1 DEF CrashInInstallSnapshot
<1>3. Die(r)
  BY DEF CrashInInstallSnapshot
<1>4. CASE \E p \in stagedParts(s.image) : disk' = [disk EXCEPT ![r] = stageImage(disk[r], p)]
  <2>1. PICK p \in stagedParts(s.image) : disk' = [disk EXCEPT ![r] = stageImage(disk[r], p)]
    BY <1>4
  <2> DEFINE d2 == stageImage(disk[r], p)
  <2>a. partOf(p, ref[disk[r].commit + 1])
    BY StagedPart
  <2>2. d2 \in Disk /\ durableOK(log, ref, d2) /\ stagedOK(ref, d2)
    BY <1>1, <2>a, StageImageDisk
  <2>3. disk' = [disk EXCEPT ![r] = d2]
    BY <2>1
  <2> HIDE DEF d2
  <2> QED
    BY <1>3, <2>2, <2>3, DieIInv
<1>5. CASE disk' = [disk EXCEPT ![r] = publishImage(disk[r], s)]
  <2> DEFINE d2 == publishImage(disk[r], s)
  <2>1. d2 \in Disk /\ durableOK(log, ref, d2) /\ stagedOK(ref, d2)
    <3>1. publishedOK(log, ref, disk[r], d2)
      BY <1>1, PublishImageDisk
    <3> HIDE DEF d2
    <3> QED
      BY <3>1 DEF publishedOK
  <2>2. disk' = [disk EXCEPT ![r] = d2]
    BY <1>5
  <2> HIDE DEF d2
  <2> QED
    BY <1>3, <2>1, <2>2, DieIInv
<1> QED
  BY <1>2, <1>4, <1>5

LEMMA NextIInv == IInv /\ [Next]_vars => IInv'
<1> SUFFICES ASSUME IInv, [Next]_vars PROVE IInv'
  OBVIOUS
<1>1. ASSUME NEW e \in Entries, CommitEntry(e) PROVE IInv'
  BY <1>1, CommitIInv
<1>2. ASSUME NEW r \in Replicas, Step(r) PROVE IInv'
  BY <1>2, OpenIInv, PersistEntriesIInv, ApplyEntryIInv, BeginCreateIInv, FinishCreateIInv,
     PersistSnapshotIInv, InstallIInv DEF Step
<1>3. ASSUME NEW r \in Replicas, Death(r) PROVE IInv'
  BY <1>3, CrashIInv, CrashAfterApplyIInv, CrashInCreateIInv, CrashInPersistIInv,
     CrashInInstallIInv DEF Death
<1>4. CASE UNCHANGED vars
  BY <1>4 DEF vars, IInv
<1> QED
  BY <1>1, <1>2, <1>3, <1>4 DEF Next

\* IInv holds in every reachable state of Spec.
THEOREM Inductive == Spec => []IInv
  BY InitIInv, NextIInv, PTL DEF Spec

(***************************************************************************)
(* The results.                                                            *)
(***************************************************************************)

\* Memory, engine records, snapshots and replies keep their types through
\* every interleaving and crash.
THEOREM TypeCorrect == Spec => []TypeOK
<1>1. IInv => TypeOK
  BY DEF IInv, TypeOK, refOK
<1> QED
  BY <1>1, Inductive, PTL

\* Every state apply can produce passes the validation load and
\* decodeSnapshot perform, and they rebuild its reserved versions.
THEOREM PrefixesLoad == Spec => []EveryPrefixLoads
<1>1. IInv => EveryPrefixLoads
  <2> SUFFICES ASSUME IInv PROVE \A i \in DOMAIN ref : wellFormed(ref[i])
    BY DEF EveryPrefixLoads
  <2>1. refOK(log, ref)
    BY DEF IInv
  <2>2. DOMAIN ref = 1 .. Len(ref)
    BY <2>1, SMTT(20) DEF refOK
  <2> QED
    BY <2>1, <2>2 DEF refOK
<1> QED
  BY <1>1, Inductive, PTL

\* A running replica serves the state after its applied prefix of the log,
\* however it got there: apply, load or installSnapshot.
THEOREM MemoryCorrect == Spec => []MemoryIsLogPrefix
<1>1. IInv => MemoryIsLogPrefix
  <2> SUFFICES ASSUME IInv, NEW r \in Replicas, pc[r] # "down"
               PROVE  /\ mem[r].lastApplied <= Len(log)
                      /\ mem[r] = ref[mem[r].lastApplied + 1]
    BY DEF MemoryIsLogPrefix
  <2>1. /\ refOK(log, ref) /\ Len(log) \in Nat /\ disk[r].applied \in 0 .. Len(log)
        /\ mem[r] = ref[disk[r].applied + 1]
    <3>1. refOK(log, ref) /\ disk[r].applied \in 0 .. Len(log)
      BY IInvFacts DEF replicaOK, durableOK
    <3>2. Len(log) \in Nat
      BY <3>1, LogLength
    <3>3. mem[r] = ref[disk[r].applied + 1]
      BY IInvFacts DEF replicaOK, controlOK
    <3> QED
      BY <3>1, <3>2, <3>3
  <2>2. mem[r].lastApplied = disk[r].applied
    <3>1. prefixOK(ref, disk[r].applied)
      BY <2>1, PrefixType
    <3> QED
      BY <2>1, <3>1 DEF prefixOK
  <2> QED
    BY <2>1, <2>2, SMTT(20)
<1> QED
  BY <1>1, Inductive, PTL

\* The published generation is the whole image of the durable prefix in every
\* state a crash can leave.
THEOREM DurableCorrect == Spec => []DurableIsLogPrefix
<1>1. IInv => DurableIsLogPrefix
  <2> SUFFICES ASSUME IInv, NEW r \in Replicas
               PROVE  LET d == disk[r] IN
                      /\ d.applied <= Len(log) /\ d.meta = d.applied
                      /\ decode(imageOf(d), d.applied, d.conf) = ref[d.applied + 1]
                      /\ d.images[d.generation].dedupe = opsOf(ref[d.applied + 1].results)
    BY DEF DurableIsLogPrefix
  <2> DEFINE d == disk[r]
             i == d.applied
  <2>1. refOK(log, ref) /\ durableOK(log, ref, d) /\ Len(log) \in Nat /\ i \in 0 .. Len(log)
    <3>1. refOK(log, ref) /\ durableOK(log, ref, d)
      BY IInvFacts DEF replicaOK
    <3> QED
      BY <3>1, LogLength DEF durableOK
  <2>2. LET s == snapshotOf(ref, i) IN decode(s.image, s.index, s.conf) = ref[i + 1]
    BY <2>1, DecodeSnapshot
  <2>3. imageOf(d) = snapshotOf(ref, i).image /\ d.conf = snapshotOf(ref, i).conf
        /\ snapshotOf(ref, i).index = i
    BY <2>1 DEF durableOK, imageOf, snapshotOf, exportSnapshot
  <2>4. decode(imageOf(d), i, d.conf) = ref[i + 1]
    BY <2>2, <2>3
  <2> QED
    BY <2>1, <2>4, SMTT(20) DEF durableOK
<1> QED
  BY <1>1, Inductive, PTL

\* Chunks and snapshot metadata leave the applied index alone.
LEMMA StageChunksApplied ==
    ASSUME NEW d \in Disk, NEW s, NEW n
    PROVE  /\ stageChunks(d, s, n).applied = d.applied
           /\ [stageChunks(d, s, n) EXCEPT !.snapIndex = s.index].applied = d.applied
           /\ [stageChunks(d, s, n) EXCEPT !.snapIndex = s.index, !.commit = s.index].applied
              = d.applied
  BY DEF stageChunks, Disk

\* No step moves a durable applied index back.
LEMMA AppliedGrows ==
    ASSUME IInv, [Next]_vars, NEW r \in Replicas
    PROVE  disk[r].applied <= disk'[r].applied
<1>0. disk \in [Replicas -> Disk] /\ disk[r].applied \in Nat
  BY DEF IInv, Disk
<1>1. CASE disk' = disk
  BY <1>0, <1>1, SMTT(20)
<1>2. ASSUME NEW q \in Replicas, NEW d \in Disk, disk' = [disk EXCEPT ![q] = d],
             disk[q].applied <= d.applied
      PROVE  disk[r].applied <= disk'[r].applied
  BY <1>0, <1>2, SMTT(20)
<1>3. ASSUME NEW q \in Replicas, PersistEntries(q)
      PROVE  disk[r].applied <= disk'[r].applied
  <2>1. disk'[r].applied = disk[r].applied
    BY <1>0, <1>3, SMTT(20) DEF PersistEntries, persistEntries, Disk
  <2> QED
    BY <1>0, <2>1, SMTT(20)
<1>4. ASSUME NEW q \in Replicas, ApplyEntry(q) \/ CrashAfterApplyBatch(q)
      PROVE  disk[r].applied <= disk'[r].applied
  <2> DEFINE next == apply(mem[q], log[mem[q].lastApplied + 1])
             d2   == applyBatch(disk[q], mem[q], next)
  <2>1. applying(q) /\ disk' = [disk EXCEPT ![q] = d2]
    BY <1>4 DEF ApplyEntry, CrashAfterApplyBatch
  <2>2. d2 \in Disk /\ d2.applied = disk[q].applied + 1
    <3>1. /\ refOK(log, ref)
          /\ replicaOK(log, ref, disk[q], mem[q], "apply", upto[q], incoming[q], {})
      BY <2>1, ApplyingFacts
    <3>2. batchOK(log, ref, disk[q], mem[q], next, d2)
      BY <3>1, ApplyBatchDisk
    <3> HIDE DEF d2, next
    <3> QED
      BY <3>2 DEF batchOK
  <2> HIDE DEF d2
  <2>3. disk[q].applied <= d2.applied
    <3>1. disk[q].applied \in Nat
      BY IInvFacts DEF Disk
    <3>2. \A i \in Nat : i <= i + 1
      BY SMTT(20)
    <3> QED
      BY <2>2, <3>1, <3>2
  <2> QED
    BY <2>1, <2>2, <2>3, <1>2
<1>5. ASSUME NEW q \in Replicas,
             FinishCreateSnapshot(q) \/ CrashInCreateSnapshot(q)
             \/ PersistSnapshot(q) \/ CrashInPersistSnapshot(q)
      PROVE  disk[r].applied <= disk'[r].applied
  <2>1. disk'[r].applied = disk[r].applied
    <3>0. disk[q] \in Disk
      BY <1>0
    <3>1. CASE FinishCreateSnapshot(q)
      BY <1>0, <3>0, <3>1, StageChunksApplied, SMTT(20) DEF FinishCreateSnapshot
    <3>2. CASE CrashInCreateSnapshot(q)
      BY <1>0, <3>0, <3>2, StageChunksApplied, SMTT(20) DEF CrashInCreateSnapshot
    <3>3. CASE PersistSnapshot(q)
      BY <1>0, <3>0, <3>3, StageChunksApplied, SMTT(20) DEF PersistSnapshot
    <3>4. CASE CrashInPersistSnapshot(q)
      BY <1>0, <3>0, <3>4, StageChunksApplied, SMTT(20) DEF CrashInPersistSnapshot
    <3> QED
      BY <1>5, <3>1, <3>2, <3>3, <3>4
  <2> QED
    BY <1>0, <2>1, SMTT(20)
<1>6. ASSUME NEW q \in Replicas, InstallSnapshot(q) \/ CrashInInstallSnapshot(q)
      PROVE  disk[r].applied <= disk'[r].applied
  <2> DEFINE s == snapshotOf(ref, disk[q].commit)
  <2>1. /\ refOK(log, ref) /\ incoming[q] = {s}
        /\ disk[q] \in Disk /\ durableOK(log, ref, disk[q]) /\ stagedOK(ref, disk[q])
        /\ disk[q].generation < MaxGeneration /\ disk[q].meta < disk[q].commit
        /\ \A i \in disk[q].entries : i < disk[q].commit
    BY <1>6, InstallingFacts DEF InstallSnapshot, CrashInInstallSnapshot
  <2>2. \/ \E p \in stagedParts(s.image) : disk' = [disk EXCEPT ![q] = stageImage(disk[q], p)]
        \/ disk' = [disk EXCEPT ![q] = publishImage(disk[q], s)]
    BY <1>6, <2>1 DEF InstallSnapshot, CrashInInstallSnapshot
  <2>3. CASE \E p \in stagedParts(s.image) : disk' = [disk EXCEPT ![q] = stageImage(disk[q], p)]
    <3>1. PICK p \in stagedParts(s.image) : disk' = [disk EXCEPT ![q] = stageImage(disk[q], p)]
      BY <2>3
    <3> DEFINE d2 == stageImage(disk[q], p)
    <3>a. partOf(p, ref[disk[q].commit + 1])
      BY StagedPart
    <3>2. d2 \in Disk /\ durableOK(log, ref, d2) /\ stagedOK(ref, d2)
      BY <2>1, <3>a, StageImageDisk
    <3>3. d2.applied = disk[q].applied
      BY <2>1 DEF stageImage, Disk
    <3>4. disk[q].applied <= d2.applied /\ disk' = [disk EXCEPT ![q] = d2]
      <4>1. \A i \in Nat : i <= i
        BY SMTT(20)
      <4> QED
        BY <2>1, <3>1, <3>3, <4>1 DEF Disk
    <3> HIDE DEF d2
    <3> QED
      BY <3>2, <3>4, <1>2
  <2>4. CASE disk' = [disk EXCEPT ![q] = publishImage(disk[q], s)]
    <3> DEFINE d2 == publishImage(disk[q], s)
    <3>1. d2 \in Disk /\ d2.applied = disk[q].commit
      <4>1. publishedOK(log, ref, disk[q], d2)
        BY <2>1, PublishImageDisk
      <4> HIDE DEF d2
      <4> QED
        BY <4>1 DEF publishedOK
    <3>2. disk[q].applied <= d2.applied
      BY <2>1, <3>1 DEF durableOK
    <3>3. disk' = [disk EXCEPT ![q] = d2]
      BY <2>4
    <3> HIDE DEF d2
    <3> QED
      BY <3>1, <3>2, <3>3, <1>2
  <2> QED
    BY <2>2, <2>3, <2>4
<1>7. CASE Next
  <2>1. ASSUME NEW e \in Entries, CommitEntry(e) PROVE disk' = disk
    BY <2>1 DEF CommitEntry
  <2>2. ASSUME NEW q \in Replicas, Open(q) \/ BeginCreateSnapshot(q) \/ Crash(q)
        PROVE  disk' = disk
    BY <2>2 DEF Open, BeginCreateSnapshot, Crash
  <2> QED
    BY <1>1, <1>3, <1>4, <1>5, <1>6, <1>7, <2>1, <2>2 DEF Next, Step, Death
<1>8. CASE UNCHANGED vars
  BY <1>1, <1>8 DEF vars
<1> QED
  BY <1>7, <1>8

\* No entry, snapshot, crash or restart takes back a durable applied index, a
\* published result or a history row.
THEOREM DurableMonotone == Spec => DurableNeverRegresses
<1>1. ASSUME IInv, IInv', [Next]_vars, NEW r \in Replicas
      PROVE  /\ disk[r].applied <= disk'[r].applied
             /\ imageOf(disk[r]).results \subseteq imageOf(disk'[r]).results
             /\ imageOf(disk[r]).history \subseteq imageOf(disk'[r]).history
  <2> DEFINE i == disk[r].applied
             j == disk'[r].applied
  <2>1. i <= j
    BY <1>1, AppliedGrows
  <2>2. /\ refOK(log, ref) /\ i \in 0 .. Len(log) /\ Len(log) \in Nat /\ Len(ref) = Len(log) + 1
        /\ imageOf(disk[r]).results = ref[i + 1].results
        /\ imageOf(disk[r]).history = ref[i + 1].history
    <3>1. refOK(log, ref) /\ durableOK(log, ref, disk[r])
      BY <1>1, IInvFacts DEF replicaOK
    <3>2. Len(log) \in Nat /\ Len(ref) = Len(log) + 1
      BY <3>1, LogLength
    <3> QED
      BY <3>1, <3>2 DEF durableOK, imageOf
  <2>3. /\ refOK(log', ref') /\ replicaOK(log', ref', disk'[r], mem'[r], pc'[r], upto'[r],
                                         incoming'[r], creating'[r])
    BY <1>1 DEF IInv
  <2>4. /\ j \in 0 .. Len(log') /\ Len(log') \in Nat /\ Len(ref') = Len(log') + 1
        /\ imageOf(disk'[r]).results = ref'[j + 1].results
        /\ imageOf(disk'[r]).history = ref'[j + 1].history
    <3>1. Len(log') \in Nat /\ Len(ref') = Len(log') + 1
      BY <2>3, LogLength
    <3> QED
      BY <2>3, <3>1 DEF replicaOK, durableOK, imageOf
  <2>5. ref'[i + 1] = ref[i + 1]
    <3>1. CASE ref' = ref
      BY <3>1
    <3>2. ASSUME NEW e \in Entries, CommitEntry(e) PROVE ref'[i + 1] = ref[i + 1]
      <4>1. Len(log) < MaxLog /\ ref' = Append(ref, apply(ref[Len(ref)], e))
        BY <3>2 DEF CommitEntry
      <4>2. \A k \in 1 .. Len(ref) : ref'[k] = ref[k]
        BY <4>1, <2>2, CommitRef
      <4> QED
        BY <4>2, <2>2, SMTT(20)
    <3>3. ASSUME NEW q \in Replicas, Step(q) \/ Death(q) PROVE ref' = ref
      BY <3>3 DEF Step, Death, Open, PersistEntries, ApplyEntry, BeginCreateSnapshot,
         FinishCreateSnapshot, PersistSnapshot, InstallSnapshot, Crash, CrashAfterApplyBatch,
         CrashInCreateSnapshot, CrashInPersistSnapshot, CrashInInstallSnapshot, Die
    <3>4. CASE UNCHANGED vars
      BY <3>1, <3>4 DEF vars
    <3>5. CASE Next
      BY <3>1, <3>2, <3>3, <3>5 DEF Next
    <3> QED
      BY <1>1, <3>4, <3>5
  <2>6. i + 1 \in 1 .. Len(ref') /\ j + 1 \in 1 .. Len(ref') /\ i + 1 <= j + 1
    <3> HIDE DEF i, j
    <3>1. i \in Nat
      BY <2>2, SMTT(20)
    <3>2. j \in 0 .. Len(log') /\ Len(log') \in Nat /\ Len(ref') = Len(log') + 1
      BY <2>4
    <3> QED
      BY <2>1, <3>1, <3>2, SMTT(20)
  <2>7. /\ ref'[i + 1].results \subseteq ref'[j + 1].results
        /\ ref'[i + 1].history \subseteq ref'[j + 1].history
    BY <2>3, <2>6 DEF refOK
  <2> QED
    BY <2>1, <2>2, <2>4, <2>5, <2>7
<1>2. IInv /\ IInv' /\ [Next]_vars =>
        [\A r \in Replicas :
          /\ disk[r].applied <= disk'[r].applied
          /\ imageOf(disk[r]).results \subseteq imageOf(disk'[r]).results
          /\ imageOf(disk[r]).history \subseteq imageOf(disk'[r]).history]_vars
  BY <1>1
<1> QED
  BY <1>2, Inductive, PTL DEF Spec, DurableNeverRegresses

-----------------------------------------------------------------------------
(***************************************************************************)
(* Outcomes of commands, and what a stopped replica finds.                 *)
(***************************************************************************)

\* The row a command writes at index n.
rowAt(c, n) == [key |-> c.key, ver |-> c.ver, seq |-> n, val |-> c.val]

\* The command writes its row.
good(s, c) == c.ver \notin s.versions /\ ~ conditionFailed(s, c)

\* The result of a command that binds its operation.
resultAt(s, c) ==
    result(c, IF c.ver \in s.versions THEN "versionConflict"
              ELSE IF good(s, c) THEN "success" ELSE "precondition",
           IF good(s, c) THEN {rowAt(c, s.lastApplied + 1)} ELSE {},
           good(s, c) /\ rowsOf(s.rows, c.key) = {})

\* What apply does to results, history and reserved versions.
LEMMA ApplyPut ==
    ASSUME NEW s \in State, NEW e \in Entry, e.kind = "put"
    PROVE  LET c    == e.cmd
               next == apply(s, e)
           IN  IF resultsOf(s.results, c.op) # {}
               THEN /\ next.results = s.results /\ next.history = s.history
                    /\ next.versions = s.versions
               ELSE /\ next.versions = s.versions \cup {c.ver}
                    /\ next.results = s.results \cup {resultAt(s, c)}
                    /\ next.history = IF good(s, c)
                                      THEN s.history \cup {rowAt(c, s.lastApplied + 1)}
                                      ELSE s.history
<1> DEFINE c == e.cmd
           next == apply(s, e)
           row == rowAt(c, s.lastApplied + 1)
<1> DEFINE n == s.lastApplied + 1
           mid == applyCommand(s, c, n)
<1>1. next = [mid EXCEPT !.lastApplied = n]
  BY DEF apply
<1>2. CASE resultsOf(s.results, c.op) # {}
  <2>1. mid = s
    BY <1>2 DEF applyCommand
  <2> HIDE DEF mid, n
  <2> QED
    BY <1>1, <1>2, <2>1 DEF State
<1>3. CASE resultsOf(s.results, c.op) = {} /\ c.ver \in s.versions
  <2> DEFINE x == result(c, "versionConflict", {}, FALSE)
  <2>1. mid = [s EXCEPT !.results = @ \cup {x}]
    BY <1>3 DEF applyCommand
  <2> HIDE DEF mid, n, x
  <2>2. next.results = s.results \cup {x} /\ next.history = s.history /\ next.versions = s.versions
    BY <1>1, <2>1 DEF State
  <2>3. ~ good(s, c) /\ s.versions \cup {c.ver} = s.versions
    BY <1>3 DEF good
  <2> QED
    BY <1>3, <2>2, <2>3 DEF x, resultAt
<1>4. CASE resultsOf(s.results, c.op) = {} /\ c.ver \notin s.versions /\ conditionFailed(s, c)
  <2> DEFINE x == result(c, "precondition", {}, FALSE)
  <2>1. mid = [s EXCEPT !.versions = @ \cup {c.ver}, !.results = @ \cup {x}]
    BY <1>4 DEF applyCommand
  <2> HIDE DEF mid, n, x
  <2>2. /\ next.results = s.results \cup {x} /\ next.history = s.history
        /\ next.versions = s.versions \cup {c.ver}
    BY <1>1, <2>1 DEF State
  <2> QED
    BY <1>4, <2>2 DEF x, resultAt, good
<1>5. CASE resultsOf(s.results, c.op) = {} /\ c.ver \notin s.versions /\ ~ conditionFailed(s, c)
  <2> DEFINE current == rowsOf(s.rows, c.key)
             x == result(c, "success", {row}, current = {})
  <2>1. mid = [s EXCEPT !.versions = @ \cup {c.ver}, !.rows = (@ \ current) \cup {row},
                        !.history = @ \cup {row}, !.results = @ \cup {x}]
    BY <1>5 DEF applyCommand, rowAt
  <2> HIDE DEF mid, n, x, current
  <2>2. /\ next.results = s.results \cup {x} /\ next.history = s.history \cup {row}
        /\ next.versions = s.versions \cup {c.ver}
    BY <1>1, <2>1 DEF State
  <2>3. good(s, c)
    BY <1>5 DEF good
  <2> QED
    BY <1>5, <2>2, <2>3 DEF x, current, resultAt
<1> QED
  BY <1>2, <1>3, <1>4, <1>5

\* Its operation has a result once a command is applied.
LEMMA ApplyBinds ==
    ASSUME NEW s \in State, NEW e \in Entry, e.kind = "put"
    PROVE  resultsOf(apply(s, e).results, e.cmd.op) # {}
<1>1. CASE resultsOf(s.results, e.cmd.op) # {}
  <2>1. apply(s, e).results = s.results
    BY <1>1, ApplyPut
  <2> QED
    BY <1>1, <2>1
<1>2. CASE resultsOf(s.results, e.cmd.op) = {}
  <2>1. apply(s, e).results = s.results \cup {resultAt(s, e.cmd)}
    BY <1>2, ApplyPut
  <2>2. resultAt(s, e.cmd).cmd = e.cmd
    BY DEF resultAt, result
  <2> QED
    BY <2>1, <2>2 DEF resultsOf
<1> QED
  BY <1>1, <1>2

LEMMA ApplyOther ==
    ASSUME NEW s \in State, NEW e \in Entry, e.kind # "put", NEW next, next = apply(s, e)
    PROVE  next.results = s.results /\ next.history = s.history /\ next.versions = s.versions
<1> DEFINE n == s.lastApplied + 1
<1>1. CASE e.kind = "conf"
  <2>1. next = [[s EXCEPT !.conf = ApplyConfChange(@, e)] EXCEPT !.lastApplied = n]
    BY <1>1 DEF apply
  <2> HIDE DEF n
  <2> QED
    BY <2>1 DEF State
<1>2. CASE e.kind # "conf"
  <2>1. next = [s EXCEPT !.lastApplied = n]
    BY <1>2 DEF apply
  <2> HIDE DEF n
  <2> QED
    BY <2>1 DEF State
<1> QED
  BY <1>1, <1>2

-----------------------------------------------------------------------------
(***************************************************************************)
(* Replies.                                                                *)
(***************************************************************************)

\* The state after the whole log.
final == ref[Len(ref)]

LEMMA FinalFacts ==
    ASSUME refOK(log, ref)
    PROVE  /\ final \in State /\ wellFormed(final) /\ final.lastApplied = Len(log)
           /\ \A i \in 1 .. Len(ref) : ref[i].results \subseteq final.results
           /\ \A x, y \in final.results : x.cmd.op = y.cmd.op => x = y
<1>1. ref \in Seq(State) /\ Len(log) \in Nat /\ Len(ref) = Len(log) + 1 /\ Len(ref) \in 1 .. Len(ref)
  BY SMTT(20) DEF refOK
<1>2. final \in State /\ wellFormed(final) /\ final.lastApplied = Len(log)
  BY <1>1, SMTT(20) DEF refOK, final
<1>3. \A i \in 1 .. Len(ref) : ref[i].results \subseteq final.results
  <2>1. \A i \in 1 .. Len(ref) : i <= Len(ref)
    BY <1>1, SMTT(20)
  <2> QED
    BY <1>1, <2>1 DEF refOK, final
<1>4. \A x, y \in final.results : x.cmd.op = y.cmd.op => x = y
  BY <1>2 DEF wellFormed, validImage, exportSnapshot
<1> QED
  BY <1>2, <1>3, <1>4

\* A later state with one result per operation gives the answer of an earlier.
LEMMA ReplyStays ==
    ASSUME NEW s, NEW t, s.results \subseteq t.results,
           \A x, y \in t.results : x.cmd.op = y.cmd.op => x = y,
           NEW c, resultsOf(s.results, c.op) # {}
    PROVE  resultsOf(t.results, c.op) # {} /\ reply(t, c) = reply(s, c)
<1>1. resultsOf(t.results, c.op) = resultsOf(s.results, c.op)
  BY DEF resultsOf
<1> QED
  BY <1>1 DEF reply

\* Every waiter was told what the whole log says of its command.
repliesOK ==
    \A a \in replies : /\ resultsOf(final.results, a.cmd.op) # {}
                       /\ a.reply = reply(final, a.cmd)

LEMMA ApplyReplies ==
    ASSUME IInv, repliesOK, NEW r \in Replicas, ApplyEntry(r)
    PROVE  repliesOK'
<1> DEFINE k == mem[r].lastApplied + 1
           e == log[k]
           next == apply(mem[r], e)
<1>1. /\ refOK(log, ref)
      /\ replicaOK(log, ref, disk[r], mem[r], "apply", upto[r], incoming[r], {})
  BY ApplyingFacts DEF ApplyEntry
<1>2. /\ mem[r] \in State /\ k \in 1 .. Len(log) /\ next \in State
      /\ \E i \in 1 .. Len(ref) : next = ref[i]
  <2>1. /\ k \in 1 .. Len(log) /\ next \in State
        /\ \E d \in Disk : durableOK(log, ref, d) /\ next = ref[d.applied + 1]
    <3>1. batchOK(log, ref, disk[r], mem[r], next, applyBatch(disk[r], mem[r], next))
      BY <1>1, ApplyBatchDisk
    <3> HIDE DEF next
    <3> QED
      BY <3>1 DEF batchOK
  <2>2. Len(log) \in Nat /\ Len(ref) = Len(log) + 1
    BY <1>1, LogLength
  <2>3. \A n \in Nat : \A i \in 0 .. n : i + 1 \in 1 .. n + 1
    BY SMTT(20)
  <2>4. \A d : durableOK(log, ref, d) => d.applied + 1 \in 1 .. Len(ref)
    BY <2>2, <2>3 DEF durableOK
  <2> QED
    BY <2>1, <2>4, IInvFacts
<1>3. e \in Entry
  BY <1>1, <1>2, LogEntries
<1>4. /\ log' = log /\ ref' = ref
      /\ replies' = IF e.kind = "put"
                    THEN replies \cup {[cmd |-> e.cmd, reply |-> reply(next, e.cmd)]}
                    ELSE replies
  BY DEF ApplyEntry
<1>5. final' = final
  BY <1>4 DEF final
<1>6. e.kind = "put" => /\ resultsOf(final.results, e.cmd.op) # {}
                        /\ reply(final, e.cmd) = reply(next, e.cmd)
  <2> SUFFICES ASSUME e.kind = "put"
               PROVE  /\ resultsOf(final.results, e.cmd.op) # {}
                      /\ reply(final, e.cmd) = reply(next, e.cmd)
    OBVIOUS
  <2> HIDE DEF k, e
  <2>1. resultsOf(next.results, e.cmd.op) # {}
    BY <1>2, <1>3, ApplyBinds
  <2> HIDE DEF next
  <2>2. next.results \subseteq final.results
        /\ \A x, y \in final.results : x.cmd.op = y.cmd.op => x = y
    BY <1>1, <1>2, FinalFacts
  <2> HIDE DEF final
  <2>3. PICK s, t, c : s = next /\ t = final /\ c = e.cmd
    OBVIOUS
  <2>4. /\ s.results \subseteq t.results /\ resultsOf(s.results, c.op) # {}
        /\ \A x, y \in t.results : x.cmd.op = y.cmd.op => x = y
    BY <2>1, <2>2, <2>3
  <2>5. resultsOf(t.results, c.op) # {} /\ reply(t, c) = reply(s, c)
    BY <2>4, ReplyStays, ZenonT(60)
  <2> QED
    BY <2>3, <2>5
<1> HIDE DEF next, e
<1> QED
  BY <1>4, <1>5, <1>6, SMTT(20) DEF repliesOK

\* A committed entry extends the log and the run by one.
LEMMA CommitFinal ==
    ASSUME IInv, NEW e \in Entries, CommitEntry(e)
    PROVE  /\ refOK(log, ref) /\ e \in Entry /\ log' = Append(log, e) /\ replies' = replies
           /\ final' = apply(final, e) /\ final \in State /\ wellFormed(final)
           /\ final.lastApplied = Len(log)
           /\ wellFormed(final') /\ final.results \subseteq final'.results
<1>1. refOK(log, ref) /\ e \in Entry /\ ref \in Seq(State) /\ Len(ref) \in Nat
  BY ShardAssumption, SMTT(20) DEF IInv, refOK
<1>2. /\ log' = Append(log, e) /\ replies' = replies
      /\ ref' = Append(ref, apply(final, e))
  BY DEF CommitEntry, final
<1>3. final \in State /\ wellFormed(final) /\ final.lastApplied = Len(log)
  BY <1>1, FinalFacts
<1> DEFINE next == apply(final, e)
<1>4. next \in State /\ wellFormed(next) /\ final.results \subseteq next.results
  BY <1>1, <1>3, ApplyWellFormed
<1> HIDE DEF next
<1>5. ref'[Len(ref')] = next
  BY <1>1, <1>2, <1>4, SMTT(20) DEF next
<1>6. final' = next
  BY <1>5 DEF final
<1> QED
  BY <1>1, <1>2, <1>3, <1>4, <1>6 DEF next

LEMMA CommitReplies ==
    ASSUME IInv, repliesOK, NEW e \in Entries, CommitEntry(e)
    PROVE  repliesOK'
<1>1. /\ replies' = replies /\ wellFormed(final') /\ final.results \subseteq final'.results
  BY CommitFinal
<1>2. \A x, y \in final'.results : x.cmd.op = y.cmd.op => x = y
  BY <1>1 DEF wellFormed, validImage, exportSnapshot
<1>3. \A a \in replies : /\ resultsOf(final'.results, a.cmd.op) # {}
                         /\ a.reply = reply(final', a.cmd)
  <2>1. PICK t : t = final'
    OBVIOUS
  <2>2. final.results \subseteq t.results /\ \A x, y \in t.results : x.cmd.op = y.cmd.op => x = y
    BY <1>1, <1>2, <2>1
  <2>3. \A a \in replies : /\ resultsOf(final.results, a.cmd.op) # {}
                           /\ a.reply = reply(final, a.cmd)
    BY DEF repliesOK
  <2>4. \A a \in replies : /\ resultsOf(t.results, a.cmd.op) # {}
                           /\ reply(t, a.cmd) = reply(final, a.cmd)
    <3> SUFFICES ASSUME NEW a \in replies
                 PROVE  /\ resultsOf(t.results, a.cmd.op) # {}
                        /\ reply(t, a.cmd) = reply(final, a.cmd)
      OBVIOUS
    <3>1. PICK c : c = a.cmd
      OBVIOUS
    <3>2. resultsOf(final.results, c.op) # {}
      BY <2>3, <3>1
    <3>3. PICK f : f = final
      OBVIOUS
    <3>4. resultsOf(t.results, c.op) # {} /\ reply(t, c) = reply(f, c)
      <4>1. /\ f.results \subseteq t.results /\ resultsOf(f.results, c.op) # {}
            /\ \A x, y \in t.results : x.cmd.op = y.cmd.op => x = y
        BY <2>2, <3>2, <3>3
      <4> QED
        BY <4>1, ReplyStays
    <3> QED
      BY <3>1, <3>3, <3>4
  <2> QED
    BY <2>1, <2>3, <2>4
<1> QED
  BY <1>1, <1>3 DEF repliesOK

\* Every other step tells nobody anything and leaves the log alone.
LEMMA QuietReplies ==
    ASSUME [Next]_vars, ~ \E e \in Entries : CommitEntry(e),
           ~ \E r \in Replicas : ApplyEntry(r)
    PROVE  log' = log /\ ref' = ref /\ replies' = replies
BY DEF Next, Step, Death, Open, PersistEntries, BeginCreateSnapshot, FinishCreateSnapshot,
   PersistSnapshot, InstallSnapshot, Crash, CrashAfterApplyBatch, CrashInCreateSnapshot,
   CrashInPersistSnapshot, CrashInInstallSnapshot, Die, vars

LEMMA RepliesInductive == Spec => []repliesOK
<1>1. Init => repliesOK
  BY DEF Init, repliesOK
<1>2. IInv /\ repliesOK /\ [Next]_vars => repliesOK'
  <2> SUFFICES ASSUME IInv, repliesOK, [Next]_vars PROVE repliesOK'
    OBVIOUS
  <2>1. ASSUME NEW e \in Entries, CommitEntry(e) PROVE repliesOK'
    BY <2>1, CommitReplies
  <2>2. ASSUME NEW r \in Replicas, ApplyEntry(r) PROVE repliesOK'
    BY <2>2, ApplyReplies
  <2>3. CASE log' = log /\ ref' = ref /\ replies' = replies
    BY <2>3 DEF repliesOK, final
  <2> QED
    BY <2>1, <2>2, <2>3, QuietReplies
<1> QED
  BY <1>1, <1>2, Inductive, PTL DEF Spec

\* Whichever replica, attempt or restart answers, the waiters of a command are
\* told the same, and of the commands that reuse an operation id at most one
\* is answered with a result (logicalState.apply, Replica.notify).
THEOREM ShardRepliesAgree == Spec => []RepliesAgree
<1>1. IInv /\ repliesOK => RepliesAgree
  <2> SUFFICES ASSUME IInv, repliesOK, NEW a \in replies, NEW b \in replies
               PROVE  /\ a.cmd = b.cmd => a.reply = b.reply
                      /\ a.cmd.op = b.cmd.op /\ a.cmd # b.cmd => a.reply = {} \/ b.reply = {}
    BY DEF RepliesAgree
  <2>1. a.reply = reply(final, a.cmd) /\ b.reply = reply(final, b.cmd)
    BY DEF repliesOK
  <2>2. \A x, y \in final.results : x.cmd.op = y.cmd.op => x = y
    BY FinalFacts DEF IInv
  <2>3. ASSUME a.cmd.op = b.cmd.op, a.reply # {}, b.reply # {}
        PROVE  a.cmd = b.cmd
    BY <2>1, <2>2, <2>3 DEF reply, resultsOf
  <2> QED
    BY <2>1, <2>3
<1> QED
  BY <1>1, Inductive, RepliesInductive, PTL

-----------------------------------------------------------------------------
(***************************************************************************)
(* Outcomes.                                                               *)
(***************************************************************************)

\* Entry i of the log l is the first with its operation id.
bindsIn(l, i) ==
    /\ l[i].kind = "put"
    /\ \A j \in 1 .. i - 1 : l[j].kind = "put" => l[j].cmd.op # l[i].cmd.op

reused(l, i) == \E j \in 1 .. i - 1 : bindsIn(l, j) /\ l[j].cmd.ver = l[i].cmd.ver

latest(l, s, i) == latestBefore(s.history, l[i].cmd.key, i)

holds(l, s, i) ==
    /\ l[i].cmd.create => latest(l, s, i) = {}
    /\ \A v \in l[i].cmd.match : \E h \in latest(l, s, i) : h.ver = v

\* What the log l says of its entry i is so in state s.
decided(l, s, i) ==
    /\ result(l[i].cmd, IF reused(l, i) THEN "versionConflict"
                        ELSE IF holds(l, s, i) THEN "success" ELSE "precondition",
              IF ~ reused(l, i) /\ holds(l, s, i) THEN {rowAt(l[i].cmd, i)} ELSE {},
              ~ reused(l, i) /\ holds(l, s, i) /\ latest(l, s, i) = {}) \in s.results
    /\ rowAt(l[i].cmd, i) \in s.history <=> ~ reused(l, i) /\ holds(l, s, i)

\* s is what l decides: every operation of the log has its result, results
\* and reserved versions are those of the entries that bind.
outcomesIn(l, s) ==
    /\ \A j \in 1 .. Len(l) : l[j].kind = "put" => l[j].cmd.op \in opsOf(s.results)
    /\ \A o \in opsOf(s.results) : \E j \in 1 .. Len(l) : bindsIn(l, j) /\ l[j].cmd.op = o
    /\ \A v : v \in s.versions <=> \E j \in 1 .. Len(l) : bindsIn(l, j) /\ l[j].cmd.ver = v
    /\ \A i \in 1 .. Len(l) : bindsIn(l, i) => decided(l, s, i)

\* The rows of a key are its latest history.
LEMMA RowsAreLatest ==
    ASSUME NEW s \in State, wellFormed(s), NEW key
    PROVE  latestBefore(s.history, key, s.lastApplied + 1) = rowsOf(s.rows, key)
<1>1. /\ s.history \subseteq Row /\ s.rows \subseteq Row /\ s.lastApplied \in Nat
  BY DEF State
<1>2. /\ \A h \in s.history : h.seq <= s.lastApplied /\ h.seq \in Nat
      /\ \A g, h \in s.history : g.seq = h.seq => g = h
      /\ \A r \in s.rows : r \in s.history /\ \A h \in s.history : h.key = r.key => h.seq <= r.seq
      /\ \A h \in s.history : \E r \in s.rows : r.key = h.key
  BY <1>1 DEF wellFormed, validImage, exportSnapshot, historyConsistent, headsConsistent, Row
<1>3. \A h \in s.history : h.seq < s.lastApplied + 1
  BY <1>1, <1>2, SMTT(20)
<1>4. ASSUME NEW h \in latestBefore(s.history, key, s.lastApplied + 1)
      PROVE  h \in rowsOf(s.rows, key)
  <2>1. h \in s.history /\ h.key = key /\ \A g \in s.history : g.key = key => g.seq <= h.seq
    BY <1>3 DEF latestBefore
  <2>2. PICK r \in s.rows : r.key = key
    BY <1>2, <2>1
  <2>3. r.seq <= h.seq /\ h.seq <= r.seq /\ r \in s.history /\ r.seq \in Nat /\ h.seq \in Nat
    BY <1>2, <2>1, <2>2
  <2>4. r = h
    BY <1>2, <2>1, <2>3, SMTT(20)
  <2> QED
    BY <2>1, <2>2, <2>4 DEF rowsOf
<1>5. ASSUME NEW r \in rowsOf(s.rows, key)
      PROVE  r \in latestBefore(s.history, key, s.lastApplied + 1)
  BY <1>2, <1>3 DEF latestBefore, rowsOf
<1> QED
  BY <1>4, <1>5

\* A later row changes nothing about an earlier entry.
LEMMA DecidedStays ==
    ASSUME NEW l, NEW k, NEW n \in Nat, \A j \in 1 .. n : k[j] = l[j],
           NEW i \in 1 .. n, NEW s, NEW t,
           s.results \subseteq t.results, s.history \subseteq t.history,
           \A h \in t.history \ s.history : h.seq = n + 1
    PROVE  /\ bindsIn(k, i) = bindsIn(l, i)
           /\ decided(l, s, i) => decided(k, t, i)
<1>1. \A j \in 1 .. i : bindsIn(k, j) = bindsIn(l, j)
  <2> SUFFICES ASSUME NEW j \in 1 .. i PROVE bindsIn(k, j) = bindsIn(l, j)
    OBVIOUS
  <2>1. j \in 1 .. n /\ \A m \in 1 .. j - 1 : m \in 1 .. n
    BY SMTT(20)
  <2>2. k[j] = l[j] /\ \A m \in 1 .. j - 1 : k[m] = l[m]
    BY <2>1
  <2> QED
    BY <2>2 DEF bindsIn
<1>2. \A j \in 1 .. i - 1 : j \in 1 .. i /\ k[j] = l[j]
  BY SMTT(20)
<1>3. reused(k, i) = reused(l, i)
  BY <1>1, <1>2 DEF reused
<1>4. \A h \in t.history : h.seq < i => h \in s.history
  BY SMTT(20)
<1>5. \A key : latestBefore(t.history, key, i) = latestBefore(s.history, key, i)
  BY <1>4 DEF latestBefore
<1>6. latest(k, t, i) = latest(l, s, i) /\ (holds(k, t, i) <=> holds(l, s, i))
  BY <1>5, SMTT(20) DEF latest, holds
<1>7. rowAt(l[i].cmd, i) \in t.history <=> rowAt(l[i].cmd, i) \in s.history
  <2>1. rowAt(l[i].cmd, i).seq = i /\ i # n + 1
    BY SMTT(20) DEF rowAt
  <2> QED
    BY <2>1
<1>8. ASSUME decided(l, s, i) PROVE decided(k, t, i)
  <2>1. k[i] = l[i]
    OBVIOUS
  <2>2. CASE reused(l, i)
    BY <1>3, <1>6, <1>7, <1>8, <2>1, <2>2 DEF decided
  <2>3. CASE ~ reused(l, i) /\ holds(l, s, i)
    BY <1>3, <1>6, <1>7, <1>8, <2>1, <2>3 DEF decided
  <2>4. CASE ~ reused(l, i) /\ ~ holds(l, s, i)
    BY <1>3, <1>6, <1>7, <1>8, <2>1, <2>4 DEF decided
  <2> QED
    BY <2>2, <2>3, <2>4
<1> QED
  BY <1>1, <1>8, SMTT(20)

\* One more entry: the run still does what the log says.
LEMMA CommitOutcomes ==
    ASSUME NEW l \in Seq(Entries), NEW s \in State, wellFormed(s), s.lastApplied = Len(l),
           outcomesIn(l, s), NEW e \in Entry, e \in Entries
    PROVE  outcomesIn(Append(l, e), apply(s, e))
<1> DEFINE n == Len(l)
           m == n + 1
           k == Append(l, e)
           t == apply(s, e)
           c == e.cmd
<1>1. /\ n \in Nat /\ Len(k) = m /\ k[m] = e /\ \A j \in 1 .. n : k[j] = l[j]
      /\ \A j \in 1 .. m : j \in 1 .. n \/ j = m
      /\ m \in 1 .. m /\ \A j \in 1 .. n : j \in 1 .. m
  BY SMTT(20)
<1>2. /\ s.results \subseteq t.results /\ s.history \subseteq t.history
      /\ s.lastApplied = n
  BY ApplyWellFormed
<1>3. \A h \in s.history : h.seq <= n
  BY DEF wellFormed, validImage, historyConsistent, exportSnapshot
<1>4. /\ \A j \in 1 .. n : l[j].kind = "put" => l[j].cmd.op \in opsOf(s.results)
      /\ \A o \in opsOf(s.results) : \E j \in 1 .. n : bindsIn(l, j) /\ l[j].cmd.op = o
      /\ \A v : v \in s.versions <=> \E j \in 1 .. n : bindsIn(l, j) /\ l[j].cmd.ver = v
      /\ \A i \in 1 .. n : bindsIn(l, i) => decided(l, s, i)
  BY DEF outcomesIn
<1> HIDE DEF k, t, n
<1>5. bindsIn(k, m) <=> e.kind = "put" /\ c.op \notin opsOf(s.results)
  <2>1. \A j \in 1 .. m - 1 : j \in 1 .. n /\ k[j] = l[j]
    BY <1>1, SMTT(20)
  <2>2. \A j \in 1 .. n : j \in 1 .. m - 1
    BY <1>1, SMTT(20)
  <2>3. ASSUME e.kind = "put", c.op \notin opsOf(s.results) PROVE bindsIn(k, m)
    BY <1>1, <1>4, <2>1, <2>3, SMTT(20) DEF bindsIn
  <2>4. ASSUME bindsIn(k, m), c.op \in opsOf(s.results) PROVE FALSE
    <3>1. PICK j \in 1 .. n : bindsIn(l, j) /\ l[j].cmd.op = c.op
      BY <1>4, <2>4
    <3> QED
      BY <1>1, <2>1, <2>2, <2>4, <3>1 DEF bindsIn
  <2>5. bindsIn(k, m) => e.kind = "put"
    BY <1>1 DEF bindsIn
  <2> QED
    BY <2>3, <2>4, <2>5
<1>6. c.op \notin opsOf(s.results) <=> resultsOf(s.results, c.op) = {}
  BY DEF opsOf, resultsOf
<1>7. CASE ~ bindsIn(k, m)
  <2>1. t.results = s.results /\ t.history = s.history /\ t.versions = s.versions
    <3>1. CASE e.kind # "put"
      BY <3>1, ApplyOther DEF t
    <3>2. CASE e.kind = "put"
      <4>1. resultsOf(s.results, c.op) # {}
        BY <1>5, <1>6, <1>7, <3>2
      <4> QED
        BY <3>2, <4>1, ApplyPut DEF t
    <3> QED
      BY <3>1, <3>2
  <2>2. \A i \in 1 .. n : bindsIn(k, i) = bindsIn(l, i) /\ (decided(l, s, i) => decided(k, t, i))
    BY <1>1, <1>2, <2>1, DecidedStays
  <2>3. \A j \in 1 .. Len(k) : k[j].kind = "put" => k[j].cmd.op \in opsOf(t.results)
    BY <1>1, <1>4, <1>5, <1>7, <2>1
  <2>4. \A o \in opsOf(t.results) : \E j \in 1 .. Len(k) : bindsIn(k, j) /\ k[j].cmd.op = o
    <3> SUFFICES ASSUME NEW o \in opsOf(s.results)
                 PROVE  \E j \in 1 .. m : bindsIn(k, j) /\ k[j].cmd.op = o
      BY <1>1, <2>1
    <3>1. PICK j \in 1 .. n : bindsIn(l, j) /\ l[j].cmd.op = o
      BY <1>4
    <3> QED
      BY <1>1, <2>2, <3>1
  <2>5. \A v : v \in t.versions <=> \E j \in 1 .. Len(k) : bindsIn(k, j) /\ k[j].cmd.ver = v
    <3> SUFFICES ASSUME NEW v
                 PROVE  v \in s.versions <=> \E j \in 1 .. m : bindsIn(k, j) /\ k[j].cmd.ver = v
      BY <1>1, <2>1
    <3>1. v \in s.versions <=> \E j \in 1 .. n : bindsIn(l, j) /\ l[j].cmd.ver = v
      BY <1>4
    <3> QED
      BY <1>1, <1>7, <2>2, <3>1
  <2>6. \A i \in 1 .. Len(k) : bindsIn(k, i) => decided(k, t, i)
    BY <1>1, <1>4, <1>7, <2>2
  <2> QED
    BY <2>3, <2>4, <2>5, <2>6 DEF outcomesIn, k, t
<1>8. CASE bindsIn(k, m)
  <2> DEFINE row == rowAt(c, m)
             x == resultAt(s, c)
  <2>1. e.kind = "put" /\ resultsOf(s.results, c.op) = {}
    BY <1>5, <1>6, <1>8
  <2>2. /\ t.versions = s.versions \cup {c.ver} /\ t.results = s.results \cup {x}
        /\ t.history = IF good(s, c) THEN s.history \cup {row} ELSE s.history
    BY <1>2, <2>1, ApplyPut DEF t
  <2>3. row.seq = m /\ x.cmd = c
    BY DEF rowAt, resultAt, result
  <2>4. \A i \in 1 .. n : bindsIn(k, i) = bindsIn(l, i) /\ (decided(l, s, i) => decided(k, t, i))
    <3>1. \A h \in t.history \ s.history : h.seq = n + 1
      BY <2>2, <2>3
    <3> QED
      BY <1>1, <1>2, <3>1, DecidedStays
  <2>5. opsOf(t.results) = opsOf(s.results) \cup {c.op}
    BY <2>2, <2>3, SMTT(20) DEF opsOf
  <2>6. \A j \in 1 .. Len(k) : k[j].kind = "put" => k[j].cmd.op \in opsOf(t.results)
    BY <1>1, <1>4, <2>5
  <2>7. \A o \in opsOf(t.results) : \E j \in 1 .. Len(k) : bindsIn(k, j) /\ k[j].cmd.op = o
    <3> SUFFICES ASSUME NEW o \in opsOf(s.results) \cup {c.op}
                 PROVE  \E j \in 1 .. m : bindsIn(k, j) /\ k[j].cmd.op = o
      BY <1>1, <2>5
    <3>1. CASE o = c.op
      BY <1>1, <1>8, <3>1
    <3>2. CASE o \in opsOf(s.results)
      <4>1. PICK j \in 1 .. n : bindsIn(l, j) /\ l[j].cmd.op = o
        BY <1>4, <3>2
      <4> QED
        BY <1>1, <2>4, <4>1
    <3> QED
      BY <3>1, <3>2
  <2>8. \A v : v \in t.versions <=> \E j \in 1 .. Len(k) : bindsIn(k, j) /\ k[j].cmd.ver = v
    <3> SUFFICES ASSUME NEW v
                 PROVE  v \in s.versions \cup {c.ver}
                          <=> \E j \in 1 .. m : bindsIn(k, j) /\ k[j].cmd.ver = v
      BY <1>1, <2>2
    <3>1. v \in s.versions <=> \E j \in 1 .. n : bindsIn(l, j) /\ l[j].cmd.ver = v
      BY <1>4
    <3>2. ASSUME NEW j \in 1 .. m, bindsIn(k, j), k[j].cmd.ver = v PROVE v \in s.versions \cup {c.ver}
      BY <1>1, <2>4, <3>1, <3>2
    <3>3. ASSUME v \in s.versions PROVE \E j \in 1 .. m : bindsIn(k, j) /\ k[j].cmd.ver = v
      BY <1>1, <2>4, <3>1, <3>3
    <3>4. ASSUME v = c.ver PROVE \E j \in 1 .. m : bindsIn(k, j) /\ k[j].cmd.ver = v
      BY <1>1, <1>8, <3>4
    <3> QED
      BY <3>2, <3>3, <3>4
  <2>9. reused(k, m) <=> c.ver \in s.versions
    <3>1. m - 1 = n
      BY <1>1, SMTT(20)
    <3> QED
      BY <1>1, <1>4, <2>4, <3>1, SMTT(20) DEF reused
  <2>10. latest(k, t, m) = rowsOf(s.rows, c.key)
    <3>1. \A h \in t.history : h.seq < m => h \in s.history
      BY <1>1, <2>2, <2>3, SMTT(20)
    <3>2. latestBefore(t.history, c.key, m) = latestBefore(s.history, c.key, m)
      BY <1>2, <3>1 DEF latestBefore
    <3> QED
      BY <1>1, <1>2, <3>2, RowsAreLatest DEF latest
  <2>11. holds(k, t, m) <=> ~ conditionFailed(s, c)
    BY <1>1, <2>10 DEF holds, conditionFailed
  <2>12. row \notin s.history
    BY <1>1, <1>3, <2>3, SMTT(20)
  <2>13. decided(k, t, m)
    <3>1. ~ reused(k, m) /\ holds(k, t, m) <=> good(s, c)
      BY <2>9, <2>11 DEF good
    <3>2. row \in t.history <=> good(s, c)
      BY <2>2, <2>12
    <3>3. x \in t.results
      BY <2>2
    <3>4. CASE reused(k, m)
      BY <1>1, <1>2, <2>9, <3>1, <3>2, <3>3, <3>4 DEF decided, resultAt
    <3>5. CASE ~ reused(k, m) /\ holds(k, t, m)
      BY <1>1, <1>2, <2>9, <2>10, <3>1, <3>2, <3>3, <3>5 DEF decided, resultAt
    <3>6. CASE ~ reused(k, m) /\ ~ holds(k, t, m)
      BY <1>1, <1>2, <2>9, <3>1, <3>2, <3>3, <3>6 DEF decided, resultAt
    <3> QED
      BY <3>4, <3>5, <3>6
  <2>14. \A i \in 1 .. Len(k) : bindsIn(k, i) => decided(k, t, i)
    BY <1>1, <1>4, <2>4, <2>13
  <2> QED
    BY <2>6, <2>7, <2>8, <2>14 DEF outcomesIn, k, t
<1> QED
  BY <1>7, <1>8

LEMMA OutcomesInductive == Spec => []outcomesIn(log, final)
<1>1. Init => outcomesIn(log, final)
  <2> SUFFICES ASSUME Init PROVE outcomesIn(log, final)
    OBVIOUS
  <2>1. Len(log) = 0 /\ final = newLogicalState
    BY DEF Init, final
  <2>2. opsOf(final.results) = {} /\ final.versions = {}
    BY <2>1 DEF newLogicalState, opsOf
  <2> QED
    BY <2>1, <2>2, SMTT(20) DEF outcomesIn
<1>2. IInv /\ outcomesIn(log, final) /\ [Next]_vars => outcomesIn(log, final)'
  <2> SUFFICES ASSUME IInv, outcomesIn(log, final), [Next]_vars PROVE outcomesIn(log', final')
    OBVIOUS
  <2>1. ASSUME NEW e \in Entries, CommitEntry(e) PROVE outcomesIn(log', final')
    <3>1. outcomesIn(Append(log, e), apply(final, e))
      BY <2>1, CommitFinal, CommitOutcomes DEF refOK
    <3> QED
      BY <2>1, <3>1, CommitFinal
  <2>2. CASE log' = log /\ ref' = ref
    BY <2>2 DEF final
  <2>3. ASSUME NEW r \in Replicas, ApplyEntry(r) PROVE log' = log /\ ref' = ref
    BY <2>3 DEF ApplyEntry
  <2> QED
    BY <2>1, <2>2, <2>3, QuietReplies
<1> QED
  BY <1>1, <1>2, Inductive, PTL DEF Spec

\* The outcome of every operation can be read off the committed log: the first
\* entry with its id decides, an earlier use of its version is a conflict, and
\* otherwise the condition against the latest earlier row (applyCommand).
THEOREM ShardOutcomesFollowLog == Spec => []OutcomesFollowLog
<1>1. IInv /\ outcomesIn(log, final) => OutcomesFollowLog
  <2> SUFFICES ASSUME IInv, outcomesIn(log, final) PROVE OutcomesFollowLog
    OBVIOUS
  <2>1. DOMAIN log = 1 .. Len(log)
    <3>1. log \in Seq(Entries)
      BY DEF IInv, refOK
    <3> QED
      BY <3>1, SMTT(20)
  <2>2. \A i : binds(i) = bindsIn(log, i)
    BY DEF binds, bindsIn
  <2>3. opsOf(final.results) = {log[i].cmd.op : i \in {j \in DOMAIN log : binds(j)}}
    <3>1. \A i \in 1 .. Len(log) : binds(i) => log[i].cmd.op \in opsOf(final.results)
      BY <2>2 DEF outcomesIn, bindsIn
    <3>2. \A o \in opsOf(final.results) : \E j \in 1 .. Len(log) : binds(j) /\ log[j].cmd.op = o
      BY <2>2 DEF outcomesIn
    <3> QED
      BY <2>1, <3>1, <3>2
  <2>4. \A i \in DOMAIN log : binds(i) => decided(log, final, i)
    BY <2>1, <2>2 DEF outcomesIn
  <2> QED
    BY <2>2, <2>3, <2>4, ZenonT(60) DEF OutcomesFollowLog, decided, reused, holds, latest, rowAt, final
<1> QED
  BY <1>1, Inductive, OutcomesInductive, PTL

-----------------------------------------------------------------------------
(***************************************************************************)
(* What a stopped replica finds in its engine.                             *)
(***************************************************************************)

\* The chunks of a snapshot are stored without a gap, and all of them for the
\* snapshot the metadata names.
chunksOK(d) ==
    /\ \A k \in d.chunks : \A n \in 1 .. k.part : [part |-> n, snap |-> k.snap] \in d.chunks
    /\ d.snapIndex # 0 => \E k \in d.chunks : k.snap.index = d.snapIndex /\ k.part = Parts

\* The stored log has no gap above the snapshot and holds what is committed.
logOK(d) ==
    /\ d.snapIndex <= d.commit
    /\ \A i \in d.entries : i > d.snapIndex => d.snapIndex + 1 .. i \subseteq d.entries
    /\ d.snapIndex + 1 .. d.commit \subseteq d.entries

\* A replica keeps its log whole, unless its own snapshot overtook a received one.
diskKept(d) ==
    /\ chunksOK(d)
    /\ logOK(d) \/ overwritten(d)

keptOK(d, cre) ==
    /\ diskKept(d)
    /\ \A s \in cre : s.index # 0

kept == \A r \in Replicas : keptOK(disk[r], creating[r])

\* Chunks are only added: a stored chunk with the key of a new one is that one.
LEMMA StageUnion ==
    ASSUME NEW l, NEW f, NEW d \in Disk, durableOK(l, f, d),
           NEW s \in Snapshot, s = snapshotOf(f, s.index), NEW n \in 1 .. Parts
    PROVE  stageChunks(d, s, n).chunks = d.chunks \cup firstChunks(s, n)
<1> DEFINE new == firstChunks(s, n)
<1>1. d.chunks \subseteq Chunk /\ \A k \in d.chunks : k.snap = snapshotOf(f, k.snap.index)
  BY DEF Disk, durableOK
<1>2. \A m \in new : m \in Chunk /\ m.snap = s
  BY ShardAssumption, SMTT(20) DEF firstChunks, Chunk
<1>3. ASSUME NEW k \in d.chunks, NEW m \in new, m.part = k.part, m.snap.index = k.snap.index
      PROVE  k = m
  <2>1. k.snap = m.snap
    BY <1>1, <1>2, <1>3
  <2> QED
    BY <1>1, <1>2, <1>3, <2>1, SMTT(20) DEF Chunk
<1>4. putChunks(d.chunks, new) = d.chunks \cup new
  <2> HIDE DEF new
  <2> QED
    BY <1>3 DEF putChunks
<1> QED
  BY <1>4 DEF stageChunks, Disk

\* d2 differs from d in its chunks only.
chunksAside(d, d2) ==
    /\ d2.snapIndex = d.snapIndex /\ d2.commit = d.commit
    /\ d2.entries = d.entries /\ d2.applied = d.applied
    /\ d.chunks \subseteq d2.chunks

\* The last chunk of a snapshot at index i is stored.
chunksComplete(d, i) == \E k \in d.chunks : k.snap.index = i /\ k.part = Parts

\* Staging the first n chunks of a snapshot.
LEMMA StageKeeps ==
    ASSUME NEW l, NEW f, NEW d \in Disk, durableOK(l, f, d), chunksOK(d),
           NEW s \in Snapshot, s.index \in 0 .. Len(l), s = snapshotOf(f, s.index),
           NEW n \in 1 .. Parts, NEW d2, d2 = stageChunks(d, s, n)
    PROVE  /\ chunksOK(d2)
           /\ n = Parts => chunksComplete(d2, s.index)
           /\ d2 \in Disk /\ chunksAside(d, d2)
<1>1. /\ d2 \in Disk /\ d2.snapIndex = d.snapIndex /\ d2.commit = d.commit
      /\ d2.entries = d.entries /\ d2.applied = d.applied
  <2>1. chunksStaged(l, f, d, d2)
    BY StageChunksDisk
  <2> QED
    BY <2>1 DEF chunksStaged
<1>2. d2.chunks = d.chunks \cup firstChunks(s, n)
  BY StageUnion, SMTT(20)
<1>3. \A m \in 1 .. n : [part |-> m, snap |-> s] \in d2.chunks
  BY <1>2 DEF firstChunks
<1>4. \A k \in firstChunks(s, n) : k.snap = s /\ k.part \in 1 .. n
  BY SMTT(20) DEF firstChunks
<1>5. \A k \in d2.chunks : \A m \in 1 .. k.part : [part |-> m, snap |-> k.snap] \in d2.chunks
  <2> SUFFICES ASSUME NEW k \in d2.chunks, NEW m \in 1 .. k.part
               PROVE  [part |-> m, snap |-> k.snap] \in d2.chunks
    OBVIOUS
  <2>1. CASE k \in d.chunks
    BY <1>2, <2>1 DEF chunksOK
  <2>2. CASE k \in firstChunks(s, n)
    <3>1. k.snap = s /\ m \in 1 .. n
      BY <1>4, <2>2, ShardAssumption, SMTT(20)
    <3> QED
      BY <1>3, <3>1
  <2> QED
    BY <1>2, <2>1, <2>2
<1>6. chunksOK(d2)
  BY <1>1, <1>2, <1>5 DEF chunksOK
<1>7. n = Parts => [part |-> Parts, snap |-> s] \in d2.chunks
  BY <1>3, ShardAssumption
<1> QED
  BY <1>1, <1>2, <1>6, <1>7 DEF chunksAside, chunksComplete

\* A snapshot whose last chunk is stored is stored whole.
LEMMA LastChunkIsWhole ==
    ASSUME NEW d, chunksOK(d), NEW i, chunksComplete(d, i)
    PROVE  \E s \in wholeSnapshots(d) : s.index = i
<1>1. PICK k \in d.chunks : k.snap.index = i /\ k.part = Parts
  BY DEF chunksComplete
<1>2. \A n \in 1 .. Parts : [part |-> n, snap |-> k.snap] \in d.chunks
  BY <1>1 DEF chunksOK
<1>3. k.snap \in wholeSnapshots(d)
  BY <1>2 DEF wholeSnapshots
<1> QED
  BY <1>1, <1>3

\* Snapshots stored whole stay so while chunks are added.
LEMMA WholeStays ==
    ASSUME NEW d, NEW d2, d.chunks \subseteq d2.chunks
    PROVE  wholeSnapshots(d) \subseteq wholeSnapshots(d2)
  BY DEF wholeSnapshots

\* The metadata of a snapshot whose chunks are all stored.
LEMMA NameKeeps ==
    ASSUME NEW d \in Disk, chunksOK(d), NEW i \in Nat, NEW c \in Nat,
           \E k \in d.chunks : k.snap.index = i /\ k.part = Parts
    PROVE  /\ chunksOK([d EXCEPT !.snapIndex = i])
           /\ chunksOK([d EXCEPT !.snapIndex = i, !.commit = c])
<1>1. \A d2 : d2.chunks = d.chunks /\ d2.snapIndex = i => chunksOK(d2)
  BY DEF chunksOK
<1>2. /\ [d EXCEPT !.snapIndex = i].chunks = d.chunks
      /\ [d EXCEPT !.snapIndex = i].snapIndex = i
      /\ [d EXCEPT !.snapIndex = i, !.commit = c].chunks = d.chunks
      /\ [d EXCEPT !.snapIndex = i, !.commit = c].snapIndex = i
  BY DEF Disk
<1> QED
  BY <1>1, <1>2

\* raft's next entries leave no gap.
LEMMA EntriesKeep ==
    ASSUME NEW d \in Disk, logOK(d), NEW first \in Nat, NEW last \in Nat, NEW commit \in Nat,
           isNext(d, first), d.commit <= commit, commit <= last,
           NEW d2, d2 = persistEntries(d, first, last, commit)
    PROVE  logOK(d2) /\ d2.chunks = d.chunks /\ d2.snapIndex = d.snapIndex
           /\ d2.applied = d.applied
<1>1. /\ d2.entries = d.entries \cup (first .. last) /\ d2.commit = commit
      /\ d2.chunks = d.chunks /\ d2.snapIndex = d.snapIndex /\ d2.applied = d.applied
  BY DEF persistEntries, Disk
<1>2. /\ d.snapIndex \in Nat /\ d.commit \in Nat /\ d.entries \subseteq Nat
  BY DEF Disk
<1> DEFINE low == d.snapIndex + 1
<1>3. low .. first - 1 \subseteq d.entries
  <2>1. first - 1 \in d.entries \/ first - 1 = d.snapIndex
    BY DEF isNext, indexes
  <2>2. CASE first - 1 \in d.entries
    <3>1. CASE first - 1 > d.snapIndex
      BY <2>2, <3>1 DEF logOK
    <3>2. CASE ~ (first - 1 > d.snapIndex)
      BY <1>2, <3>2, SMTT(20)
    <3> QED
      BY <3>1, <3>2
  <2>3. CASE first - 1 = d.snapIndex
    BY <1>2, <2>3, SMTT(20)
  <2> QED
    BY <2>1, <2>2, <2>3
<1>4. \A i \in low .. last : i \in d2.entries
  <2> SUFFICES ASSUME NEW i \in low .. last PROVE i \in d2.entries
    OBVIOUS
  <2>1. CASE i < first
    <3>1. i \in low .. first - 1
      BY <1>2, <2>1, SMTT(20)
    <3> QED
      BY <1>1, <1>3, <3>1
  <2>2. CASE ~ (i < first)
    <3>1. i \in first .. last
      BY <1>2, <2>2, SMTT(20)
    <3> QED
      BY <1>1, <3>1
  <2> QED
    BY <2>1, <2>2
<1>5. \A i \in d2.entries : i > d2.snapIndex => d2.snapIndex + 1 .. i \subseteq d2.entries
  <2> SUFFICES ASSUME NEW i \in d2.entries, i > d.snapIndex PROVE low .. i \subseteq d2.entries
    BY <1>1
  <2>1. CASE i \in d.entries
    BY <1>1, <2>1 DEF logOK
  <2>2. CASE i \in first .. last
    <3>1. \A j \in low .. i : j \in low .. last
      BY <1>2, <2>2, SMTT(20)
    <3> QED
      BY <1>4, <3>1
  <2> QED
    BY <1>1, <2>1, <2>2
<1>6. \A j \in low .. commit : j \in low .. last
  BY <1>2, SMTT(20)
<1>7. d2.snapIndex <= d2.commit
  BY <1>1, <1>2, SMTT(20) DEF logOK
<1> QED
  BY <1>1, <1>4, <1>5, <1>6, <1>7 DEF logOK

LEMMA KeptFrame ==
    ASSUME IInv, kept, NEW r \in Replicas, NEW d, NEW c, keptOK(d, c),
           disk' = [disk EXCEPT ![r] = d], creating' = [creating EXCEPT ![r] = c]
    PROVE  kept'
<1>1. DOMAIN disk = Replicas /\ DOMAIN creating = Replicas
  BY IInvFacts
<1> SUFFICES ASSUME NEW q \in Replicas PROVE keptOK(disk'[q], creating'[q])
  BY DEF kept
<1>2. CASE q = r
  BY <1>1, <1>2
<1>3. CASE q # r
  <2>1. disk'[q] = disk[q] /\ creating'[q] = creating[q]
    BY <1>1, <1>3
  <2> QED
    BY <2>1 DEF kept
<1> QED
  BY <1>2, <1>3

\* A process death keeps whatever the last batch left.
LEMMA DieKept ==
    ASSUME IInv, kept, NEW r \in Replicas, NEW d, diskKept(d),
           disk' = [disk EXCEPT ![r] = d], Die(r)
    PROVE  kept'
<1>1. keptOK(d, {})
  BY DEF keptOK
<1>2. creating' = [creating EXCEPT ![r] = {}]
  BY DEF Die
<1> QED
  BY <1>1, <1>2, KeptFrame

\* The parts of kept an action of replica r starts from.
LEMMA KeptFacts ==
    ASSUME IInv, kept, NEW r \in Replicas
    PROVE  /\ keptOK(disk[r], creating[r]) /\ diskKept(disk[r])
           /\ disk[r] \in Disk /\ durableOK(log, ref, disk[r])
           /\ disk = [disk EXCEPT ![r] = disk[r]]
           /\ creating = [creating EXCEPT ![r] = creating[r]]
<1>1. keptOK(disk[r], creating[r]) /\ diskKept(disk[r])
  BY DEF kept, keptOK
<1>2. disk[r] \in Disk /\ durableOK(log, ref, disk[r])
  BY IInvFacts DEF replicaOK
<1>3. /\ disk = [disk EXCEPT ![r] = disk[r]]
      /\ creating = [creating EXCEPT ![r] = creating[r]]
  BY DEF IInv
<1> QED
  BY <1>1, <1>2, <1>3

\* A batch that leaves the log and the chunks alone.
LEMMA SameLog ==
    ASSUME NEW d, diskKept(d), NEW d2,
           d2.chunks = d.chunks, d2.snapIndex = d.snapIndex, d2.commit = d.commit,
           d2.entries = d.entries
    PROVE  diskKept(d2)
<1>1. chunksOK(d2)
  BY DEF diskKept, chunksOK
<1>2. logOK(d) => logOK(d2)
  BY DEF logOK
<1>3. overwritten(d) => overwritten(d2)
  BY DEF overwritten, indexes, wholeSnapshots
<1> QED
  BY <1>1, <1>2, <1>3 DEF diskKept

LEMMA OpenKept ==
    ASSUME IInv, kept, NEW r \in Replicas, Open(r)
    PROVE  kept'
  BY DEF Open, kept

LEMMA PersistEntriesKept ==
    ASSUME IInv, kept, NEW r \in Replicas, PersistEntries(r)
    PROVE  kept'
<1>a. PICK first \in 1 .. Len(log) + 1 :
        \E last \in first - 1 .. Len(log) :
        \E commit \in disk[r].commit .. last :
          /\ isNext(disk[r], first)
          /\ disk' = [disk EXCEPT ![r] = persistEntries(@, first, last, commit)]
  BY DEF PersistEntries
<1>b. PICK last \in first - 1 .. Len(log) :
        \E commit \in disk[r].commit .. last :
          /\ isNext(disk[r], first)
          /\ disk' = [disk EXCEPT ![r] = persistEntries(@, first, last, commit)]
  BY <1>a
<1>c. PICK commit \in disk[r].commit .. last :
          /\ isNext(disk[r], first)
          /\ disk' = [disk EXCEPT ![r] = persistEntries(@, first, last, commit)]
  BY <1>b
<1> DEFINE d  == disk[r]
           d2 == persistEntries(disk[r], first, last, commit)
<1>1. isNext(d, first) /\ disk' = [disk EXCEPT ![r] = d2] /\ creating' = creating
  BY <1>c DEF PersistEntries
<1>2. /\ Len(log) \in Nat /\ d \in Disk /\ d.commit \in Nat
      /\ d.snapIndex \in Nat /\ d.entries \subseteq Nat
  <2>1. refOK(log, ref) /\ disk[r] \in Disk
    BY IInvFacts
  <2> QED
    BY <2>1, LogLength DEF Disk
<1>3. first \in Nat /\ last \in Nat /\ commit \in Nat /\ d.commit <= commit /\ commit <= last
  BY <1>2, SMTT(20)
<1>4. d2.chunks = d.chunks /\ d2.snapIndex = d.snapIndex
  BY <1>2 DEF persistEntries, Disk
<1>5. logOK(d) => logOK(d2)
  BY <1>1, <1>2, <1>3, EntriesKeep, ZenonT(60)
<1>6. ~ overwritten(d)
  <2> SUFFICES ASSUME overwritten(d) PROVE FALSE
    OBVIOUS
  <2>1. first - 1 \in indexes(d) /\ d.commit < first
    BY <1>1 DEF isNext
  <2>2. first - 1 < d.commit
    BY <2>1 DEF overwritten
  <2> QED
    BY <1>2, <1>3, <2>1, <2>2, SMTT(20)
<1>7. chunksOK(d) /\ logOK(d)
  BY <1>6, KeptFacts DEF diskKept
<1> HIDE DEF d2
<1>8. chunksOK(d2)
  BY <1>4, <1>7 DEF chunksOK
<1>9. keptOK(d2, creating[r])
  BY <1>5, <1>7, <1>8, KeptFacts DEF keptOK, diskKept
<1> QED
  BY <1>1, <1>9, KeptFacts, KeptFrame

\* apply's batch leaves the log and the chunks alone.
LEMMA ApplyingKept ==
    ASSUME IInv, kept, NEW r \in Replicas, NEW d2, NEW next,
           d2 = applyBatch(disk[r], mem[r], next)
    PROVE  diskKept(d2)
<1>1. disk[r] \in Disk /\ diskKept(disk[r])
  BY KeptFacts
<1>2. /\ d2.chunks = disk[r].chunks /\ d2.snapIndex = disk[r].snapIndex
      /\ d2.commit = disk[r].commit /\ d2.entries = disk[r].entries
  BY <1>1 DEF applyBatch, Disk
<1> QED
  BY <1>1, <1>2, SameLog

LEMMA ApplyKept ==
    ASSUME IInv, kept, NEW r \in Replicas, ApplyEntry(r) \/ CrashAfterApplyBatch(r)
    PROVE  kept'
<1> DEFINE next == apply(mem[r], log[mem[r].lastApplied + 1])
           d2   == applyBatch(disk[r], mem[r], next)
<1>1. disk' = [disk EXCEPT ![r] = d2]
  BY DEF ApplyEntry, CrashAfterApplyBatch
<1>2. diskKept(d2)
  BY ApplyingKept
<1>3. CASE ApplyEntry(r)
  <2>1. creating' = [creating EXCEPT ![r] = creating[r]]
    BY <1>3, KeptFacts DEF ApplyEntry
  <2> HIDE DEF d2
  <2>2. keptOK(d2, creating[r])
    BY <1>2, KeptFacts DEF keptOK
  <2> QED
    BY <1>1, <2>1, <2>2, KeptFrame
<1>4. CASE CrashAfterApplyBatch(r)
  <2>1. Die(r)
    BY <1>4 DEF CrashAfterApplyBatch
  <2> HIDE DEF d2
  <2> QED
    BY <1>1, <1>2, <2>1, DieKept
<1> QED
  BY <1>3, <1>4

LEMMA BeginCreateKept ==
    ASSUME IInv, kept, NEW r \in Replicas, BeginCreateSnapshot(r)
    PROVE  kept'
<1> DEFINE s == [index |-> mem[r].lastApplied, image |-> exportSnapshot(mem[r]),
                 conf |-> disk[r].conf]
<1>1. creating' = [creating EXCEPT ![r] = {s}] /\ disk' = disk /\ s.index # 0
  BY DEF BeginCreateSnapshot
<1> HIDE DEF s
<1>2. keptOK(disk[r], {s})
  BY <1>1, KeptFacts DEF keptOK
<1> QED
  BY <1>1, <1>2, KeptFacts, KeptFrame

\* The snapshot between two steps of CreateSnapshot.
LEMMA CreatingFacts ==
    ASSUME IInv, kept, NEW r \in Replicas, NEW s \in creating[r]
    PROVE  /\ s \in Snapshot /\ s.index \in 0 .. Len(log) /\ s = snapshotOf(ref, s.index)
           /\ s.index = disk[r].applied /\ s.index # 0
<1>1. s \in Snapshot /\ s.index \in 0 .. Len(log) /\ s = snapshotOf(ref, s.index)
  BY IInvFacts DEF replicaOK, trueSnapshots
<1>2. s.index = disk[r].applied
  BY IInvFacts DEF replicaOK, controlOK
<1>3. s.index # 0
  BY KeptFacts DEF keptOK
<1> QED
  BY <1>1, <1>2, <1>3

\* Staged chunks leave the log alone.
LEMMA StageDiskKept ==
    ASSUME IInv, kept, NEW r \in Replicas, NEW n \in 1 .. Parts, NEW s \in Snapshot,
           s.index \in 0 .. Len(log), s = snapshotOf(ref, s.index)
    PROVE  diskKept(stageChunks(disk[r], s, n))
<1> DEFINE d == disk[r]
           d2 == stageChunks(disk[r], s, n)
<1>1. d \in Disk /\ durableOK(log, ref, d) /\ diskKept(d) /\ chunksOK(d)
  BY KeptFacts DEF diskKept
<1>2. /\ chunksOK(d2) /\ d2.snapIndex = d.snapIndex /\ d2.commit = d.commit
      /\ d2.entries = d.entries /\ d.chunks \subseteq d2.chunks
  BY <1>1, StageKeeps, SMTT(20) DEF chunksAside
<1> HIDE DEF d2
<1>3. logOK(d) => logOK(d2)
  BY <1>2 DEF logOK
<1>4. overwritten(d) => overwritten(d2)
  <2>1. wholeSnapshots(d) \subseteq wholeSnapshots(d2)
    BY <1>2, WholeStays
  <2> QED
    BY <1>2, <2>1 DEF overwritten, indexes
<1>5. diskKept(d2)
  BY <1>1, <1>2, <1>3, <1>4 DEF diskKept
<1> QED
  BY <1>5 DEF d2

\* Staging all the chunks of a snapshot.
LEMMA StagedWhole ==
    ASSUME NEW l, NEW f, NEW d \in Disk, durableOK(l, f, d), chunksOK(d),
           NEW s \in Snapshot, s.index \in 0 .. Len(l), s = snapshotOf(f, s.index),
           NEW d2, d2 = stageChunks(d, s, Parts)
    PROVE  /\ chunksOK(d2) /\ d2 \in Disk
           /\ chunksComplete(d2, s.index) /\ chunksAside(d, d2)
<1>1. Parts \in 1 .. Parts
  <2>1. Parts \in Nat \ {0}
    BY ShardAssumption
  <2> QED
    BY <2>1, SMTT(20)
<1>2. chunksOK(d2) /\ d2 \in Disk /\ chunksAside(d, d2)
  BY <1>1, StageKeeps, ZenonT(60)
<1>3. chunksComplete(d2, s.index)
  BY <1>1, StageKeeps, ZenonT(60)
<1> QED
  BY <1>2, <1>3

LEMMA FinishCreateKept ==
    ASSUME IInv, kept, NEW r \in Replicas, FinishCreateSnapshot(r)
    PROVE  kept'
<1>1. PICK s \in creating[r] :
        disk' = [disk EXCEPT ![r] = [stageChunks(@, s, Parts) EXCEPT !.snapIndex = s.index]]
  BY DEF FinishCreateSnapshot
<1> DEFINE d  == disk[r]
           d1 == stageChunks(disk[r], s, Parts)
           d2 == [d1 EXCEPT !.snapIndex = s.index]
<1>2. disk' = [disk EXCEPT ![r] = d2] /\ creating' = [creating EXCEPT ![r] = {}]
  BY <1>1 DEF FinishCreateSnapshot
<1>3. /\ s \in Snapshot /\ s.index \in 0 .. Len(log) /\ s = snapshotOf(ref, s.index)
      /\ s.index = d.applied /\ s.index # 0
  BY CreatingFacts
<1>4. d \in Disk /\ durableOK(log, ref, d) /\ diskKept(d) /\ chunksOK(d)
  BY KeptFacts DEF diskKept
<1>5. /\ chunksOK(d1) /\ d1 \in Disk /\ chunksComplete(d1, s.index)
      /\ d1.commit = d.commit /\ d1.entries = d.entries /\ d.chunks \subseteq d1.chunks
  <2>1. PICK e : e = stageChunks(disk[r], s, Parts)
    OBVIOUS
  <2>2. chunksOK(e) /\ e \in Disk /\ chunksComplete(e, s.index) /\ chunksAside(d, e)
    BY <1>3, <1>4, <2>1, StagedWhole, ZenonT(60)
  <2> QED
    BY <2>1, <2>2 DEF chunksAside
<1> HIDE DEF d1
<1>6. /\ d.snapIndex \in Nat /\ d.applied \in Nat /\ d.commit \in Nat /\ d.applied <= d.commit
      /\ d.entries \subseteq Nat /\ s.index \in Nat
  BY <1>3, <1>4 DEF Disk, durableOK
<1>7. chunksOK(d2)
  BY <1>5, <1>6, NameKeeps DEF chunksComplete
<1>8. /\ d2.snapIndex = d.applied /\ d2.commit = d.commit /\ d2.entries = d.entries
      /\ d2.chunks = d1.chunks
  BY <1>3, <1>5 DEF Disk
<1>9. wholeSnapshots(d) \subseteq wholeSnapshots(d2)
  BY <1>5, <1>8, WholeStays
<1> HIDE DEF d2
<1>10. ASSUME logOK(d) /\ d.snapIndex <= d.applied PROVE logOK(d2)
  <2>1. \A i \in Nat : d.applied + 1 .. i \subseteq d.snapIndex + 1 .. i
    BY <1>6, <1>10, SMTT(20)
  <2>2. \A i \in d.entries : i > d.applied => d.applied + 1 .. i \subseteq d.entries
    <3> TAKE i \in d.entries
    <3> HAVE i > d.applied
    <3>1. i \in Nat /\ i > d.snapIndex
      BY <1>6, <1>10, SMTT(20)
    <3>2. d.snapIndex + 1 .. i \subseteq d.entries
      BY <1>10, <3>1 DEF logOK
    <3> QED
      BY <2>1, <3>1, <3>2
  <2>3. d.applied + 1 .. d.commit \subseteq d.entries
    <3>1. d.applied + 1 .. d.commit \subseteq d.snapIndex + 1 .. d.commit
      BY <1>6, <2>1
    <3> QED
      BY <1>10, <3>1 DEF logOK
  <2> QED
    BY <1>6, <1>8, <2>2, <2>3 DEF logOK
<1>11. ASSUME (logOK(d) /\ ~ (d.snapIndex <= d.applied)) \/ overwritten(d)
       PROVE  logOK(d2) \/ overwritten(d2)
  <2>1. /\ \E t \in wholeSnapshots(d) : t.index = d.commit
        /\ \A i \in d.entries : i < d.commit
    <3>1. CASE overwritten(d)
      BY <3>1 DEF overwritten, indexes
    <3>2. CASE logOK(d) /\ ~ (d.snapIndex <= d.applied)
      <4>1. d.snapIndex > d.meta /\ d.snapIndex # 0
        BY <1>4, <1>6, <3>2, SMTT(20) DEF durableOK
      <4>2. d.snapIndex = d.commit /\ \A i \in d.entries : i < d.commit
        <5>1. stagedOK(ref, d)
          BY IInvFacts DEF replicaOK
        <5> QED
          BY <4>1, <5>1 DEF stagedOK, unfinished
      <4>3. chunksComplete(d, d.commit)
        BY <1>4, <4>1, <4>2 DEF chunksOK, chunksComplete
      <4> QED
        BY <1>4, <4>2, <4>3, LastChunkIsWhole
    <3> QED
      BY <1>11, <3>1, <3>2
  <2>2. CASE d.applied < d.commit
    BY <1>3, <1>8, <1>9, <2>1, <2>2 DEF overwritten, indexes
  <2>3. CASE d.applied = d.commit
    BY <1>6, <1>8, <2>1, <2>3, SMTT(20) DEF logOK
  <2>4. d.applied < d.commit \/ d.applied = d.commit
    BY <1>6, SMTT(20)
  <2> QED
    BY <2>2, <2>3, <2>4
<1>12. keptOK(d2, {})
  BY <1>4, <1>7, <1>10, <1>11 DEF keptOK, diskKept
<1> QED
  BY <1>2, <1>12, KeptFrame

LEMMA CrashInCreateKept ==
    ASSUME IInv, kept, NEW r \in Replicas, CrashInCreateSnapshot(r)
    PROVE  kept'
<1>1. PICK s \in creating[r], n \in 1 .. Parts :
        disk' = [disk EXCEPT ![r] = stageChunks(@, s, n)]
  BY DEF CrashInCreateSnapshot
<1> DEFINE d2 == stageChunks(disk[r], s, n)
<1>2. disk' = [disk EXCEPT ![r] = d2] /\ Die(r)
  BY <1>1 DEF CrashInCreateSnapshot
<1>3. diskKept(d2)
  <2>1. s \in Snapshot /\ s.index \in 0 .. Len(log) /\ s = snapshotOf(ref, s.index)
    BY CreatingFacts
  <2> QED
    BY <2>1, StageDiskKept
<1> HIDE DEF d2
<1> QED
  BY <1>2, <1>3, DieKept

LEMMA PersistSnapshotKept ==
    ASSUME IInv, kept, NEW r \in Replicas, PersistSnapshot(r)
    PROVE  kept'
<1>1. PICK s \in sent :
        /\ acceptable(r, s)
        /\ disk' = [disk EXCEPT ![r] = [stageChunks(@, s, Parts) EXCEPT !.snapIndex = s.index,
                                                                       !.commit = s.index]]
  BY DEF PersistSnapshot
<1> DEFINE d  == disk[r]
           d1 == stageChunks(disk[r], s, Parts)
           d2 == [d1 EXCEPT !.snapIndex = s.index, !.commit = s.index]
<1>2. disk' = [disk EXCEPT ![r] = d2] /\ creating' = creating
  BY <1>1 DEF PersistSnapshot
<1>3. s \in Snapshot /\ s.index \in 0 .. Len(log) /\ s = snapshotOf(ref, s.index)
  BY IInvFacts DEF trueSnapshots
<1>4. d \in Disk /\ durableOK(log, ref, d) /\ chunksOK(d)
  BY KeptFacts DEF diskKept
<1>5. /\ chunksOK(d1) /\ d1 \in Disk /\ chunksComplete(d1, s.index)
      /\ d1.entries = d.entries
  <2>1. PICK e : e = stageChunks(disk[r], s, Parts)
    OBVIOUS
  <2>2. chunksOK(e) /\ e \in Disk /\ chunksComplete(e, s.index) /\ chunksAside(d, e)
    BY <1>3, <1>4, <2>1, StagedWhole, ZenonT(60)
  <2> QED
    BY <2>1, <2>2 DEF chunksAside
<1> HIDE DEF d1
<1>6. s.index \in Nat /\ Len(log) \in Nat
  <2>1. Len(log) \in Nat
    BY IInvFacts, LogLength
  <2> QED
    BY <1>3, <2>1, SMTT(20)
<1>7. chunksOK(d2)
  BY <1>5, <1>6, NameKeeps DEF chunksComplete
<1>8. d2.snapIndex = s.index /\ d2.commit = s.index /\ d2.entries = d.entries
  BY <1>5 DEF Disk
<1>9. \A i \in d.entries : i < s.index
  BY <1>1 DEF acceptable, indexes
<1> HIDE DEF d2
<1>10. logOK(d2)
  <2>1. d.entries \subseteq Nat
    BY <1>4 DEF Disk
  <2> QED
    BY <1>6, <1>8, <1>9, <2>1, SMTT(20) DEF logOK
<1>11. keptOK(d2, creating[r])
  BY <1>7, <1>10, KeptFacts DEF keptOK, diskKept
<1> QED
  BY <1>2, <1>11, KeptFacts, KeptFrame

LEMMA CrashInPersistKept ==
    ASSUME IInv, kept, NEW r \in Replicas, CrashInPersistSnapshot(r)
    PROVE  kept'
<1>1. PICK s \in sent, n \in 1 .. Parts :
        disk' = [disk EXCEPT ![r] = stageChunks(@, s, n)]
  BY DEF CrashInPersistSnapshot
<1> DEFINE d2 == stageChunks(disk[r], s, n)
<1>2. disk' = [disk EXCEPT ![r] = d2] /\ Die(r)
  BY <1>1 DEF CrashInPersistSnapshot
<1>3. diskKept(d2)
  <2>1. s \in Snapshot /\ s.index \in 0 .. Len(log) /\ s = snapshotOf(ref, s.index)
    BY IInvFacts DEF trueSnapshots
  <2> QED
    BY <2>1, StageDiskKept
<1> HIDE DEF d2
<1> QED
  BY <1>2, <1>3, DieKept

\* The batches of an installation, and the one that publishes it.
LEMMA InstallKept ==
    ASSUME IInv, kept, NEW r \in Replicas, InstallSnapshot(r) \/ CrashInInstallSnapshot(r)
    PROVE  kept'
<1>0. PICK s \in incoming[r] :
        \/ disk' = [disk EXCEPT ![r] = publishImage(disk[r], s)]
        \/ \E p \in stagedParts(s.image) : disk' = [disk EXCEPT ![r] = stageImage(disk[r], p)]
  BY DEF InstallSnapshot, CrashInInstallSnapshot
<1>1. PICK d2 :
        /\ disk' = [disk EXCEPT ![r] = d2]
        /\ \/ d2 = publishImage(disk[r], s)
           \/ \E p \in stagedParts(s.image) : d2 = stageImage(disk[r], p)
  BY <1>0
<1>2. disk[r] \in Disk /\ diskKept(disk[r])
  BY KeptFacts
<1>3. /\ d2.chunks = disk[r].chunks /\ d2.snapIndex = disk[r].snapIndex
      /\ d2.commit = disk[r].commit /\ d2.entries = disk[r].entries
  <2>1. CASE d2 = publishImage(disk[r], s)
    BY <1>2, <2>1, ZenonT(60) DEF publishImage, stageImage, Disk
  <2>2. CASE \E p \in stagedParts(s.image) : d2 = stageImage(disk[r], p)
    <3>1. PICK p : d2 = stageImage(disk[r], p)
      BY <2>2
    <3> QED
      BY <1>2, <3>1 DEF stageImage, Disk
  <2> QED
    BY <1>1, <2>1, <2>2
<1>4. diskKept(d2)
  BY <1>2, <1>3, SameLog
<1>5. CASE InstallSnapshot(r)
  <2>1. creating' = [creating EXCEPT ![r] = creating[r]]
    BY <1>5, KeptFacts DEF InstallSnapshot
  <2>2. keptOK(d2, creating[r])
    BY <1>4, KeptFacts DEF keptOK
  <2> QED
    BY <1>1, <2>1, <2>2, KeptFrame
<1>6. CASE CrashInInstallSnapshot(r)
  <2>1. Die(r)
    BY <1>6 DEF CrashInInstallSnapshot
  <2> QED
    BY <1>1, <1>4, <2>1, DieKept
<1> QED
  BY <1>5, <1>6

\* kept holds in every reachable state of Spec.
LEMMA KeptInductive == Spec => []kept
<1>1. Init => kept
  <2> SUFFICES ASSUME Init, NEW r \in Replicas PROVE keptOK(disk[r], creating[r])
    BY DEF kept
  <2>1. disk[r] = emptyDisk /\ creating[r] = {}
    BY DEF Init
  <2>2. emptyDisk.chunks = {} /\ emptyDisk.snapIndex = 0
        /\ emptyDisk.commit = 0 /\ emptyDisk.entries = {}
    BY DEF emptyDisk
  <2>3. chunksOK(emptyDisk)
    BY <2>2 DEF chunksOK
  <2>4. logOK(emptyDisk)
    BY <2>2, SMTT(20) DEF logOK
  <2> QED
    BY <2>1, <2>3, <2>4 DEF keptOK, diskKept
<1>2. IInv /\ kept /\ [Next]_vars => kept'
  <2> SUFFICES ASSUME IInv, kept, [Next]_vars PROVE kept'
    OBVIOUS
  <2>1. ASSUME NEW e \in Entries, CommitEntry(e) PROVE kept'
    BY <2>1 DEF CommitEntry, kept
  <2>2. ASSUME NEW r \in Replicas, Step(r) PROVE kept'
    BY <2>2, OpenKept, PersistEntriesKept, ApplyKept, BeginCreateKept, FinishCreateKept,
       PersistSnapshotKept, InstallKept DEF Step
  <2>3. ASSUME NEW r \in Replicas, Crash(r) PROVE kept'
    <3>1. Die(r) /\ diskKept(disk[r]) /\ disk' = [disk EXCEPT ![r] = disk[r]]
      BY <2>3, KeptFacts DEF Crash
    <3> QED
      BY <3>1, DieKept
  <2>4. ASSUME NEW r \in Replicas, Death(r) PROVE kept'
    BY <2>3, <2>4, ApplyKept, CrashInCreateKept, CrashInPersistKept, InstallKept DEF Death
  <2>5. CASE UNCHANGED vars
    BY <2>5 DEF vars, kept
  <2> QED
    BY <2>1, <2>2, <2>4, <2>5 DEF Next
<1> QED
  BY <1>1, <1>2, Inductive, PTL DEF Spec

\* Everything committed is in the engine, on every replica and whatever it
\* creates and receives: persistReady makes a commit index durable with or after
\* what it commits, and no entry batch, snapshot or crash takes any of it away.
THEOREM ShardCommittedIsStored == Spec => []CommittedIsStored
<1>1. IInv /\ kept => CommittedIsStored
  <2> SUFFICES ASSUME IInv, kept, NEW r \in Replicas
               PROVE  \E base \in {disk[r].applied} \cup {s.index : s \in wholeSnapshots(disk[r])} :
                        base <= disk[r].commit /\ base + 1 .. disk[r].commit \subseteq disk[r].entries
    BY DEF CommittedIsStored
  <2> DEFINE d == disk[r]
  <2>1. /\ d \in Disk /\ durableOK(log, ref, d) /\ stagedOK(ref, d)
        /\ chunksOK(d) /\ (logOK(d) \/ overwritten(d))
    BY IInvFacts, KeptFacts DEF replicaOK, diskKept
  <2>2. /\ d.snapIndex \in Nat /\ d.applied \in Nat /\ d.commit \in Nat
        /\ d.applied <= d.commit /\ d.meta = d.applied
    BY <2>1 DEF Disk, durableOK
  <2>3. CASE logOK(d) /\ d.snapIndex <= d.applied
    <3>1. d.applied + 1 .. d.commit \subseteq d.snapIndex + 1 .. d.commit
      BY <2>2, <2>3, SMTT(20)
    <3>2. d.applied + 1 .. d.commit \subseteq d.entries
      BY <2>3, <3>1 DEF logOK
    <3> QED
      BY <2>2, <3>2
  <2>4. CASE (logOK(d) /\ ~ (d.snapIndex <= d.applied)) \/ overwritten(d)
    <3>1. \E s \in wholeSnapshots(d) : s.index = d.commit
      <4>1. CASE overwritten(d)
        BY <4>1 DEF overwritten
      <4>2. CASE ~ (d.snapIndex <= d.applied)
        <5>1. d.snapIndex > d.meta /\ d.snapIndex # 0
          BY <2>2, <4>2, SMTT(20)
        <5>2. d.snapIndex = d.commit
          BY <2>1, <5>1 DEF stagedOK
        <5>3. chunksComplete(d, d.commit)
          BY <2>1, <5>1, <5>2 DEF chunksOK, chunksComplete
        <5> QED
          BY <2>1, <5>3, LastChunkIsWhole
      <4> QED
        BY <2>4, <4>1, <4>2
    <3>2. d.commit <= d.commit /\ d.commit + 1 .. d.commit = {}
      BY <2>2, SMTT(20)
    <3> QED
      BY <3>1, <3>2
  <2> QED
    BY <2>1, <2>3, <2>4
<1> QED
  BY <1>1, Inductive, KeptInductive, PTL

\* What load and raft's restart ask of the records of one replica.
LEMMA LoadsAgain ==
    ASSUME NEW l, NEW f, refOK(l, f), NEW d \in Disk, durableOK(l, f, d), chunksOK(d), logOK(d)
    PROVE  loadable(d)
<1> DEFINE s == f[d.applied + 1]
<1>1. /\ d.meta = d.applied /\ d.applied \in 0 .. Len(l) /\ d.applied <= d.commit
      /\ d.snapIndex \in Nat /\ d.commit \in Nat /\ Len(l) \in Nat
  BY LogLength DEF durableOK, Disk
<1>2. wellFormed(s) /\ s.lastApplied = d.applied
  <2>1. prefixOK(f, d.applied)
    BY <1>1, PrefixType
  <2> QED
    BY <2>1 DEF prefixOK
<1>3. imageOf(d) = exportSnapshot(s)
  BY DEF durableOK, imageOf, exportSnapshot
<1>4. validImage(imageOf(d), d.meta)
  BY <1>1, <1>2, <1>3 DEF wellFormed
<1>5. d.images[d.generation].dedupe = opsOf(imageOf(d).results)
  BY DEF durableOK, imageOf
<1>6. chunksContiguous(d)
  <2> SUFFICES ASSUME NEW k \in d.chunks, k.snap.index = d.snapIndex, NEW n \in 1 .. k.part
               PROVE  \E j \in d.chunks : j.snap.index = d.snapIndex /\ j.part = n
    BY DEF chunksContiguous
  <2>1. [part |-> n, snap |-> k.snap] \in d.chunks
    BY DEF chunksOK
  <2> QED
    BY <2>1
<1>7. d.snapIndex > d.meta => storedSnapshot(d) # {}
  <2> SUFFICES ASSUME d.snapIndex > d.meta PROVE storedSnapshot(d) # {}
    OBVIOUS
  <2>1. PICK k \in d.chunks : k.snap.index = d.snapIndex /\ k.part = Parts
    BY <1>1, SMTT(20) DEF chunksOK
  <2>2. \A n \in 1 .. Parts : [part |-> n, snap |-> k.snap] \in d.chunks
    BY <2>1 DEF chunksOK
  <2>3. k.snap \in storedSnapshot(d)
    BY <2>1, <2>2 DEF storedSnapshot, wholeSnapshots
  <2> QED
    BY <2>3
<1>8. \E i \in indexes(d) : d.commit <= i
  <2>1. CASE d.snapIndex = d.commit
    <3>1. d.snapIndex \in indexes(d) /\ d.commit <= d.snapIndex
      BY <1>1, <2>1, SMTT(20) DEF indexes
    <3> QED
      BY <3>1
  <2>2. CASE d.snapIndex < d.commit
    <3>1. d.commit \in d.snapIndex + 1 .. d.commit
      BY <1>1, <2>2, SMTT(20)
    <3>2. d.commit \in d.entries
      BY <3>1 DEF logOK
    <3> QED
      BY <1>1, <3>2, SMTT(20) DEF indexes
  <2>3. d.snapIndex = d.commit \/ d.snapIndex < d.commit
    BY <1>1, SMTT(20) DEF logOK
  <2> QED
    BY <2>1, <2>2, <2>3
<1> QED
  BY <1>1, <1>4, <1>5, <1>6, <1>7, <1>8 DEF loadable, logOK

\* A stopped replica can be opened again, whatever batch its process died
\* after: load, decodeSnapshot and raft.RestartNode accept what is stored,
\* unless CreateSnapshot put the metadata back behind a snapshot persistReady
\* had just received.
THEOREM ShardReopens == Spec => []Reopenable
<1>1. IInv /\ kept => Reopenable
  <2> SUFFICES ASSUME IInv, kept, NEW r \in Replicas
               PROVE  loadable(disk[r]) \/ overwritten(disk[r])
    BY DEF Reopenable
  <2>1. refOK(log, ref) /\ disk[r] \in Disk /\ durableOK(log, ref, disk[r])
    BY IInvFacts, KeptFacts
  <2>2. chunksOK(disk[r]) /\ (logOK(disk[r]) \/ overwritten(disk[r]))
    BY KeptFacts DEF diskKept
  <2> QED
    BY <2>1, <2>2, LoadsAgain
<1> QED
  BY <1>1, Inductive, KeptInductive, PTL
=============================================================================
