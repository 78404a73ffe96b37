---------------------------- MODULE RangeCatalog ----------------------------
(***************************************************************************)
(* Range descriptors and catalog images: range.go and catalog.go of        *)
(* internal/raftstore, as operators on values.                             *)
(*                                                                         *)
(* Keys are 1 .. LastKey.  Start = 1 is the empty start, End = LastKey + 1 *)
(* the nil end, which means infinity.  A catalog is its version, its       *)
(* current descriptors (byID and the sorted list are two views of the same *)
(* set) and its history: the latest fence of every range ID it ever had.   *)
(***************************************************************************)
EXTENDS Naturals, FiniteSets

CONSTANTS
    RangeIds,
    LastKey,
    Nodes,                 \* Raft node identifiers
    maxRangeDescriptors    \* bound on the current descriptors of a catalog

ASSUME CatalogAssumption ==
    /\ LastKey \in Nat \ {0}
    /\ maxRangeDescriptors \in Nat \ {0}

Key == 1 .. LastKey
Infinity == LastKey + 1
ServingPhase == {"copying", "catching_up", "serving", "retired"}

RangeDescriptor ==
    [id: RangeIds, start: Key, end: 2 .. Infinity, generation: Nat, ownerEpoch: Nat,
     group: Nat, voters: SUBSET Nodes, phase: ServingPhase]

Catalog == [version: Nat, descriptors: SUBSET RangeDescriptor,
            history: SUBSET RangeDescriptor]

noCatalog == [version |-> 0, descriptors |-> {}, history |-> {}]

(***************************************************************************)
(* Descriptors.                                                            *)
(***************************************************************************)
validPhaseTransition(previous, next) ==
    \/ previous = next
    \/ <<previous, next>> \in {<<"copying", "catching_up">>, <<"catching_up", "serving">>,
                               <<"serving", "retired">>}

Validate(d) ==
    /\ d.start < d.end
    /\ d.generation # 0 /\ d.ownerEpoch # 0 /\ d.group # 0
    /\ Cardinality(d.voters) = 3

Contains(d, key) == d.start <= key /\ key < d.end

idsOf(ds) == {d.id : d \in ds}

\* Sorted by start, the spans are adjacent and reach from the empty key to
\* infinity: every key has one owner.
wholeKeyspace(ds) ==
    /\ \A d, e \in ds : d.id = e.id => d = e
    /\ \A key \in Key : \E d \in ds : /\ Contains(d, key)
                                      /\ \A e \in ds : Contains(e, key) => e = d

\* Mutant: ownership may change under the same owner epoch.
keepsFenceNotEpoch(previous, old, d) ==
    /\ d.start = previous.start /\ d.end = previous.end
    /\ d.generation >= old.generation /\ d.ownerEpoch >= old.ownerEpoch
    /\ validPhaseTransition(previous.phase, d.phase)

\* What a descriptor d of a known current range must keep; old is the fence
\* of the range in the history, previous its current descriptor.
keepsFence(previous, old, d) ==
    /\ d.start = previous.start /\ d.end = previous.end
    /\ d.generation >= old.generation /\ d.ownerEpoch >= old.ownerEpoch
    /\ validPhaseTransition(previous.phase, d.phase)
    /\ d.group # previous.group \/ d.voters # previous.voters
          => d.ownerEpoch > old.ownerEpoch

retire(d) == [d EXCEPT !.phase = "retired"]

(***************************************************************************)
(* NewRangeCatalog and Replace.                                            *)
(***************************************************************************)
wellFormed(ds) ==
    /\ ds # {} /\ Cardinality(ds) <= maxRangeDescriptors
    /\ \A d \in ds : Validate(d)
    /\ wholeKeyspace(ds)

absent(c, ds) == {h \in c.history : h.id \notin idsOf(ds)}

withRetired(c, gone) == [c EXCEPT !.history = (@ \ gone) \cup {retire(h) : h \in gone}]

fencesKept(c, ds) ==
    \A h \in c.history : \A d \in ds :
        d.id = h.id => \E p \in c.descriptors : p.id = d.id /\ keepsFence(p, h, d)

roomFor(c, ds) == Cardinality(c.history) + Cardinality(ds) <= 2 * maxRangeDescriptors

newest(version, ds, old) ==
    [version |-> version, descriptors |-> ds, history |-> ds \cup {retire(h) : h \in old}]

canCreate(version, ds) == version # 0 /\ wellFormed(ds) /\ roomFor(noCatalog, ds)

NewRangeCatalog(version, ds) == newest(version, ds, {})

canReplace(c, version, ds) ==
    /\ version > c.version
    /\ wellFormed(ds)
    /\ fencesKept(c, ds)
    /\ roomFor(c, ds)

\* What Replace may leave in the receiver.  The history is walked in no
\* particular order and ranges that are gone are retired on the way, so a
\* refusal that comes out of the walk leaves some of them retired, and one
\* that comes after it all of them.
Replace(c, version, ds) ==
    IF canReplace(c, version, ds) THEN {newest(version, ds, absent(c, ds))}
    ELSE IF version <= c.version \/ ~ wellFormed(ds) THEN {c}
    ELSE {withRetired(c, gone) : gone \in IF fencesKept(c, ds) THEN {absent(c, ds)}
                                         ELSE SUBSET absent(c, ds)}

(***************************************************************************)
(* Routing.                                                                *)
(***************************************************************************)
\* The descriptor Route returns, if it returns one.
Route(c, key) == {d \in c.descriptors : Contains(d, key) /\ d.phase = "serving"}

sameFence(d, route) ==
    /\ d.id = route.id /\ d.group = route.group
    /\ d.generation = route.generation /\ d.ownerEpoch = route.ownerEpoch

\* The descriptor RouteAt returns for a key and a complete fence; otherwise
\* the caller is told RangeMoved.
RouteAt(c, key, route) == {d \in Route(c, key) : sameFence(d, route)}

VerifyGeneration(c, d) ==
    /\ Validate(d)
    /\ \A old \in c.history :
          old.id = d.id => \E p \in c.descriptors : p.id = d.id /\ keepsFence(p, old, d)

ValidateAgainstVoters(c, voters) ==
    /\ Cardinality(voters) = 3
    /\ \A d \in c.descriptors : d.voters = voters

(***************************************************************************)
(* The binary image.  An image that decodes stands for the catalog itself. *)
(***************************************************************************)
marshals(c) ==
    /\ c.version # 0 /\ c.descriptors # {}
    /\ Cardinality(c.history) <= 2 * maxRangeDescriptors
    /\ \A d \in c.descriptors \cup c.history : Validate(d)

\* UnmarshalRangeCatalog accepts what MarshalBinary wrote for c: the history
\* has every current fence and, besides, retired ranges only.
decodes(c) ==
    /\ marshals(c)
    /\ canCreate(c.version, c.descriptors)
    /\ c.descriptors \subseteq c.history
    /\ \A h, g \in c.history : h.id = g.id => h = g
    /\ \A h \in c.history : h \in c.descriptors \/ h.phase = "retired"

(***************************************************************************)
(* validateCatalogReplacement: may next follow previous, and next with the *)
(* tombstones it inherits.                                                 *)
(***************************************************************************)
mayFollow(previous, next) ==
    /\ next.version > previous.version
    /\ \A d \in next.descriptors : VerifyGeneration(previous, d)
    /\ \A fence \in absent(previous, next.descriptors) : \A h \in next.history :
          h.id = fence.id => h = fence

\* Mutant: the tombstones of the previous catalog are not carried over.
inheritsNothing(previous, next) == next

\* Mutant: the fences are carried over as they are.
inheritsUnretired(previous, next) ==
    [next EXCEPT !.history = @ \cup absent(previous, next.descriptors)]

inherits(previous, next) ==
    LET gone == absent(previous, next.descriptors)
    IN  [next EXCEPT !.history = (@ \ gone) \cup {retire(h) : h \in gone}]
=============================================================================
