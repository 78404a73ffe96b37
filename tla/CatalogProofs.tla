--------------------------- MODULE CatalogProofs ----------------------------
(***************************************************************************)
(* The catalog of one replica, for any ranges, keys, nodes, callers and    *)
(* catalogs they come with, and any bounds.                                *)
(*                                                                         *)
(* What makes the replica correct is a relation between catalogs: one that *)
(* InstallRangeCatalog admits over another knows every fence of it, with   *)
(* an owner epoch that identifies the owner.  The invariant then says that *)
(* the durable catalog is the installed one, or one admitted over it.      *)
(***************************************************************************)
EXTENDS CatalogReplica, FiniteSetTheorems, TLAPS

-----------------------------------------------------------------------------
(***************************************************************************)
(* Catalogs.                                                               *)
(***************************************************************************)
\* Fence g knows of fence h: it is as new, and where the owner epochs agree
\* the owners do.
covers(g, h) ==
    /\ g.id = h.id /\ g.generation >= h.generation /\ g.ownerEpoch >= h.ownerEpoch
    /\ g.ownerEpoch = h.ownerEpoch
          => g.start = h.start /\ g.end = h.end /\ g.group = h.group /\ g.voters = h.voters

\* Catalog e may stand in for c: it knows every fence of c, and the ranges
\* that are retired or gone in c are so in e.
follows(c, e) ==
    /\ e.version >= c.version
    /\ \A h \in c.history : \E g \in e.history :
          /\ covers(g, h)
          /\ h.phase = "retired" => g.phase = "retired"
          /\ h \notin c.descriptors => g \notin e.descriptors

\* What a catalog that decodes is, apart from its sizes.
LEMMA Decoded ==
    ASSUME NEW c, decodes(c)
    PROVE  /\ c.descriptors \subseteq c.history
           /\ \A h, g \in c.history : h.id = g.id => h = g
           /\ \A h \in c.history : h \in c.descriptors \/ h.phase = "retired"
           /\ canCreate(c.version, c.descriptors)
BY DEF decodes

\* Retiring a fence keeps all but the phase.
LEMMA Retired ==
    ASSUME NEW h \in RangeDescriptor
    PROVE  /\ retire(h) \in RangeDescriptor /\ retire(h).phase = "retired"
           /\ retire(h).id = h.id /\ retire(h).generation = h.generation
           /\ retire(h).ownerEpoch = h.ownerEpoch /\ retire(h).start = h.start
           /\ retire(h).end = h.end /\ retire(h).group = h.group /\ retire(h).voters = h.voters
BY DEF RangeDescriptor, retire, ServingPhase

\* A fence knows of itself and of what the fences it knows of know.
LEMMA CoversOrder ==
    ASSUME NEW f \in RangeDescriptor, NEW g \in RangeDescriptor, NEW h \in RangeDescriptor
    PROVE  covers(f, f) /\ (covers(h, g) /\ covers(g, f) => covers(h, f))
BY DEF covers, RangeDescriptor

\* The catalog validateCatalogReplacement makes of a decoded image, with the
\* tombstones of the installed one, decodes as well.
LEMMA InheritsDecodes ==
    ASSUME NEW c \in Catalog, NEW n \in Catalog, decodes(c), decodes(n), mayFollow(c, n),
           marshals(inherits(c, n))
    PROVE  decodes(inherits(c, n)) /\ inherits(c, n) \in Catalog
<1> DEFINE gone == absent(c, n.descriptors)
           e == inherits(c, n)
<1>1. /\ e.version = n.version /\ e.descriptors = n.descriptors
      /\ e.history = (n.history \ gone) \cup {retire(h) : h \in gone}
      /\ e = [version |-> n.version, descriptors |-> n.descriptors, history |-> e.history]
  BY DEF inherits, Catalog
<1>2. gone \subseteq c.history /\ gone \subseteq RangeDescriptor
  BY DEF absent, Catalog
<1>3. \A h \in gone : h.id \notin idsOf(n.descriptors)
  BY DEF absent
<1>4. \A d \in n.descriptors : d \notin gone
  BY <1>3 DEF idsOf
<1>5. e.history \subseteq RangeDescriptor
  BY <1>1, <1>2, Retired DEF Catalog
<1>6. e \in Catalog
  BY <1>1, <1>5 DEF Catalog
<1>7. e.descriptors \subseteq e.history
  BY <1>1, <1>4, Decoded
<1>8. ASSUME NEW h \in n.history \ gone, NEW f \in gone PROVE h.id # f.id
  BY DEF mayFollow
<1>9. ASSUME NEW h \in e.history, NEW g \in e.history, h.id = g.id PROVE h = g
  <2>1. CASE h \in n.history \ gone /\ g \in n.history \ gone
    BY <1>9, <2>1, Decoded
  <2>2. ASSUME NEW f \in gone, h = retire(f), g \in n.history \ gone PROVE FALSE
    BY <1>2, <1>8, <1>9, <2>2, Retired
  <2>3. ASSUME NEW f \in gone, g = retire(f), h \in n.history \ gone PROVE FALSE
    BY <1>2, <1>8, <1>9, <2>3, Retired
  <2>4. ASSUME NEW f \in gone, NEW k \in gone, h = retire(f), g = retire(k) PROVE h = g
    <3>1. f.id = k.id
      BY <1>2, <1>9, <2>4, Retired
    <3>2. f = k
      BY <1>2, <3>1, Decoded
    <3> QED
      BY <2>4, <3>2
  <2> QED
    BY <1>1, <1>9, <2>1, <2>2, <2>3, <2>4
<1>10. \A h \in e.history : h \in e.descriptors \/ h.phase = "retired"
  BY <1>1, <1>2, Decoded, Retired
<1>11. canCreate(e.version, e.descriptors)
  BY <1>1, Decoded
<1> QED
  BY <1>6, <1>7, <1>9, <1>10, <1>11 DEF decodes

\* It follows the installed catalog: VerifyGeneration keeps the fences of the
\* ranges that stay, the tombstones keep the others.
LEMMA InheritsFollows ==
    ASSUME NEW c \in Catalog, NEW n \in Catalog, decodes(c), decodes(n), mayFollow(c, n)
    PROVE  follows(c, inherits(c, n))
<1> DEFINE gone == absent(c, n.descriptors)
           e == inherits(c, n)
<1>1. /\ e.version = n.version /\ e.descriptors = n.descriptors
      /\ e.history = (n.history \ gone) \cup {retire(h) : h \in gone}
  BY DEF inherits, Catalog
<1>2. e.version >= c.version
  BY <1>1 DEF mayFollow, Catalog
<1>3. ASSUME NEW h \in gone
      PROVE  \E g \in e.history : /\ covers(g, h)
                                  /\ h.phase = "retired" => g.phase = "retired"
                                  /\ h \notin c.descriptors => g \notin e.descriptors
  <2>1. h \in RangeDescriptor /\ h.id \notin idsOf(n.descriptors)
    BY DEF absent, Catalog
  <2>2. retire(h).id = h.id /\ retire(h).phase = "retired" /\ covers(retire(h), h)
    BY <2>1, Retired, CoversOrder DEF covers
  <2>3. retire(h) \in e.history /\ retire(h) \notin e.descriptors
    BY <1>1, <2>1, <2>2 DEF idsOf
  <2> QED
    BY <2>2, <2>3
<1>4. ASSUME NEW h \in c.history, h \notin gone
      PROVE  \E g \in e.history : /\ covers(g, h)
                                  /\ h.phase = "retired" => g.phase = "retired"
                                  /\ h \notin c.descriptors => g \notin e.descriptors
  <2>1. PICK d \in n.descriptors : d.id = h.id
    BY <1>4 DEF absent, idsOf
  <2>2. PICK p \in c.descriptors : p.id = d.id /\ keepsFence(p, h, d)
    BY <2>1 DEF mayFollow, VerifyGeneration
  <2>3. p = h
    BY <2>1, <2>2, Decoded
  <2>4. h \in RangeDescriptor /\ d \in RangeDescriptor
    BY DEF Catalog
  <2>5. covers(d, h)
    BY <2>1, <2>2, <2>3, <2>4 DEF covers, keepsFence, RangeDescriptor
  <2>6. h.phase = "retired" => d.phase = "retired"
    BY <2>2, <2>3 DEF keepsFence, validPhaseTransition
  <2>7. d \in e.history
    <3>1. d \notin gone
      BY DEF absent, idsOf
    <3> QED
      BY <1>1, <3>1, Decoded
  <2> QED
    BY <2>2, <2>3, <2>5, <2>6, <2>7
<1> QED
  BY <1>2, <1>3, <1>4 DEF follows

\* Catalogs are made of descriptors: what NewRangeCatalog and Replace return.
LEMMA NewestType ==
    ASSUME NEW v \in Nat, NEW ds \in SUBSET RangeDescriptor, NEW old \in SUBSET RangeDescriptor
    PROVE  newest(v, ds, old) \in Catalog
<1>1. {retire(h) : h \in old} \subseteq RangeDescriptor
  BY Retired
<1> QED
  BY <1>1 DEF newest, Catalog

\* So is whatever a call of Replace leaves in the receiver, accepted or not.
LEMMA ReplaceType ==
    ASSUME NEW c \in Catalog, NEW v \in Nat, NEW ds \in SUBSET RangeDescriptor,
           NEW e \in Replace(c, v, ds)
    PROVE  e \in Catalog
<1>1. \A gone \in SUBSET c.history : withRetired(c, gone) \in Catalog
  <2> SUFFICES ASSUME NEW gone \in SUBSET c.history PROVE withRetired(c, gone) \in Catalog
    OBVIOUS
  <2>1. c.history \subseteq RangeDescriptor
    BY DEF Catalog
  <2>2. {retire(h) : h \in gone} \subseteq RangeDescriptor
    BY <2>1, Retired
  <2>3. (c.history \ gone) \cup {retire(h) : h \in gone} \subseteq RangeDescriptor
    BY <2>1, <2>2
  <2> QED
    BY <2>3 DEF withRetired, Catalog
<1>2. absent(c, ds) \subseteq c.history /\ absent(c, ds) \subseteq RangeDescriptor
  BY DEF absent, Catalog
<1>3. CASE canReplace(c, v, ds)
  BY <1>2, <1>3, NewestType DEF Replace
<1>4. CASE ~ canReplace(c, v, ds) /\ (v <= c.version \/ ~ wellFormed(ds))
  BY <1>4 DEF Replace
<1>5. CASE ~ canReplace(c, v, ds) /\ ~ (v <= c.version \/ ~ wellFormed(ds))
  <2>1. PICK gone \in SUBSET absent(c, ds) : e = withRetired(c, gone)
    BY <1>5 DEF Replace
  <2> QED
    BY <1>1, <1>2, <2>1
<1> QED
  BY <1>3, <1>4, <1>5

\* So are the catalogs callers come with.
LEMMA OffersType ==
    ASSUME mem \subseteq Catalog
    PROVE  Offers \subseteq Catalog
<1>1. Version \subseteq Nat /\ lists \subseteq SUBSET RangeDescriptor
  BY CatalogReplicaAssumption DEF Version, lists
<1>2. created \subseteq Catalog
  BY <1>1, NewestType DEF created, NewRangeCatalog
<1>3. ASSUME NEW cs \in SUBSET Catalog PROVE replacedOnce(cs) \subseteq Catalog
  BY <1>1, ReplaceType DEF replacedOnce
<1> QED
  BY <1>2, <1>3 DEF Offers, createdAndReplaced

-----------------------------------------------------------------------------
(***************************************************************************)
(* The inductive invariant.                                                *)
(***************************************************************************)
\* A set of at most one catalog, which decodes.
atMostOne(cs) ==
    /\ cs \subseteq Catalog /\ \A c \in cs : decodes(c)
    /\ cs = {} \/ \E c \in cs : cs = {c}

\* Who is between check and publication holds the lock.
lockOK ==
    /\ catalogMu = {p \in Callers : pc[p] \in {"checked", "synced"}}
    /\ \A p, q \in catalogMu : p = q

\* The image under way decodes.  It follows the installed catalog once it is
\* checked and is the durable one once it is synced; the durable catalog is
\* the installed one while the replica is up and nobody is in between.
installOK ==
    /\ \A p \in Callers :
          /\ pc[p] # "idle" => decodes(image[p]) /\ status # "down"
          /\ pc[p] = "checked" => \A c \in mem : follows(c, image[p])
          /\ pc[p] = "synced" => disk = {image[p]}
    /\ status = "up" /\ (\A p \in Callers : pc[p] # "synced") => disk = mem

\* The durable catalog knows every fence the replica ever routed by.
seenOK ==
    /\ \A d \in seen : \E c \in disk : \E h \in c.history : covers(h, d)
    /\ EpochIdentifiesOwner

IInv ==
    /\ TypeOK
    /\ atMostOne(mem) /\ atMostOne(disk)
    /\ lockOK /\ installOK /\ seenOK

\* At most one catalog is at most one.
LEMMA OneIsBounded ==
    ASSUME NEW cs, atMostOne(cs)
    PROVE  Cardinality(cs) <= 1
<1>1. cs = {} \/ \E c \in cs : cs = {c}
  BY DEF atMostOne
<1> QED
  BY <1>1, FS_EmptySet, FS_Singleton

\* Init establishes the invariant.
LEMMA InitIInv == Init => IInv
<1> SUFFICES ASSUME Init PROVE IInv
  OBVIOUS
<1>1. noCatalog \in Catalog
  BY DEF noCatalog, Catalog
<1>2. atMostOne({})
  BY DEF atMostOne
<1>3. TypeOK
  BY <1>1, <1>2, OneIsBounded, CatalogReplicaAssumption DEF Init, TypeOK
<1>4. lockOK /\ installOK /\ seenOK
  BY DEF Init, lockOK, installOK, seenOK, EpochIdentifiesOwner
<1> QED
  BY <1>2, <1>3, <1>4 DEF IInv, Init

-----------------------------------------------------------------------------
(***************************************************************************)
(* Steps.                                                                  *)
(***************************************************************************)
\* Before the lock: a caller encodes an image, or its image is refused.
LEMMA UnlockedStep ==
    ASSUME IInv, NEW p \in Callers, Encode(p) \/ Refuse(p)
    PROVE  IInv'
<1>1. PICK c \in Catalog, s \in {"idle", "encoded"} :
          /\ image' = [image EXCEPT ![p] = c] /\ pc' = [pc EXCEPT ![p] = s]
          /\ s # "idle" => decodes(c) /\ status # "down"
  <2>1. CASE Encode(p)
    <3>1. PICK c \in Offers : decodes(c) /\ image' = [image EXCEPT ![p] = c]
      BY <2>1, Zenon DEF Encode
    <3>2. c \in Catalog
      BY OffersType DEF IInv, TypeOK
    <3> QED
      BY <2>1, <3>1, <3>2, Zenon DEF Encode
  <2>2. CASE Refuse(p)
    BY <2>2, Zenon DEF Refuse, noCatalog, Catalog
  <2> QED
    BY <2>1, <2>2
<1>2. /\ UNCHANGED <<catalogMu, mem, disk, conf, status, seen>>
      /\ pc[p] \in {"idle", "encoded"}
  BY DEF Encode, Refuse
<1>3. TypeOK'
  BY <1>1, <1>2 DEF IInv, TypeOK
<1>4. \A q \in Callers : /\ pc'[q] = IF q = p THEN s ELSE pc[q]
                         /\ image'[q] = IF q = p THEN c ELSE image[q]
  BY <1>1 DEF IInv, TypeOK
<1>5. lockOK'
  BY <1>1, <1>2, <1>4 DEF IInv, lockOK
<1>6. installOK'
  BY <1>1, <1>2, <1>4 DEF IInv, installOK
<1>7. seenOK' /\ atMostOne(mem') /\ atMostOne(disk')
  BY <1>2 DEF IInv, seenOK, EpochIdentifiesOwner
<1> QED
  BY <1>3, <1>5, <1>6, <1>7 DEF IInv

\* What the check admits over the installed catalog follows it and decodes.
LEMMA Admissible ==
    ASSUME IInv, NEW p \in Callers, pc[p] = "encoded", NEW e \in admissible(p)
    PROVE  e \in Catalog /\ decodes(e) /\ \A c \in mem : follows(c, e)
<1>1. image[p] \in Catalog /\ decodes(image[p]) /\ atMostOne(mem)
  BY DEF IInv, TypeOK, installOK
<1>2. e \in candidate(mem, image[p]) /\ marshals(e)
  BY DEF admissible
<1>3. CASE mem = {}
  BY <1>1, <1>2, <1>3 DEF candidate
<1>4. CASE mem # {}
  <2>1. PICK c \in mem : mayFollow(c, image[p]) /\ e = inherits(c, image[p])
    BY <1>2, <1>4 DEF candidate
  <2>2. mem = {c} /\ c \in Catalog /\ decodes(c)
    BY <1>1, <2>1 DEF atMostOne
  <2>3. e \in Catalog /\ decodes(e)
    BY <1>1, <1>2, <2>1, <2>2, InheritsDecodes
  <2>4. follows(c, e)
    BY <1>1, <2>1, <2>2, InheritsFollows
  <2> QED
    BY <2>2, <2>3, <2>4
<1> QED
  BY <1>3, <1>4

\* Check takes the lock and stores the image it admits.
LEMMA CheckStep ==
    ASSUME IInv, NEW p \in Callers, Check(p)
    PROVE  IInv'
<1>1. PICK e \in admissible(p) : image' = [image EXCEPT ![p] = e]
  BY Zenon DEF Check
<1>2. e \in Catalog /\ decodes(e) /\ \A c \in mem : follows(c, e)
  BY Admissible DEF Check
<1>3. /\ UNCHANGED <<mem, disk, conf, status, seen>>
      /\ pc[p] = "encoded" /\ pc' = [pc EXCEPT ![p] = "checked"]
      /\ catalogMu = {} /\ catalogMu' = {p}
  BY DEF Check
<1>4. TypeOK'
  BY <1>1, <1>2, <1>3 DEF IInv, TypeOK
<1>5. \A q \in Callers : /\ pc'[q] = IF q = p THEN "checked" ELSE pc[q]
                         /\ image'[q] = IF q = p THEN e ELSE image[q]
  BY <1>1, <1>3 DEF IInv, TypeOK
<1>6. lockOK'
  BY <1>3, <1>5 DEF IInv, lockOK
<1>7. installOK'
  BY <1>2, <1>3, <1>5 DEF IInv, installOK
<1>8. seenOK' /\ atMostOne(mem') /\ atMostOne(disk')
  BY <1>3 DEF IInv, seenOK, EpochIdentifiesOwner
<1> QED
  BY <1>4, <1>6, <1>7, <1>8 DEF IInv

\* A caller that holds the lock is the only one between check and publication.
LEMMA OnlyHolder ==
    ASSUME IInv, NEW p \in Callers, pc[p] \in {"checked", "synced"}
    PROVE  /\ catalogMu = {p}
           /\ \A q \in Callers : pc[q] \in {"checked", "synced"} => q = p
BY DEF IInv, lockOK

\* What a checked caller writes: an image that decodes, follows the durable
\* catalog, and knows every fence the replica ever routed by.
LEMMA CheckedImage ==
    ASSUME IInv, NEW p \in Callers, pc[p] = "checked", status = "up"
    PROVE  /\ atMostOne({image[p]})
           /\ \A c \in disk : follows(c, image[p])
           /\ \A d \in seen : \E h \in image[p].history : covers(h, d)
<1>1. image[p] \in Catalog /\ decodes(image[p])
  BY DEF IInv, TypeOK, installOK
<1>2. disk = mem
  BY OnlyHolder DEF IInv, installOK
<1>3. \A c \in disk : follows(c, image[p])
  BY <1>2 DEF IInv, installOK
<1>4. ASSUME NEW d \in seen
      PROVE  \E h \in image[p].history : covers(h, d)
  <2>1. PICK c \in disk : \E h \in c.history : covers(h, d)
    BY DEF IInv, seenOK
  <2>2. PICK h \in c.history : covers(h, d)
    BY <2>1
  <2>3. PICK g \in image[p].history : covers(g, h)
    BY <1>3 DEF follows
  <2>4. d \in RangeDescriptor /\ h \in RangeDescriptor /\ g \in RangeDescriptor
    BY <1>1 DEF IInv, TypeOK, Catalog
  <2> QED
    BY <2>2, <2>3, <2>4, CoversOrder
<1> QED
  BY <1>1, <1>3, <1>4 DEF atMostOne

\* The batch of persistCatalog is there.
LEMMA SyncStep ==
    ASSUME IInv, NEW p \in Callers, Sync(p)
    PROVE  IInv'
<1>1. /\ pc[p] = "checked" /\ status = "up" /\ disk' = {image[p]}
      /\ pc' = [pc EXCEPT ![p] = "synced"]
      /\ UNCHANGED <<image, catalogMu, mem, conf, status, seen>>
  BY DEF Sync
<1>2. /\ atMostOne(disk')
      /\ \A d \in seen : \E h \in image[p].history : covers(h, d)
  BY <1>1, CheckedImage
<1>3. TypeOK'
  BY <1>1, <1>2, OneIsBounded DEF IInv, TypeOK, atMostOne
<1>4. \A q \in Callers : pc'[q] = IF q = p THEN "synced" ELSE pc[q]
  BY <1>1 DEF IInv, TypeOK
<1>5. lockOK'
  BY <1>1, <1>4 DEF IInv, lockOK
<1>6. \A q \in Callers : pc[q] \in {"checked", "synced"} => q = p
  BY <1>1, OnlyHolder
<1>7. installOK'
  BY <1>1, <1>4, <1>6, Zenon DEF IInv, installOK
<1>8. seenOK'
  BY <1>1, <1>2, Zenon DEF IInv, seenOK, EpochIdentifiesOwner
<1> QED
  BY <1>1, <1>2, <1>3, <1>5, <1>7, <1>8 DEF IInv

\* It may be there or not, and the replica stops.
LEMMA SyncFailsStep ==
    ASSUME IInv, NEW p \in Callers, SyncFails(p)
    PROVE  IInv'
<1>1. /\ pc[p] = "checked" /\ status' = "fatal"
      /\ disk' = disk \/ (status = "up" /\ disk' = {image[p]})
      /\ pc' = [pc EXCEPT ![p] = "idle"] /\ image' = [image EXCEPT ![p] = noCatalog]
      /\ catalogMu' = {}
      /\ UNCHANGED <<mem, conf, seen>>
  BY Zenon DEF SyncFails
<1>2. /\ atMostOne(disk')
      /\ \A d \in seen : \E c \in disk' : \E h \in c.history : covers(h, d)
  BY <1>1, CheckedImage, Zenon DEF IInv, seenOK
<1>3. TypeOK'
  BY <1>1, <1>2, OneIsBounded, SMTT(20) DEF IInv, TypeOK, atMostOne, noCatalog, Catalog
<1>4. \A q \in Callers : /\ pc'[q] = IF q = p THEN "idle" ELSE pc[q]
                         /\ q # p => image'[q] = image[q]
  BY <1>1, Zenon DEF IInv, TypeOK
<1>5. \A q \in Callers : pc[q] \in {"checked", "synced"} => q = p
  BY <1>1, OnlyHolder
<1>6. lockOK'
  BY <1>1, <1>4, <1>5 DEF lockOK
<1>7. installOK'
  BY <1>1, <1>4, <1>5 DEF IInv, installOK
<1>8. seenOK'
  BY <1>1, <1>2, Zenon DEF IInv, seenOK, EpochIdentifiesOwner
<1> QED
  BY <1>1, <1>2, <1>3, <1>6, <1>7, <1>8 DEF IInv

\* A replica that routes by the durable catalog, from Publish or from Open, has
\* one owner for every range and owner epoch it ever routed by.
LEMMA RouteByDurable ==
    ASSUME IInv, disk' = disk, seen' = seen \cup UNION {c.descriptors : c \in disk}
    PROVE  seenOK' /\ seen' \subseteq RangeDescriptor
<1>1. /\ \A c \in disk : disk = {c} /\ c \in Catalog /\ decodes(c)
      /\ seen \subseteq RangeDescriptor
  BY DEF IInv, atMostOne, TypeOK
<1>2. seen' \subseteq RangeDescriptor
  BY <1>1 DEF Catalog
<1>3. ASSUME NEW d \in seen'
      PROVE  \E c \in disk : \E h \in c.history : covers(h, d)
  <2>1. CASE d \in seen
    BY <2>1 DEF IInv, seenOK
  <2>2. ASSUME NEW c \in disk, d \in c.descriptors
        PROVE  \E e \in disk : \E h \in e.history : covers(h, d)
    <3>1. d \in c.history
      BY <1>1, <2>2, Decoded
    <3>2. covers(d, d)
      BY <1>2, CoversOrder
    <3> QED
      BY <3>1, <3>2
  <2> QED
    BY <2>1, <2>2
<1>4. ASSUME NEW c \in disk, NEW d \in c.descriptors, NEW e \in seen',
             d.id = e.id, d.ownerEpoch = e.ownerEpoch
      PROVE  d.start = e.start /\ d.end = e.end /\ d.group = e.group /\ d.voters = e.voters
  <2>1. PICK h \in c.history : covers(h, e)
    BY <1>1, <1>3
  <2>2. d \in c.history /\ h.id = d.id
    BY <1>1, <1>4, <2>1, Decoded DEF covers
  <2>3. h = d
    BY <1>1, <2>2, Decoded
  <2> QED
    BY <1>4, <2>1, <2>3 DEF covers
<1>5. EpochIdentifiesOwner'
  <2> SUFFICES ASSUME NEW d \in seen', NEW e \in seen', d.id = e.id, d.ownerEpoch = e.ownerEpoch
               PROVE  d.start = e.start /\ d.end = e.end /\ d.group = e.group /\ d.voters = e.voters
    BY DEF EpochIdentifiesOwner
  <2>1. CASE d \in seen /\ e \in seen
    BY <2>1 DEF IInv, seenOK, EpochIdentifiesOwner
  <2>2. CASE d \notin seen
    BY <1>4, <2>2
  <2>3. CASE e \notin seen
    BY <1>4, <2>3
  <2> QED
    BY <2>1, <2>2, <2>3
<1> QED
  BY <1>2, <1>3, <1>5 DEF seenOK

\* The image is published and the lock given back.
LEMMA PublishStep ==
    ASSUME IInv, NEW p \in Callers, Publish(p)
    PROVE  IInv'
<1>1. /\ pc[p] = "synced" /\ mem' = {image[p]} /\ seen' = seen \cup image[p].descriptors
      /\ pc' = [pc EXCEPT ![p] = "idle"] /\ image' = [image EXCEPT ![p] = noCatalog]
      /\ catalogMu' = {}
      /\ UNCHANGED <<disk, conf, status>>
  BY Zenon DEF Publish
<1>2. disk = {image[p]} /\ atMostOne(disk) /\ mem' = disk
  BY <1>1, Zenon DEF IInv, installOK
<1>3. seenOK' /\ seen' \subseteq RangeDescriptor
  BY <1>1, <1>2, RouteByDurable, Zenon
<1>4. TypeOK'
  BY <1>1, <1>2, <1>3, OneIsBounded, Zenon DEF IInv, TypeOK, noCatalog, Catalog
<1>5. \A q \in Callers : /\ pc'[q] = IF q = p THEN "idle" ELSE pc[q]
                         /\ q # p => image'[q] = image[q]
  BY <1>1 DEF IInv, TypeOK
<1>6. \A q \in Callers : pc[q] \in {"checked", "synced"} => q = p
  BY <1>1, OnlyHolder, Zenon
<1>7. lockOK'
  BY <1>1, <1>5, <1>6, SMTT(20) DEF lockOK
<1>8. installOK'
  BY <1>1, <1>2, <1>5, <1>6 DEF IInv, installOK
<1> QED
  BY <1>1, <1>2, <1>3, <1>4, <1>7, <1>8 DEF IInv

\* The replica around it: a configuration change, a crash, Open.
LEMMA ReplicaStep ==
    ASSUME IInv, ConfChange \/ Crash \/ Open \/ UNCHANGED vars
    PROVE  IInv'
<1>1. CASE ConfChange
  <2>1. UNCHANGED <<pc, image, catalogMu, mem, disk, status, seen>> /\ conf' \subseteq Nodes
    BY <1>1, Zenon DEF ConfChange, locals, IInv, TypeOK
  <2> QED
    BY <2>1, Zenon DEF IInv, TypeOK, lockOK, installOK, seenOK, EpochIdentifiesOwner
<1>2. CASE Crash
  <2>1. /\ mem' = {} /\ catalogMu' = {} /\ status' = "down"
        /\ image' = [p \in Callers |-> noCatalog] /\ pc' = [p \in Callers |-> "idle"]
        /\ UNCHANGED <<disk, conf, seen>>
    BY <1>2 DEF Crash
  <2>2. atMostOne({})
    BY Zenon DEF atMostOne
  <2>3. TypeOK'
    BY <2>1, <2>2, OneIsBounded, Zenon DEF IInv, TypeOK, noCatalog, Catalog
  <2>4. lockOK' /\ installOK' /\ seenOK'
    BY <2>1, Zenon DEF IInv, lockOK, installOK, seenOK, EpochIdentifiesOwner
  <2> QED
    BY <2>1, <2>2, <2>3, <2>4 DEF IInv
<1>3. CASE Open
  <2>1. /\ status = "down" /\ status' = "up" /\ mem' = disk
        /\ seen' = seen \cup UNION {c.descriptors : c \in disk}
        /\ UNCHANGED <<pc, image, catalogMu, disk, conf>>
    BY <1>3, Zenon DEF Open, locals
  <2>2. seenOK' /\ seen' \subseteq RangeDescriptor
    BY <2>1, RouteByDurable, Zenon
  <2>3. TypeOK'
    BY <2>1, <2>2, Zenon DEF IInv, TypeOK
  <2>4. lockOK' /\ installOK'
    BY <2>1, Zenon DEF IInv, lockOK, installOK
  <2> QED
    BY <2>1, <2>2, <2>3, <2>4, Zenon DEF IInv
<1>4. CASE UNCHANGED vars
  BY <1>4, Zenon DEF vars, IInv, TypeOK, lockOK, installOK, seenOK, EpochIdentifiesOwner
<1> QED
  BY <1>1, <1>2, <1>3, <1>4, Zenon

\* The invariant holds in every reachable state.
LEMMA CatalogInductive == Spec => []IInv
<1>1. IInv /\ [Next]_vars => IInv'
  BY UnlockedStep, CheckStep, SyncStep, SyncFailsStep, PublishStep, ReplicaStep DEF Next
<1> QED
  BY <1>1, InitIInv, PTL DEF Spec

-----------------------------------------------------------------------------
(***************************************************************************)
(* The results.                                                            *)
(***************************************************************************)
\* The state of a replica's catalog has its type.
THEOREM CatalogTypeCorrect == Spec => []TypeOK
<1>1. IInv => TypeOK
  BY DEF IInv
<1> QED
  BY <1>1, CatalogInductive, PTL

\* No fence the replica ever routed by is lost by a crash, a failed sync or a
\* later catalog (InstallRangeCatalog, persistCatalog).
THEOREM CatalogSeenIsDurable == Spec => []SeenIsDurable
<1>1. IInv => SeenIsDurable
  BY DEF IInv, seenOK, SeenIsDurable, covers
<1> QED
  BY <1>1, CatalogInductive, PTL

\* An owner epoch of a range has one owner, over all time and restarts.
THEOREM CatalogEpochIdentifiesOwner == Spec => []EpochIdentifiesOwner
<1>1. IInv => EpochIdentifiesOwner
  BY DEF IInv, seenOK
<1> QED
  BY <1>1, CatalogInductive, PTL

\* persistCatalog gets images that decode.
THEOREM CatalogAdmittedDecodes == Spec => []AdmittedDecodes
<1>1. IInv => AdmittedDecodes
  BY DEF IInv, installOK, AdmittedDecodes
<1> QED
  BY <1>1, CatalogInductive, PTL

\* No step of the durable catalog brings back a range that was retired or gone
\* (validateCatalogReplacement).
THEOREM CatalogTombstonesStay == Spec => TombstonesStay
<1> DEFINE kept == \A c \in disk : \E e \in disk' :
          /\ e.version >= c.version
          /\ \A h \in c.history : \E g \in e.history :
                /\ g.id = h.id
                /\ h.phase = "retired" => g.phase = "retired"
                /\ h \notin c.descriptors => g \notin e.descriptors
<1>1. IInv /\ [Next]_vars => [kept]_disk
  <2> SUFFICES ASSUME IInv, [Next]_vars, disk' # disk PROVE kept
    BY Zenon
  <2>1. PICK p \in Callers : pc[p] = "checked" /\ status = "up" /\ disk' = {image[p]}
    BY Zenon DEF Next, vars, Encode, Check, Refuse, Sync, SyncFails, Publish, ConfChange, Crash, Open
  <2>2. \A c \in disk : follows(c, image[p])
    BY <2>1, CheckedImage
  <2> QED
    BY <2>1, <2>2 DEF follows, covers
<1> QED
  BY <1>1, CatalogInductive, PTL DEF Spec, TombstonesStay
=============================================================================
