--------------------------- MODULE HelperRunProofs ---------------------------
(***************************************************************************)
(* For every volume and whatever its container does to it: what is written *)
(* is an archive that names nothing twice, what the container does to      *)
(* files never spoils it, and a call that reports success has all of it,   *)
(* which gives back whatever the container left alone.                     *)
(***************************************************************************)
EXTENDS HelperRun, IterationProofs

\* The walk goes forward: what is written comes before what is still to be
\* visited, and what is being read lies between the two.
OrderInv ==
  /\ walk.pc \in {"visit", "read", "list", "failed"} => \A i \in DOMAIN archive : archive[i].path # 0
  /\ \A i \in DOMAIN archive : \A q \in walk.todo : archive[i].path < q
  /\ walk.pc \in {"read", "list"} => walk.at \in Path /\ \A q \in walk.todo : walk.at < q
  /\ walk.pc = "read" => \A i \in DOMAIN archive : archive[i].path < walk.at
  /\ walk.pc = "list" => \A i \in DOMAIN archive : archive[i].path <= walk.at

\* Unless the container has taken one away, each directory and symlink that the
\* walk has heard of is still there.
FoundInv ==
  /\ ~missing => \A p \in walk.todo \ Files : There(p)
  /\ ~missing /\ walk.pc \in {"read", "list"} => walk.at \in Files \/ There(walk.at)
  /\ walk.pc = "list" => walk.at \notin Files

WalkInv == WalkTypeOK /\ OrderInv /\ FoundInv /\ VanishedFilesAreNormal

-----------------------------------------------------------------------------
(* The archive *)

LEMMA Numbers == /\ Path \subseteq Nat \ {0} /\ Node \subseteq Nat \ {0} /\ MaxChanges \in Nat
                 /\ Path \subseteq Node /\ 0 \notin Path /\ 0 \notin Node
  BY PathAssumption, NodeAssumption, ChangesAssumption

LEMMA Appended ==
  ASSUME archive \in Seq(Entry), IsInjective([i \in DOMAIN archive |-> archive[i].path]),
         NEW e \in Entry, \A i \in DOMAIN archive : archive[i].path # e.path,
         archive' = Append(archive, e)
  PROVE  /\ archive' \in Seq(Entry)
         /\ IsInjective([i \in DOMAIN archive' |-> archive'[i].path])
         /\ Len(archive') = Len(archive) + 1
         /\ \A i \in DOMAIN archive' : archive'[i] = e \/ \E j \in DOMAIN archive : archive'[i] = archive[j]
  <1>1. /\ archive' \in Seq(Entry) /\ Len(archive') = Len(archive) + 1
        /\ DOMAIN archive' = 1 .. Len(archive) + 1 /\ DOMAIN archive = 1 .. Len(archive)
        /\ Len(archive) \in Nat
        /\ \A i \in DOMAIN archive : archive'[i] = archive[i]
        /\ archive'[Len(archive) + 1] = e
    OBVIOUS
  <1>2. \A i \in DOMAIN archive' : i \in DOMAIN archive \/ i = Len(archive) + 1
    BY <1>1
  <1>3. ASSUME NEW i \in DOMAIN archive', NEW j \in DOMAIN archive',
               archive'[i].path = archive'[j].path
        PROVE  i = j
    <2>1. \A k, l \in DOMAIN archive : archive[k].path = archive[l].path => k = l
      BY DEF IsInjective
    <2>2. CASE i \in DOMAIN archive /\ j \in DOMAIN archive
      BY <1>1, <1>3, <2>1, <2>2
    <2>3. CASE i = Len(archive) + 1 /\ j \in DOMAIN archive
      BY <1>1, <1>3, <2>3
    <2>4. CASE i \in DOMAIN archive /\ j = Len(archive) + 1
      BY <1>1, <1>3, <2>4
    <2>5. QED
      BY <1>2, <2>2, <2>3, <2>4
  <1>4. IsInjective([i \in DOMAIN archive' |-> archive'[i].path])
    BY <1>3 DEF IsInjective
  <1>5. QED
    BY <1>1, <1>2, <1>4

LEMMA PathsAreNumbers == \A x \in Entry : x.path \in Nat
  <1>1. \A x \in [type : Kind, path : Path, data : Version \cup {Zeros}] : x.path \in Nat
    BY Numbers
  <1>2. \A x \in [type : {"link"}, path : Path, first : Path] : x.path \in Nat
    BY Numbers
  <1>3. Trailer.path \in Nat
    BY DEF Trailer
  <1>4. QED
    BY <1>1, <1>2, <1>3 DEF Entry

LEMMA StoredTyped ==
  ASSUME NEW p \in Path, NEW data \in Version \cup {Zeros}
  PROVE  Stored(p, data) \in Entry /\ Stored(p, data).path = p
  <1>1. KindOf[p] \in Kind
    BY KindAssumption
  <1>2. QED
    BY <1>1 DEF Stored, Entry

LEMMA LinkTyped ==
  ASSUME NEW p \in Path, NEW first \in Path
  PROVE  LinkTo(p, first) \in Entry /\ LinkTo(p, first).path = p
  BY DEF LinkTo, Entry

LEMMA ContentTyped ==
  ASSUME WalkTypeOK, NEW p \in Path, There(p)
  PROVE  content[node[p]] \in Version
  BY Numbers DEF WalkTypeOK, There

LEMMA LinksTyped == ASSUME NEW p \in Path PROVE Links(p) \in Nat
  <1>1. IsFiniteSet(NamesOf(node[p]))
    BY PathAssumption, FS_Subset DEF NamesOf
  <1>2. QED
    BY <1>1, FS_CardinalityType DEF Links

\* A walk that goes on with a new entry, or with none.
LEMMA WalkWrites ==
  ASSUME WalkInv, UNCHANGED volumeVars, NEW p \in Path, NEW e \in Entry, e.path = p,
         archive' = archive \/ archive' = Append(archive, e),
         Walking, walk' \in WalkState, walk'.pc \in {"visit", "read", "list"},
         \A i \in DOMAIN archive : archive[i].path < p,
         walk'.pc = "read" => archive' = archive,
         walk'.todo \subseteq walk.todo, \A q \in walk'.todo : p < q,
         walk'.pc \in {"read", "list"} => walk'.at = p,
         walk'.pc = "read" => There(p),
         walk'.pc = "list" => p \notin Files /\ (~missing => There(p))
  PROVE  WalkInv' /\ Len(archive) <= Len(archive')
  <1>1. /\ archive' \in Seq(Entry) /\ Len(archive) <= Len(archive')
        /\ IsInjective([i \in DOMAIN archive' |-> archive'[i].path])
        /\ \A i \in DOMAIN archive' : archive'[i] = e \/ \E j \in DOMAIN archive : archive'[i] = archive[j]
    <2>1. archive \in Seq(Entry) /\ IsInjective([i \in DOMAIN archive |-> archive[i].path])
          /\ Len(archive) \in Nat
      BY DEF WalkInv, WalkTypeOK
    <2>2. \A i \in DOMAIN archive : archive[i].path # e.path
      BY <2>1, Numbers
    <2>3. CASE archive' = archive
      BY <2>1, <2>3
    <2>4. CASE archive' = Append(archive, e)
      BY <2>1, <2>2, <2>4, Appended
    <2>5. QED
      BY <2>3, <2>4
  <1>2. WalkTypeOK'
    BY <1>1 DEF WalkInv, WalkTypeOK, volumeVars
  <1>3. \A i \in DOMAIN archive' : archive'[i].path <= p /\ archive'[i].path # 0
    <2>1. \A i \in DOMAIN archive : archive[i].path <= p /\ archive[i].path # 0
      <3>1. \A i \in DOMAIN archive : archive[i].path # 0
        BY DEF WalkInv, OrderInv, Walking
      <3>2. \A i \in DOMAIN archive : archive[i].path \in Nat
        BY PathsAreNumbers DEF WalkInv, WalkTypeOK
      <3>3. QED
        BY <3>1, <3>2, Numbers
    <2>2. e.path <= p /\ e.path # 0
      BY Numbers
    <2>3. QED
      BY <1>1, <2>1, <2>2
  <1>4. OrderInv'
    <2>1. \A i \in DOMAIN archive' : \A q \in walk'.todo : archive'[i].path < q
      <3>1. SUFFICES ASSUME NEW i \in DOMAIN archive', NEW q \in walk'.todo
                     PROVE  archive'[i].path < q
        OBVIOUS
      <3>2. archive'[i].path \in Nat
        BY <1>1, PathsAreNumbers
      <3>3. p \in Nat /\ q \in Nat
        BY Numbers DEF WalkState
      <3>4. QED
        BY <1>3, <3>2, <3>3
    <2>2. walk'.pc = "read" => \A i \in DOMAIN archive' : archive'[i].path < walk'.at
      OBVIOUS
    <2>3. QED
      BY <1>3, <2>1, <2>2 DEF OrderInv
  <1>5. FoundInv' /\ VanishedFilesAreNormal'
    BY DEF WalkInv, FoundInv, VanishedFilesAreNormal, There, volumeVars
  <1>6. QED
    BY <1>1, <1>2, <1>4, <1>5 DEF WalkInv

\* Whatever the container does to its volume, the walk has not gone on.
LEMMA ChangeKeeps ==
  ASSUME WalkInv, NEW n \in SUBSET Node, Change(n),
         node' \in [Path -> Node \cup {0}], content' \in [Node -> Version], missing' \in BOOLEAN,
         \/ missing'
         \/ missing' = missing /\ \A p \in Path \ Files : There(p) => There(p)'
  PROVE  WalkInv' /\ UNCHANGED archive
  <1>1. UNCHANGED <<hot, walk, archive>> /\ walk.pc \in {"visit", "read", "list"}
    BY DEF Change
  <1>2. WalkTypeOK'
    <2>1. changes' \in 0 .. MaxChanges /\ touched' \subseteq Node
      BY Numbers DEF WalkInv, WalkTypeOK, Change
    <2>2. QED
      BY <1>1, <2>1 DEF WalkInv, WalkTypeOK
  <1>3. OrderInv'
    BY <1>1 DEF WalkInv, OrderInv
  <1>4. FoundInv'
    <2>1. CASE missing'
      BY <1>1, <2>1 DEF WalkInv, FoundInv
    <2>2. CASE missing' = missing /\ \A p \in Path \ Files : There(p) => There(p)'
      <3>1. walk \in WalkState
        BY DEF WalkInv, WalkTypeOK
      <3>2. walk.todo \subseteq Path
        BY <3>1 DEF WalkState
      <3>3. Files' = Files
        BY DEF Files
      <3>4. walk.pc \in {"read", "list"} => walk.at \in Path
        BY DEF WalkInv, OrderInv
      <3>5. QED
        BY <1>1, <2>2, <3>2, <3>3, <3>4 DEF WalkInv, FoundInv
    <2>3. QED
      BY <2>1, <2>2
  <1>5. VanishedFilesAreNormal'
    BY <1>1 DEF VanishedFilesAreNormal
  <1>6. QED
    BY <1>1, <1>2, <1>3, <1>4, <1>5 DEF WalkInv

LEMMA FreshTyped ==
  ASSUME WalkInv, NEW n \in Node, changes < MaxChanges
  PROVE  Fresh(n) \in Version
  BY Numbers DEF WalkInv, WalkTypeOK, Fresh, Version

LEMMA UseKeeps == ASSUME WalkInv, UseVolume PROVE WalkInv' /\ UNCHANGED archive
  <1>0. /\ node \in [Path -> Node \cup {0}] /\ content \in [Node -> Version] /\ missing \in BOOLEAN
        /\ Files \subseteq Path
    BY DEF WalkInv, WalkTypeOK, Files
  <1>1. CASE Rewrite
    <2>1. PICK p \in Files : /\ There(p) /\ Change({node[p]})
                             /\ content' = [content EXCEPT ![node[p]] = Fresh(node[p])]
                             /\ UNCHANGED <<node, missing>>
      BY <1>1 DEF Rewrite
    <2>2. node[p] \in Node /\ changes < MaxChanges
      BY <1>0, <2>1 DEF There, Change
    <2>3. content' \in [Node -> Version]
      BY <1>0, <2>1, <2>2, FreshTyped
    <2>4. \A q \in Path : There(q)' = There(q)
      BY <2>1 DEF There
    <2>5. QED
      BY <1>0, <2>1, <2>2, <2>3, <2>4, ChangeKeeps
  <1>2. CASE Make
    <2>1. PICK p \in Path, n \in Node :
                 /\ Change({n}) /\ node' = [node EXCEPT ![p] = n]
                 /\ content' = [content EXCEPT ![n] = Fresh(n)] /\ UNCHANGED missing
      BY <1>2 DEF Make
    <2>2. changes < MaxChanges
      BY <2>1 DEF Change
    <2>3. content' \in [Node -> Version]
      BY <1>0, <2>1, <2>2, FreshTyped
    <2>4. \A q \in Path : There(q) => There(q)'
      BY <1>0, <2>1, Numbers DEF There
    <2>5. node' \in [Path -> Node \cup {0}]
      BY <1>0, <2>1
    <2>6. QED
      BY <1>0, <2>1, <2>3, <2>4, <2>5, ChangeKeeps
  <1>3. CASE Link
    <2>1. PICK p \in Files, q \in Files :
                 /\ There(p) /\ Change({node[p]}) /\ node' = [node EXCEPT ![q] = node[p]]
                 /\ UNCHANGED <<content, missing>>
      BY <1>3 DEF Link
    <2>2. node[p] \in Node
      BY <1>0, <2>1 DEF There
    <2>3. node' \in [Path -> Node \cup {0}] /\ \A d \in Path : There(d) => There(d)'
      BY <1>0, <2>1, <2>2, Numbers DEF There
    <2>4. QED
      BY <1>0, <2>1, <2>2, <2>3, ChangeKeeps
  <1>4. CASE Unlink
    <2>1. PICK p \in Path :
                 /\ There(p) /\ Change({node[p]}) /\ node' = [node EXCEPT ![p] = 0]
                 /\ missing' = (missing \/ p \notin Files) /\ UNCHANGED content
      BY <1>4 DEF Unlink
    <2>2. node[p] \in Node
      BY <1>0, <2>1 DEF There
    <2>3. node' \in [Path -> Node \cup {0}] /\ missing' \in BOOLEAN
      BY <1>0, <2>1
    <2>4. missing' \/ (missing' = missing /\ \A d \in Path \ Files : There(d) => There(d)')
      <3>1. CASE p \in Files
        <4>1. missing' = missing
          BY <1>0, <2>1, <3>1
        <4>2. \A d \in Path \ Files : node'[d] = node[d]
          BY <1>0, <2>1, <3>1
        <4>3. QED
          BY <4>1, <4>2 DEF There
      <3>2. CASE p \notin Files
        BY <2>1, <3>2
      <3>3. QED
        BY <3>1, <3>2
    <2>5. QED
      BY <1>0, <2>1, <2>2, <2>3, <2>4, ChangeKeeps
  <1>5. CASE Rename
    <2>1. PICK p \in Files, q \in Files :
                 /\ There(p) /\ Change({node[p], node[q]} \ {0})
                 /\ node' = [node EXCEPT ![q] = node[p], ![p] = 0]
                 /\ UNCHANGED <<content, missing>>
      BY <1>5 DEF Rename
    <2>2. {node[p], node[q]} \ {0} \in SUBSET Node
      BY <1>0, <2>1
    <2>3. node' \in [Path -> Node \cup {0}] /\ \A d \in Path \ Files : node'[d] = node[d]
      BY <1>0, <2>1
    <2>4. \A d \in Path \ Files : There(d) => There(d)'
      BY <2>3 DEF There
    <2>5. QED
      BY <1>0, <2>1, <2>2, <2>3, <2>4, ChangeKeeps
  <1>6. QED
    BY <1>1, <1>2, <1>3, <1>4, <1>5 DEF UseVolume

-----------------------------------------------------------------------------
(* The walk *)

\* The name that is reached next, and what is left then.
LEMMA Reached ==
  ASSUME WalkInv, NEW p \in Path, Reach(p)
  PROVE  /\ walk \in WalkState /\ Walking /\ p \in walk.todo
         /\ \A i \in DOMAIN archive : archive[i].path < p
         /\ Passed(p) \in WalkState
         /\ Passed(p).todo = walk.todo \ {p} /\ Passed(p).pc = "visit"
         /\ \A q \in walk.todo \ {p} : p < q
         /\ ~missing => p \in Files \/ There(p)
  <1>1. walk \in WalkState /\ walk.pc = "visit" /\ p \in walk.todo /\ \A q \in walk.todo : p <= q
    BY DEF WalkInv, WalkTypeOK, Reach
  <1>2. walk.todo \subseteq Path
    BY <1>1 DEF WalkState
  <1>3. ASSUME NEW q \in walk.todo \ {p} PROVE p < q
    <2>1. p \in Nat /\ q \in Nat /\ p <= q /\ p # q
      BY <1>1, <1>2, Numbers
    <2>2. QED
      BY <2>1
  <1>4. /\ Passed(p) \in WalkState /\ Passed(p).todo = walk.todo \ {p} /\ Passed(p).pc = "visit"
    BY <1>1 DEF WalkState, Passed
  <1>5. \A i \in DOMAIN archive : archive[i].path < p
    BY <1>1 DEF WalkInv, OrderInv
  <1>6. ~missing => p \in Files \/ There(p)
    BY <1>1 DEF WalkInv, FoundInv
  <1>7. QED
    BY <1>1, <1>3, <1>4, <1>5, <1>6 DEF Walking

LEMMA BackTyped ==
  ASSUME walk \in WalkState
  PROVE  /\ Back \in WalkState /\ Back.pc = "visit" /\ Back.todo = walk.todo /\ Back.at = 0
         /\ Back.broken = walk.broken
  BY DEF WalkState, Back

\* A walk that ends in failure, because of something missing or because it was broken.
LEMMA WalkFails ==
  ASSUME WalkInv, UNCHANGED <<volumeVars, archive>>, Walking, walk' \in WalkState,
         walk'.pc = "failed", walk'.todo = walk.todo, walk'.broken \/ missing
  PROVE  WalkInv'
  <1>1. WalkTypeOK'
    BY DEF WalkInv, WalkTypeOK, volumeVars
  <1>2. OrderInv'
    BY DEF WalkInv, OrderInv, Walking
  <1>3. FoundInv' /\ VanishedFilesAreNormal'
    BY DEF WalkInv, FoundInv, VanishedFilesAreNormal, There, volumeVars
  <1>4. QED
    BY <1>1, <1>2, <1>3 DEF WalkInv

LEMMA VisitKeeps ==
  ASSUME WalkInv, UNCHANGED volumeVars, VisitDir \/ VisitVanished \/ VisitLink \/ VisitOther
  PROVE  WalkInv' /\ Len(archive) <= Len(archive')
  <1>1. CASE VisitDir
    <2>1. PICK p \in Path \ Files :
                 /\ Reach(p) /\ walk' = [Passed(p) EXCEPT !.pc = "list", !.at = p]
                 /\ IF There(p) THEN Write(Stored(p, content[node[p]])) ELSE UNCHANGED archive
      BY <1>1 DEF VisitDir
    <2>2. walk' \in WalkState /\ walk'.pc = "list" /\ walk'.at = p /\ walk'.todo = walk.todo \ {p}
      <3>1. Passed(p) \in WalkState /\ Passed(p).todo = walk.todo \ {p}
        BY <2>1, Reached
      <3>2. QED
        BY <2>1, <3>1 DEF WalkState
    <2>3. CASE There(p)
      <3>1. content[node[p]] \in Version
        BY <2>3, ContentTyped DEF WalkInv
      <3>2. Stored(p, content[node[p]]) \in Entry /\ Stored(p, content[node[p]]).path = p
        BY <3>1, StoredTyped
      <3>3. QED
        BY <2>1, <2>2, <2>3, <3>2, Reached, WalkWrites DEF Write
    <2>4. CASE ~There(p)
      <3>1. Stored(p, Zeros) \in Entry /\ Stored(p, Zeros).path = p
        BY StoredTyped
      <3>2. ~missing => There(p)
        BY <2>1, Reached
      <3>3. QED
        BY <2>1, <2>2, <2>4, <3>1, <3>2, Reached, WalkWrites
    <2>5. QED
      BY <2>3, <2>4
  <1>2. CASE VisitVanished
    <2>1. PICK p \in Path : Reach(p) /\ walk' = Passed(p) /\ archive' = archive
      BY <1>2 DEF VisitVanished
    <2>2. Stored(p, Zeros) \in Entry /\ Stored(p, Zeros).path = p
      BY StoredTyped
    <2>3. QED
      BY <2>1, <2>2, Reached, WalkWrites
  <1>3. CASE VisitLink
    <2>1. PICK p \in Files, k \in walk.seen :
                 Reach(p) /\ walk' = Passed(p) /\ archive' = Append(archive, LinkTo(p, k.first))
      BY <1>3 DEF VisitLink, Known, Write
    <2>2. p \in Path /\ k.first \in Path
      BY <2>1 DEF Files, WalkInv, WalkTypeOK, WalkState
    <2>3. LinkTo(p, k.first) \in Entry /\ LinkTo(p, k.first).path = p
      BY <2>2, LinkTyped
    <2>4. QED
      BY <2>1, <2>2, <2>3, Reached, WalkWrites
  <1>4. CASE VisitOther
    <2>1. PICK p \in Path :
                 /\ Reach(p) /\ There(p) /\ archive' = archive
                 /\ walk' = [Passed(p) EXCEPT !.pc = "read", !.at = p,
                               !.seen = IF p \in Files /\ Links(p) > 1
                                        THEN @ \cup {[node |-> node[p], links |-> Links(p), first |-> p]}
                                        ELSE @]
      BY <1>4 DEF VisitOther
    <2>2. [node |-> node[p], links |-> Links(p), first |-> p] \in [node : Node, links : Nat, first : Path]
      BY <2>1, LinksTyped DEF WalkInv, WalkTypeOK, There
    <2>3. walk' \in WalkState /\ walk'.pc = "read" /\ walk'.at = p /\ walk'.todo = walk.todo \ {p}
      <3>1. Passed(p) \in WalkState /\ Passed(p).todo = walk.todo \ {p}
        BY <2>1, Reached
      <3>2. QED
        BY <2>1, <2>2, <3>1 DEF WalkState
    <2>4. Stored(p, Zeros) \in Entry /\ Stored(p, Zeros).path = p
      BY StoredTyped
    <2>5. QED
      BY <2>1, <2>3, <2>4, Reached, WalkWrites
  <1>5. QED
    BY <1>1, <1>2, <1>3, <1>4

LEMMA ReadKeeps ==
  ASSUME WalkInv, UNCHANGED volumeVars, Read
  PROVE  WalkInv' /\ Len(archive) <= Len(archive')
  <1> DEFINE p == walk.at
  <1>1. /\ walk.pc = "read" /\ walk \in WalkState /\ p \in Path /\ Walking
        /\ \A q \in walk.todo : p < q
        /\ \A i \in DOMAIN archive : archive[i].path < p
        /\ ~missing => p \in Files \/ There(p)
    BY DEF Read, WalkInv, WalkTypeOK, OrderInv, FoundInv, Walking
  <1>2. ASSUME NEW data \in Version \cup {Zeros}, archive' = Append(archive, Stored(p, data)), walk' = Back
        PROVE  WalkInv' /\ Len(archive) <= Len(archive')
    <2>1. Stored(p, data) \in Entry /\ Stored(p, data).path = p
      BY <1>1, StoredTyped
    <2>2. /\ walk' \in WalkState /\ walk'.pc = "visit" /\ walk'.todo = walk.todo
      BY <1>1, <1>2, BackTyped
    <2>3. QED
      BY <1>1, <1>2, <2>1, <2>2, WalkWrites
  <1>3. CASE There(p)
    <2>1. content[node[p]] \in Version
      BY <1>1, <1>3, ContentTyped DEF WalkInv
    <2>2. QED
      BY <1>2, <1>3, <2>1 DEF Read, Write
  <1>4. CASE ~There(p) /\ p \in Files
    BY <1>2, <1>4 DEF Read, Write
  <1>5. CASE ~There(p) /\ p \notin Files
    <2>1. walk' = [Back EXCEPT !.pc = "failed"] /\ archive' = archive
      BY <1>5 DEF Read, Fail
    <2>2. walk' \in WalkState /\ walk'.pc = "failed" /\ walk'.todo = walk.todo
      BY <1>1, <2>1, BackTyped DEF WalkState
    <2>3. missing
      BY <1>1, <1>5
    <2>4. Len(archive) <= Len(archive')
      BY <2>1 DEF WalkInv, WalkTypeOK
    <2>5. QED
      BY <1>1, <2>1, <2>2, <2>3, <2>4, WalkFails
  <1>6. QED
    BY <1>3, <1>4, <1>5

LEMMA ListKeeps ==
  ASSUME WalkInv, UNCHANGED volumeVars, List
  PROVE  WalkInv' /\ UNCHANGED archive
  <1> DEFINE d == walk.at
             found == {q \in Path : There(q) /\ Holds(d, q)}
  <1>1. /\ walk.pc = "list" /\ walk \in WalkState /\ d \in Path /\ Walking /\ archive' = archive
        /\ \A q \in walk.todo : d < q
        /\ \A i \in DOMAIN archive : archive[i].path <= d /\ archive[i].path # 0
        /\ ~missing => There(d)
    BY DEF List, Fail, WalkInv, WalkTypeOK, OrderInv, FoundInv, Walking
  <1>2. CASE ~There(d)
    <2>1. walk' = [Back EXCEPT !.pc = "failed"]
      BY <1>2 DEF List, Fail
    <2>2. walk' \in WalkState /\ walk'.pc = "failed" /\ walk'.todo = walk.todo
      BY <1>1, <2>1, BackTyped DEF WalkState
    <2>3. QED
      BY <1>1, <1>2, <2>2, WalkFails
  <1>3. CASE There(d)
    <2>1. walk' = [Back EXCEPT !.todo = @ \cup found]
      BY <1>3 DEF List
    <2>2. /\ walk' \in WalkState /\ walk'.pc = "visit" /\ walk'.todo = walk.todo \cup found
      BY <1>1, <2>1, BackTyped DEF WalkState
    <2>3. \A q \in found : d < q
      BY AboveAssumption DEF Holds
    <2>4. \A q \in walk'.todo : d < q
      BY <1>1, <2>2, <2>3
    <2>5. OrderInv'
      <3>1. SUFFICES ASSUME NEW i \in DOMAIN archive, NEW q \in walk'.todo
                     PROVE  archive[i].path < q
        BY <1>1, <2>2 DEF OrderInv
      <3>2. archive[i].path \in Nat
        BY PathsAreNumbers DEF WalkInv, WalkTypeOK
      <3>3. d \in Nat /\ q \in Nat
        BY <1>1, <2>2, Numbers DEF WalkState
      <3>4. QED
        BY <1>1, <2>4, <3>2, <3>3
    <2>6. WalkTypeOK'
      BY <1>1, <2>2 DEF WalkInv, WalkTypeOK, volumeVars
    <2>7. FoundInv' /\ VanishedFilesAreNormal'
      BY <1>1, <2>2 DEF WalkInv, FoundInv, VanishedFilesAreNormal, There, volumeVars
    <2>8. QED
      BY <1>1, <2>5, <2>6, <2>7 DEF WalkInv
  <1>4. QED
    BY <1>2, <1>3

LEMMA FinishKeeps ==
  ASSUME WalkInv, UNCHANGED volumeVars, Finish
  PROVE  WalkInv' /\ Len(archive) <= Len(archive')
  <1>1. /\ walk.pc = "visit" /\ walk.todo = {} /\ walk \in WalkState
        /\ walk' = [walk EXCEPT !.pc = "done"] /\ archive' = Append(archive, Trailer)
    BY DEF Finish, Write, WalkInv, WalkTypeOK
  <1>2. walk' \in WalkState /\ walk'.pc = "done" /\ walk'.todo = {}
    BY <1>1 DEF WalkState
  <1>3. \A i \in DOMAIN archive : archive[i].path # Trailer.path
    BY <1>1 DEF WalkInv, OrderInv, Trailer
  <1>4. Trailer \in Entry
    BY DEF Entry
  <1>5. /\ archive' \in Seq(Entry) /\ Len(archive) <= Len(archive')
        /\ IsInjective([i \in DOMAIN archive' |-> archive'[i].path])
    <2>1. archive \in Seq(Entry) /\ IsInjective([i \in DOMAIN archive |-> archive[i].path])
          /\ Len(archive) \in Nat
      BY DEF WalkInv, WalkTypeOK
    <2>2. QED
      BY <1>1, <1>3, <1>4, <2>1, Appended
  <1>6. WalkTypeOK'
    BY <1>2, <1>5 DEF WalkInv, WalkTypeOK, volumeVars
  <1>7. OrderInv' /\ FoundInv' /\ VanishedFilesAreNormal'
    BY <1>2 DEF OrderInv, FoundInv, VanishedFilesAreNormal
  <1>8. QED
    BY <1>5, <1>6, <1>7 DEF WalkInv

LEMMA BreakKeeps == ASSUME WalkInv, Break PROVE WalkInv' /\ UNCHANGED archive
  <1>1. /\ Walking /\ walk' = [Back EXCEPT !.pc = "failed", !.broken = TRUE]
        /\ UNCHANGED <<volumeVars, archive>> /\ walk \in WalkState
    BY DEF Break, WalkInv, WalkTypeOK
  <1>2. /\ walk' \in WalkState /\ walk'.pc = "failed" /\ walk'.todo = walk.todo /\ walk'.broken
    BY <1>1, BackTyped DEF WalkState
  <1>3. QED
    BY <1>1, <1>2, WalkFails

LEMMA WalkKeeps ==
  ASSUME WalkInv, WalkStep \/ Break
  PROVE  WalkInv' /\ Len(archive) <= Len(archive')
  <1>1. Len(archive) \in Nat
    BY DEF WalkInv, WalkTypeOK
  <1>2. CASE WalkStep
    BY <1>1, <1>2, VisitKeeps, ReadKeeps, ListKeeps, FinishKeeps DEF WalkStep
  <1>3. CASE Break
    BY <1>1, <1>3, BreakKeeps
  <1>4. QED
    BY <1>2, <1>3

-----------------------------------------------------------------------------
(* The call *)

RunState ==
  [way : {"direct", "archive", "extract"}, err : BOOLEAN, closed : BOOLEAN,
   pc : {"create", "attach", "start", "walk", "select", "drain", "join", "returned"}]
HelperState == {"none", "created", "running", "exited", "failed", "removed", "left"}

IInv == TypeOK /\ WalkInv

LEMMA InitIInv == Init => IInv
  <1>1. SUFFICES ASSUME Init PROVE IInv
    OBVIOUS
  <1>2. WalkTypeOK
    <2>1. node \in [Path -> Node \cup {0}]
      BY <1>1 DEF Init, WalkInit, Trees
    <2>2. content \in [Node -> Version]
      BY <1>1, Numbers DEF Init, WalkInit, Version
    <2>3. walk \in WalkState
      BY <1>1 DEF Init, WalkInit, WalkState
    <2>4. archive \in Seq(Entry) /\ IsInjective([i \in DOMAIN archive |-> archive[i].path])
      BY <1>1 DEF Init, WalkInit, IsInjective
    <2>5. QED
      <3>1. /\ hot \in BOOLEAN /\ missing \in BOOLEAN
            /\ changes \in 0 .. MaxChanges /\ touched \subseteq Node
        <4>1. hot \in BOOLEAN /\ missing = FALSE /\ changes = 0 /\ touched = {}
          BY <1>1, Zenon DEF Init, WalkInit
        <4>2. 0 \in 0 .. MaxChanges
          BY Numbers
        <4>3. QED
          BY <4>1, <4>2, Zenon
      <3>2. QED
        BY <2>1, <2>2, <2>3, <2>4, <3>1 DEF WalkTypeOK
  <1>3. OrderInv /\ FoundInv /\ VanishedFilesAreNormal
    BY <1>1 DEF Init, WalkInit, OrderInv, FoundInv, VanishedFilesAreNormal
  <1>4. TypeOK
    <2>1. run \in RunState
      BY <1>1 DEF Init, RunState
    <2>2. arrived \in 0 .. Len(archive)
      BY <1>1, <1>2 DEF Init, WalkTypeOK
    <2>3. QED
      <3>1. /\ helper = "none" /\ reader = "none" /\ writer = "none"
            /\ report = FALSE /\ fed = 0 /\ eaten = 0 /\ engine = TRUE /\ cancelled = FALSE
        BY <1>1 DEF Init
      <3>2. fed \in 0 .. Items /\ eaten \in 0 .. fed
        BY <3>1, ItemsAssumption
      <3>3. QED
        BY <1>2, <2>1, <2>2, <3>1, <3>2 DEF TypeOK, RunState, Goroutine
  <1>5. QED
    BY <1>2, <1>3, <1>4 DEF IInv, WalkInv

\* The steps that leave the volume, the walk and what has arrived of it alone.
LEMMA QuietStep ==
  ASSUME IInv, UNCHANGED <<walkVars, arrived>>,
         run' \in RunState, helper' \in HelperState, reader' \in Goroutine, writer' \in Goroutine,
         report' \in BOOLEAN, fed' \in 0 .. Items, eaten' \in 0 .. fed',
         engine' \in BOOLEAN, cancelled' \in BOOLEAN
  PROVE  IInv'
  <1>1. WalkInv'
    <2>1. UNCHANGED <<node, content, hot, changes, touched, missing, walk, archive>>
      BY DEF walkVars, volumeVars
    <2>2. WalkTypeOK' /\ OrderInv' /\ FoundInv' /\ VanishedFilesAreNormal'
      BY <2>1 DEF IInv, WalkInv, WalkTypeOK, OrderInv, FoundInv, VanishedFilesAreNormal, There
    <2>3. QED
      BY <2>2 DEF WalkInv
  <1>2. arrived' \in 0 .. Len(archive')
    BY DEF IInv, TypeOK, walkVars
  <1>3. QED
    BY <1>1, <1>2 DEF IInv, TypeOK, WalkInv, RunState, HelperState

\* The steps of the walk and of the container leave the rest alone.
LEMMA WalkingStep ==
  ASSUME IInv, WalkInv', arrived' \in 0 .. Len(archive'),
         UNCHANGED <<run, helper, reader, report, writer, fed, eaten, engine, cancelled>>
  PROVE  IInv'
  BY DEF IInv, TypeOK, WalkInv

LEMMA Typed ==
  ASSUME IInv
  PROVE  /\ run \in RunState /\ helper \in HelperState
         /\ reader \in Goroutine /\ writer \in Goroutine
         /\ report \in BOOLEAN /\ fed \in 0 .. Items /\ eaten \in 0 .. fed
         /\ engine \in BOOLEAN /\ cancelled \in BOOLEAN
         /\ arrived \in 0 .. Len(archive) /\ Len(archive) \in Nat
         /\ Items \in Nat
  BY ItemsAssumption DEF IInv, TypeOK, WalkTypeOK, RunState, HelperState

LEMMA GoesTyped ==
  ASSUME IInv,
         NEW pc \in {"create", "attach", "start", "walk", "select", "drain", "join", "returned"},
         Goes(pc) \/ GoesWrong(pc)
  PROVE  run' \in RunState
  BY Typed DEF Goes, GoesWrong, RunState

LEMMA CallKeeps == ASSUME IInv, Call PROVE IInv'
  <1>1. CASE DirectWalk
    <2>1. CASE WalkStep /\ arrived' = Len(archive')
      <3>1. WalkInv' /\ Len(archive) <= Len(archive')
        BY <2>1, WalkKeeps DEF IInv
      <3>2. archive' \in Seq(Entry)
        BY <3>1 DEF WalkInv, WalkTypeOK
      <3>3. arrived' \in 0 .. Len(archive')
        BY <2>1, <3>2
      <3>4. QED
        BY <1>1, <3>1, <3>3, WalkingStep DEF DirectWalk
    <2>2. CASE Break /\ UNCHANGED arrived
      <3>1. WalkInv' /\ UNCHANGED archive
        BY <2>2, BreakKeeps DEF IInv
      <3>2. QED
        BY <1>1, <2>2, <3>1, Typed, WalkingStep DEF DirectWalk
    <2>3. QED
      BY <1>1, <2>1, <2>2 DEF DirectWalk
  <1>2. CASE DirectEnd
    BY <1>2, Typed, GoesTyped, QuietStep DEF DirectEnd, helperVars
  <1>3. CASE Create
    <2>1. run' \in RunState /\ helper' \in HelperState
      BY <1>3, Typed, GoesTyped DEF Create, HelperState
    <2>2. QED
      BY <1>3, <2>1, Typed, QuietStep DEF Create
  <1>4. CASE Attach
    <2>1. run' \in RunState /\ helper' \in HelperState
      BY <1>4, Typed, GoesTyped DEF Attach, HelperState
    <2>2. QED
      BY <1>4, <2>1, Typed, QuietStep DEF Attach
  <1>5. CASE Start
    <2>1. /\ run' \in RunState /\ helper' \in HelperState
          /\ reader' \in Goroutine /\ writer' \in Goroutine
      BY <1>5, Typed, GoesTyped DEF Start, HelperState, Goroutine
    <2>2. QED
      BY <1>5, <2>1, Typed, QuietStep DEF Start
  <1>6. CASE SelectExit \/ SelectError \/ Drain
    <2>1. run' \in RunState
      BY <1>6, GoesTyped DEF SelectExit, SelectError, Drain
    <2>2. QED
      BY <1>6, <2>1, Typed, QuietStep DEF SelectExit, SelectError, Drain, helperVars
  <1>7. CASE SelectCancelled
    <2>1. run' \in RunState
      BY <1>7, Typed DEF SelectCancelled, RunState
    <2>2. QED
      BY <1>7, <2>1, Typed, QuietStep DEF SelectCancelled, helperVars
  <1>8. CASE Join
    <2>1. run' \in RunState /\ helper' \in HelperState
      BY <1>8, GoesTyped DEF Join, HelperState
    <2>2. QED
      BY <1>8, <2>1, Typed, QuietStep DEF Join
  <1>9. QED
    BY <1>1, <1>2, <1>3, <1>4, <1>5, <1>6, <1>7, <1>8 DEF Call

LEMMA HelperKeeps == ASSUME IInv, HelperStep PROVE IInv'
  <1>1. CASE HelperWalks
    <2>1. WalkInv' /\ Len(archive) <= Len(archive')
      BY <1>1, WalkKeeps DEF IInv, HelperWalks
    <2>2. archive' \in Seq(Entry)
      BY <2>1 DEF WalkInv, WalkTypeOK
    <2>3. arrived' \in 0 .. Len(archive')
      BY <1>1, <2>1, <2>2, Typed DEF HelperWalks, helperVars
    <2>4. QED
      BY <1>1, <2>1, <2>3, WalkingStep DEF HelperWalks, helperVars
  <1>2. CASE HelperWalked
    <2>1. helper' \in HelperState
      BY <1>2 DEF HelperWalked, HelperState
    <2>2. QED
      BY <1>2, <2>1, Typed, QuietStep DEF HelperWalked
  <1>3. CASE HelperUnpacks
    <2>1. helper' \in HelperState /\ eaten' \in 0 .. fed' /\ fed' = fed
      BY <1>3, Typed DEF HelperUnpacks, HelperState
    <2>2. QED
      BY <1>3, <2>1, Typed, QuietStep DEF HelperUnpacks
  <1>4. QED
    BY <1>1, <1>2, <1>3 DEF HelperStep

LEMMA CopyKeeps == ASSUME IInv, Copy PROVE IInv'
  <1>1. /\ arrived' \in 0 .. Len(archive) /\ reader' \in Goroutine /\ report' \in BOOLEAN
        /\ UNCHANGED <<walkVars, run, helper, writer, fed, eaten, engine, cancelled>>
    <2>1. arrived' = arrived \/ (arrived < Len(archive) /\ arrived' = arrived + 1)
      BY DEF Copy
    <2>2. reader' = reader \/ reader' \in {"done", "failed"}
      BY DEF Copy
    <2>3. report' = report \/ report' = TRUE
      BY Zenon DEF Copy
    <2>4. UNCHANGED <<walkVars, run, helper, writer, fed, eaten, engine, cancelled>>
      BY Zenon DEF Copy
    <2>5. arrived' \in 0 .. Len(archive)
      BY <2>1, Typed
    <2>6. reader' \in Goroutine
      BY <2>2, Typed DEF Goroutine
    <2>7. report' \in BOOLEAN
      BY <2>3, Typed, Zenon
    <2>8. QED
      BY <2>4, <2>5, <2>6, <2>7
  <1>2. WalkInv'
    BY <1>1 DEF IInv, WalkInv, WalkTypeOK, OrderInv, FoundInv, VanishedFilesAreNormal, There,
                walkVars, volumeVars
  <1>3. archive' = archive
    BY <1>1 DEF walkVars
  <1>4. QED
    BY <1>1, <1>2, <1>3 DEF IInv, TypeOK, WalkInv

LEMMA FeedKeeps == ASSUME IInv, Feed PROVE IInv'
  <1>1. /\ fed' \in 0 .. Items /\ eaten' \in 0 .. fed' /\ writer' \in Goroutine
    BY Typed DEF Feed, Goroutine
  <1>2. QED
    BY <1>1, Typed, QuietStep DEF Feed

LEMMA StepIInv == IInv /\ [Next]_vars => IInv'
  <1>1. SUFFICES ASSUME IInv, [Next]_vars PROVE IInv'
    OBVIOUS
  <1>2. CASE Container
    <2>1. WalkInv' /\ UNCHANGED archive
      BY <1>1, <1>2, UseKeeps DEF IInv, Container
    <2>2. QED
      BY <1>1, <1>2, <2>1, Typed, WalkingStep DEF Container, helperVars
  <1>3. CASE Cancel \/ EngineGoes
    BY <1>1, <1>3, Typed, QuietStep DEF Cancel, EngineGoes, helperVars
  <1>4. CASE UNCHANGED vars
    BY <1>1, <1>4, Typed, QuietStep DEF vars, helperVars
  <1>5. QED
    BY <1>1, <1>2, <1>3, <1>4, CallKeeps, HelperKeeps, CopyKeeps, FeedKeeps DEF Next

\* Every variable keeps to its range, and an archive names nothing twice,
\* whatever the container does meanwhile (writeTree, tarzst.go:91-215).
THEOREM TypeCorrect == Spec => []TypeOK
  <1>1. IInv => TypeOK
    BY DEF IInv
  <1>2. QED
    BY <1>1, InitIInv, StepIInv, PTL DEF Spec

\* What the container does to its files never spoils an archive: it takes the
\* loss of a directory or a symlink, or a walk that was broken from outside
\* (tarzst.go:130-138, tarzst.go:221-229).
THEOREM FilesSpoilNothing == Spec => []VanishedFilesAreNormal
  <1>1. IInv => VanishedFilesAreNormal
    BY DEF IInv, WalkInv
  <1>2. QED
    BY <1>1, InitIInv, StepIInv, PTL DEF Spec

-----------------------------------------------------------------------------
(* The streams *)

\* The walk ends with the end mark, and then nothing is written any more.
EndInv == walk.pc = "done" => archive # <<>> /\ archive[Len(archive)] = Trailer

\* A direct walk has arrived as far as it was written.
DirectInv ==
  /\ run.pc \in {"create", "attach", "start", "select", "drain", "join"} => run.way # "direct"
  /\ run.pc = "walk" => run.way = "direct"
  /\ run.way = "direct" =>
       /\ arrived = Len(archive) /\ helper = "none" /\ reader = "none"
       /\ At("returned") /\ ~run.err => walk.pc = "done"

\* A helper exits well only if it has done all, and the reader is through only
\* when everything the helper has written has arrived.
StreamInv ==
  /\ run.pc \in {"create", "attach", "start"} => reader = "none"
  /\ run.closed => run.err
  /\ report => walk.pc = "done"
  /\ helper = "exited" => (run.way = "extract" => eaten = Items)
  /\ reader = "done" /\ engine /\ ~run.closed =>
       helper \in {"exited", "failed", "removed", "left"} /\ arrived = Len(archive)

\* How far the caller is when nothing has gone wrong.
CallerInv ==
  run.way # "direct" /\ ~run.err =>
    /\ run.pc \in {"drain", "join"} => helper = "exited"
    /\ At("returned") => helper \in {"removed", "left"}
    /\ run.pc \in {"join", "returned"} =>
         reader = "done" /\ (run.way = "extract" => eaten = Items)
    /\ At("returned") /\ run.way = "archive" => report

ArrivalInv == EndInv /\ DirectInv /\ StreamInv /\ CallerInv

LEMMA ArrivalInit == Init => ArrivalInv
  <1>1. SUFFICES ASSUME Init PROVE ArrivalInv
    OBVIOUS
  <1>2. /\ walk.pc = "visit" /\ archive = <<>> /\ arrived = 0
        /\ helper = "none" /\ reader = "none" /\ report = FALSE
    BY <1>1, Zenon DEF Init, WalkInit
  <1>3. PICK way \in {"direct", "archive", "extract"} :
          run = [way |-> way, err |-> FALSE, closed |-> FALSE,
                 pc |-> IF way = "direct" THEN "walk" ELSE "create"]
    BY <1>1, Zenon DEF Init
  <1>4. EndInv /\ DirectInv /\ StreamInv
    BY <1>2, <1>3 DEF EndInv, DirectInv, StreamInv, At
  <1>5. CallerInv
    BY <1>2, <1>3 DEF CallerInv, At
  <1>6. QED
    BY <1>4, <1>5 DEF ArrivalInv

\* The walk goes on or is broken; once it is done, nothing happens to it.
LEMMA WalkEnds ==
  ASSUME IInv, EndInv, WalkStep \/ Break
  PROVE  EndInv' /\ walk.pc # "done"
  <1>1. walk \in WalkState /\ archive \in Seq(Entry)
    BY DEF IInv, WalkInv, WalkTypeOK
  <1>2. walk.pc # "done"
    BY DEF WalkStep, Break, Walking, VisitDir, VisitVanished, VisitLink, VisitOther, Reach,
           Read, List, Finish
  <1>3. CASE walk'.pc # "done"
    BY <1>2, <1>3 DEF EndInv
  <1>4. CASE walk'.pc = "done"
    <2>1. Finish
      <3>1. ASSUME Break PROVE FALSE
        BY <1>1, <1>4, <3>1, BackTyped DEF Break, WalkState
      <3>2. ASSUME VisitDir \/ VisitVanished \/ VisitLink \/ VisitOther PROVE FALSE
        BY <1>1, <1>4, <3>2 DEF VisitDir, VisitVanished, VisitLink, VisitOther, Reach, Passed, WalkState
      <3>3. ASSUME Read \/ List PROVE FALSE
        BY <1>1, <1>4, <3>3 DEF Read, List, Fail, Back, WalkState
      <3>4. QED
        BY <3>1, <3>2, <3>3 DEF WalkStep
    <2>2. archive' = Append(archive, Trailer)
      BY <2>1 DEF Finish, Write
    <2>3. Len(archive') = Len(archive) + 1 /\ Len(archive) \in Nat
          /\ archive'[Len(archive) + 1] = Trailer
      BY <1>1, <2>2
    <2>4. archive' # <<>>
      BY <2>3
    <2>5. archive'[Len(archive')] = Trailer
      BY <2>3
    <2>6. QED
      BY <1>2, <2>4, <2>5, Zenon DEF EndInv
  <1>5. QED
    BY <1>2, <1>3, <1>4

LEMMA ArrivalDirect == ASSUME IInv, ArrivalInv, DirectWalk \/ DirectEnd PROVE ArrivalInv'
  <1>0. run \in RunState /\ Len(archive) \in Nat /\ run.pc = "walk" /\ run.way = "direct"
        /\ arrived = Len(archive) /\ helper = "none" /\ reader = "none"
    BY Typed DEF ArrivalInv, DirectInv, DirectWalk, DirectEnd, At
  <1>1. CASE DirectWalk
    <2>1. EndInv' /\ walk.pc # "done"
      BY <1>1, WalkEnds DEF ArrivalInv, DirectWalk
    <2>2. arrived' = Len(archive')
      BY <1>0, <1>1, BreakKeeps DEF DirectWalk, IInv
    <2>3. UNCHANGED <<run, helper, reader, report, engine>>
      BY <1>1 DEF DirectWalk
    <2>4. DirectInv'
      BY <1>0, <2>2, <2>3 DEF DirectInv, At
    <2>5. StreamInv' /\ CallerInv'
      BY <1>0, <2>1, <2>2, <2>3 DEF ArrivalInv, StreamInv, CallerInv
    <2>6. QED
      BY <2>1, <2>4, <2>5 DEF ArrivalInv
  <1>2. CASE DirectEnd
    <2>1. UNCHANGED <<walk, archive, helper, reader, arrived, report, eaten, engine>>
      BY <1>2 DEF DirectEnd, walkVars, helperVars
    <2>2. /\ run' = [run EXCEPT !.pc = "returned", !.err = (walk.pc # "done" \/ @)]
      BY <1>0, <1>2 DEF DirectEnd, Goes, GoesWrong, RunState
    <2>3. QED
      BY <1>0, <2>1, <2>2 DEF ArrivalInv, EndInv, DirectInv, StreamInv, CallerInv, At, RunState
  <1>3. QED
    BY <1>1, <1>2

\* Where the caller goes next, and what remains once something has gone wrong.
LEMMA CallerGoes ==
  ASSUME run \in RunState, NEW pc \in {"attach", "start", "select", "drain", "join", "returned"}
  PROVE  /\ Goes(pc) => run'.pc = pc /\ UNCHANGED <<run.way, run.closed, run.err>>
         /\ GoesWrong(pc) => run'.pc = pc /\ UNCHANGED <<run.way, run.closed>> /\ run'.err
  BY DEF Goes, GoesWrong, RunState

LEMMA ArrivalGoesWrong ==
  ASSUME ArrivalInv, run \in RunState, run.way # "direct",
         NEW pc \in {"drain", "join", "returned"}, GoesWrong(pc),
         UNCHANGED <<walk, archive, reader, arrived, report, eaten, engine>>,
         helper' = helper \/ helper' \in {"removed", "left"}
  PROVE  ArrivalInv'
  <1>1. run'.pc = pc /\ UNCHANGED <<run.way, run.closed>> /\ run'.err
    BY CallerGoes
  <1>2. EndInv' /\ DirectInv'
    BY <1>1 DEF ArrivalInv, EndInv, DirectInv, At
  <1>3. StreamInv'
    BY <1>1 DEF ArrivalInv, StreamInv
  <1>4. CallerInv'
    BY <1>1 DEF CallerInv
  <1>5. QED
    BY <1>2, <1>3, <1>4 DEF ArrivalInv

LEMMA ArrivalStarts ==
  ASSUME IInv, ArrivalInv, Create \/ Attach \/ Start
  PROVE  ArrivalInv'
  <1>1. /\ UNCHANGED <<walk, archive, arrived, report, eaten, engine>>
        /\ run \in RunState /\ run.way # "direct" /\ run.pc \in {"create", "attach", "start"}
    BY Typed DEF Create, Attach, Start, walkVars, At, ArrivalInv, DirectInv
  <1>2. CASE GoesWrong("returned") /\ UNCHANGED reader
                /\ (helper' = helper \/ helper' \in {"removed", "left"})
    BY <1>1, <1>2, ArrivalGoesWrong
  <1>3. CASE At("create") /\ Goes("attach") /\ helper' = "created" /\ UNCHANGED reader
    <2>1. run'.pc = "attach" /\ UNCHANGED <<run.way, run.closed, run.err>>
      BY <1>1, <1>3, CallerGoes
    <2>2. QED
      BY <1>1, <1>3, <2>1 DEF ArrivalInv, EndInv, DirectInv, StreamInv, CallerInv, At
  <1>4. CASE At("attach") /\ Goes("start") /\ UNCHANGED <<helper, reader>>
    <2>1. run'.pc = "start" /\ UNCHANGED <<run.way, run.closed, run.err>>
      BY <1>1, <1>4, CallerGoes
    <2>2. QED
      BY <1>1, <1>4, <2>1 DEF ArrivalInv, EndInv, DirectInv, StreamInv, CallerInv, At
  <1>5. CASE At("start") /\ Goes("select") /\ helper' = "running" /\ reader' = "copying"
    <2>1. run'.pc = "select" /\ UNCHANGED <<run.way, run.closed, run.err>>
      BY <1>1, <1>5, CallerGoes
    <2>2. QED
      BY <1>1, <1>5, <2>1 DEF ArrivalInv, EndInv, DirectInv, StreamInv, CallerInv, At
  <1>6. QED
    BY <1>2, <1>3, <1>4, <1>5, Zenon DEF Create, Attach, Start

LEMMA ArrivalSelects ==
  ASSUME IInv, ArrivalInv, SelectExit \/ SelectError \/ SelectCancelled \/ Drain
  PROVE  ArrivalInv'
  <1>1. /\ UNCHANGED <<walk, archive, helper, reader, arrived, report, eaten, engine>>
        /\ run \in RunState /\ run.way # "direct" /\ run.pc \in {"select", "drain"}
    BY Typed DEF SelectExit, SelectError, SelectCancelled, Drain, walkVars, helperVars, At,
                 ArrivalInv, DirectInv
  <1>2. CASE GoesWrong("drain") \/ GoesWrong("join")
    BY <1>1, <1>2, ArrivalGoesWrong
  <1>3. CASE SelectCancelled
    BY <1>1, <1>3 DEF SelectCancelled, ArrivalInv, EndInv, DirectInv, StreamInv, CallerInv, At,
                      RunState
  <1>4. CASE At("select") /\ Goes("drain") /\ helper = "exited"
    <2>1. run'.pc = "drain" /\ UNCHANGED <<run.way, run.closed, run.err>>
      BY <1>1, <1>4, CallerGoes
    <2>2. QED
      BY <1>1, <1>4, <2>1 DEF ArrivalInv, EndInv, DirectInv, StreamInv, CallerInv, At
  <1>5. CASE At("drain") /\ Goes("join") /\ reader = "done"
    <2>1. run'.pc = "join" /\ UNCHANGED <<run.way, run.closed, run.err>>
      BY <1>1, <1>5, CallerGoes
    <2>2. QED
      BY <1>1, <1>5, <2>1 DEF ArrivalInv, EndInv, DirectInv, StreamInv, CallerInv, At
  <1>6. QED
    BY <1>2, <1>3, <1>4, <1>5 DEF SelectExit, SelectError, Drain

LEMMA ArrivalJoins == ASSUME IInv, ArrivalInv, Join PROVE ArrivalInv'
  <1>1. /\ UNCHANGED <<walk, archive, reader, arrived, report, eaten, engine>>
        /\ run \in RunState /\ run.way # "direct" /\ run.pc = "join"
        /\ helper' \in {"removed", "left"}
    BY Typed DEF Join, walkVars, At, ArrivalInv, DirectInv
  <1>2. CASE GoesWrong("returned")
    BY <1>1, <1>2, ArrivalGoesWrong
  <1>3. CASE Goes("returned") /\ (run.way = "archive" => report)
    <2>1. run'.pc = "returned" /\ UNCHANGED <<run.way, run.closed, run.err>>
      BY <1>1, <1>3, CallerGoes
    <2>2. QED
      BY <1>1, <1>3, <2>1 DEF ArrivalInv, EndInv, DirectInv, StreamInv, CallerInv, At
  <1>4. QED
    BY <1>2, <1>3 DEF Join

LEMMA ArrivalHelper == ASSUME IInv, ArrivalInv, HelperStep PROVE ArrivalInv'
  <1>1. /\ UNCHANGED <<run, reader, arrived, report, engine>> /\ helper = "running"
        /\ run \in RunState /\ run.way # "direct" /\ ~(reader = "done" /\ engine /\ ~run.closed)
        /\ helper' \in {"running", "exited", "failed"}
    BY Typed DEF HelperStep, HelperWalks, HelperWalked, HelperUnpacks, helperVars, ArrivalInv,
                 DirectInv, StreamInv
  <1>2. EndInv' /\ (walk.pc = "done" => walk'.pc = "done")
    <2>1. CASE HelperWalks
      BY <2>1, WalkEnds DEF HelperWalks, ArrivalInv
    <2>2. CASE HelperWalked \/ HelperUnpacks
      BY <2>2 DEF HelperWalked, HelperUnpacks, ArrivalInv, EndInv, walkVars
    <2>3. QED
      BY <2>1, <2>2 DEF HelperStep
  <1>3. helper' = "exited" => (run.way = "extract" => eaten' = Items)
    BY <1>1 DEF HelperStep, HelperWalks, HelperWalked, HelperUnpacks, helperVars
  <1>4. DirectInv'
    BY <1>1 DEF ArrivalInv, DirectInv, At
  <1>5. StreamInv'
    BY <1>1, <1>2, <1>3 DEF ArrivalInv, StreamInv
  <1>6. CallerInv'
    BY <1>1 DEF ArrivalInv, CallerInv, At, RunState
  <1>7. QED
    BY <1>2, <1>4, <1>5, <1>6 DEF ArrivalInv

LEMMA ArrivalCopies == ASSUME IInv, ArrivalInv, Copy PROVE ArrivalInv'
  <1>1. /\ UNCHANGED <<walk, archive, run, helper, eaten, engine>> /\ reader = "copying"
        /\ run.way # "direct"
    BY DEF Copy, walkVars, ArrivalInv, DirectInv
  <1>2. /\ report' = report \/ walk.pc = "done"
        /\ reader' = "done" /\ engine /\ ~run.closed =>
             helper \in {"exited", "failed"} /\ arrived' = Len(archive)
    BY <1>1 DEF Copy, Connected, Exited
  <1>3. report => report'
    BY Zenon DEF Copy
  <1>4. EndInv' /\ DirectInv'
    BY <1>1 DEF ArrivalInv, EndInv, DirectInv, At
  <1>5. StreamInv'
    BY <1>1, <1>2 DEF ArrivalInv, StreamInv
  <1>6. CallerInv'
    BY <1>1, <1>3 DEF ArrivalInv, CallerInv, At
  <1>7. QED
    BY <1>4, <1>5, <1>6 DEF ArrivalInv

LEMMA ArrivalStep == IInv /\ ArrivalInv /\ [Next]_vars => ArrivalInv'
  <1>1. SUFFICES ASSUME IInv, ArrivalInv, [Next]_vars PROVE ArrivalInv'
    OBVIOUS
  <1>2. CASE Call
    BY <1>1, <1>2, ArrivalDirect, ArrivalStarts, ArrivalSelects, ArrivalJoins DEF Call
  <1>3. CASE Container
    <2>1. /\ UNCHANGED <<archive, run, helper, reader, arrived, report, eaten, engine>>
          /\ walk' = walk
      BY <1>1, <1>3, UseKeeps DEF IInv, Container, helperVars, UseVolume, Rewrite, Make, Link, Unlink,
                                  Rename, Change
    <2>2. QED
      BY <1>1, <2>1 DEF ArrivalInv, EndInv, DirectInv, StreamInv, CallerInv, At
  <1>4. CASE Feed \/ Cancel \/ EngineGoes \/ UNCHANGED vars
    <2>1. /\ UNCHANGED <<walk, archive, run, helper, reader, arrived, report, eaten>>
          /\ engine' => engine
      BY <1>4 DEF Feed, Cancel, EngineGoes, vars, helperVars, walkVars
    <2>2. QED
      BY <1>1, <2>1 DEF ArrivalInv, EndInv, DirectInv, StreamInv, CallerInv, At
  <1>5. QED
    BY <1>1, <1>2, <1>3, <1>4, ArrivalHelper, ArrivalCopies DEF Next

\* However many pieces, however small the pipes, whenever the engine, the disk or
\* the caller gives up: where a call reports success, all has arrived, to the
\* end mark of the archive, or was unpacked (RunHelper, helper.go:133-177).
LEMMA SuccessHasArrived ==
  ASSUME IInv, ArrivalInv, Success
  PROVE  AllArrived /\ (run.way = "extract" \/ walk.pc = "done")
  <1>1. run \in RunState
    BY Typed
  <1>2. run.way = "extract" \/ walk.pc = "done"
    BY <1>1 DEF Success, ArrivalInv, DirectInv, StreamInv, CallerInv, At, RunState
  <1>3. AllArrived
    BY <1>1 DEF Success, AllArrived, ArrivalInv, EndInv, DirectInv, StreamInv, CallerInv, At, RunState
  <1>4. QED
    BY <1>2, <1>3

-----------------------------------------------------------------------------
(* What Extract makes of an archive *)

LEMMA UnpackStored ==
  ASSUME NEW p \in Path, NEW data, NEW tree \in Unpacked
  PROVE  Unpack(Stored(p, data))[tree] = [tree EXCEPT ![p] = [node |-> p, data |-> data]]
  <1>1. Stored(p, data).path = p /\ Stored(p, data).data = data
    BY DEF Stored
  <1>2. Stored(p, data).type # "end" /\ Stored(p, data).type # "link"
    BY KindAssumption DEF Kind, Stored
  <1>3. QED
    BY <1>1, <1>2 DEF Unpack

LEMMA UnpackLink ==
  ASSUME NEW p \in Path, NEW first, NEW tree \in Unpacked
  PROVE  Unpack(LinkTo(p, first))[tree] = [tree EXCEPT ![p] = tree[first]]
  BY DEF Unpack, LinkTo

LEMMA UnpackTrailer == ASSUME NEW tree \in Unpacked PROVE Unpack(Trailer)[tree] = tree
  BY DEF Unpack, Trailer

LEMMA UnpackTyped ==
  ASSUME NEW e \in Entry, NEW tree \in Unpacked
  PROVE  Unpack(e)[tree] \in Unpacked
  <1>1. CASE e \in [type : Kind, path : Path, data : Version \cup {Zeros}]
    <2>1. e.type \in Kind /\ e.path \in Path /\ e.data \in Version \cup {Zeros}
      BY <1>1
    <2>2. Unpack(e)[tree] = [tree EXCEPT ![e.path] = [node |-> e.path, data |-> e.data]]
      BY <2>1 DEF Unpack, Kind
    <2>3. [node |-> e.path, data |-> e.data] \in [node : Path, data : Version \cup {Zeros}]
      BY <2>1
    <2>4. QED
      BY <2>1, <2>2, <2>3 DEF Unpacked
  <1>2. CASE e \in [type : {"link"}, path : Path, first : Path]
    <2>1. e.type = "link" /\ e.path \in Path /\ e.first \in Path
      BY <1>2
    <2>2. Unpack(e)[tree] = [tree EXCEPT ![e.path] = tree[e.first]]
      BY <2>1 DEF Unpack
    <2>3. QED
      BY <2>1, <2>2 DEF Unpacked
  <1>3. CASE e = Trailer
    BY <1>3, UnpackTrailer
  <1>4. QED
    BY <1>1, <1>2, <1>3 DEF Entry

LEMMA NothingExtracted ==
  Extracted(<<>>) = [p \in Path |-> Nothing] /\ Extracted(<<>>) \in Unpacked
  <1> DEFINE none == [p \in Path |-> Nothing]
             step == [i \in DOMAIN <<>> |-> Unpack(<<>>[i])]
             I == {<<0, none>>}
  <1>1. none \in Unpacked
    BY DEF Unpacked
  <1>2. Extracted(<<>>) = Iterate(step, none, 0)
    <2>1. Len(<<>>) = 0
      OBVIOUS
    <2>2. QED
      BY <2>1 DEF Extracted
  <1>3. <<0, Iterate(step, none, 0)>> \in I
    <2> HIDE DEF step, none
    <2>1. <<0, none>> \in I /\ \A i \in 1 .. 0 : \A w : <<i - 1, w>> \in I => <<i, step[i][w]>> \in I
      OBVIOUS
    <2> HIDE DEF I
    <2>2. QED
      BY <2>1, LoopInvariant, 0 \in Nat
  <1>4. QED
    BY <1>1, <1>2, <1>3

\* Entries are unpacked one after the other.
LEMMA ExtractedNext ==
  ASSUME NEW entries \in Seq(Entry), NEW e \in Entry
  PROVE  Extracted(Append(entries, e)) = Unpack(e)[Extracted(entries)]
  <1> DEFINE n == Len(entries)
             more == Append(entries, e)
             none == [p \in Path |-> Nothing]
             step == [i \in DOMAIN entries |-> Unpack(entries[i])]
             next == [i \in DOMAIN more |-> Unpack(more[i])]
  <1>1. /\ n \in Nat /\ DOMAIN entries = 1 .. n /\ DOMAIN more = 1 .. n + 1 /\ Len(more) = n + 1
        /\ more[n + 1] = e /\ \A i \in 1 .. n : more[i] = entries[i]
    OBVIOUS
  <1>2. Extracted(entries) = Iterate(step, none, n) /\ Extracted(more) = Iterate(next, none, n + 1)
    BY <1>1 DEF Extracted
  <1>3. next[n + 1] = Unpack(e) /\ \A i \in 1 .. n : next[i] = step[i]
    BY <1>1
  <1> HIDE DEF n, more, none, step, next
  <1>4. Iterate(next, none, n + 1) = next[n + 1][Iterate(step, none, n)]
    BY <1>1, <1>3, LoopNext
  <1>5. QED
    BY <1>2, <1>3, <1>4 DEF more

LEMMA ExtractedTyped == ASSUME NEW entries \in Seq(Entry) PROVE Extracted(entries) \in Unpacked
  <1> DEFINE n == Len(entries)
             none == [p \in Path |-> Nothing]
             step == [i \in DOMAIN entries |-> Unpack(entries[i])]
             I == Nat \X Unpacked
  <1>1. n \in Nat /\ DOMAIN entries = 1 .. n /\ \A i \in 1 .. n : entries[i] \in Entry
    OBVIOUS
  <1>2. <<0, none>> \in I
    BY DEF Unpacked
  <1>3. ASSUME NEW i \in 1 .. n, NEW w, <<i - 1, w>> \in I
        PROVE  <<i, step[i][w]>> \in I
    <2>1. step[i] = Unpack(entries[i]) /\ entries[i] \in Entry /\ w \in Unpacked /\ i \in Nat
      BY <1>1, <1>3
    <2>2. step[i][w] \in Unpacked
      BY <2>1, UnpackTyped
    <2>3. QED
      BY <2>1, <2>2
  <1>4. <<n, Iterate(step, none, n)>> \in I
    <2> HIDE DEF n, none, step, I
    <2>1. QED
      BY <1>1, <1>2, <1>3, LoopInvariant
  <1>5. Extracted(entries) = Iterate(step, none, n)
    BY DEF Extracted
  <1>6. QED
    BY <1>4, <1>5

-----------------------------------------------------------------------------
(* The volume *)

\* Names are below directories that are there, and only files share an inode.
VolumeInv ==
  /\ \A p \in Path : There(p) => CanHold(p)
  /\ \A p, q \in Path : There(p) /\ node[p] = node[q] => p = q \/ (p \in Files /\ q \in Files)

\* From the top, and from each directory on the way, one gets nearer to a name.
LEMMA Descent ==
  ASSUME NEW p \in Path
  PROVE  /\ \E r \in {p} \cup Above[p] : Above[r] = {}
         /\ \A d \in Above[p] : \E c \in {p} \cup Above[p] : Holds(d, c)
  <1> DEFINE Way == {p} \cup Above[p]
  <1>1. Way \subseteq Path /\ Way \subseteq Nat
    BY Numbers, AboveAssumption
  <1>2. \A c \in Way : Above[c] \subseteq Above[p] /\ \A d \in Above[c] : d < c
    BY <1>1, AboveAssumption
  <1>3. \E r \in Way : Above[r] = {}
    <2>1. PICK r \in Way : \A c \in Way : r <= c
      BY <1>1, SmallestNumber
    <2>2. ASSUME NEW d \in Above[r]
          PROVE  FALSE
      <3>1. d \in Way /\ d < r
        BY <1>2, <2>1
      <3>2. d \in Nat /\ r \in Nat /\ r <= d
        BY <1>1, <2>1, <3>1
      <3>3. QED
        BY <3>1, <3>2
    <2>3. QED
      BY <2>2
  <1>4. ASSUME NEW d \in Above[p]
        PROVE  \E c \in Way : Holds(d, c)
    <2> DEFINE Below == {c \in Way : d \in Above[c]}
    <2>1. PICK c \in Below : \A b \in Below : c <= b
      <3>1. p \in Below /\ Below \subseteq Nat
        BY <1>1
      <3>2. QED
        BY <3>1, SmallestNumber
    <2>2. PICK e \in Above[c] : Holds(e, c)
      BY <1>1, <2>1, AboveAssumption
    <2>3. CASE e = d
      BY <2>1, <2>2, <2>3
    <2>4. CASE e # d
      <3>1. e \in Way /\ d \in Above[e] /\ e < c
        BY <1>2, <2>1, <2>2, <2>4 DEF Holds
      <3>2. e \in Nat /\ c \in Nat /\ c <= e
        BY <1>1, <2>1, <3>1
      <3>3. QED
        BY <3>1, <3>2
    <2>5. QED
      BY <2>3, <2>4
  <1>5. QED
    BY <1>3, <1>4

\* A name has more than one link when there is another name of its inode; only
\* a file can.
LEMMA LinksFacts ==
  ASSUME VolumeInv, NEW p \in Path, There(p)
  PROVE  /\ \A q \in Path : node[q] = node[p] /\ q # p => Links(p) > 1
         /\ Links(p) > 1 => p \in Files
  <1>1. /\ IsFiniteSet(NamesOf(node[p])) /\ Cardinality(NamesOf(node[p])) \in Nat
        /\ p \in NamesOf(node[p])
    BY PathAssumption, FS_Subset, FS_CardinalityType DEF NamesOf
  <1>2. Cardinality({p}) = 1
    BY FS_Singleton
  <1>3. ASSUME NEW q \in Path, node[q] = node[p], q # p
        PROVE  Links(p) > 1
    <2>1. {p} \in SUBSET NamesOf(node[p]) /\ {p} # NamesOf(node[p])
      BY <1>1, <1>3 DEF NamesOf
    <2>2. /\ Cardinality({p}) <= Cardinality(NamesOf(node[p]))
          /\ Cardinality({p}) # Cardinality(NamesOf(node[p]))
      BY <1>1, <2>1, FS_Subset
    <2>3. QED
      BY <1>1, <1>2, <2>2 DEF Links
  <1>4. ASSUME p \notin Files
        PROVE  ~(Links(p) > 1)
    <2>1. NamesOf(node[p]) = {p}
      BY <1>1, <1>4 DEF VolumeInv, NamesOf
    <2>2. QED
      BY <1>2, <2>1 DEF Links
  <1>5. QED
    BY <1>3, <1>4

\* What the container does shows: an inode that it has not touched has the
\* names and the contents it had.
UntouchedStay ==
  \A n \in Node \ touched' :
    /\ n \notin touched /\ content'[n] = content[n]
    /\ \A p \in Path : node'[p] = n <=> node[p] = n

LEMMA VolumeChanges ==
  ASSUME WalkInv, VolumeInv, UseVolume
  PROVE  VolumeInv' /\ UntouchedStay /\ UNCHANGED <<walk, archive>>
  <1>0. /\ node \in [Path -> Node \cup {0}] /\ content \in [Node -> Version]
        /\ Files \subseteq Path /\ 0 \notin Node
        /\ \A p \in Path : \A d \in Above[p] : d \in Path /\ d \notin Files
        /\ Files' = Files
    <2>1. ASSUME NEW p \in Path, NEW d \in Above[p]
          PROVE  d \in Path /\ d \notin Files
      BY AboveAssumption DEF Files
    <2>2. QED
      BY <2>1, Numbers DEF WalkInv, WalkTypeOK, Files
  <1>1. CASE Rewrite
    <2>1. PICK p \in Files : /\ There(p) /\ Change({node[p]})
                             /\ content' = [content EXCEPT ![node[p]] = Fresh(node[p])]
                             /\ UNCHANGED <<node, missing>>
      BY <1>1 DEF Rewrite
    <2>2. UntouchedStay
      BY <1>0, <2>1 DEF UntouchedStay, Change
    <2>3. VolumeInv'
      BY <2>1 DEF VolumeInv, There, CanHold
    <2>4. QED
      BY <2>1, <2>2, <2>3 DEF Change
  <1>2. CASE Make
    <2>1. PICK p \in Path, n \in Node :
                 /\ ~There(p) /\ CanHold(p) /\ NamesOf(n) = {}
                 /\ Change({n}) /\ node' = [node EXCEPT ![p] = n]
                 /\ content' = [content EXCEPT ![n] = Fresh(n)]
      BY <1>2 DEF Make
    <2>2. \A q \in Path : node[q] # n
      BY <2>1 DEF NamesOf
    <2>3. UntouchedStay
      BY <1>0, <2>1, <2>2 DEF UntouchedStay, Change, There
    <2>4. \A q \in Path : node'[q] = IF q = p THEN n ELSE node[q]
      BY <1>0, <2>1
    <2>5. VolumeInv'
      BY <1>0, <2>1, <2>2, <2>4 DEF VolumeInv, There, CanHold
    <2>6. QED
      BY <2>1, <2>3, <2>5 DEF Change
  <1>3. CASE Link
    <2>1. PICK p \in Files, q \in Files :
                 /\ There(p) /\ ~There(q) /\ CanHold(q)
                 /\ Change({node[p]}) /\ node' = [node EXCEPT ![q] = node[p]]
                 /\ UNCHANGED <<content, missing>>
      BY <1>3 DEF Link
    <2>2. \A r \in Path : node'[r] = IF r = q THEN node[p] ELSE node[r]
      BY <1>0, <2>1
    <2>3. UntouchedStay
      BY <1>0, <2>1, <2>2 DEF UntouchedStay, Change, There
    <2>4. VolumeInv'
      <3>1. \A r \in Path : There(r)' => CanHold(r)'
        BY <1>0, <2>1, <2>2 DEF VolumeInv, There, CanHold
      <3>2. ASSUME NEW r \in Path, NEW s \in Path, There(r)', node'[r] = node'[s], r # s
            PROVE  r \in Files /\ s \in Files
        <4>1. CASE r = q
          BY <1>0, <2>1, <2>2, <3>2, <4>1 DEF VolumeInv, There
        <4>2. CASE s = q
          BY <1>0, <2>1, <2>2, <3>2, <4>2 DEF VolumeInv, There
        <4>3. CASE r # q /\ s # q
          BY <2>2, <3>2, <4>3 DEF VolumeInv, There
        <4>4. QED
          BY <4>1, <4>2, <4>3
      <3>3. QED
        BY <1>0, <3>1, <3>2 DEF VolumeInv
    <2>5. QED
      BY <2>1, <2>3, <2>4 DEF Change
  <1>4. CASE Unlink
    <2>1. PICK p \in Path :
                 /\ There(p) /\ (\A q \in Path : p \in Above[q] => ~There(q))
                 /\ Change({node[p]}) /\ node' = [node EXCEPT ![p] = 0] /\ UNCHANGED content
      BY <1>4 DEF Unlink
    <2>2. \A r \in Path : node'[r] = IF r = p THEN 0 ELSE node[r]
      BY <1>0, <2>1
    <2>3. UntouchedStay
      BY <1>0, <2>1, <2>2 DEF UntouchedStay, Change
    <2>4. VolumeInv'
      BY <1>0, <2>1, <2>2 DEF VolumeInv, There, CanHold
    <2>5. QED
      BY <2>1, <2>3, <2>4 DEF Change
  <1>5. CASE Rename
    <2>1. PICK p \in Files, q \in Files :
                 /\ There(p) /\ node[q] # node[p] /\ CanHold(q)
                 /\ Change({node[p], node[q]} \ {0})
                 /\ node' = [node EXCEPT ![q] = node[p], ![p] = 0]
                 /\ UNCHANGED <<content, missing>>
      BY <1>5 DEF Rename
    <2>2. \A r \in Path : node'[r] = IF r = p THEN 0 ELSE IF r = q THEN node[p] ELSE node[r]
      BY <1>0, <2>1
    <2>3. UntouchedStay
      BY <1>0, <2>1, <2>2 DEF UntouchedStay, Change
    <2>4. VolumeInv'
      <3>1. \A r \in Path : There(r)' => CanHold(r)'
        BY <1>0, <2>1, <2>2 DEF VolumeInv, There, CanHold
      <3>2. ASSUME NEW r \in Path, NEW s \in Path, There(r)', node'[r] = node'[s], r # s
            PROVE  r \in Files /\ s \in Files
        <4>1. r # p /\ s # p
          BY <2>2, <3>2 DEF There
        <4>2. CASE r = q
          BY <1>0, <2>1, <2>2, <3>2, <4>1, <4>2 DEF VolumeInv, There
        <4>3. CASE s = q
          BY <1>0, <2>1, <2>2, <3>2, <4>1, <4>3 DEF VolumeInv, There
        <4>4. CASE r # q /\ s # q
          BY <2>2, <3>2, <4>1, <4>4 DEF VolumeInv, There
        <4>5. QED
          BY <4>2, <4>3, <4>4
      <3>3. QED
        BY <1>0, <3>1, <3>2 DEF VolumeInv
    <2>5. QED
      BY <2>1, <2>3, <2>4 DEF Change
  <1>6. QED
    BY <1>1, <1>2, <1>3, <1>4, <1>5 DEF UseVolume

-----------------------------------------------------------------------------
(* What an archive gives back *)

\* What the archive, as far as it is written, would give back.
Tree == Extracted(archive)
Given(p) == Tree[p] # Nothing
Untouched(p) == There(p) /\ node[p] \notin touched

\* k is what is remembered of the file that p is a name of, under the name f.
Remembers(k, p, f) == k.node = node[p] /\ k.first = f

\* What is remembered of an inode that nobody has touched is true, is
\* remembered once, and its first name is being read or in the archive.
SeenInv ==
  \A k \in walk.seen : k.node \notin touched =>
    /\ k.first \in Files /\ node[k.first] = k.node
    /\ k.links = Links(k.first) /\ k.links > 1
    /\ \A l \in walk.seen : l.node = k.node => l = k
    /\ \/ walk.pc = "read" /\ walk.at = k.first
       \/ Given(k.first) /\ Tree[k.first].node = k.first

\* What is being read, if it has several names, is remembered.
ReadInv ==
  walk.pc = "read" /\ Untouched(walk.at) /\ Links(walk.at) > 1 =>
    \E k \in walk.seen : Remembers(k, walk.at, walk.at)

\* What nobody has touched and is in the archive is there as it is, and as
\* another name of the first name of its file if it has several.
TreeInv ==
  \A p \in Path : Untouched(p) /\ Given(p) =>
    /\ Tree[p].data = content[node[p]]
    /\ node[Tree[p].node] = node[p]
    /\ Links(p) > 1 => \E k \in walk.seen : Remembers(k, p, Tree[p].node)

\* What is steady is in the archive, being read, or still to be found: it or a
\* directory it is in is to be visited or to be listed.
CoverInv ==
  /\ \A p \in Path : Steady(p) =>
       \/ Given(p)
       \/ walk.pc = "read" /\ walk.at = p
       \/ walk.pc = "list" /\ walk.at \in Above[p]
       \/ \E d \in {p} \cup Above[p] : d \in walk.todo
  /\ walk.pc = "done" => walk.todo = {}

GivingInv ==
  /\ VolumeInv
  /\ walk.pc # "failed" => SeenInv /\ ReadInv /\ TreeInv /\ CoverInv

LEMMA TreeTyped ==
  ASSUME WalkTypeOK
  PROVE  /\ Tree \in Unpacked
         /\ \A p \in Path : Given(p) => Tree[p].node \in Path /\ Tree[p].data \in Version \cup {Zeros}
  <1>1. Tree \in Unpacked
    BY ExtractedTyped DEF WalkTypeOK, Tree
  <1>2. QED
    BY <1>1 DEF Unpacked, Given

LEMMA GivingInit == Init => GivingInv
  <1>1. SUFFICES ASSUME Init PROVE GivingInv
    OBVIOUS
  <1>2. /\ node \in Trees /\ archive = <<>> /\ walk.pc = "visit" /\ walk.seen = {}
        /\ walk.todo = {p \in Path : There(p) /\ Above[p] = {}}
    BY <1>1, Zenon DEF Init, WalkInit
  <1>3. VolumeInv
    BY <1>2, Numbers DEF VolumeInv, Trees, There, CanHold
  <1>4. \A p \in Path : ~Given(p)
    BY <1>2, NothingExtracted DEF Given, Tree
  <1>5. ASSUME NEW p \in Path, Steady(p)
        PROVE  \E d \in {p} \cup Above[p] : d \in walk.todo
    <2>1. PICK r \in {p} \cup Above[p] : Above[r] = {}
      BY Descent
    <2>2. r \in Path /\ There(r)
      BY <1>3, <1>5, AboveAssumption DEF VolumeInv, CanHold, Steady
    <2>3. QED
      BY <1>2, <2>1, <2>2
  <1>6. QED
    BY <1>2, <1>3, <1>4, <1>5 DEF GivingInv, SeenInv, ReadInv, TreeInv, CoverInv

\* What the container does takes back nothing of what is said about the rest.
LEMMA GivingBesideChanges ==
  ASSUME WalkInv, WalkInv', GivingInv, UseVolume
  PROVE  GivingInv'
  <1>1. VolumeInv' /\ UntouchedStay /\ UNCHANGED <<walk, archive>>
    BY VolumeChanges DEF GivingInv
  <1>2. Tree' = Tree /\ \A p \in Path : Given(p)' = Given(p)
    BY <1>1 DEF Tree, Given, Extracted
  <1>3. ASSUME NEW p \in Path, node'[p] \in Node \ touched'
        PROVE  /\ node'[p] = node[p] /\ node[p] \notin touched /\ node[p] \in Node
               /\ content'[node[p]] = content[node[p]]
               /\ Links(p)' = Links(p)
    <2>1. /\ node'[p] = node[p] /\ node[p] \notin touched
          /\ content'[node[p]] = content[node[p]]
          /\ \A q \in Path : node'[q] = node[p] <=> node[q] = node[p]
      BY <1>1, <1>3 DEF UntouchedStay
    <2>2. NamesOf(node[p])' = NamesOf(node[p])
      BY <2>1 DEF NamesOf
    <2>3. QED
      BY <1>3, <2>1, <2>2 DEF Links
  <1>4. ASSUME NEW p \in Path, Untouched(p)'
        PROVE  /\ Untouched(p) /\ node'[p] = node[p] /\ node[p] \in Node \ touched'
               /\ content'[node[p]] = content[node[p]] /\ Links(p)' = Links(p)
    <2>1. node'[p] \in Node \ touched'
      BY <1>4 DEF Untouched, There, WalkInv, WalkTypeOK
    <2>2. QED
      BY <1>3, <2>1, Numbers DEF Untouched, There
  <1>5. CASE walk.pc = "failed"
    BY <1>1, <1>5 DEF GivingInv
  <1>6. CASE walk.pc # "failed"
    <2>1. SeenInv'
      <3>1. SUFFICES ASSUME NEW k \in walk.seen, k.node \notin touched'
                     PROVE  /\ k.first \in Files /\ node'[k.first] = k.node
                            /\ k.links = Links(k.first)' /\ k.links > 1
                            /\ \A l \in walk.seen : l.node = k.node => l = k
                            /\ \/ walk.pc = "read" /\ walk.at = k.first
                               \/ Given(k.first) /\ Tree[k.first].node = k.first
        BY <1>1, <1>2 DEF SeenInv, Given, Files
      <3>2. k.node \in Node /\ k.first \in Path
        BY DEF WalkInv, WalkTypeOK, WalkState
      <3>3. k.node \notin touched /\ \A q \in Path : node'[q] = k.node <=> node[q] = k.node
        BY <1>1, <3>1, <3>2 DEF UntouchedStay
      <3>4. node'[k.first] = k.node /\ node[k.first] = k.node
        BY <1>6, <3>2, <3>3 DEF GivingInv, SeenInv
      <3>5. Links(k.first)' = Links(k.first)
        BY <1>3, <3>1, <3>2, <3>4
      <3>6. QED
        BY <1>6, <3>3, <3>4, <3>5 DEF GivingInv, SeenInv
    <2>2. ReadInv'
      <3>1. SUFFICES ASSUME NEW p \in Path, walk.at = p, walk.pc = "read",
                            Untouched(p)', Links(p)' > 1
                     PROVE  \E k \in walk.seen : k.node = node'[p] /\ k.first = p
        <4>1. walk.pc = "read" => walk.at \in Path
          BY DEF WalkInv, OrderInv
        <4>2. QED
          BY <1>1, <4>1 DEF ReadInv, Remembers, Untouched, There, Links
      <3>2. Untouched(p) /\ node'[p] = node[p] /\ Links(p)' = Links(p)
        BY <1>4, <3>1
      <3>3. QED
        BY <1>6, <3>1, <3>2 DEF GivingInv, ReadInv, Remembers
    <2>3. TreeInv'
      <3>1. SUFFICES ASSUME NEW p \in Path, Untouched(p)', Given(p)
                     PROVE  /\ Tree[p].data = content'[node'[p]]
                            /\ node'[Tree[p].node] = node'[p]
                            /\ Links(p)' > 1 =>
                                 \E k \in walk.seen : k.node = node'[p] /\ k.first = Tree[p].node
        BY <1>1, <1>2 DEF TreeInv, Remembers
      <3>2. /\ Untouched(p) /\ node'[p] = node[p] /\ node[p] \in Node \ touched'
            /\ content'[node[p]] = content[node[p]] /\ Links(p)' = Links(p)
        BY <1>4, <3>1
      <3>3. /\ Tree[p].data = content[node[p]]
            /\ node[Tree[p].node] = node[p]
            /\ Links(p) > 1 => \E k \in walk.seen : Remembers(k, p, Tree[p].node)
        BY <1>6, <3>1, <3>2 DEF GivingInv, TreeInv
      <3>4. Tree[p].node \in Path
        BY <3>1, TreeTyped DEF WalkInv
      <3>5. node'[Tree[p].node] = node[p]
        BY <1>1, <3>2, <3>3, <3>4 DEF UntouchedStay
      <3>6. QED
        BY <3>2, <3>3, <3>5 DEF Remembers
    <2>4. CoverInv'
      <3>1. ASSUME NEW p \in Path, Steady(p)'
            PROVE  Steady(p)
        <4>1. ASSUME NEW q \in {p} \cup Above[p]
              PROVE  node[q] \notin touched
          <5>1. q \in Path
            BY AboveAssumption
          <5>2. Untouched(q)'
            BY <1>1, <3>1, <4>1 DEF VolumeInv, CanHold, Steady, Untouched
          <5>3. QED
            BY <1>4, <5>1, <5>2 DEF Untouched
        <4>2. There(p)
          <5>1. Untouched(p)'
            BY <3>1 DEF Steady, Untouched
          <5>2. QED
            BY <1>4, <5>1 DEF Untouched
        <4>3. QED
          BY <4>1, <4>2 DEF Steady
      <3>2. QED
        BY <1>1, <1>2, <1>6, <3>1 DEF GivingInv, CoverInv
    <2>5. QED
      BY <1>1, <2>1, <2>2, <2>3, <2>4 DEF GivingInv
  <1>7. QED
    BY <1>5, <1>6

\* A name is written to the archive: untouched, it gets what it is.
LEMMA TreeWritten ==
  ASSUME WalkInv, SeenInv, TreeInv, UNCHANGED volumeVars, walk'.seen = walk.seen,
         NEW p \in Path, NEW v \in {Nothing} \cup [node : Path, data : Version \cup {Zeros}],
         Tree' = [Tree EXCEPT ![p] = v],
         walk.pc = "read" => walk.at = p,
         Untouched(p) =>
           /\ v # Nothing /\ v.data = content[node[p]] /\ node[v.node] = node[p]
           /\ Links(p) > 1 => \E k \in walk.seen : Remembers(k, p, v.node)
  PROVE  SeenInv' /\ TreeInv' /\ \A q \in Path : Given(q) /\ q # p => Given(q)'
  <1>1. /\ UNCHANGED <<node, content, touched>>
        /\ \A q \in Path : Untouched(q)' = Untouched(q) /\ Links(q)' = Links(q)
    BY DEF volumeVars, Untouched, There, Links, NamesOf
  <1>2. /\ Tree'[p] = v /\ \A q \in Path \ {p} : Tree'[q] = Tree[q]
    <2>1. Tree \in [Path -> {Nothing} \cup [node : Path, data : Version \cup {Zeros}]]
      BY TreeTyped DEF WalkInv, Unpacked
    <2>2. QED
      BY <2>1
  <1>3. \A q \in Path : Given(q) /\ q # p => Given(q)'
    BY <1>2 DEF Given
  <1>4. TreeInv'
    <2>1. SUFFICES ASSUME NEW q \in Path, Untouched(q), Tree'[q] # Nothing
                   PROVE  /\ Tree'[q].data = content[node[q]]
                          /\ node[Tree'[q].node] = node[q]
                          /\ Links(q) > 1 => \E k \in walk.seen : Remembers(k, q, Tree'[q].node)
      BY <1>1 DEF TreeInv, Given, Remembers
    <2>2. CASE q = p
      BY <1>2, <2>1, <2>2
    <2>3. CASE q # p
      <3>1. Tree'[q] = Tree[q] /\ Given(q)
        BY <1>2, <2>1, <2>3 DEF Given
      <3>2. QED
        BY <2>1, <3>1 DEF TreeInv
    <2>4. QED
      BY <2>2, <2>3
  <1>5. SeenInv'
    <2>1. SUFFICES ASSUME NEW k \in walk.seen, k.node \notin touched
                   PROVE  Tree'[k.first] # Nothing /\ Tree'[k.first].node = k.first
      <3>1. \A k \in walk.seen : k.first \in Path
        BY DEF WalkInv, WalkTypeOK, WalkState
      <3>2. QED
        BY <1>1, <2>1, <3>1 DEF SeenInv, Given, Files
    <2>2. /\ k.first \in Path /\ node[k.first] = k.node /\ k.node \in Node
          /\ k.links = Links(k.first) /\ k.links > 1
          /\ \A l \in walk.seen : l.node = k.node => l = k
      BY <2>1 DEF SeenInv, Files, WalkInv, WalkTypeOK, WalkState
    <2>3. CASE k.first = p
      <3>1. Untouched(p)
        BY <2>1, <2>2, <2>3, Numbers DEF Untouched, There
      <3>2. PICK l \in walk.seen : Remembers(l, p, v.node)
        BY <2>2, <2>3, <3>1
      <3>3. l = k
        BY <2>2, <2>3, <3>2 DEF Remembers
      <3>4. QED
        BY <1>2, <2>3, <3>1, <3>2, <3>3 DEF Remembers
    <2>4. CASE k.first # p
      <3>1. Given(k.first) /\ Tree[k.first].node = k.first
        BY <2>1, <2>4 DEF SeenInv
      <3>2. QED
        BY <1>2, <2>2, <2>4, <3>1 DEF Given
    <2>5. QED
      BY <2>3, <2>4
  <1>6. QED
    BY <1>3, <1>4, <1>5

LEMMA TreeKept ==
  ASSUME SeenInv, TreeInv, UNCHANGED volumeVars, walk'.seen = walk.seen, Tree' = Tree,
         walk.pc = "read" => walk'.pc = "read" /\ walk'.at = walk.at
  PROVE  SeenInv' /\ TreeInv' /\ \A q \in Path : Given(q)' = Given(q)
  <1>1. /\ UNCHANGED <<node, content, touched>>
        /\ \A q : Untouched(q)' = Untouched(q) /\ Links(q)' = Links(q) /\ Given(q)' = Given(q)
    BY DEF volumeVars, Untouched, There, Links, NamesOf, Given
  <1>2. TreeInv'
    BY <1>1 DEF TreeInv, Remembers
  <1>3. SeenInv'
    BY <1>1 DEF SeenInv
  <1>4. QED
    BY <1>1, <1>2, <1>3

\* The archive grows by an entry.
LEMMA TreeNext ==
  ASSUME WalkInv, NEW e \in Entry, archive' = Append(archive, e)
  PROVE  Tree \in Unpacked /\ Tree' = Unpack(e)[Tree]
  BY ExtractedNext, TreeTyped DEF WalkInv, WalkTypeOK, Tree

\* The volume does not change while the walk takes a step.
LEMMA VolumeKept ==
  ASSUME UNCHANGED volumeVars
  PROVE  /\ VolumeInv => VolumeInv'
         /\ \A p \in Path : Steady(p)' = Steady(p)
  BY DEF volumeVars, VolumeInv, There, CanHold, Steady

LEMMA GivingVisitDir ==
  ASSUME WalkInv, GivingInv, UNCHANGED volumeVars, VisitDir
  PROVE  GivingInv'
  <1>1. PICK p \in Path \ Files :
               /\ Reach(p) /\ KindOf[p] = "dir" /\ walk' = [Passed(p) EXCEPT !.pc = "list", !.at = p]
               /\ IF There(p) THEN Write(Stored(p, content[node[p]])) ELSE UNCHANGED archive
    BY DEF VisitDir
  <1>2. /\ walk \in WalkState /\ walk.pc = "visit"
        /\ walk'.pc = "list" /\ walk'.at = p /\ walk'.todo = walk.todo \ {p} /\ walk'.seen = walk.seen
    BY <1>1 DEF Reach, Passed, WalkInv, WalkTypeOK, WalkState
  <1>3. VolumeInv /\ SeenInv /\ TreeInv /\ CoverInv
    BY <1>2 DEF GivingInv
  <1>4. /\ SeenInv' /\ TreeInv' /\ (There(p) => Given(p)')
        /\ \A q \in Path : q # p /\ Given(q) => Given(q)'
    <2>1. CASE There(p)
      <3> DEFINE v == [node |-> p, data |-> content[node[p]]]
      <3>1. content[node[p]] \in Version
        BY <2>1, ContentTyped DEF WalkInv
      <3>2. Tree \in Unpacked /\ Tree' = [Tree EXCEPT ![p] = v]
        <4>1. Stored(p, content[node[p]]) \in Entry
          BY <3>1, StoredTyped
        <4>2. Tree \in Unpacked /\ Tree' = Unpack(Stored(p, content[node[p]]))[Tree]
          BY <1>1, <2>1, <4>1, TreeNext DEF Write
        <4>3. QED
          BY <4>2, UnpackStored
      <3>3. ~(Links(p) > 1)
        BY <1>1, <1>3, <2>1, LinksFacts
      <3>4. v # Nothing /\ v \in [node : Path, data : Version \cup {Zeros}]
        BY <3>1, Numbers DEF Nothing
      <3>5. SeenInv' /\ TreeInv' /\ \A q \in Path : Given(q) /\ q # p => Given(q)'
        BY <1>2, <1>3, <3>2, <3>3, <3>4, TreeWritten
      <3>6. Given(p)'
        BY <3>2, <3>4 DEF Given, Unpacked
      <3>7. QED
        BY <3>5, <3>6
    <2>2. CASE ~There(p)
      <3>1. Tree' = Tree
        BY <1>1, <2>2 DEF Tree, Extracted
      <3>2. QED
        BY <1>2, <1>3, <2>2, <3>1, TreeKept
    <2>3. QED
      BY <2>1, <2>2
  <1>5. CoverInv'
    <2>1. SUFFICES ASSUME NEW q \in Path, Steady(q)
                   PROVE  \/ Given(q)'
                          \/ p \in Above[q]
                          \/ \E d \in {q} \cup Above[q] : d \in walk.todo \ {p}
      BY <1>2, VolumeKept DEF CoverInv
    <2>2. CASE q = p
      BY <1>4, <2>1, <2>2 DEF Steady
    <2>3. CASE q # p
      BY <1>2, <1>3, <1>4, <2>1, <2>3 DEF CoverInv
    <2>4. QED
      BY <2>2, <2>3
  <1>6. QED
    BY <1>2, <1>3, <1>4, <1>5, VolumeKept DEF GivingInv, ReadInv

LEMMA GivingVisitVanished ==
  ASSUME WalkInv, GivingInv, UNCHANGED volumeVars, VisitVanished
  PROVE  GivingInv'
  <1>1. PICK p \in Path : /\ Reach(p) /\ KindOf[p] # "dir" /\ ~There(p)
                          /\ walk' = Passed(p) /\ archive' = archive
    BY DEF VisitVanished
  <1>2. /\ walk \in WalkState /\ walk.pc = "visit"
        /\ walk'.pc = "visit" /\ walk'.todo = walk.todo \ {p} /\ walk'.seen = walk.seen
    BY <1>1 DEF Reach, Passed, WalkInv, WalkTypeOK, WalkState
  <1>3. VolumeInv /\ SeenInv /\ TreeInv /\ CoverInv
    BY <1>2 DEF GivingInv
  <1>4. SeenInv' /\ TreeInv' /\ \A q \in Path : Given(q)' = Given(q)
    <2>1. Tree' = Tree
      BY <1>1 DEF Tree, Extracted
    <2>2. QED
      BY <1>2, <1>3, <2>1, TreeKept
  <1>5. CoverInv'
    <2>1. SUFFICES ASSUME NEW q \in Path, Steady(q)
                   PROVE  Given(q)' \/ \E d \in {q} \cup Above[q] : d \in walk.todo \ {p}
      BY <1>2, VolumeKept DEF CoverInv
    <2>2. p \notin {q} \cup Above[q]
      BY <1>1, <2>1, AboveAssumption DEF Steady
    <2>3. QED
      BY <1>2, <1>3, <1>4, <2>1, <2>2 DEF CoverInv
  <1>6. QED
    BY <1>2, <1>3, <1>4, <1>5, VolumeKept DEF GivingInv, ReadInv

LEMMA GivingVisitLink ==
  ASSUME WalkInv, GivingInv, UNCHANGED volumeVars, VisitLink
  PROVE  GivingInv'
  <1>1. PICK p \in Files, k \in walk.seen :
               /\ Reach(p) /\ There(p) /\ k.node = node[p]
               /\ walk' = Passed(p) /\ archive' = Append(archive, LinkTo(p, k.first))
    BY DEF VisitLink, Known, Write
  <1>2. /\ walk \in WalkState /\ walk.pc = "visit"
        /\ walk'.pc = "visit" /\ walk'.todo = walk.todo \ {p} /\ walk'.seen = walk.seen
        /\ p \in Path /\ k.first \in Path /\ KindOf[p] # "dir"
    BY <1>1 DEF Reach, Passed, Files, WalkInv, WalkTypeOK, WalkState
  <1>3. VolumeInv /\ SeenInv /\ TreeInv /\ CoverInv
    BY <1>2 DEF GivingInv
  <1> DEFINE v == Tree[k.first]
  <1>4. /\ Tree \in Unpacked /\ Tree' = [Tree EXCEPT ![p] = v]
        /\ v \in {Nothing} \cup [node : Path, data : Version \cup {Zeros}]
    <2>1. LinkTo(p, k.first) \in Entry
      BY <1>2, LinkTyped
    <2>2. Tree \in Unpacked /\ Tree' = Unpack(LinkTo(p, k.first))[Tree]
      BY <1>1, <2>1, TreeNext
    <2>3. Tree' = [Tree EXCEPT ![p] = v]
      BY <1>2, <2>2, UnpackLink
    <2>4. v \in {Nothing} \cup [node : Path, data : Version \cup {Zeros}]
      BY <1>2, <2>2 DEF Unpacked
    <2>5. QED
      BY <2>2, <2>3, <2>4
  <1>5. ASSUME Untouched(p)
        PROVE  /\ v # Nothing /\ v.data = content[node[p]] /\ node[v.node] = node[p]
               /\ Remembers(k, p, v.node)
    <2>1. k.node \notin touched
      BY <1>1, <1>5 DEF Untouched
    <2>2. Given(k.first) /\ v.node = k.first /\ node[k.first] = k.node
      BY <1>2, <1>3, <2>1 DEF SeenInv
    <2>3. Untouched(k.first)
      BY <1>1, <1>5, <2>2 DEF Untouched, There
    <2>4. v.data = content[node[k.first]]
      BY <1>2, <1>3, <2>2, <2>3 DEF TreeInv
    <2>5. QED
      BY <1>1, <2>2, <2>4 DEF Given, Remembers
  <1>6. SeenInv' /\ TreeInv' /\ \A q \in Path : Given(q) /\ q # p => Given(q)'
    <2> HIDE DEF v
    <2>1. QED
      BY <1>2, <1>3, <1>4, <1>5, TreeWritten
  <1>7. CoverInv'
    <2>1. SUFFICES ASSUME NEW q \in Path, Steady(q)
                   PROVE  Given(q)' \/ \E d \in {q} \cup Above[q] : d \in walk.todo \ {p}
      BY <1>2, VolumeKept DEF CoverInv
    <2>2. CASE q = p
      <3>1. v # Nothing
        BY <1>5, <2>1, <2>2 DEF Steady, Untouched
      <3>2. QED
        BY <1>2, <1>4, <2>2, <3>1 DEF Given, Unpacked
    <2>3. CASE q # p
      <3>1. p \notin {q} \cup Above[q]
        BY <1>2, <2>1, <2>3, AboveAssumption
      <3>2. QED
        BY <1>2, <1>3, <1>6, <2>1, <2>3, <3>1 DEF CoverInv
    <2>4. QED
      BY <2>2, <2>3
  <1>8. QED
    BY <1>2, <1>3, <1>6, <1>7, VolumeKept DEF GivingInv, ReadInv

\* A file of several names is remembered when it is first reached.
LEMMA GivingVisitOther ==
  ASSUME WalkInv, GivingInv, UNCHANGED volumeVars, VisitOther
  PROVE  GivingInv'
  <1>1. PICK p \in Path :
               /\ Reach(p) /\ KindOf[p] # "dir" /\ There(p) /\ Known(p) = {} /\ archive' = archive
               /\ walk' = [Passed(p) EXCEPT !.pc = "read", !.at = p,
                             !.seen = IF p \in Files /\ Links(p) > 1
                                      THEN @ \cup {[node |-> node[p], links |-> Links(p), first |-> p]}
                                      ELSE @]
    BY DEF VisitOther
  <1> DEFINE new == [node |-> node[p], links |-> Links(p), first |-> p]
             several == p \in Files /\ Links(p) > 1
  <1>2. /\ walk \in WalkState /\ walk.pc = "visit"
        /\ walk'.pc = "read" /\ walk'.at = p /\ walk'.todo = walk.todo \ {p}
        /\ walk'.seen = walk.seen \cup IF several THEN {new} ELSE {}
    <2>1. walk \in WalkState /\ walk.pc = "visit"
      BY <1>1 DEF Reach, WalkInv, WalkTypeOK
    <2>2. /\ walk'.pc = "read" /\ walk'.at = p /\ walk'.todo = walk.todo \ {p}
          /\ walk'.seen = IF several THEN walk.seen \cup {new} ELSE walk.seen
      BY <1>1, <2>1 DEF Passed, WalkState
    <2>3. QED
      BY <2>1, <2>2
  <1>3. VolumeInv /\ SeenInv /\ TreeInv /\ CoverInv
    BY <1>2 DEF GivingInv
  <1>4. /\ UNCHANGED <<node, content, touched>> /\ Tree' = Tree
        /\ \A q : Untouched(q)' = Untouched(q) /\ Links(q)' = Links(q) /\ Given(q)' = Given(q)
    BY <1>1 DEF volumeVars, Untouched, There, Links, NamesOf, Given, Tree, Extracted
  <1>5. TreeInv'
    BY <1>2, <1>3, <1>4 DEF TreeInv, Remembers
  <1>6. SeenInv'
    <2>1. ASSUME NEW k \in walk.seen, k.node \notin touched
          PROVE  /\ k.first \in Files /\ node[k.first] = k.node
                 /\ k.links = Links(k.first) /\ k.links > 1
                 /\ \A l \in walk'.seen : l.node = k.node => l = k
                 /\ Given(k.first) /\ Tree[k.first].node = k.first
      <3>1. /\ k.first \in Files /\ node[k.first] = k.node
            /\ k.links = Links(k.first) /\ k.links > 1
            /\ \A l \in walk.seen : l.node = k.node => l = k
            /\ Given(k.first) /\ Tree[k.first].node = k.first
        BY <1>2, <1>3, <2>1 DEF SeenInv
      <3>2. k.node # node[p]
        BY <1>1, <2>1, <3>1 DEF Known, Links
      <3>3. QED
        BY <1>2, <3>1, <3>2
    <2>2. ASSUME several, node[p] \notin touched
          PROVE  \A l \in walk.seen : l.node # node[p]
      BY <2>1, <2>2, <1>1 DEF Known, Links
    <2>3. SUFFICES ASSUME NEW k \in walk'.seen, k.node \notin touched
                   PROVE  /\ k.first \in Files /\ node[k.first] = k.node
                          /\ k.links = Links(k.first) /\ k.links > 1
                          /\ \A l \in walk'.seen : l.node = k.node => l = k
                          /\ p = k.first \/ (Given(k.first) /\ Tree[k.first].node = k.first)
      BY <1>2, <1>4 DEF SeenInv, Files
    <2>4. CASE k \in walk.seen
      BY <2>1, <2>3, <2>4
    <2>5. CASE several /\ k = new
      BY <1>2, <2>2, <2>3, <2>5
    <2>6. QED
      BY <1>2, <2>3, <2>4, <2>5
  <1>7. ReadInv'
    <2>1. Links(p) > 1 => p \in Files
      BY <1>1, <1>3, LinksFacts
    <2>2. ASSUME Links(p) > 1
          PROVE  new \in walk'.seen /\ Remembers(new, p, p)
      BY <1>2, <2>1, <2>2 DEF Remembers
    <2>3. QED
      BY <1>2, <1>4, <2>2 DEF ReadInv, Remembers
  <1>8. CoverInv'
    <2>1. SUFFICES ASSUME NEW q \in Path, Steady(q), q # p
                   PROVE  Given(q) \/ \E d \in {q} \cup Above[q] : d \in walk.todo \ {p}
      BY <1>2, <1>4, VolumeKept DEF CoverInv
    <2>2. p \notin {q} \cup Above[q]
      BY <1>1, <2>1, AboveAssumption
    <2>3. QED
      BY <1>2, <1>3, <2>1, <2>2 DEF CoverInv
  <1>9. QED
    BY <1>2, <1>3, <1>5, <1>6, <1>7, <1>8, VolumeKept DEF GivingInv

LEMMA GivingRead ==
  ASSUME WalkInv, GivingInv, UNCHANGED volumeVars, Read
  PROVE  GivingInv'
  <1>0. walk.pc = "read" /\ walk \in WalkState /\ walk.at \in Path
    BY DEF Read, WalkInv, WalkTypeOK, OrderInv
  <1>1. PICK p \in Path : walk.pc = "read" /\ walk \in WalkState /\ walk.at = p
    BY <1>0
  <1>2. VolumeInv /\ SeenInv /\ ReadInv /\ TreeInv /\ CoverInv
    BY <1>1 DEF GivingInv
  <1>3. CASE walk' = [Back EXCEPT !.pc = "failed"]
    <2>1. walk'.pc = "failed"
      BY <1>1, <1>3, BackTyped DEF WalkState
    <2>2. QED
      BY <1>2, <2>1, VolumeKept DEF GivingInv
  <1>4. ASSUME NEW data \in Version \cup {Zeros}, walk' = Back,
               archive' = Append(archive, Stored(p, data)), There(p) => data = content[node[p]]
        PROVE  GivingInv'
    <2> DEFINE v == [node |-> p, data |-> data]
    <2>1. walk'.pc = "visit" /\ walk'.todo = walk.todo /\ walk'.seen = walk.seen
      BY <1>1, <1>4 DEF Back, WalkState
    <2>2. Tree \in Unpacked /\ Tree' = [Tree EXCEPT ![p] = v]
      <3>1. Stored(p, data) \in Entry
        BY <1>1, StoredTyped
      <3>2. Tree \in Unpacked /\ Tree' = Unpack(Stored(p, data))[Tree]
        BY <1>4, <3>1, TreeNext
      <3>3. QED
        BY <3>2, UnpackStored
    <2>3. v # Nothing /\ v \in [node : Path, data : Version \cup {Zeros}] /\ v.node = p
      BY <1>1, Numbers DEF Nothing
    <2>4. Untouched(p) => /\ v.data = content[node[p]]
                          /\ Links(p) > 1 => \E k \in walk.seen : Remembers(k, p, p)
      BY <1>1, <1>2, <1>4 DEF Untouched, ReadInv
    <2>5. SeenInv' /\ TreeInv' /\ \A q \in Path : Given(q) /\ q # p => Given(q)'
      <3> HIDE DEF v
      <3>1. QED
        BY <1>1, <1>2, <2>1, <2>2, <2>3, <2>4, TreeWritten
    <2>6. Given(p)'
      BY <1>1, <2>2, <2>3 DEF Given, Unpacked
    <2>7. CoverInv'
      BY <1>1, <1>2, <2>1, <2>5, <2>6, VolumeKept DEF CoverInv
    <2>8. QED
      BY <1>2, <2>1, <2>5, <2>7, VolumeKept DEF GivingInv, ReadInv
  <1>5. CASE There(p)
    <2>1. content[node[p]] \in Version
      BY <1>1, <1>5, ContentTyped DEF WalkInv
    <2>2. QED
      BY <1>1, <1>4, <1>5, <2>1 DEF Read, Write
  <1>6. CASE ~There(p)
    BY <1>1, <1>3, <1>4, <1>6 DEF Read, Write, Fail
  <1>7. QED
    BY <1>5, <1>6

LEMMA GivingList ==
  ASSUME WalkInv, GivingInv, UNCHANGED volumeVars, List
  PROVE  GivingInv'
  <1> DEFINE d == walk.at
             found == {q \in Path : There(q) /\ Holds(d, q)}
  <1>1. walk.pc = "list" /\ walk \in WalkState /\ archive' = archive
    BY DEF List, Fail, WalkInv, WalkTypeOK
  <1>2. VolumeInv /\ SeenInv /\ TreeInv /\ CoverInv
    BY <1>1 DEF GivingInv
  <1>3. CASE There(d)
    <2>1. walk' = [Back EXCEPT !.todo = @ \cup found]
      BY <1>3 DEF List
    <2>2. walk'.pc = "visit" /\ walk'.todo = walk.todo \cup found /\ walk'.seen = walk.seen
      BY <1>1, <2>1 DEF Back, WalkState
    <2>3. SeenInv' /\ TreeInv' /\ \A q \in Path : Given(q)' = Given(q)
      <3>1. Tree' = Tree
        BY <1>1 DEF Tree, Extracted
      <3>2. QED
        BY <1>1, <1>2, <2>2, <3>1, TreeKept
    <2>4. CoverInv'
      <3>1. SUFFICES ASSUME NEW p \in Path, Steady(p), d \in Above[p]
                     PROVE  \E c \in {p} \cup Above[p] : c \in found
        BY <1>1, <1>2, <2>2, <2>3, VolumeKept DEF CoverInv
      <3>2. PICK c \in {p} \cup Above[p] : Holds(d, c)
        BY <3>1, Descent
      <3>3. c \in Path /\ There(c)
        BY <1>2, <3>1, <3>2, AboveAssumption DEF VolumeInv, CanHold, Steady
      <3>4. QED
        BY <3>2, <3>3
    <2>5. QED
      BY <1>2, <2>2, <2>3, <2>4, VolumeKept DEF GivingInv, ReadInv
  <1>4. CASE ~There(d)
    <2>1. walk' = [Back EXCEPT !.pc = "failed"]
      BY <1>4 DEF List, Fail
    <2>2. walk'.pc = "failed"
      BY <1>1, <2>1, BackTyped DEF WalkState
    <2>3. QED
      BY <1>2, <2>2, VolumeKept DEF GivingInv
  <1>5. QED
    BY <1>3, <1>4

LEMMA GivingFinish ==
  ASSUME WalkInv, GivingInv, UNCHANGED volumeVars, Finish
  PROVE  GivingInv'
  <1>1. /\ walk.pc = "visit" /\ walk.todo = {} /\ walk \in WalkState
        /\ walk' = [walk EXCEPT !.pc = "done"] /\ archive' = Append(archive, Trailer)
    BY DEF Finish, Write, WalkInv, WalkTypeOK
  <1>2. walk'.pc = "done" /\ walk'.todo = {} /\ walk'.seen = walk.seen
    BY <1>1 DEF WalkState
  <1>3. VolumeInv /\ SeenInv /\ TreeInv /\ CoverInv
    BY <1>1 DEF GivingInv
  <1>4. SeenInv' /\ TreeInv' /\ \A q \in Path : Given(q)' = Given(q)
    <2>1. Tree' = Tree
      <3>1. Trailer \in Entry
        BY DEF Entry
      <3>2. QED
        BY <1>1, <3>1, TreeNext, UnpackTrailer
    <2>2. QED
      BY <1>1, <1>2, <1>3, <2>1, TreeKept
  <1>5. CoverInv'
    BY <1>1, <1>2, <1>3, <1>4, VolumeKept DEF CoverInv
  <1>6. QED
    BY <1>2, <1>3, <1>4, <1>5, VolumeKept DEF GivingInv, ReadInv

LEMMA GivingWalks ==
  ASSUME WalkInv, GivingInv, WalkStep \/ Break
  PROVE  GivingInv'
  <1>1. CASE WalkStep
    BY <1>1, GivingVisitDir, GivingVisitVanished, GivingVisitLink, GivingVisitOther, GivingRead,
       GivingList, GivingFinish DEF WalkStep
  <1>2. CASE Break
    <2>1. UNCHANGED volumeVars /\ walk' = [Back EXCEPT !.pc = "failed", !.broken = TRUE]
      BY <1>2 DEF Break
    <2>2. walk'.pc = "failed"
      BY <2>1, BackTyped DEF WalkInv, WalkTypeOK, WalkState
    <2>3. QED
      BY <2>1, <2>2, VolumeKept DEF GivingInv
  <1>3. QED
    BY <1>1, <1>2

LEMMA GivingStep == IInv /\ GivingInv /\ [Next]_vars => GivingInv'
  <1>1. SUFFICES ASSUME IInv, GivingInv, [Next]_vars PROVE GivingInv'
    OBVIOUS
  <1>2. WalkInv /\ WalkInv'
    BY <1>1, StepIInv DEF IInv
  <1>3. CASE WalkStep \/ Break
    BY <1>1, <1>2, <1>3, GivingWalks
  <1>4. CASE UseVolume
    BY <1>1, <1>2, <1>4, GivingBesideChanges
  <1>5. CASE UNCHANGED walkVars
    <2>1. UNCHANGED <<node, content, touched, walk, archive>>
      BY <1>5 DEF walkVars, volumeVars
    <2>2. VolumeInv'
      BY <1>1, <2>1 DEF GivingInv, VolumeInv, There, CanHold
    <2>3. CASE walk.pc = "failed"
      BY <2>1, <2>2, <2>3 DEF GivingInv
    <2>4. CASE walk.pc # "failed"
      <3>1. SeenInv /\ ReadInv /\ TreeInv /\ CoverInv
        BY <1>1, <2>4 DEF GivingInv
      <3>2. Tree' = Tree
        BY <2>1 DEF Tree, Extracted
      <3>3. SeenInv' /\ TreeInv' /\ \A p \in Path : Given(p)' = Given(p)
        BY <2>1, <3>1, <3>2, <1>5, TreeKept DEF walkVars
      <3>4. CoverInv' /\ ReadInv'
        BY <2>1, <3>1, <3>3 DEF CoverInv, ReadInv, Steady, There, Untouched, Links, NamesOf, Remembers
      <3>5. QED
        BY <2>2, <3>3, <3>4 DEF GivingInv
    <2>5. QED
      BY <2>3, <2>4
  <1>6. WalkStep \/ Break \/ UseVolume \/ UNCHANGED walkVars
    <2>1. CASE Call
      BY <2>1 DEF Call, DirectWalk, DirectEnd, Create, Attach, Start, SelectExit, SelectError,
                  SelectCancelled, Drain, Join
    <2>2. CASE HelperStep
      BY <2>2 DEF HelperStep, HelperWalks, HelperWalked, HelperUnpacks
    <2>3. CASE Copy \/ Feed \/ Container \/ Cancel \/ EngineGoes \/ UNCHANGED vars
      BY <2>3 DEF Copy, Feed, Container, Cancel, EngineGoes, vars
    <2>4. QED
      BY <1>1, <2>1, <2>2, <2>3 DEF Next
  <1>7. QED
    BY <1>3, <1>4, <1>5, <1>6

LEMMA DoneGivesBack ==
  ASSUME WalkInv, GivingInv, walk.pc = "done"
  PROVE  GivesBack(archive)
  <1>1. VolumeInv /\ SeenInv /\ TreeInv /\ CoverInv
    BY DEF GivingInv
  <1>2. ASSUME NEW p \in Path, Steady(p)
        PROVE  Untouched(p) /\ Given(p) /\ Tree[p].data = content[node[p]]
    <2>1. Untouched(p) /\ Given(p)
      BY <1>1, <1>2 DEF CoverInv, Steady, Untouched
    <2>2. QED
      BY <1>1, <2>1 DEF TreeInv
  <1>3. ASSUME NEW p \in Path, NEW q \in Path, Steady(p), Steady(q)
        PROVE  node[p] = node[q] <=> Tree[p].node = Tree[q].node
    <2>1. Untouched(p) /\ Given(p) /\ Untouched(q) /\ Given(q)
      BY <1>2, <1>3
    <2>2. CASE Tree[p].node = Tree[q].node
      BY <1>1, <2>1, <2>2 DEF TreeInv
    <2>3. CASE node[p] = node[q] /\ p # q
      <3>1. Links(p) > 1 /\ Links(q) > 1
        BY <1>1, <2>1, <2>3, LinksFacts DEF Untouched
      <3>2. PICK k \in walk.seen : Remembers(k, p, Tree[p].node)
        BY <1>1, <2>1, <3>1 DEF TreeInv
      <3>3. PICK l \in walk.seen : Remembers(l, q, Tree[q].node)
        BY <1>1, <2>1, <3>1 DEF TreeInv
      <3>4. k = l
        BY <1>1, <2>1, <2>3, <3>2, <3>3 DEF SeenInv, Remembers, Untouched
      <3>5. QED
        BY <2>3, <3>2, <3>3, <3>4 DEF Remembers
    <2>4. QED
      BY <2>2, <2>3
  <1>4. QED
    BY <1>2, <1>3 DEF GivesBack, Given, Tree

\* A call reports success only when all has arrived, and what has arrived gives
\* back, with its contents and its hard links, all that the container left alone
\* meanwhile: for any volume and any number of changes (Create, tarzst.go:56-229,
\* RunHelper, helper.go:133-177).
THEOREM SuccessGivesBack == Spec => []SuccessIsWhole
  <1>1. IInv /\ ArrivalInv /\ GivingInv => SuccessIsWhole
    <2>1. SUFFICES ASSUME IInv, ArrivalInv, GivingInv, Success
                   PROVE  AllArrived /\ (run.way = "extract" \/ GivesBack(archive))
      BY DEF SuccessIsWhole
    <2>2. AllArrived /\ (run.way = "extract" \/ walk.pc = "done")
      BY <2>1, SuccessHasArrived
    <2>3. QED
      BY <2>1, <2>2, DoneGivesBack DEF IInv
  <1>2. Init => IInv /\ ArrivalInv /\ GivingInv
    BY InitIInv, ArrivalInit, GivingInit
  <1>3. IInv /\ ArrivalInv /\ GivingInv /\ [Next]_vars => (IInv /\ ArrivalInv /\ GivingInv)'
    BY StepIInv, ArrivalStep, GivingStep
  <1>4. QED
    BY <1>1, <1>2, <1>3, PTL DEF Spec
=============================================================================
