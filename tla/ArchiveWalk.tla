----------------------------- MODULE ArchiveWalk -----------------------------
(***************************************************************************)
(* Create and Extract of snapshot/archive/tarzst.go: a volume is walked    *)
(* and written to an archive, name after name, while the container it      *)
(* belongs to may go on using it (a hot snapshot); later the archive is    *)
(* unpacked into the empty volume.                                         *)
(*                                                                         *)
(* Names are numbered in the order of a walk, a directory before what is   *)
(* in it, and a name is always of the same kind.  Sockets and devices, of  *)
(* which nothing is restored, modes, owners, times and Exclude, which no   *)
(* caller sets, are left out.                                              *)
(***************************************************************************)
EXTENDS Iteration, FiniteSets, Sequences, Functions

CONSTANTS
  Path,        \* the names there may be in the volume
  KindOf,      \* KindOf[p]: what p is when it is there
  Above,       \* Above[p]: the directories that p is in
  Node,        \* inode numbers, which are used again
  MaxChanges   \* bound on what the container does to the volume meanwhile

Kind == {"file", "dir", "symlink"}
\* p is an entry of the directory d.
Holds(d, p) == Above[p] = Above[d] \cup {d}

ASSUME PathAssumption == Path \subseteq Nat \ {0} /\ IsFiniteSet(Path)
ASSUME KindAssumption == KindOf \in [Path -> Kind]
ASSUME AboveAssumption ==
  /\ Above \in [Path -> SUBSET Path]
  /\ \A p \in Path : \A d \in Above[p] : d < p /\ KindOf[d] = "dir" /\ Above[d] \subseteq Above[p]
  /\ \A p \in Path : Above[p] # {} => \E d \in Above[p] : Holds(d, p)
ASSUME NodeAssumption == Node \subseteq Nat \ {0} /\ Path \subseteq Node
ASSUME ChangesAssumption == MaxChanges \in Nat

VARIABLES
  node,      \* node[p]: the inode that p is a name of, 0 if there is no p
  content,   \* content[n]: what is in the file, or where the link leads to
  hot,       \* whether the container is running
  changes,   \* how much it has done to the volume since the walk began
  touched,   \* history: the inodes whose contents or names it has changed
  missing,   \* history: whether it has taken away a directory or a symlink
  walk,      \* the walk
  archive    \* what was written to the archive

volumeVars == <<node, content, hot, changes, touched, missing>>
walkVars == <<volumeVars, walk, archive>>

Files == {p \in Path : KindOf[p] = "file"}
NamesOf(n) == {p \in Path : node[p] = n}
There(p) == node[p] # 0
CanHold(p) == \A d \in Above[p] : There(d)

\* Contents: which inode they were written to, by which change.
Version == [node : Node, change : 0 .. MaxChanges]
Fresh(n) == [node |-> n, change |-> changes + 1]
Zeros == [node |-> 0, change |-> 0]

\* Entries of the archive; a link refers to the name its file was stored under.
Stored(p, data) == [type |-> KindOf[p], path |-> p, data |-> data]
LinkTo(p, first) == [type |-> "link", path |-> p, first |-> first]
Trailer == [type |-> "end", path |-> 0]
Entry ==
  [type : Kind, path : Path, data : Version \cup {Zeros}]
    \cup [type : {"link"}, path : Path, first : Path] \cup {Trailer}

WalkState ==
  [pc : {"visit", "read", "list", "done", "failed"},
   todo : SUBSET Path,      \* what ReadDir has listed and was not visited yet
   at : Path \cup {0},      \* what is being read
   seen : SUBSET [node : Node, links : Nat, first : Path],  \* seenInodes
   broken : BOOLEAN]        \* history: reading or writing failed, or was cancelled

WalkTypeOK ==
  /\ node \in [Path -> Node \cup {0}]
  /\ content \in [Node -> Version]
  /\ hot \in BOOLEAN /\ changes \in 0 .. MaxChanges
  /\ touched \subseteq Node /\ missing \in BOOLEAN
  /\ walk \in WalkState
  /\ archive \in Seq(Entry)
  /\ IsInjective([i \in DOMAIN archive |-> archive[i].path])

\* Any of the names may be there, and a file may have any of the names before
\* it for a hard link.
Trees ==
  {t \in [Path -> Node \cup {0}] :
     \A p \in Path :
       t[p] # 0 => /\ \A d \in Above[p] : t[d] # 0
                   /\ t[p] = p \/ (p \in Files /\ t[p] \in Files /\ t[p] < p /\ t[t[p]] = t[p])}

WalkInit ==
  /\ node \in Trees
  /\ content = [n \in Node |-> [node |-> n, change |-> 0]]
  /\ hot \in BOOLEAN
  /\ changes = 0 /\ touched = {} /\ missing = FALSE
  /\ walk = [pc |-> "visit", todo |-> {p \in Path : There(p) /\ Above[p] = {}}, at |-> 0,
             seen |-> {}, broken |-> FALSE]
  /\ archive = <<>>

-----------------------------------------------------------------------------
(* The container *)

Change(n) ==
  /\ hot /\ walk.pc \in {"visit", "read", "list"} /\ changes < MaxChanges
  /\ changes' = changes + 1
  /\ touched' = touched \cup n
  /\ UNCHANGED <<hot, walk, archive>>

Rewrite ==
  \E p \in Files :
    /\ There(p)
    /\ Change({node[p]})
    /\ content' = [content EXCEPT ![node[p]] = Fresh(node[p])]
    /\ UNCHANGED <<node, missing>>

Make ==
  \E p \in Path, n \in Node :
    /\ ~There(p) /\ CanHold(p) /\ NamesOf(n) = {}
    /\ Change({n})
    /\ node' = [node EXCEPT ![p] = n]
    /\ content' = [content EXCEPT ![n] = Fresh(n)]
    /\ UNCHANGED missing

Link ==
  \E p, q \in Files :
    /\ There(p) /\ ~There(q) /\ CanHold(q)
    /\ Change({node[p]})
    /\ node' = [node EXCEPT ![q] = node[p]]
    /\ UNCHANGED <<content, missing>>

Unlink ==
  \E p \in Path :
    /\ There(p) /\ \A q \in Path : p \in Above[q] => ~There(q)
    /\ Change({node[p]})
    /\ node' = [node EXCEPT ![p] = 0]
    /\ missing' = (missing \/ p \notin Files)
    /\ UNCHANGED content

Rename ==
  \E p, q \in Files :
    /\ There(p) /\ node[q] # node[p] /\ CanHold(q)
    /\ Change({node[p], node[q]} \ {0})
    /\ node' = [node EXCEPT ![q] = node[p], ![p] = 0]
    /\ UNCHANGED <<content, missing>>

UseVolume == Rewrite \/ Make \/ Link \/ Unlink \/ Rename

-----------------------------------------------------------------------------
(* Create *)

Walking == walk.pc \in {"visit", "read", "list"}
Links(p) == Cardinality(NamesOf(node[p]))
\* seenInodes: a file that has as many links as it had when it was stored.
Known(p) == {k \in walk.seen : k.node = node[p] /\ k.links = Links(p)}

Reach(p) == walk.pc = "visit" /\ p \in walk.todo /\ \A q \in walk.todo : p <= q
Passed(p) == [walk EXCEPT !.todo = @ \ {p}]
Back == [walk EXCEPT !.pc = "visit", !.at = 0]
Fail == walk' = [Back EXCEPT !.pc = "failed"] /\ UNCHANGED archive
Write(entry) == archive' = Append(archive, entry)

\* A directory is listed next, even if it has vanished since its parent was.
VisitDir ==
  \E p \in Path \ Files :
    /\ Reach(p) /\ KindOf[p] = "dir"
    /\ walk' = [Passed(p) EXCEPT !.pc = "list", !.at = p]
    /\ IF There(p) THEN Write(Stored(p, content[node[p]])) ELSE UNCHANGED archive

\* "A file that vanished mid-walk is normal on a hot snapshot": it is skipped.
VisitVanished ==
  \E p \in Path :
    /\ Reach(p) /\ KindOf[p] # "dir" /\ ~There(p)
    /\ walk' = Passed(p) /\ UNCHANGED archive

\* Mutant: a hard link that was stored stays in the list.
VisitLinkAgain ==
  \E p \in Files : \E k \in Known(p) :
    /\ Reach(p) /\ There(p) /\ Links(p) > 1
    /\ Write(LinkTo(p, k.first)) /\ UNCHANGED walk

VisitLink ==
  \E p \in Files : \E k \in Known(p) :
    /\ Reach(p) /\ There(p) /\ Links(p) > 1
    /\ walk' = Passed(p) /\ Write(LinkTo(p, k.first))

VisitOther ==
  \E p \in Path :
    /\ Reach(p) /\ KindOf[p] # "dir" /\ There(p) /\ Known(p) = {}
    /\ walk' = [Passed(p) EXCEPT !.pc = "read", !.at = p,
                  !.seen = IF p \in Files /\ Links(p) > 1
                           THEN @ \cup {[node |-> node[p], links |-> Links(p), first |-> p]}
                           ELSE @]
    /\ UNCHANGED archive

\* Mutant: a file that vanished between its header and its contents is an error.
ReadOrFail ==
  /\ walk.pc = "read"
  /\ IF There(walk.at)
       THEN Write(Stored(walk.at, content[node[walk.at]])) /\ walk' = Back
       ELSE Fail

\* copyExactly: however long the file is by now, as much is written as its
\* header says, zeros for what is not there any more.  A symlink that has
\* vanished is an error.
Read ==
  /\ walk.pc = "read"
  /\ IF There(walk.at)
       THEN Write(Stored(walk.at, content[node[walk.at]])) /\ walk' = Back
       ELSE IF walk.at \in Files THEN Write(Stored(walk.at, Zeros)) /\ walk' = Back
            ELSE Fail

List ==
  /\ walk.pc = "list"
  /\ IF There(walk.at)
       THEN /\ walk' = [Back EXCEPT !.todo = @ \cup {q \in Path : There(q) /\ Holds(walk.at, q)}]
            /\ UNCHANGED archive
       ELSE Fail

Finish ==
  /\ walk.pc = "visit" /\ walk.todo = {}
  /\ walk' = [walk EXCEPT !.pc = "done"] /\ Write(Trailer)

WalkStep ==
  /\ VisitDir \/ VisitVanished \/ VisitLink \/ VisitOther \/ Read \/ List \/ Finish
  /\ UNCHANGED volumeVars

\* Reading or writing fails, or the walk is cancelled.
Break ==
  /\ Walking
  /\ walk' = [Back EXCEPT !.pc = "failed", !.broken = TRUE]
  /\ UNCHANGED <<volumeVars, archive>>

-----------------------------------------------------------------------------
(* Extract *)

Nothing == [node |-> 0]
Unpacked == [Path -> {Nothing} \cup [node : Path, data : Version \cup {Zeros}]]

Unpack(e) ==
  [tree \in Unpacked |->
     CASE e.type = "end" -> tree
       [] e.type = "link" -> [tree EXCEPT ![e.path] = tree[e.first]]
       [] OTHER -> [tree EXCEPT ![e.path] = [node |-> e.path, data |-> e.data]]]

\* What is in the volume once the archive has been unpacked; the inodes made
\* are numbered by the names they were made for.
Extracted(entries) ==
  Iterate([i \in DOMAIN entries |-> Unpack(entries[i])], [p \in Path |-> Nothing], Len(entries))

-----------------------------------------------------------------------------
(* Properties *)

\* What nobody has touched since the walk began: no change to what is in it,
\* nor to any of its names, nor to the directories it is in.
Steady(p) == There(p) /\ \A q \in {p} \cup Above[p] : node[q] \notin touched

\* An archive gives back everything that stayed as it was, with its contents
\* and as one file if it was one, whatever happens to the rest of the volume
\* meanwhile: "extraction into any directory reproduces the original tree"
\* (tarzst.go:56-57), and hard-linked files are not multiplied (tarzst.go:107-109).
GivesBack(entries) ==
  LET tree == Extracted(entries) IN
    \A p \in Path : Steady(p) =>
      /\ tree[p] # Nothing /\ tree[p].data = content[node[p]]
      /\ \A q \in Path : Steady(q) => (node[p] = node[q] <=> tree[p].node = tree[q].node)

\* "A file that vanished mid-walk is normal on a hot snapshot" (tarzst.go:132):
\* the container can spoil an archive only by taking away a directory or a
\* symlink (WalkDir reports the directory, Readlink the symlink), never by what
\* it does to files.
VanishedFilesAreNormal ==
  walk.pc = "failed" => walk.broken \/ missing
=============================================================================
