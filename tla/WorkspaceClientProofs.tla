------------------------ MODULE WorkspaceClientProofs -------------------------
(***************************************************************************)
(* What the command line keeps of its promises: the bytes it reads under a *)
(* path are the workspace's own however often the path changes, a capture  *)
(* loses no change, the manifest is true and the server takes what is      *)
(* sent, and the exit codes tell what happened to a submission.            *)
(***************************************************************************)
EXTENDS VerifiedRead, WorkspaceCapture, WorkspacePayload, WorkspaceSubmit,
        FiniteSetTheorems, TLAPS

-----------------------------------------------------------------------------
(***************************************************************************)
(* Verified reads                                                          *)
(***************************************************************************)

Node == [id : Nat, kind : {"gone", "file", "link", "other"}, links : 0 .. 2, inside : BOOLEAN]

(* Identities are numbered in the order in which they appear, so the path  *)
(* never comes back to an earlier one.                                     *)
IdentitiesAreNew ==
  /\ changes \in Nat /\ chain \in Nat /\ expected \in Nat
  /\ parent \in [id : Nat \ {0}, kind : {"directory", "link", "gone"}]
  /\ leaf \in Node /\ opened \in Node
  /\ parent.id <= changes /\ leaf.id <= changes /\ chain <= changes

(* The leaf is inside exactly if its ancestor is a directory.              *)
LeafFollowsParent ==
  /\ leaf.id = 0 <=> leaf.kind = "gone"
  /\ leaf.kind # "gone" => (leaf.inside <=> parent.kind = "directory")
  /\ leaf.kind # "gone" => leaf.links > 0

(* As long as the verified ancestor stands, it is a directory, and what    *)
(* was opened below it is inside.                                          *)
ChainVouches ==
  /\ parent.id = chain => parent.kind = "directory"
  /\ at \in {"fstat", "check"} =>
       /\ opened.id # 0 /\ opened.links > 0
       /\ parent.id = chain => opened.inside
  /\ answer = "bytes" => at = "done"

ReadInv == IdentitiesAreNew /\ LeafFollowsParent /\ ChainVouches /\ ReadsStayInside

-----------------------------------------------------------------------------
(* The developer changes the path: the new ancestor vouches for nothing    *)
(* that was opened, and what was opened stays what it was.                 *)
LEMMA DeveloperKeeps ==
  ASSUME ReadInv, ReplaceLeaf \/ ReplaceParent \/ HardLink
  PROVE  ReadInv'
<1> USE DEF ReadInv
<1>1. CASE ReplaceLeaf
  <2> DEFINE n == changes + 1
  <2>0. /\ changes' = n /\ UNCHANGED <<parent, at, try, expected, chain, opened, answer>>
        /\ \/ leaf' = NoNode
           \/ \E nature \in {"file", "link", "other"} :
                leaf' = [id |-> n, kind |-> nature, links |-> 1, inside |-> parent.kind = "directory"]
    BY <1>1 DEF ReplaceLeaf, ReaderOnly, Fresh, FileKinds
  <2> USE <2>0
  <2>5. PICK b \in BOOLEAN, nature \in {"file", "link", "other"} :
          /\ b <=> parent'.kind = "directory"
          /\ leaf' = NoNode \/ leaf' = [id |-> n, kind |-> nature, links |-> 1, inside |-> b]
    OBVIOUS
  <2>6. n \in Nat \ {0} /\ changes < n /\ chain <= n
    BY DEF IdentitiesAreNew
  <2> HIDE DEF n
  <2>7. leaf' \in Node /\ leaf'.id \in {0, n}
    <3>1. NoNode \in Node /\ NoNode.id = 0
      BY DEF NoNode, Node
    <3>2. ASSUME NEW x, x = [id |-> n, kind |-> nature, links |-> 1, inside |-> b]
          PROVE  x \in Node /\ x.id = n
      BY <2>6, <3>2 DEF Node
    <3> QED
      BY <2>5, <3>1, <3>2
  <2>1. IdentitiesAreNew'
    BY <2>6, <2>7 DEF IdentitiesAreNew
  <2>2. LeafFollowsParent'
    BY <2>5, <2>6 DEF NoNode, LeafFollowsParent
  <2>3. ChainVouches'
    BY <1>1 DEF ReplaceLeaf, Changeable, ReaderOnly, Fresh, NoNode, FileKinds,
       IdentitiesAreNew, LeafFollowsParent, ChainVouches, Node
  <2>4. ReadsStayInside'
    BY <1>1 DEF ReplaceLeaf, Changeable, ReaderOnly, Fresh, NoNode, FileKinds,
       ChainVouches, ReadsStayInside
  <2> QED
    BY <2>1, <2>2, <2>3, <2>4
<1>2. CASE ReplaceParent
  <2> DEFINE n == changes + 1
  <2>0. /\ changes' = n /\ UNCHANGED <<at, try, expected, chain, opened, answer>>
        /\ \E nature \in {"directory", "link", "gone"} :
             /\ parent' = [id |-> n, kind |-> nature]
             /\ \/ leaf' = NoNode
                \/ leaf' = [id |-> n, kind |-> "file", links |-> 1, inside |-> nature = "directory"]
    BY <1>2 DEF ReplaceParent, ReaderOnly, Fresh
  <2> USE <2>0
  <2>5. PICK b \in BOOLEAN, nature \in {"file", "link", "other"} :
          /\ b <=> parent'.kind = "directory"
          /\ leaf' = NoNode \/ leaf' = [id |-> n, kind |-> nature, links |-> 1, inside |-> b]
    <3>1. PICK k \in {"directory", "link", "gone"} :
            /\ parent' = [id |-> n, kind |-> k]
            /\ \/ leaf' = NoNode
               \/ leaf' = [id |-> n, kind |-> "file", links |-> 1, inside |-> k = "directory"]
      OBVIOUS
    <3>2. parent'.kind = k
      BY <3>1
    <3>3. CASE k = "directory"
      BY <3>1, <3>2, <3>3
    <3>4. CASE k # "directory"
      BY <3>1, <3>2, <3>4
    <3> QED
      BY <3>3, <3>4
  <2>6. n \in Nat \ {0} /\ changes < n /\ chain <= n
    BY DEF IdentitiesAreNew
  <2> HIDE DEF n
  <2>7. leaf' \in Node /\ leaf'.id \in {0, n}
    <3>1. NoNode \in Node /\ NoNode.id = 0
      BY DEF NoNode, Node
    <3>2. ASSUME NEW x, x = [id |-> n, kind |-> nature, links |-> 1, inside |-> b]
          PROVE  x \in Node /\ x.id = n
      BY <2>6, <3>2 DEF Node
    <3> QED
      BY <2>5, <3>1, <3>2
  <2>1. IdentitiesAreNew'
    BY <2>6, <2>7 DEF IdentitiesAreNew
  <2>2. LeafFollowsParent'
    BY <2>5, <2>6 DEF NoNode, LeafFollowsParent
  <2>3. ChainVouches'
    BY <1>2 DEF ReplaceParent, Changeable, ReaderOnly, Fresh, NoNode,
       IdentitiesAreNew, LeafFollowsParent, ChainVouches, Node
  <2>4. ReadsStayInside'
    BY <1>2 DEF ReplaceParent, Changeable, ReaderOnly, Fresh, NoNode,
       ChainVouches, ReadsStayInside
  <2> QED
    BY <2>1, <2>2, <2>3, <2>4
<1>3. CASE HardLink
  <2>1. IdentitiesAreNew'
    BY <1>3 DEF HardLink, Changeable, ReaderOnly,
       IdentitiesAreNew, Node
  <2>2. LeafFollowsParent'
    BY <1>3 DEF HardLink, Changeable, ReaderOnly,
       IdentitiesAreNew, LeafFollowsParent, Node
  <2>3. ChainVouches'
    BY <1>3 DEF HardLink, Changeable, ReaderOnly,
       IdentitiesAreNew, LeafFollowsParent, ChainVouches, Node
  <2>4. ReadsStayInside'
    BY <1>3 DEF HardLink, Changeable, ReaderOnly,
       ChainVouches, ReadsStayInside
  <2> QED
    BY <2>1, <2>2, <2>3, <2>4
<1> QED
  BY <1>1, <1>2, <1>3

(* The reader's calls up to the open: only the last one hands out a node.  *)
LEMMA ApproachKeeps ==
  ASSUME ReadInv, ClassifyLeaf \/ LstatParent \/ OpenParent \/ LstatLeaf
  PROVE  ReadInv'
<1> USE DEF ReadInv
<1>1. CASE ClassifyLeaf
  <2>1. IdentitiesAreNew'
    BY <1>1 DEF ClassifyLeaf, pathVars, Answer, Calls,
       IdentitiesAreNew, Node
  <2>2. LeafFollowsParent'
    BY <1>1 DEF ClassifyLeaf, pathVars, Answer, Calls,
       IdentitiesAreNew, LeafFollowsParent, Node
  <2>3. ChainVouches'
    BY <1>1 DEF ClassifyLeaf, pathVars, Answer, Calls,
       IdentitiesAreNew, LeafFollowsParent, ChainVouches, Node
  <2>4. ReadsStayInside'
    BY <1>1 DEF ClassifyLeaf, pathVars, Answer, Calls,
       ChainVouches, ReadsStayInside
  <2> QED
    BY <2>1, <2>2, <2>3, <2>4
<1>2. CASE LstatParent
  <2>1. IdentitiesAreNew'
    BY <1>2 DEF LstatParent, pathVars, Answer, Calls, Retry,
       IdentitiesAreNew, Node
  <2>2. LeafFollowsParent'
    BY <1>2 DEF LstatParent, pathVars, Answer, Calls, Retry,
       IdentitiesAreNew, LeafFollowsParent, Node
  <2>3. ChainVouches'
    BY <1>2 DEF LstatParent, pathVars, Answer, Calls, Retry,
       IdentitiesAreNew, LeafFollowsParent, ChainVouches, Node
  <2>4. ReadsStayInside'
    BY <1>2 DEF LstatParent, pathVars, Answer, Calls, Retry,
       ChainVouches, ReadsStayInside
  <2> QED
    BY <2>1, <2>2, <2>3, <2>4
<1>3. CASE OpenParent
  <2>1. IdentitiesAreNew'
    BY <1>3 DEF OpenParent, pathVars, Answer, Calls, Retry,
       IdentitiesAreNew, Node
  <2>2. LeafFollowsParent'
    BY <1>3 DEF OpenParent, pathVars, Answer, Calls, Retry,
       IdentitiesAreNew, LeafFollowsParent, Node
  <2>3. ChainVouches'
    BY <1>3 DEF OpenParent, pathVars, Answer, Calls, Retry,
       IdentitiesAreNew, LeafFollowsParent, ChainVouches, Node
  <2>4. ReadsStayInside'
    BY <1>3 DEF OpenParent, pathVars, Answer, Calls, Retry,
       ChainVouches, ReadsStayInside
  <2> QED
    BY <2>1, <2>2, <2>3, <2>4
<1>4. CASE LstatLeaf
  <2>1. IdentitiesAreNew'
    BY <1>4 DEF LstatLeaf, pathVars, Answer, Calls,
       IdentitiesAreNew, Node
  <2>2. LeafFollowsParent'
    BY <1>4 DEF LstatLeaf, pathVars, Answer, Calls,
       IdentitiesAreNew, LeafFollowsParent, Node
  <2>3. ChainVouches'
    BY <1>4 DEF LstatLeaf, pathVars, Answer, Calls,
       IdentitiesAreNew, LeafFollowsParent, ChainVouches, Node
  <2>4. ReadsStayInside'
    BY <1>4 DEF LstatLeaf, pathVars, Answer, Calls,
       ChainVouches, ReadsStayInside
  <2> QED
    BY <2>1, <2>2, <2>3, <2>4
<1> QED
  BY <1>1, <1>2, <1>3, <1>4

(* The descriptor's node is compared before its bytes are an answer.       *)
LEMMA DescriptorKeeps ==
  ASSUME ReadInv, OpenLeaf \/ FstatLeaf \/ CheckIdentity
  PROVE  ReadInv'
<1> USE DEF ReadInv
<1>1. CASE OpenLeaf
  <2>1. IdentitiesAreNew'
    BY <1>1 DEF OpenLeaf, pathVars, Answer, Calls,
       IdentitiesAreNew, Node
  <2>2. LeafFollowsParent'
    BY <1>1 DEF OpenLeaf, pathVars, Answer, Calls,
       IdentitiesAreNew, LeafFollowsParent, Node
  <2>3. ChainVouches'
    BY <1>1 DEF OpenLeaf, pathVars, Answer, Calls,
       IdentitiesAreNew, LeafFollowsParent, ChainVouches, Node
  <2>4. ReadsStayInside'
    BY <1>1 DEF OpenLeaf, pathVars, Answer, Calls,
       ChainVouches, ReadsStayInside
  <2> QED
    BY <2>1, <2>2, <2>3, <2>4
<1>2. CASE FstatLeaf
  <2>1. IdentitiesAreNew'
    BY <1>2 DEF FstatLeaf, pathVars, Calls,
       IdentitiesAreNew, Node
  <2>2. LeafFollowsParent'
    BY <1>2 DEF FstatLeaf, pathVars, Calls,
       IdentitiesAreNew, LeafFollowsParent, Node
  <2>3. ChainVouches'
    BY <1>2 DEF FstatLeaf, pathVars, Calls,
       IdentitiesAreNew, LeafFollowsParent, ChainVouches, Node
  <2>4. ReadsStayInside'
    BY <1>2 DEF FstatLeaf, pathVars, Calls,
       ChainVouches, ReadsStayInside
  <2> QED
    BY <2>1, <2>2, <2>3, <2>4
<1>3. CASE CheckIdentity
  <2>1. IdentitiesAreNew'
    BY <1>3 DEF CheckIdentity, pathVars, Answer, Calls, Retry, ChainStillIntact,
       IdentitiesAreNew, Node
  <2>2. LeafFollowsParent'
    BY <1>3 DEF CheckIdentity, pathVars, Answer, Calls, Retry, ChainStillIntact,
       IdentitiesAreNew, LeafFollowsParent, Node
  <2>3. ChainVouches'
    BY <1>3 DEF CheckIdentity, pathVars, Answer, Calls, Retry, ChainStillIntact,
       IdentitiesAreNew, LeafFollowsParent, ChainVouches, Node
  <2>4. ReadsStayInside'
    BY <1>3 DEF CheckIdentity, pathVars, Answer, Calls, Retry, ChainStillIntact,
       IdentitiesAreNew, ChainVouches, ReadsStayInside, Node
  <2> QED
    BY <2>1, <2>2, <2>3, <2>4
<1> QED
  BY <1>1, <1>2, <1>3

(* The bytes sent under a path are those of a regular file of the          *)
(* workspace, reached through no link and with no other name, as it was    *)
(* classified last, whatever happens to the path during the read.          *)
THEOREM ReadsAreInside == ReadSpec => []ReadsStayInside
<1>1. ReadInit => ReadInv
  BY DEF ReadInit, ReadInv, IdentitiesAreNew, LeafFollowsParent, ChainVouches, ReadsStayInside, Node, NoNode
<1>2. ReadInv /\ [ReadNext]_readVars => ReadInv'
  <2> SUFFICES ASSUME ReadInv, [ReadNext]_readVars PROVE ReadInv'
    OBVIOUS
  <2>1. CASE UNCHANGED readVars
    BY <2>1 DEF readVars, pathVars, ReadInv, IdentitiesAreNew, LeafFollowsParent, ChainVouches, ReadsStayInside
  <2>2. CASE ReadNext
    BY <2>2, DeveloperKeeps, ApproachKeeps, DescriptorKeeps DEF ReadNext
  <2> QED
    BY <2>1, <2>2
<1>3. ReadInv => ReadsStayInside
  BY DEF ReadInv
<1> QED
  BY <1>1, <1>2, <1>3, PTL DEF ReadSpec

-----------------------------------------------------------------------------
(***************************************************************************)
(* Captures                                                                *)
(***************************************************************************)

(* What Git said of a path stays true of HEAD and worktree, wherever the   *)
(* index has moved since: every change inside the root has a record, and   *)
(* one that is taken as absent, and is a change, is in HEAD.               *)
RecordsTellChanges ==
  step = "status" =>
    /\ mode = "default" /\ DOMAIN records \subseteq Path
    /\ \A p \in DOMAIN records : ~Outside(p)
    /\ \A p \in Path :
         tree[p] # head[p] /\ ~Outside(p) =>
           p \in DOMAIN records /\ (IsWorktreeAbsent(records[p]) => records[p].inHead)

CaptureInv == RecordsTellChanges /\ ChangesAreCaptured

(* A set whose elements are all the same has one at most.                  *)
LEMMA OneAtMost ==
  ASSUME NEW S, \A x, y \in S : x = y
  PROVE  Cardinality(S) <= 1
<1>1. CASE S = {}
  BY <1>1, FS_EmptySet
<1>2. CASE S # {}
  <2>1. PICK x \in S : S = {x}
    BY <1>2
  <2> QED
    BY <2>1, FS_Singleton
<1> QED
  BY <1>1, <1>2

(* What Git says of the paths tells every change inside the root.          *)
LEMMA StatusIsSound == ReadStatus => RecordsTellChanges'
<1> SUFFICES ASSUME ReadStatus PROVE RecordsTellChanges'
  OBVIOUS
<1>1. /\ mode = "default" /\ step' = "status"
      /\ records' = [p \in {q \in Path : ~Outside(q) /\ (Tracked(q) \/ Untracked(q))} |-> MergedRecord(p)]
      /\ UNCHANGED <<mode, place, head, index, tree, unmerged, captured>>
  BY DEF ReadStatus
<1>2. ASSUME NEW p \in Path, tree[p] # head[p], ~Outside(p)
      PROVE  /\ Tracked(p) \/ Untracked(p)
             /\ IsWorktreeAbsent(MergedRecord(p)) => MergedRecord(p).inHead
  <2>1. Tracked(p) \/ Untracked(p)
    BY <1>2 DEF Tracked, Untracked
  <2>2. CASE ~Tracked(p)
    BY <2>1, <2>2 DEF MergedRecord, UntrackedRecord, IsWorktreeAbsent
  <2>3. CASE Tracked(p) /\ Untracked(p)
    BY <2>3 DEF MergedRecord, TrackedRecord, IsWorktreeAbsent, Untracked
  <2>4. CASE Tracked(p) /\ ~Untracked(p)
    BY <1>2, <2>4 DEF MergedRecord, TrackedRecord, IsWorktreeAbsent, Untracked
  <2> QED
    BY <2>1, <2>2, <2>3, <2>4
<1> QED
  BY <1>1, <1>2 DEF RecordsTellChanges, Outside, IsWorktreeAbsent

(* A default capture has every change that the records tell.               *)
LEMMA DefaultIsComplete ==
  ASSUME CaptureInv, EnumerateDefault
  PROVE  ChangesAreCaptured'
<1> USE CapturePathAssumption
<1>1. /\ mode = "default" /\ step = "status"
      /\ UNCHANGED <<mode, place, head, index, tree, unmerged, records>>
  BY DEF EnumerateDefault
<1>2. PICK pairing \in RenamePairings :
        LET renames == {r \in pairing : ~Outside(r[1]) /\ ~Outside(r[2])}
            emitted == {p \in DOMAIN records \ RenameSources(renames) :
                          ~Nested(p) /\ (IsWorktreeAbsent(records[p]) => records[p].inHead)}
        IN  captured' = {DefaultCandidate(p, renames) : p \in emitted}
  BY DEF EnumerateDefault
<1> DEFINE renames == {r \in pairing : ~Outside(r[1]) /\ ~Outside(r[2])}
           absent(p) == IsWorktreeAbsent(records[p])
           emitted == {p \in DOMAIN records \ RenameSources(renames) :
                         ~Nested(p) /\ (absent(p) => records[p].inHead)}
<1>3. captured' = {DefaultCandidate(p, renames) : p \in emitted}
  BY <1>2
<1>4. /\ \A r \in renames : /\ r[1] \in Added /\ r[2] \in Deleted /\ r[1] \in Path /\ r[2] \in Path
                            /\ ~Outside(r[1]) /\ ~Outside(r[2])
      /\ \A r, s \in renames : r[1] = s[1] \/ r[2] = s[2] => r = s
      /\ Added \cap Deleted = {}
  BY DEF RenamePairings, Added, Deleted
<1>5. /\ DOMAIN records \subseteq Path /\ \A p \in DOMAIN records : ~Outside(p)
      /\ \A p \in Path : tree[p] # head[p] /\ ~Outside(p) =>
           p \in DOMAIN records /\ (absent(p) => records[p].inHead)
  BY <1>1 DEF CaptureInv, RecordsTellChanges
<1>6. RenameSources(renames) =
        {r[2] : r \in {x \in renames : /\ x[1] \in DOMAIN records /\ ~absent(x[1])
                                       /\ x[2] \in DOMAIN records => absent(x[2])}}
  BY DEF RenameSources
<1>7. ASSUME NEW r \in renames
      PROVE  Origin(r[1], renames) = r[2]
  BY <1>4, <1>7 DEF Origin
<1>8. ASSUME NEW p, Origin(p, renames) # NoOrigin
      PROVE  \E r \in renames : r[1] = p /\ r[2] = Origin(p, renames)
  BY <1>8 DEF Origin
<1> HIDE DEF renames, absent
<1>9. ASSUME NEW p
      PROVE  LET c == DefaultCandidate(p, renames) IN
             /\ c.path = p
             /\ absent(p) => c.status = "deleted" /\ c.from = NoOrigin
             /\ ~absent(p) => c.status # "deleted" /\ c.from = Origin(p, renames)
  BY DEF DefaultCandidate, Entry, absent
<1>10. ASSUME NEW p \in Path
       PROVE  \A x, y \in CandidateOf(p)' : x = y
  BY <1>3, <1>9 DEF CandidateOf
<1>11. ASSUME NEW p \in Path, Changed(p)', ~Outside(p)', ~Nested(p)',
              ~(place = "nested" /\ Strayed \in Added /\ p \in Deleted)'
       PROVE  (CandidateOf(p) \cup FoldedInto(p))' # {}
  <2>0. ~(place = "nested" /\ Strayed \in Added /\ p \in Deleted) /\ ~Nested(p)
    BY <1>1, <1>11 DEF Added, Deleted, Nested
  <2>1. p \in DOMAIN records /\ (absent(p) => records[p].inHead)
    BY <1>1, <1>5, <1>11 DEF Changed, Outside
  <2>2. CASE p \notin RenameSources(renames)
    <3>1. DefaultCandidate(p, renames) \in captured'
      BY <1>3, <2>0, <2>1, <2>2
    <3> QED
      BY <3>1, <1>9 DEF CandidateOf
  <2>3. CASE p \in RenameSources(renames)
    <3>1. PICK r \in renames : r[2] = p /\ r[1] \in DOMAIN records /\ ~absent(r[1])
      BY <1>6, <2>3
    <3>2. r[1] \in emitted
      <4>1. r[1] \notin RenameSources(renames)
        BY <1>4, <1>6
      <4>2. ~Nested(r[1])
        BY <1>4, <2>0, <3>1 DEF Nested
      <4> QED
        BY <3>1, <4>1, <4>2
    <3>3. DefaultCandidate(r[1], renames) \in captured'
      BY <1>3, <3>2
    <3> QED
      BY <1>7, <1>9, <3>1, <3>3 DEF FoldedInto
  <2> QED
    BY <2>2, <2>3
<1>12. ASSUME NEW p \in Path, NEW c \in FoldedInto(p)', NEW d \in CandidateOf(p)'
       PROVE  d.status # "deleted"
  <2>1. PICK q \in emitted : c = DefaultCandidate(q, renames)
    BY <1>3 DEF FoldedInto
  <2>2. p \in emitted /\ d = DefaultCandidate(p, renames)
    BY <1>3, <1>9 DEF CandidateOf
  <2>3. c.from = p /\ p # NoOrigin
    BY DEF FoldedInto
  <2>4. ~absent(q) /\ Origin(q, renames) = p
    BY <1>9, <2>1, <2>3
  <2>5. PICK r \in renames : r[1] = q /\ r[2] = p
    BY <1>8, <2>3, <2>4
  <2>6. ~absent(p)
    BY <1>6, <2>1, <2>2, <2>4, <2>5
  <2> QED
    BY <1>9, <2>2, <2>6
<1>13. ASSUME NEW c \in captured'
       PROVE  ~Outside(c.path) /\ (c.from # NoOrigin => ~Outside(c.from))
  <2>1. PICK p \in emitted : c = DefaultCandidate(p, renames)
    BY <1>3
  <2> QED
    BY <1>4, <1>5, <1>8, <1>9, <2>1
<1>14. ASSUME NEW p \in Path, FoldedInto(p)' # {}, NEW d \in CandidateOf(p)'
       PROVE  d.status # "deleted"
  BY <1>12, <1>14
<1>15. ASSUME NEW c \in captured'
       PROVE  ~Outside(c.path)' /\ (c.from # NoOrigin => ~Outside(c.from)')
  BY <1>1, <1>13 DEF Outside
<1>16. ASSUME NEW p \in Path
       PROVE  (Cardinality(CandidateOf(p)) <= 1)'
  BY <1>10, OneAtMost
<1> QED
  BY <1>11, <1>14, <1>15, <1>16 DEF ChangesAreCaptured

(* A staged capture has every path whose entry in the index is not the one *)
(* of HEAD.                                                                *)
LEMMA StagedIsComplete ==
  ASSUME EnumerateStaged
  PROVE  ChangesAreCaptured'
<1> USE CapturePathAssumption
<1>1. /\ mode = "staged"
      /\ UNCHANGED <<mode, place, head, index, tree, unmerged, records>>
  BY DEF EnumerateStaged
<1> DEFINE Kept(p) == ~Outside(p) /\ ~Nested(p)
           differing == {p \in Path : index[p] # head[p] \/ unmerged[p] # Merged}
           Paired(R) == {r[1] : r \in R} \cup {r[2] : r \in R}
           destination(r) == Entry(r[1], IF Outside(r[2]) THEN "added" ELSE "renamed",
                                   IF Outside(r[2]) THEN NoOrigin ELSE r[2])
           source(r) == Entry(r[2], "deleted", NoOrigin)
           alone(p) == Entry(p, IF p \in Deleted THEN "deleted"
                                ELSE IF p \in Added THEN "added" ELSE "modified", NoOrigin)
<1>2. PICK renames \in RenamePairings :
        captured' = {destination(r) : r \in {x \in renames : Kept(x[1])}}
                      \cup {source(r) : r \in {x \in renames : Outside(x[1]) /\ ~Outside(x[2])}}
                      \cup {alone(p) : p \in {q \in differing \ Paired(renames) : Kept(q)}}
  BY DEF EnumerateStaged
<1> DEFINE paired == Paired(renames)
<1>3. /\ \A r \in renames : /\ r[1] \in Added /\ r[2] \in Deleted /\ r[1] \in Path /\ r[2] \in Path
                            /\ r[1] \in paired /\ r[2] \in paired
      /\ \A p \in paired : \E r \in renames : r[1] = p \/ r[2] = p
      /\ \A r, s \in renames : r[1] = s[1] \/ r[2] = s[2] => r = s
      /\ Added \cap Deleted = {}
  BY DEF RenamePairings, Added, Deleted
<1>4. ASSUME NEW r
      PROVE  /\ destination(r).path = r[1] /\ destination(r).status # "deleted"
             /\ destination(r).from = IF Outside(r[2]) THEN NoOrigin ELSE r[2]
             /\ source(r).path = r[2] /\ source(r).status = "deleted" /\ source(r).from = NoOrigin
  BY DEF Entry
<1>5. ASSUME NEW p
      PROVE  alone(p).path = p /\ alone(p).from = NoOrigin
  BY DEF Entry
<1> HIDE DEF destination, source, alone, paired
<1>6. ASSUME NEW c \in captured'
      PROVE  \/ \E r \in renames : /\ c = destination(r) /\ Kept(r[1])
                                  /\ c.path = r[1] /\ c.status # "deleted"
                                  /\ c.from = IF Outside(r[2]) THEN NoOrigin ELSE r[2]
             \/ \E r \in renames : /\ c = source(r) /\ c.path = r[2] /\ c.from = NoOrigin
                                  /\ Outside(r[1]) /\ ~Outside(r[2])
             \/ /\ c = alone(c.path) /\ c.path \notin paired /\ c.from = NoOrigin
                /\ Kept(c.path)
  <2>1. \/ \E r \in renames : c = destination(r) /\ Kept(r[1])
        \/ \E r \in renames : c = source(r) /\ Outside(r[1]) /\ ~Outside(r[2])
        \/ \E p \in differing \ paired : c = alone(p) /\ Kept(p)
    BY <1>2 DEF paired
  <2>2. ASSUME NEW r \in renames, c = destination(r), Kept(r[1])
        PROVE  /\ c.path = r[1] /\ c.status # "deleted"
               /\ c.from = IF Outside(r[2]) THEN NoOrigin ELSE r[2]
    BY <1>4, <2>2
  <2>3. ASSUME NEW r \in renames, c = source(r)
        PROVE  c.path = r[2] /\ c.from = NoOrigin
    BY <1>4, <2>3
  <2>4. ASSUME NEW p \in differing \ paired, c = alone(p)
        PROVE  c.path = p /\ c.from = NoOrigin
    BY <1>5, <2>4
  <2> QED
    BY <2>1, <2>2, <2>3, <2>4
<1>7. ASSUME NEW p \in Path
      PROVE  \A x, y \in CandidateOf(p)' : x = y
  <2>1. \A x \in CandidateOf(p)' : x \in captured' /\ x.path = p
    BY DEF CandidateOf
  <2> HIDE DEF paired
  <2>2. CASE p \notin paired
    BY <1>3, <1>6, <2>1, <2>2
  <2>3. CASE p \in Added \cap paired
    BY <1>3, <1>6, <2>1, <2>3
  <2>4. CASE p \in Deleted \cap paired
    BY <1>3, <1>6, <2>1, <2>4
  <2> QED
    BY <1>3, <2>2, <2>3, <2>4
<1>8. ASSUME NEW p \in Path, index[p] # head[p], Kept(p),
             ~(place = "nested" /\ Strayed \in Added /\ p \in Deleted)
      PROVE  (CandidateOf(p) \cup FoldedInto(p))' # {}
  <2>1. CASE p \notin paired
    <3>1. alone(p) \in captured'
      BY <1>2, <1>8, <2>1 DEF paired
    <3> QED
      BY <1>5, <3>1 DEF CandidateOf
  <2>2. CASE \E r \in renames : r[1] = p
    <3>1. PICK r \in renames : r[1] = p
      BY <2>2
    <3>2. destination(r) \in captured'
      BY <1>2, <1>8, <3>1
    <3> QED
      BY <1>4, <3>1, <3>2 DEF CandidateOf
  <2>3. CASE \E r \in renames : r[2] = p
    <3>1. PICK r \in renames : r[2] = p
      BY <2>3
    <3>2. ~Nested(r[1])
      BY <1>3, <1>8, <3>1 DEF Nested
    <3>3. CASE Outside(r[1])
      <4>1. source(r) \in captured'
        BY <1>2, <1>8, <3>1, <3>3
      <4> QED
        BY <1>4, <3>1, <4>1 DEF CandidateOf
    <3>4. CASE ~Outside(r[1])
      <4>1. destination(r) \in captured'
        BY <1>2, <3>1, <3>2, <3>4
      <4>2. destination(r).from = p
        BY <1>4, <1>8, <3>1
      <4> QED
        BY <4>1, <4>2 DEF FoldedInto
    <3> QED
      BY <3>3, <3>4
  <2> QED
    BY <1>3, <2>1, <2>2, <2>3
<1>9. ASSUME NEW p \in Path, NEW c \in FoldedInto(p)', NEW d \in CandidateOf(p)'
      PROVE  d.status # "deleted"
  <2>1. c \in captured' /\ c.from = p /\ p # NoOrigin /\ d \in captured' /\ d.path = p
    BY DEF FoldedInto, CandidateOf
  <2>2. PICK r \in renames : r[2] = p /\ Kept(r[1])
    BY <1>4, <1>5, <1>6, <2>1
  <2> QED
    BY <1>3, <1>6, <2>1, <2>2
<1>10. ASSUME NEW c \in captured'
       PROVE  ~Outside(c.path) /\ (c.from # NoOrigin => ~Outside(c.from))
  BY <1>4, <1>5, <1>6
<1>11. ASSUME NEW p \in Path, Changed(p)', ~Outside(p)', ~Nested(p)',
              ~(place = "nested" /\ Strayed \in Added /\ p \in Deleted)'
       PROVE  (CandidateOf(p) \cup FoldedInto(p))' # {}
  <2>1. /\ index[p] # head[p] /\ Kept(p)
        /\ ~(place = "nested" /\ Strayed \in Added /\ p \in Deleted)
    BY <1>1, <1>11 DEF Changed, Outside, Nested, Added, Deleted
  <2> QED
    BY <1>8, <2>1
<1>12. ASSUME NEW p \in Path, FoldedInto(p)' # {}, NEW d \in CandidateOf(p)'
       PROVE  d.status # "deleted"
  BY <1>9, <1>12
<1>13. ASSUME NEW c \in captured'
       PROVE  ~Outside(c.path)' /\ (c.from # NoOrigin => ~Outside(c.from)')
  BY <1>1, <1>10 DEF Outside
<1>14. ASSUME NEW p \in Path
       PROVE  (Cardinality(CandidateOf(p)) <= 1)'
  BY <1>7, OneAtMost
<1> QED
  BY <1>11, <1>12, <1>13, <1>14 DEF ChangesAreCaptured

(* A capture of everything has every path that is in index or worktree.    *)
LEMMA SnapshotIsComplete ==
  ASSUME EnumerateSnapshot
  PROVE  ChangesAreCaptured'
<1> USE CapturePathAssumption
<1> DEFINE Within == {q \in Path : /\ ~Outside(q) /\ ~Nested(q)
                                   /\ index[q] # Absent \/ tree[q] # Absent \/ unmerged[q] # Merged}
<1>1. /\ mode = "all" /\ captured' = {Entry(p, "unchanged", NoOrigin) : p \in Within}
      /\ UNCHANGED <<mode, place, head, index, tree, unmerged, records>>
  BY DEF EnumerateSnapshot
<1>2. ASSUME NEW p
      PROVE  LET c == Entry(p, "unchanged", NoOrigin) IN
             c.path = p /\ c.status = "unchanged" /\ c.from = NoOrigin
  BY DEF Entry
<1>3. ASSUME NEW p \in Path
      PROVE  (Cardinality(CandidateOf(p)) <= 1)'
  <2>1. \A x, y \in CandidateOf(p)' : x = y
    BY <1>1, <1>2 DEF CandidateOf
  <2> QED
    BY <2>1, OneAtMost
<1>4. ASSUME NEW p \in Path, Changed(p)', ~Outside(p)', ~Nested(p)'
      PROVE  (CandidateOf(p) \cup FoldedInto(p))' # {}
  <2>1. p \in Within
    BY <1>1, <1>4 DEF Changed, Outside, Nested
  <2>2. Entry(p, "unchanged", NoOrigin) \in captured'
    BY <1>1, <2>1
  <2> QED
    BY <1>2, <2>2 DEF CandidateOf
<1>5. ASSUME NEW p \in Path PROVE FoldedInto(p)' = {}
  BY <1>1, <1>2 DEF FoldedInto
<1>6. ASSUME NEW c \in captured'
      PROVE  ~Outside(c.path)' /\ (c.from # NoOrigin => ~Outside(c.from)')
  BY <1>1, <1>2 DEF Outside
<1> QED
  BY <1>3, <1>4, <1>5, <1>6 DEF ChangesAreCaptured

(* Every step of a capture keeps the changes captured.                     *)
LEMMA CaptureGoesOn == CaptureInv /\ [CaptureNext]_captureVars => CaptureInv'
<1> SUFFICES ASSUME CaptureInv, [CaptureNext]_captureVars PROVE CaptureInv'
  OBVIOUS
<1>1. CASE \E p \in Path : StagePath(p)
  BY <1>1 DEF StagePath, CaptureInv, RecordsTellChanges, ChangesAreCaptured, Outside, IsWorktreeAbsent
<1>2. CASE ReadStatus
  BY <1>2, StatusIsSound DEF ReadStatus, CaptureInv, ChangesAreCaptured
<1>3. CASE EnumerateDefault
  BY <1>3, DefaultIsComplete DEF EnumerateDefault, CaptureInv, RecordsTellChanges
<1>4. CASE EnumerateStaged
  BY <1>4, StagedIsComplete DEF EnumerateStaged, CaptureInv, RecordsTellChanges
<1>5. CASE EnumerateSnapshot
  BY <1>5, SnapshotIsComplete DEF EnumerateSnapshot, CaptureInv, RecordsTellChanges
<1>6. CASE UNCHANGED captureVars
  BY <1>6 DEF captureVars, CaptureInv, RecordsTellChanges, ChangesAreCaptured, Outside, Nested,
       Changed, CandidateOf, FoldedInto, Added, Deleted, IsWorktreeAbsent
<1> QED
  BY <1>1, <1>2, <1>3, <1>4, <1>5, <1>6 DEF CaptureNext

(* However a repository, its index and its renames look, a capture takes   *)
(* every change of its mode inside the root, once, and nothing from        *)
(* outside it (cli/src/capture.ts, the three enumerations).                *)
THEOREM NoChangeIsLost == CaptureSpec => []ChangesAreCaptured
<1>1. CaptureInit => CaptureInv
  BY DEF CaptureInit, CaptureInv, RecordsTellChanges, ChangesAreCaptured
<1>2. CaptureInv => ChangesAreCaptured
  BY DEF CaptureInv
<1> QED
  BY <1>1, <1>2, CaptureGoesOn, PTL DEF CaptureSpec

-----------------------------------------------------------------------------
(***************************************************************************)
(* Submissions                                                             *)
(***************************************************************************)

BeforeRequest == {"collecting", "confirming", "committed"}
GateErrors == {"rate_limited", "concurrency_ceiling", "gate_unavailable"}
Replies == {"none", "unauthorized", "model_failure", "workspace_review_timeout", "pass", "findings"}
             \cup GateErrors
NothingSent == {"usage", "reported", "collector_error"}

SubmitTypeOK ==
  /\ clock \in Nat /\ handledFor \in 0 .. ServerDeadline /\ lag \in Nat
  /\ request \in {"none", "sent", "handled", "answered"} /\ reply \in Replies
  /\ cli \in BeforeRequest \cup {"waiting", "exited"}

(* Before the request there is none, and only the exchange makes one.      *)
NoneBeforeThePost ==
  /\ cli \in BeforeRequest => request = "none"
  /\ cli # "exited" => exitCode = "running"
  /\ request = "none" => lag = 0 /\ handledFor = 0 /\ cli # "waiting"
  /\ exitCode \in NothingSent => request = "none"

(* Whoever gets as far as the post has said yes to what it sends.          *)
YesComesFirst ==
  /\ cli \in {"confirming", "committed"} \/ request # "none" => ~options.dryRun
  /\ cli = "committed" \/ request # "none" => options.yes \/ confirmed
  /\ ~sentLate

(* The client's clock is shared out between the network and the handler.   *)
TimeIsShared ==
  /\ cli = "waiting" => clock = lag + handledFor
  /\ exitCode = "client_timeout" => lag >= ClientTimeout - ServerDeadline
  /\ exitCode = "aborted" => interrupted
  /\ exitCode \in {"pass", "findings"} => reply = exitCode /\ request = "answered"

SubmitInv == SubmitTypeOK /\ NoneBeforeThePost /\ YesComesFirst /\ TimeIsShared

(* A command line begins with nothing sent.                                *)
LEMMA SubmitStarts == SubmitInit => SubmitInv
BY SubmitTimesAssumption
   DEF SubmitInit, SubmitInv, SubmitTypeOK, NoneBeforeThePost, YesComesFirst, TimeIsShared,
       BeforeRequest, Replies, NothingSent

(* Every step of command line, network and handler keeps what the exit     *)
(* codes go by.                                                            *)
LEMMA SubmitGoesOn == SubmitInv /\ [SubmitNext]_submitVars => SubmitInv'
<1> SUFFICES ASSUME SubmitInv, [SubmitNext]_submitVars PROVE SubmitInv'
  OBVIOUS
<1> USE SubmitTimesAssumption DEF SubmitInv, SubmitTypeOK, NoneBeforeThePost, YesComesFirst,
      TimeIsShared, BeforeRequest, Replies, GateErrors, NothingSent, cliVars, serverVars, Exit
<1>1. CASE Interrupt
  BY <1>1 DEF Interrupt
<1>2. CASE CollectWorkspace
  BY <1>2 DEF CollectWorkspace, BeforeSending
<1>3. CASE Answered \/ PromptTimesOut \/ PromptInterrupted
  BY <1>3 DEF Answered, PromptTimesOut, PromptInterrupted, BeforeSending
<1>4. CASE Post
  BY <1>4 DEF Post
<1>5. CASE TransportBreaks
  BY <1>5 DEF TransportBreaks, InFlight
<1>6. CASE Handle
  BY <1>6 DEF Handle, InFlight
<1>7. CASE Respond
  BY <1>7 DEF Respond, InFlight
<1>8. CASE Receive
  BY <1>8 DEF Receive, InFlight
<1>9. CASE Tick
  BY <1>9 DEF Tick
<1>10. CASE UNCHANGED submitVars
  BY <1>10 DEF submitVars
<1> QED
  BY <1>1, <1>2, <1>3, <1>4, <1>5, <1>6, <1>7, <1>8, <1>9, <1>10 DEF SubmitNext

(* What an exit code says of a submission is what happened to it, whatever *)
(* options, network and handler do: a verdict is the one the server gave,  *)
(* nothing was sent where it says so, nothing is sent without a yes, and   *)
(* only a slow network uses up the client's own time (cli/src/submit.ts,   *)
(* cli/src/index.ts).                                                      *)
THEOREM ExitCodesAreTrue == SubmitSpec => []ExitTellsWhatHappened
<1>1. SubmitInv => ExitTellsWhatHappened
  BY DEF SubmitInv, ExitTellsWhatHappened, NoneBeforeThePost, YesComesFirst, TimeIsShared, NothingSent
<1> QED
  BY <1>1, SubmitStarts, SubmitGoesOn, PTL DEF SubmitSpec

-----------------------------------------------------------------------------
(***************************************************************************)
(* The payload                                                             *)
(*                                                                         *)
(* The loops over files and entries are steps of the model, so what they   *)
(* add up to is an invariant: a function c of running costs, which only    *)
(* the proof knows, stands for the sum of the characters of the first k    *)
(* entries.  The client spends up to it; the server never gets ahead of it.*)
(***************************************************************************)

EntryShape ==
  [file : Nat, from : BOOLEAN, status : {"added", "modified", "renamed", "snapshot"},
   form : {"content", "patch", "cleared"}, chars : Nat]

PayloadShape ==
  [manifest : UNION {[S -> BOOLEAN] : S \in SUBSET Nat}, entries : Seq(EntryShape),
   withheld : SUBSET Nat, truncated : Seq(Nat), omitted : Nat, split : BOOLEAN]

(* Types.                                                                  *)
PayloadFits ==
  /\ kind \in {"changeset", "snapshot"}
  /\ files \in Seq(Candidate)
  /\ unspent \subseteq DOMAIN files /\ spent \in Nat /\ looked \in Nat
  /\ payload \in PayloadShape
  /\ subject \in Seq(EntryShape)

(* Every entry stands for another text file whose turn has been, and which *)
(* is not withheld; what may not travel with it does not.                  *)
EntriesFit ==
  /\ \A k \in DOMAIN payload.entries :
       /\ payload.entries[k].file \in FilesWith({"text"}) \ (unspent \cup payload.withheld)
       /\ kind = "changeset" => ChangesetEntryValid(payload.entries[k])
       /\ stage = "budgeting" => payload.entries[k].form # "cleared"
  /\ \A k, m \in DOMAIN payload.entries :
       payload.entries[k].file = payload.entries[m].file => k = m
  /\ unspent \subseteq FilesWith({"text"}) \ payload.withheld
  /\ DOMAIN payload.manifest \subseteq DOMAIN files
  /\ stage = "captured" => payload.entries = <<>>
  /\ stage \notin {"captured", "leaked"} =>
       FilesWith({"withheld", "listed_withheld"}) \subseteq payload.withheld

(* Redaction made no file of a snapshot longer than it was.                *)
Shortened == kind = "changeset" \/ \A i \in DOMAIN files : files[i].text <= files[i].size

(* What the first entries cost grows with them and stays within the limit. *)
Costs(c) ==
  /\ c \in [0 .. Len(payload.entries) -> Nat]
  /\ \A k \in 1 .. Len(payload.entries) : c[k - 1] + payload.entries[k].chars <= c[k]
  /\ \A k \in 0 .. Len(payload.entries) : c[k] <= ContentLimit

(* The server has passed on what it looked at, and paid no more for it.    *)
PassedOn(c) ==
  /\ looked <= Len(payload.entries) /\ Len(subject) = looked
  /\ \A k \in 1 .. looked : subject[k] = payload.entries[k]
  /\ spent <= c[looked]

BudgetFits ==
  /\ kind = "snapshot" => Len(payload.entries) <= SnapshotFiles
  /\ stage # "capping" /\ stage # "admitted" => looked = 0 /\ subject = <<>>
  /\ stage = "captured" => spent = 0
  /\ Shortened =>
       /\ \A k \in DOMAIN payload.entries : payload.entries[k].chars <= FileBytes
       /\ \E c : /\ Costs(c)
                 /\ stage \in {"captured", "budgeting"} => spent = c[Len(payload.entries)]
                 /\ stage = "capping" => PassedOn(c)

(* The whole invariant.                                                    *)
PayloadInv ==
  /\ PayloadFits /\ EntriesFit /\ BudgetFits
  /\ ManifestTellsTheTruth /\ CollectedPayloadsAreAccepted

(* Once the files are sorted by their fate, no origin that must not travel *)
(* is left.                                                                *)
OriginsFit ==
  stage \notin {"captured", "leaked"} => \A i \in DOMAIN files : ~CarriesStaleOrigin(i)

(* What capture emits has the shape it promises, and names the origin of   *)
(* no deleted file (cli/src/capture.ts).                                   *)
LEMMA CandidatesAre ==
  ASSUME PayloadFits, NEW i \in DOMAIN files
  PROVE  /\ files[i] \in CandidateShape /\ i \in Nat
         /\ files[i].from => files[i].status \in {"modified", "renamed"} /\ files[i].kind # "deleted"
<1>1. files[i] \in Candidate /\ i \in Nat
  BY DEF PayloadFits
<1> QED  BY <1>1, CandidateAssumption

(* A text file is one that could be read, within the cap on files.         *)
LEMMA TextFits ==
  ASSUME PayloadFits, NEW i \in FilesWith({"text"})
  PROVE  files[i].size <= FileBytes /\ i \in DOMAIN files
<1>1. i \in DOMAIN files /\ Fate(files[i]) = "text"
  BY DEF FilesWith
<1>2. files[i] \in CandidateShape
  BY <1>1, CandidatesAre
<1> QED  BY <1>1, <1>2, CapsAssumption DEF Fate, CandidateShape

(* The entry of a change that passed finalizeFrom is a valid one: its      *)
(* origin comes with the status of a rename (buildChangesetEntry).         *)
LEMMA EntriesAre ==
  ASSUME PayloadFits, NEW i \in FilesWith({"text"}), kind = "changeset", ~CarriesStaleOrigin(i)
  PROVE  /\ EntryOf(i) \in EntryShape /\ EntryOf(i).file = i
         /\ EntryOf(i).form # "cleared" /\ ChangesetEntryValid(EntryOf(i))
<1>1. i \in DOMAIN files /\ Fate(files[i]) = "text"
  BY DEF FilesWith
<1>2. files[i] \in CandidateShape /\ i \in Nat
  BY <1>1, CandidatesAre
<1>3. files[i].rule = "allowed" /\ files[i].kind = "regular" /\ files[i].read # "unreadable"
  BY <1>1, <1>2 DEF Fate, CandidateShape
<1>4. files[i].from => EntryOf(i).status = "renamed"
  BY <1>1, <1>3 DEF CarriesStaleOrigin, NamesOrigin
<1>5. EntryOf(i) \in EntryShape /\ EntryOf(i).file = i /\ EntryOf(i).from = files[i].from
      /\ EntryOf(i).form # "cleared" /\ EntryOf(i).status \in {"added", "modified", "renamed"}
  BY <1>2 DEF EntryOf, EntryShape, CandidateShape
<1> QED  BY <1>4, <1>5 DEF ChangesetEntryValid

(* The manifest entry of a file that passed finalizeFrom is one the server *)
(* takes (validateManifestEntry).                                          *)
LEMMA OriginsAreValid ==
  ASSUME PayloadFits, NEW i \in DOMAIN files, ~CarriesStaleOrigin(i)
  PROVE  ManifestEntryValid(i)
<1>1. files[i].from => files[i].status \in {"modified", "renamed"} /\ files[i].kind # "deleted"
  BY CandidatesAre
<1> QED  BY <1>1 DEF CarriesStaleOrigin, NamesOrigin, ManifestEntryValid

(* Origins are looked at once, before anything is listed; the files of a   *)
(* capture stay what they are.                                             *)
LEMMA OriginsStay == OriginsFit /\ [PayloadNext]_payloadVars => OriginsFit'
<1> SUFFICES ASSUME OriginsFit, [PayloadNext]_payloadVars PROVE OriginsFit'
  OBVIOUS
<1>1. UNCHANGED <<kind, files>>
  BY DEF PayloadNext, payloadVars, Classify, Spend, Assemble, RefuseSplit, DropLastContent, Transmit,
         Admit, ApplyCaps, Analyse
<1>2. \A i : CarriesStaleOrigin(i)' <=> CarriesStaleOrigin(i)
  BY <1>1 DEF CarriesStaleOrigin, NamesOrigin, Fate, EntryOf
<1>3. CASE Classify
  BY <1>1, <1>2, <1>3 DEF Classify, OriginsFit
<1>4. CASE ~Classify
  <2>1. stage \notin {"captured", "leaked"} \/ stage' = stage
    BY <1>4 DEF PayloadNext, payloadVars, Spend, InTurn, Assemble, RefuseSplit, DropLastContent, Transmit,
                Admit, ApplyCaps, Analyse
  <2> QED  BY <2>1, <1>1, <1>2 DEF OriginsFit
<1> QED  BY <1>3, <1>4

(* A capture starts with nothing listed, nothing withheld and nothing      *)
(* spent.                                                                  *)
LEMMA PayloadStarts == PayloadInit => PayloadInv
<1> SUFFICES ASSUME PayloadInit PROVE PayloadInv
  OBVIOUS
<1>1. PICK n \in 1 .. MaxFiles : files \in [1 .. n -> Candidate]
  BY CapsAssumption DEF PayloadInit
<1>2. files \in Seq(Candidate)
  BY <1>1
<1>3. /\ payload.entries = <<>> /\ payload.withheld = {} /\ payload.truncated = <<>>
      /\ payload.omitted = 0 /\ payload.manifest = [i \in {} |-> TRUE]
      /\ payload \in PayloadShape
  <2>1. [i \in {} |-> TRUE] \in [{} -> BOOLEAN]
    OBVIOUS
  <2> HIDE DEF EntryShape
  <2>2. <<>> \in Seq(EntryShape) /\ <<>> \in Seq(Nat) /\ {} \in SUBSET Nat
    OBVIOUS
  <2>3. [{} -> BOOLEAN] \in {[S -> BOOLEAN] : S \in SUBSET Nat}
    BY <2>2
  <2> QED  BY <2>1, <2>2, <2>3 DEF PayloadInit, EmptyPayload, PayloadShape
<1>4. PayloadFits
  BY <1>2, <1>3 DEF PayloadFits, PayloadInit
<1>5. EntriesFit
  BY <1>3 DEF EntriesFit, PayloadInit
<1>6. BudgetFits
  <2> DEFINE c == [k \in 0 .. 0 |-> 0]
  <2>1. Len(payload.entries) = 0 /\ DOMAIN payload.entries = {}
    BY <1>3
  <2>2. ContentLimit \in Nat
    BY CapsAssumption DEF ContentLimit
  <2>3. Costs(c)
    BY <2>1, <2>2 DEF Costs
  <2>4. c[Len(payload.entries)] = 0
    BY <2>1
  <2> HIDE DEF c
  <2>5. \E d : Costs(d) /\ spent = d[Len(payload.entries)]
    BY <2>3, <2>4 DEF PayloadInit
  <2> QED  BY <2>1, <2>5, CapsAssumption DEF BudgetFits, PayloadInit
<1>7. ManifestTellsTheTruth /\ CollectedPayloadsAreAccepted
  BY DEF PayloadInit, ManifestTellsTheTruth, CollectedPayloadsAreAccepted
<1> QED  BY <1>4, <1>5, <1>6, <1>7 DEF PayloadInv

-----------------------------------------------------------------------------
(* The steps before the payload is assembled.                              *)

(* Sorting the files by their fate withholds what must not travel and      *)
(* nothing whose budget is still to be spent, unless the capture fails.    *)
LEMMA ClassifyKeeps == PayloadInv /\ Classify => PayloadInv'
<1> SUFFICES ASSUME PayloadInv, Classify PROVE PayloadInv'
  OBVIOUS
<1>1. /\ PayloadFits /\ EntriesFit /\ BudgetFits
      /\ stage = "captured" /\ UNCHANGED <<kind, files, spent, looked, subject>>
  BY DEF PayloadInv, Classify
<1>2. CASE stage' = "leaked" /\ UNCHANGED <<unspent, payload>>
  <2>1. PayloadFits'
    BY <1>1, <1>2 DEF PayloadFits
  <2>2. EntriesFit'
    BY <1>1, <1>2 DEF EntriesFit, FilesWith, ChangesetEntryValid
  <2>3. BudgetFits'
    BY <1>1, <1>2 DEF BudgetFits, Shortened, Costs, ContentLimit
  <2>4. ManifestTellsTheTruth' /\ CollectedPayloadsAreAccepted'
    BY <1>2 DEF ManifestTellsTheTruth, CollectedPayloadsAreAccepted
  <2> QED  BY <2>1, <2>2, <2>3, <2>4 DEF PayloadInv
<1>3. CASE /\ stage' = "budgeting" /\ unspent' = FilesWith({"text"})
           /\ payload' = [payload EXCEPT !.withheld = FilesWith({"withheld", "listed_withheld"})]
  <2>1. FilesWith({"text"}) \subseteq DOMAIN files
        /\ FilesWith({"withheld", "listed_withheld"}) \in SUBSET Nat
        /\ FilesWith({"text"}) \cap FilesWith({"withheld", "listed_withheld"}) = {}
    BY <1>1 DEF FilesWith, PayloadFits
  <2>2. payload' \in PayloadShape
    BY <1>1, <1>3, <2>1 DEF PayloadFits, PayloadShape
  <2>3. payload'.entries = <<>> /\ payload.entries = <<>>
        /\ payload'.withheld = FilesWith({"withheld", "listed_withheld"})
        /\ payload'.manifest = payload.manifest
    BY <1>1, <1>3 DEF EntriesFit, PayloadFits, PayloadShape
  <2>4. FilesWith({"text"})' = FilesWith({"text"})
        /\ FilesWith({"withheld", "listed_withheld"})' = FilesWith({"withheld", "listed_withheld"})
    BY <1>1 DEF FilesWith
  <2>5. PayloadFits'
    BY <1>1, <1>3, <2>1, <2>2 DEF PayloadFits
  <2>6. EntriesFit'
    BY <1>1, <1>3, <2>1, <2>3, <2>4 DEF EntriesFit
  <2>7. BudgetFits'
    <3>1. Shortened' => Shortened
      BY <1>1 DEF Shortened
    <3>2. ASSUME Shortened
          PROVE  \E c : Costs(c)' /\ spent' = c[Len(payload'.entries)]
      <4>1. PICK c : Costs(c) /\ spent = c[Len(payload.entries)]
        BY <3>2, <1>1 DEF BudgetFits
      <4>2. Costs(c)'
        BY <4>1, <1>1, <2>3 DEF Costs, ContentLimit
      <4> QED  BY <4>1, <4>2, <1>1, <2>3
    <3> QED  BY <3>1, <3>2, <1>1, <1>3, <2>3 DEF BudgetFits
  <2>8. ManifestTellsTheTruth' /\ CollectedPayloadsAreAccepted'
    BY <1>3 DEF ManifestTellsTheTruth, CollectedPayloadsAreAccepted
  <2> QED  BY <2>5, <2>6, <2>7, <2>8 DEF PayloadInv
<1> QED  BY <1>2, <1>3 DEF Classify

(* A budget that is spent loses the file, withholds it, or carries so much *)
(* of its entry as the limit allows for.                                   *)
Lost(i) == payload' = [payload EXCEPT !.truncated = Append(@, i)] /\ spent' = spent
CappedOff(i) == payload' = [payload EXCEPT !.withheld = @ \cup {i}] /\ spent' = spent
Taken(i, entry, chars) ==
  /\ entry \in EntryShape /\ chars \in Nat
  /\ entry.file = i /\ entry.form # "cleared"
  /\ kind = "changeset" => ChangesetEntryValid(entry)
  /\ kind = "snapshot" => Len(payload.entries) < SnapshotFiles
  /\ Shortened => chars <= FileBytes /\ spent + chars <= ContentLimit

(* Each turn of the budget loops has one of these three outcomes, with the *)
(* arithmetic of both kinds of review done once.                           *)
LEMMA SpendingOutcomes ==
  ASSUME PayloadInv, OriginsFit, NEW i \in unspent, Spend(i)
  PROVE  \/ Lost(i)
         \/ CappedOff(i)
         \/ \E entry, chars, cut :
              Taken(i, entry, chars) /\ \E splits \in BOOLEAN : Carry(entry, chars, cut, splits)
<1>1. /\ PayloadFits /\ EntriesFit /\ BudgetFits /\ stage = "budgeting"
      /\ i \in DOMAIN files /\ i \in FilesWith({"text"}) /\ i \in Nat
  BY DEF PayloadInv, Spend, InTurn, EntriesFit, PayloadFits
<1>2. /\ files[i] \in CandidateShape /\ files[i].size <= FileBytes
      /\ files[i].size \in Nat /\ files[i].text \in Nat
      /\ spent \in Nat /\ Len(payload.entries) \in Nat
  <2>1. files[i] \in CandidateShape /\ files[i].size <= FileBytes
    BY <1>1, CandidatesAre, TextFits
  <2>2. spent \in Nat /\ Len(payload.entries) \in Nat
    BY <1>1 DEF PayloadFits, PayloadShape
  <2> QED  BY <2>1, <2>2 DEF CandidateShape
<1>3. Shortened => spent <= ContentLimit
  <2>1. ASSUME Shortened
        PROVE  spent <= ContentLimit
    <3>1. PICK c : Costs(c) /\ spent = c[Len(payload.entries)]
      BY <2>1, <1>1 DEF BudgetFits
    <3> QED  BY <3>1, <1>2 DEF Costs
  <2> QED  BY <2>1
<1>4. CASE kind = "changeset"
  <2> DEFINE entry == EntryOf(i)
             room == ChangesetChars - spent
  <2>1. Shortened /\ ContentLimit = ChangesetChars
    BY <1>4 DEF Shortened, ContentLimit
  <2>2. room \in Nat /\ room <= FileBytes
    BY <2>1, <1>2, <1>3, CapsAssumption
  <2>3. /\ entry \in EntryShape /\ entry.file = i /\ entry.form # "cleared"
        /\ ChangesetEntryValid(entry) /\ entry.chars \in Nat
    BY <1>1, <1>4, EntriesAre DEF EntryShape, OriginsFit
  <2>4. SpendOnChange(i)
    BY <1>4 DEF Spend
  <2>5. ASSUME NEW chars \in Nat, chars <= room
        PROVE  Taken(i, entry, chars)
    <3>1. chars <= FileBytes /\ spent + chars <= ContentLimit
      BY <2>1, <2>2, <2>5, <1>2, CapsAssumption
    <3> QED  BY <3>1, <2>3, <2>5, <1>4 DEF Taken
  <2>6. CASE entry.chars <= room
    <3>1. Carry(entry, entry.chars, FALSE, FALSE)
      BY <2>4, <2>6 DEF SpendOnChange
    <3> QED  BY <3>1, <2>3, <2>5, <2>6
  <2>7. CASE ~(entry.chars <= room) /\ room = 0
    BY <2>4, <2>7 DEF SpendOnChange, CutWhole, Lost
  <2>8. CASE ~(entry.chars <= room) /\ room # 0
    <3>1. \E splits \in BOOLEAN : Carry(entry, room, TRUE, splits)
      BY <2>4, <2>8 DEF SpendOnChange
    <3>2. Taken(i, entry, room)
      BY <2>2, <2>5
    <3> QED  BY <3>1, <3>2
  <2> QED  BY <2>6, <2>7, <2>8
<1>5. CASE kind = "snapshot"
  <2> DEFINE c == files[i]
             fits == spent + c.size <= SnapshotBytes
             room == IF spent < SnapshotBytes THEN SnapshotBytes - spent ELSE 0
             entry == [file |-> i, from |-> FALSE, status |-> "snapshot",
                       form |-> "content", chars |-> c.text]
  <2>1. SpendOnFile(i)
    BY <1>5 DEF Spend
  <2>2. CASE Len(payload.entries) >= SnapshotFiles
    BY <2>1, <2>2 DEF SpendOnFile, CappedOff
  <2>3. ASSUME ~(Len(payload.entries) >= SnapshotFiles), NEW kept \in Nat, kept <= c.text,
               Shortened => spent + kept <= SnapshotBytes
        PROVE  Taken(i, entry, kept)
    <3>1. entry \in EntryShape /\ entry.file = i /\ entry.form # "cleared"
      BY <1>1, <1>2 DEF EntryShape
    <3>2. ASSUME Shortened
          PROVE  kept <= FileBytes /\ spent + kept <= ContentLimit
      <4>1. c.text <= c.size /\ ContentLimit = SnapshotBytes
        BY <3>2, <1>1, <1>5 DEF Shortened, ContentLimit
      <4>2. kept <= FileBytes
        BY <4>1, <2>3, <1>2, CapsAssumption
      <4> QED  BY <4>1, <4>2, <2>3, <3>2
    <3>3. Len(payload.entries) < SnapshotFiles
      BY <2>3, <1>2, CapsAssumption
    <3> QED  BY <3>1, <3>2, <3>3, <1>5 DEF Taken
  <2>4. Shortened => spent <= SnapshotBytes
    BY <1>3, <1>5 DEF ContentLimit
  <2>5. CASE ~(Len(payload.entries) >= SnapshotFiles) /\ fits
    <3>1. Carry(entry, c.text, FALSE, FALSE)
      BY <2>1, <2>5 DEF SpendOnFile
    <3>2. Shortened => c.text <= c.size
      BY <1>1, <1>5 DEF Shortened
    <3>3. Shortened => spent + c.text <= SnapshotBytes
      BY <3>2, <2>5, <1>2, CapsAssumption
    <3>4. Taken(i, entry, c.text)
      <4>1. c.text \in Nat /\ c.text <= c.text
        BY <1>2
      <4> HIDE DEF entry, fits
      <4> QED  BY <4>1, <3>3, <2>3, <2>5
    <3> QED  BY <3>1, <3>4
  <2>6. CASE ~(Len(payload.entries) >= SnapshotFiles) /\ ~fits
    <3>1. PICK kept \in Slices(c.text, room) :
             IF kept = 0 THEN CutWhole(i) ELSE Carry(entry, kept, TRUE, FALSE)
      BY <2>1, <2>6 DEF SpendOnFile
    <3>2. CASE kept = 0
      BY <3>1, <3>2 DEF CutWhole, Lost
    <3>3. CASE kept # 0
      <4>1. room \in Nat /\ (spent <= SnapshotBytes => spent + room <= SnapshotBytes)
        BY <1>2, CapsAssumption
      <4>2. kept \in Nat /\ kept <= c.text /\ kept <= room
        BY <4>1, <1>2 DEF Slices
      <4>3. Shortened => spent + kept <= SnapshotBytes
        BY <4>1, <4>2, <2>4, <1>2, CapsAssumption
      <4>4. Taken(i, entry, kept)
        BY <4>2, <4>3, <2>3, <2>6
      <4> QED  BY <3>1, <3>3, <4>4
    <3> QED  BY <3>2, <3>3
  <2> QED  BY <2>2, <2>5, <2>6
<1> QED  BY <1>1, <1>4, <1>5 DEF PayloadFits

(* A turn of the budget adds at most one entry, of a file that had none,   *)
(* and keeps what all entries cost within the limit.                       *)
LEMMA SpendKeeps ==
  ASSUME PayloadInv, OriginsFit, NEW i \in unspent, Spend(i)
  PROVE  PayloadInv'
<1>1. /\ PayloadFits /\ EntriesFit /\ BudgetFits /\ stage = "budgeting"
      /\ UNCHANGED <<kind, files, looked, subject, stage>>
      /\ unspent' = unspent \ {i}
      /\ i \in FilesWith({"text"}) /\ i \notin payload.withheld /\ i \in DOMAIN files /\ i \in Nat
  BY DEF PayloadInv, Spend, InTurn, EntriesFit, PayloadFits
<1>2. /\ payload \in PayloadShape /\ payload.entries \in Seq(EntryShape)
      /\ payload.truncated \in Seq(Nat) /\ payload.withheld \in SUBSET Nat
  BY <1>1 DEF PayloadFits, PayloadShape
<1>3. \A S : FilesWith(S)' = FilesWith(S)
  BY <1>1 DEF FilesWith
<1>4. (Shortened' <=> Shortened) /\ ContentLimit' = ContentLimit
  BY <1>1 DEF Shortened, ContentLimit
<1>5. ManifestTellsTheTruth' /\ CollectedPayloadsAreAccepted'
  BY <1>1 DEF ManifestTellsTheTruth, CollectedPayloadsAreAccepted
<1>6. ASSUME payload'.entries = payload.entries, spent' = spent, payload' \in PayloadShape,
             payload'.manifest = payload.manifest,
             payload'.withheld \subseteq payload.withheld \cup {i},
             payload.withheld \subseteq payload'.withheld
      PROVE  PayloadFits' /\ EntriesFit' /\ BudgetFits'
  <2>1. PayloadFits'
    BY <1>6, <1>1 DEF PayloadFits
  <2>2. EntriesFit'
    <3>1. FilesWith({"text"})' = FilesWith({"text"})
          /\ FilesWith({"withheld", "listed_withheld"})' = FilesWith({"withheld", "listed_withheld"})
      BY <1>3
    <3>2. \A k \in DOMAIN payload.entries :
             /\ payload.entries[k].file \in FilesWith({"text"}) \ (unspent' \cup payload'.withheld)
             /\ kind = "changeset" => ChangesetEntryValid(payload.entries[k])
             /\ payload.entries[k].form # "cleared"
      BY <1>6, <1>1 DEF EntriesFit
    <3> QED  BY <3>1, <3>2, <1>6, <1>1 DEF EntriesFit
  <2>3. BudgetFits'
    <3>1. ASSUME Shortened
          PROVE  \E c : Costs(c)' /\ spent' = c[Len(payload'.entries)]
      <4>1. PICK c : Costs(c) /\ spent = c[Len(payload.entries)]
        BY <3>1, <1>1 DEF BudgetFits
      <4>2. Costs(c)'
        BY <4>1, <1>4, <1>6 DEF Costs
      <4> QED  BY <4>1, <4>2, <1>6
    <3> QED  BY <3>1, <1>1, <1>4, <1>6 DEF BudgetFits
  <2> QED  BY <2>1, <2>2, <2>3
<1>7. CASE Lost(i)
  <2>1. /\ payload'.entries = payload.entries /\ payload'.withheld = payload.withheld
        /\ payload' \in PayloadShape /\ spent' = spent /\ payload'.manifest = payload.manifest
    <3>1. Append(payload.truncated, i) \in Seq(Nat)
      BY <1>1, <1>2
    <3>2. payload' = [payload EXCEPT !.truncated = Append(payload.truncated, i)]
      BY <1>7 DEF Lost
    <3> QED  BY <3>1, <3>2, <1>2, <1>7 DEF Lost, PayloadShape
  <2> QED  BY <2>1, <1>5, <1>6 DEF PayloadInv
<1>8. CASE CappedOff(i)
  <2>1. /\ payload'.entries = payload.entries /\ payload'.withheld = payload.withheld \cup {i}
        /\ payload' \in PayloadShape /\ spent' = spent /\ payload'.manifest = payload.manifest
    BY <1>8, <1>1, <1>2 DEF CappedOff, PayloadShape
  <2> QED  BY <2>1, <1>5, <1>6 DEF PayloadInv
<1>9. CASE \E entry, chars, cut :
              Taken(i, entry, chars) /\ \E splits \in BOOLEAN : Carry(entry, chars, cut, splits)
  <2>0. PICK entry, chars, cut :
          Taken(i, entry, chars) /\ \E splits \in BOOLEAN : Carry(entry, chars, cut, splits)
    BY <1>9
  <2>1. PICK splits \in BOOLEAN : Taken(i, entry, chars) /\ Carry(entry, chars, cut, splits)
    BY <2>0
  <2> DEFINE e == [entry EXCEPT !.chars = chars]
             n == Len(payload.entries)
  <2>2. /\ e \in EntryShape /\ e.file = i /\ e.form # "cleared" /\ e.chars = chars
        /\ kind = "changeset" => ChangesetEntryValid(e)
        /\ chars \in Nat /\ n \in Nat
    <3>1. /\ entry \in EntryShape /\ entry.file = i /\ entry.form # "cleared" /\ chars \in Nat
          /\ kind = "changeset" => ChangesetEntryValid(entry)
      BY <2>1 DEF Taken
    <3>2. /\ e \in EntryShape /\ e.file = entry.file /\ e.form = entry.form /\ e.chars = chars
          /\ e.status = entry.status /\ e.from = entry.from
      BY <3>1 DEF EntryShape
    <3>3. kind = "changeset" => ChangesetEntryValid(e)
      BY <3>1, <3>2 DEF ChangesetEntryValid
    <3>4. n \in Nat
      BY <1>2
    <3> QED  BY <3>1, <3>2, <3>3, <3>4
  <2> HIDE DEF e
  <2>3. /\ payload'.entries = Append(payload.entries, e) /\ spent' = spent + chars
        /\ payload'.withheld = payload.withheld /\ payload'.manifest = payload.manifest
        /\ payload' \in PayloadShape
    <3>1. /\ Append(payload.entries, e) \in Seq(EntryShape)
          /\ (IF cut THEN Append(payload.truncated, entry.file) ELSE payload.truncated) \in Seq(Nat)
      BY <2>1, <2>2, <1>1, <1>2 DEF Taken
    <3>2. payload' = [payload EXCEPT
             !.entries = Append(payload.entries, e),
             !.truncated = IF cut THEN Append(payload.truncated, entry.file)
                                  ELSE payload.truncated,
             !.split = payload.split \/ splits]
      BY <2>1 DEF Carry, e
    <3> QED  BY <3>1, <3>2, <2>1, <1>2 DEF Carry, PayloadShape
  <2>4. /\ Len(payload'.entries) = n + 1 /\ DOMAIN payload'.entries = 1 .. n + 1
        /\ DOMAIN payload.entries = 1 .. n
        /\ payload'.entries[n + 1] = e
        /\ \A k \in 1 .. n : payload'.entries[k] = payload.entries[k]
    BY <2>2, <2>3, <1>2
  <2>5. PayloadFits'
    BY <2>2, <2>3, <1>1 DEF PayloadFits
  <2>6. EntriesFit'
    <3>1. ASSUME NEW k \in DOMAIN payload'.entries
          PROVE  /\ payload'.entries[k].file
                       \in FilesWith({"text"}) \ (unspent' \cup payload.withheld)
                 /\ kind = "changeset" => ChangesetEntryValid(payload'.entries[k])
                 /\ payload'.entries[k].form # "cleared"
      <4>1. CASE k = n + 1
        BY <4>1, <2>2, <2>4, <1>1
      <4>2. CASE k \in 1 .. n
        BY <4>2, <2>4, <1>1 DEF EntriesFit
      <4> QED  BY <4>1, <4>2, <2>2, <2>4
    <3>2. ASSUME NEW k \in DOMAIN payload'.entries, NEW m \in DOMAIN payload'.entries,
                 payload'.entries[k].file = payload'.entries[m].file
          PROVE  k = m
      <4>1. \A j \in 1 .. n : payload'.entries[j].file # i
        <5>1. \A j \in 1 .. n : payload.entries[j].file \notin unspent
          BY <2>4, <1>1 DEF EntriesFit
        <5> QED  BY <5>1, <2>4
      <4>2. CASE k = n + 1 \/ m = n + 1
        BY <4>1, <4>2, <3>2, <2>2, <2>4
      <4>3. CASE k \in 1 .. n /\ m \in 1 .. n
        BY <4>3, <3>2, <2>4, <1>1 DEF EntriesFit
      <4> QED  BY <4>2, <4>3, <2>2, <2>4
    <3>3. FilesWith({"text"})' = FilesWith({"text"})
          /\ FilesWith({"withheld", "listed_withheld"})' = FilesWith({"withheld", "listed_withheld"})
      BY <1>3
    <3>4. /\ unspent' \subseteq FilesWith({"text"}) \ payload.withheld
          /\ FilesWith({"withheld", "listed_withheld"}) \subseteq payload.withheld
      BY <1>1 DEF EntriesFit
    <3>5. \A k, m \in DOMAIN payload'.entries :
             payload'.entries[k].file = payload'.entries[m].file => k = m
      BY <3>2
    <3> QED  BY <3>1, <3>3, <3>4, <3>5, <2>3, <1>1 DEF EntriesFit, ChangesetEntryValid
  <2>7. BudgetFits'
    <3>1. kind = "snapshot" => n + 1 <= SnapshotFiles
      BY <2>1, <2>2, CapsAssumption DEF Taken
    <3>2. ASSUME Shortened
          PROVE  /\ \A k \in DOMAIN payload'.entries : payload'.entries[k].chars <= FileBytes
                 /\ \E c : Costs(c)' /\ spent' = c[Len(payload'.entries)]
      <4>1. PICK c : Costs(c) /\ spent = c[n]
        BY <3>2, <1>1 DEF BudgetFits
      <4>2. chars <= FileBytes /\ spent + chars <= ContentLimit
        BY <2>1, <3>2 DEF Taken
      <4>3. \A k \in DOMAIN payload'.entries : payload'.entries[k].chars <= FileBytes
        <5>1. ASSUME NEW k \in 1 .. n + 1
              PROVE  payload'.entries[k].chars <= FileBytes
          <6>1. CASE k = n + 1
            BY <6>1, <4>2, <2>2, <2>4
          <6>2. CASE k \in 1 .. n
            BY <6>2, <3>2, <2>4, <1>1 DEF BudgetFits
          <6> QED  BY <6>1, <6>2, <2>2
        <5> QED  BY <5>1, <2>4
      <4>d. PICK d : d = [k \in 0 .. n + 1 |-> IF k = n + 1 THEN spent + chars ELSE c[k]]
        OBVIOUS
      <4>4. /\ d[n + 1] = spent + chars /\ d[n] = spent
            /\ \A k \in 0 .. n : d[k] = c[k]
        BY <4>1, <4>d, <2>2
      <4>5. d \in [0 .. n + 1 -> Nat]
        <5>1. spent + chars \in Nat /\ c \in [0 .. n -> Nat]
          BY <4>1, <2>2, <1>1 DEF Costs, PayloadFits
        <5>2. ASSUME NEW k \in 0 .. n + 1, k # n + 1
              PROVE  c[k] \in Nat
          <6>1. k \in 0 .. n
            BY <5>2, <2>2
          <6> QED  BY <5>1, <6>1
        <5> QED  BY <5>1, <5>2, <4>d
      <4>6. \A k \in 1 .. n + 1 : d[k - 1] + payload'.entries[k].chars <= d[k]
        <5>1. ASSUME NEW k \in 1 .. n + 1
              PROVE  d[k - 1] + payload'.entries[k].chars <= d[k]
          <6>1. CASE k = n + 1
            <7>1. d[k - 1] = spent /\ d[k] = spent + chars /\ payload'.entries[k].chars = chars
              BY <6>1, <4>4, <2>2, <2>4
            <7> QED  BY <7>1, <2>2, <1>1 DEF PayloadFits
          <6>2. CASE k \in 1 .. n
            <7>1. /\ d[k - 1] = c[k - 1] /\ d[k] = c[k]
                  /\ payload'.entries[k] = payload.entries[k]
              BY <6>2, <4>4, <2>2, <2>4
            <7> QED  BY <7>1, <6>2, <4>1 DEF Costs
          <6> QED  BY <6>1, <6>2, <2>2
        <5> QED  BY <5>1
      <4>7. \A k \in 0 .. n + 1 : d[k] <= ContentLimit
        <5>1. ASSUME NEW k \in 0 .. n + 1
              PROVE  d[k] <= ContentLimit
          <6>1. CASE k = n + 1
            BY <6>1, <4>2, <4>4
          <6>2. CASE k \in 0 .. n
            BY <6>2, <4>1, <4>4 DEF Costs
          <6> QED  BY <6>1, <6>2, <2>2
        <5> QED  BY <5>1
      <4>8. Costs(d)'
        <5>1. Len(payload.entries)' = n + 1 /\ payload'.entries = payload.entries'
          BY <2>4
        <5> HIDE DEF n
        <5> QED  BY <4>5, <4>6, <4>7, <5>1, <1>4 DEF Costs
      <4>9. spent' = d[Len(payload'.entries)]
        BY <4>4, <2>3, <2>4
      <4> QED  BY <4>3, <4>8, <4>9
    <3> QED  BY <3>1, <3>2, <2>4, <1>1, <1>4 DEF BudgetFits
  <2> QED  BY <2>5, <2>6, <2>7, <1>5 DEF PayloadInv
<1> QED  BY <1>7, <1>8, <1>9, SpendingOutcomes

(* Every file has one of four fates.                                       *)
LEMMA FatesAre ==
  ASSUME NEW c
  PROVE  Fate(c) \in {"text", "listed", "listed_withheld", "withheld"}
BY DEF Fate

(* The manifest is assembled after the budgets and says of every listed    *)
(* file whether it made it into the entries.                               *)
LEMMA AssembleKeeps == PayloadInv /\ Assemble => PayloadInv'
<1> SUFFICES ASSUME PayloadInv, Assemble PROVE PayloadInv'
  OBVIOUS
<1> DEFINE listed == {i \in Listable : Cardinality({j \in Listable : j < i}) < ManifestEntries}
           omitted == Cardinality(Listable \ listed)
           manifest == [i \in listed |-> Included(i)]
<1>1. /\ PayloadFits /\ EntriesFit /\ BudgetFits /\ stage = "budgeting" /\ unspent = {}
      /\ UNCHANGED <<kind, files, unspent, spent, looked, subject>>
      /\ stage' = "collected"
      /\ payload' = [payload EXCEPT !.manifest = manifest, !.omitted = omitted]
  BY DEF PayloadInv, Assemble
<1>2. /\ payload \in PayloadShape /\ payload.entries \in Seq(EntryShape)
      /\ DOMAIN files = 1 .. Len(files) /\ Len(files) \in Nat
  BY <1>1 DEF PayloadFits, PayloadShape
<1>3. Listable \subseteq DOMAIN files /\ listed \subseteq Listable
  BY DEF Listable, FilesWith
<1>4. omitted \in Nat /\ (omitted = 0 => Listable \subseteq listed)
  <2>1. IsFiniteSet(DOMAIN files)
    BY <1>2, FS_Interval
  <2>2. Listable \ listed \in SUBSET DOMAIN files
    BY <1>3
  <2>3. IsFiniteSet(Listable \ listed)
    BY <2>1, <2>2, FS_Subset
  <2> HIDE DEF listed
  <2>4. omitted \in Nat /\ (omitted = 0 => Listable \ listed = {})
    BY <2>3, FS_CardinalityType, FS_EmptySet
  <2> QED  BY <2>4
<1>5. manifest \in [listed -> BOOLEAN] /\ listed \in SUBSET Nat
  BY <1>2, <1>3 DEF Included
<1> HIDE DEF listed, omitted
<1>6. /\ payload'.entries = payload.entries /\ payload'.withheld = payload.withheld
      /\ payload'.manifest = manifest /\ payload'.omitted = omitted
      /\ payload' \in PayloadShape
  <2>1. manifest \in UNION {[S -> BOOLEAN] : S \in SUBSET Nat}
    BY <1>5
  <2> HIDE DEF manifest
  <2> QED  BY <2>1, <1>1, <1>2, <1>4 DEF PayloadShape
<1>7. PayloadFits'
  BY <1>1, <1>6 DEF PayloadFits
<1>8. /\ FilesWith({"text"})' = FilesWith({"text"})
      /\ FilesWith({"withheld", "listed_withheld"})' = FilesWith({"withheld", "listed_withheld"})
  BY <1>1 DEF FilesWith
<1>9. EntriesFit'
  <2>1. DOMAIN payload'.manifest \subseteq DOMAIN files
    BY <1>3, <1>5, <1>6
  <2> HIDE DEF manifest
  <2> QED  BY <2>1, <1>1, <1>6, <1>8 DEF EntriesFit, ChangesetEntryValid
<1>10. BudgetFits'
  <2>1. (Shortened' <=> Shortened) /\ ContentLimit' = ContentLimit
    BY <1>1 DEF Shortened, ContentLimit
  <2>2. ASSUME Shortened
        PROVE  \E c : Costs(c)'
    <3>1. PICK c : Costs(c)
      BY <2>2, <1>1 DEF BudgetFits
    <3>2. Costs(c)'
      BY <3>1, <2>1, <1>6 DEF Costs
    <3> QED  BY <3>2
  <2> QED  BY <2>1, <2>2, <1>1, <1>6 DEF BudgetFits
<1>11. ManifestTellsTheTruth'
  <2>1. ASSUME NEW i \in DOMAIN files
        PROVE  /\ i \in listed \/ i \in payload.withheld \/ omitted > 0
               /\ i \in listed => (manifest[i] <=> Included(i))
               /\ Included(i) => Fate(files[i]) = "text" /\ (i \in listed \/ omitted > 0)
    <3>1. i \in Listable \/ i \in payload.withheld
      BY FatesAre, <1>1 DEF Listable, FilesWith, EntriesFit
    <3>2. Included(i) => i \in FilesWith({"text"}) /\ i \in Listable
      BY <1>1 DEF Included, Listable, EntriesFit
    <3> QED  BY <3>1, <3>2, <1>4 DEF FilesWith
  <2>2. \A i : Carried(i)' <=> Included(i)
    BY <1>1, <1>6 DEF Carried, Included, EntriesFit
  <2>3. \A i : Listed(i)' <=> i \in listed
    BY <1>5, <1>6 DEF Listed
  <2> QED  BY <2>1, <2>2, <2>3, <1>1, <1>6 DEF ManifestTellsTheTruth
<1>12. CollectedPayloadsAreAccepted'
  BY <1>1 DEF CollectedPayloadsAreAccepted
<1> QED  BY <1>7, <1>9, <1>10, <1>11, <1>12 DEF PayloadInv

(* Dropping the last content changes one entry and one line of the         *)
(* manifest, both of the same file, and no cost grows by it.               *)
LEMMA DropKeeps == PayloadInv /\ DropLastContent => PayloadInv'
<1> SUFFICES ASSUME PayloadInv, DropLastContent PROVE PayloadInv'
  OBVIOUS
<1>1. /\ PayloadFits /\ EntriesFit /\ BudgetFits /\ ManifestTellsTheTruth
      /\ stage = "collected"
      /\ UNCHANGED <<kind, files, unspent, spent, looked, subject>>
  BY DEF PayloadInv, DropLastContent
<1>2. /\ payload \in PayloadShape /\ payload.entries \in Seq(EntryShape)
      /\ payload.truncated \in Seq(Nat) /\ payload.withheld \in SUBSET Nat
      /\ payload.omitted \in Nat
  BY <1>1 DEF PayloadFits, PayloadShape
<1>3. /\ FilesWith({"text"})' = FilesWith({"text"})
      /\ FilesWith({"withheld", "listed_withheld"})' = FilesWith({"withheld", "listed_withheld"})
      /\ (Shortened' <=> Shortened) /\ ContentLimit' = ContentLimit
  BY <1>1 DEF FilesWith, Shortened, ContentLimit
<1>4. CASE stage' = "too_large" /\ UNCHANGED payload
  <2>1. PayloadFits' /\ EntriesFit'
    BY <1>1, <1>3, <1>4 DEF PayloadFits, EntriesFit, ChangesetEntryValid
  <2>2. ASSUME Shortened
        PROVE  \E c : Costs(c)'
    <3>1. PICK c : Costs(c)
      BY <2>2, <1>1 DEF BudgetFits
    <3>2. Costs(c)'
      BY <3>1, <1>3, <1>4 DEF Costs
    <3> QED  BY <3>2
  <2>3. BudgetFits'
    BY <2>2, <1>1, <1>3, <1>4 DEF BudgetFits
  <2> QED  BY <2>1, <2>3, <1>4
           DEF PayloadInv, ManifestTellsTheTruth, CollectedPayloadsAreAccepted
<1>5. ASSUME NEW k \in DOMAIN payload.entries, payload' = ClearContent(k), stage' = stage
      PROVE  PayloadInv'
  <2> DEFINE e == [payload.entries[k] EXCEPT !.form = "cleared", !.chars = 0]
             n == Len(payload.entries)
             f == payload.entries[k].file
             manifest == [i \in DOMAIN payload.manifest |-> payload.manifest[i] /\ i # f]
  <2>1. /\ DOMAIN payload.entries = 1 .. n /\ n \in Nat /\ k \in 1 .. n
        /\ payload.entries[k] \in EntryShape /\ f \in Nat
    <3>1. DOMAIN payload.entries = 1 .. n /\ n \in Nat
      BY <1>2
    <3>2. payload.entries[k] \in EntryShape
      BY <1>2, <1>5
    <3> QED  BY <3>1, <3>2, <1>5 DEF EntryShape
  <2>2. /\ e \in EntryShape /\ e.file = f /\ e.form = "cleared" /\ e.chars = 0
        /\ e.status = payload.entries[k].status /\ e.from = payload.entries[k].from
    BY <2>1 DEF EntryShape
  <2> HIDE DEF e
  <2>3. /\ payload'.entries = [payload.entries EXCEPT ![k] = e]
        /\ payload'.manifest = manifest /\ payload'.withheld = payload.withheld
        /\ payload'.omitted = payload.omitted /\ payload' \in PayloadShape
    <3>1. PICK S \in SUBSET Nat : payload.manifest \in [S -> BOOLEAN]
      BY <1>2 DEF PayloadShape
    <3>2. manifest \in [S -> BOOLEAN]
      BY <3>1
    <3>3. [S -> BOOLEAN] \in {[T -> BOOLEAN] : T \in SUBSET Nat}
      BY <3>1
    <3>4. manifest \in UNION {[T -> BOOLEAN] : T \in SUBSET Nat}
      BY <3>2, <3>3
    <3>5. /\ [payload.entries EXCEPT ![k] = e] \in Seq(EntryShape)
          /\ Append(payload.truncated, f) \in Seq(Nat)
      BY <1>2, <2>1, <2>2
    <3>6. payload' = [payload EXCEPT !.entries = [payload.entries EXCEPT ![k] = e],
                                     !.truncated = Append(payload.truncated, f),
                                     !.manifest = manifest]
      BY <1>2, <1>5, <2>1 DEF ClearContent, e, PayloadShape
    <3> HIDE DEF manifest, f
    <3> QED  BY <3>4, <3>5, <3>6, <1>2 DEF PayloadShape
  <2>4. /\ Len(payload'.entries) = n /\ DOMAIN payload'.entries = 1 .. n
        /\ payload'.entries[k] = e
        /\ \A m \in 1 .. n : m # k => payload'.entries[m] = payload.entries[m]
    BY <2>1, <2>3, <1>2
  <2>5. \A m \in 1 .. n : /\ payload'.entries[m].file = payload.entries[m].file
                          /\ payload'.entries[m].status = payload.entries[m].status
                          /\ payload'.entries[m].from = payload.entries[m].from
                          /\ payload'.entries[m].chars <= payload.entries[m].chars
                          /\ payload'.entries[m].chars \in Nat
                          /\ payload.entries[m].chars \in Nat
    <3>1. ASSUME NEW m \in 1 .. n
          PROVE  /\ payload'.entries[m].file = payload.entries[m].file
                 /\ payload'.entries[m].status = payload.entries[m].status
                 /\ payload'.entries[m].from = payload.entries[m].from
                 /\ payload'.entries[m].chars <= payload.entries[m].chars
                 /\ payload'.entries[m].chars \in Nat
                 /\ payload.entries[m].chars \in Nat
      <4>1. payload.entries[m] \in EntryShape
        BY <1>2, <2>1
      <4>2. payload.entries[m].chars \in Nat
        BY <4>1 DEF EntryShape
      <4>3. CASE m = k
        BY <4>2, <4>3, <2>2, <2>4
      <4>4. CASE m # k
        BY <4>2, <4>4, <2>4
      <4> QED  BY <4>3, <4>4
    <3> QED  BY <3>1
  <2>6. PayloadFits'
    BY <1>1, <2>3 DEF PayloadFits
  <2>7. EntriesFit'
    <3>1. ASSUME NEW m \in 1 .. n
          PROVE  /\ payload'.entries[m].file
                       \in FilesWith({"text"}) \ (unspent \cup payload.withheld)
                 /\ kind = "changeset" => ChangesetEntryValid(payload'.entries[m])
      <4>1. /\ payload.entries[m].file
                   \in FilesWith({"text"}) \ (unspent \cup payload.withheld)
            /\ kind = "changeset" => ChangesetEntryValid(payload.entries[m])
        BY <2>1, <1>1 DEF EntriesFit
      <4> HIDE DEF n
      <4> QED  BY <4>1, <2>5 DEF ChangesetEntryValid
    <3>2. ASSUME NEW m \in 1 .. n, NEW o \in 1 .. n,
                 payload'.entries[m].file = payload'.entries[o].file
          PROVE  m = o
      <4>1. payload.entries[m].file = payload.entries[o].file
        BY <3>2, <2>5
      <4> QED  BY <4>1, <2>1, <1>1 DEF EntriesFit
    <3>3. /\ unspent \subseteq FilesWith({"text"}) \ payload.withheld
          /\ FilesWith({"withheld", "listed_withheld"}) \subseteq payload.withheld
      BY <1>1 DEF EntriesFit
    <3> HIDE DEF n
    <3> QED  BY <3>1, <3>2, <3>3, <1>1, <1>3, <1>5, <2>3, <2>4
             DEF EntriesFit, ChangesetEntryValid
  <2>8. BudgetFits'
    <3>1. ASSUME Shortened
          PROVE  /\ \A m \in DOMAIN payload'.entries : payload'.entries[m].chars <= FileBytes
                 /\ \E c : Costs(c)'
      <4>1. PICK c : Costs(c)
        BY <3>1, <1>1 DEF BudgetFits
      <4>2. \A m \in DOMAIN payload'.entries : payload'.entries[m].chars <= FileBytes
        <5>1. ASSUME NEW m \in 1 .. n
              PROVE  payload'.entries[m].chars <= FileBytes
          <6>1. payload.entries[m].chars <= FileBytes
            BY <3>1, <2>1, <1>1 DEF BudgetFits
          <6> QED  BY <6>1, <2>5, CapsAssumption
        <5> QED  BY <5>1, <2>4
      <4>3. \A m \in 1 .. n : c[m - 1] + payload'.entries[m].chars <= c[m]
        <5>1. ASSUME NEW m \in 1 .. n
              PROVE  c[m - 1] + payload'.entries[m].chars <= c[m]
          <6>1. c[m - 1] + payload.entries[m].chars <= c[m]
            BY <4>1 DEF Costs
          <6>2. c[m - 1] \in Nat /\ c[m] \in Nat
            <7>1. c \in [0 .. n -> Nat]
              BY <4>1 DEF Costs
            <7>2. m - 1 \in 0 .. n /\ m \in 0 .. n
              BY <2>1
            <7> HIDE DEF n
            <7> QED  BY <7>1, <7>2
          <6> QED  BY <6>1, <6>2, <2>5
        <5> QED  BY <5>1
      <4>4. Costs(c)'
        BY <4>1, <4>3, <2>4, <1>3 DEF Costs
      <4> QED  BY <4>2, <4>4
    <3> QED  BY <3>1, <2>4, <1>1, <1>3, <1>5 DEF BudgetFits
  <2>9. ManifestTellsTheTruth'
    <3>1. ASSUME NEW i
          PROVE  Carried(i)' <=> Carried(i) /\ i # f
      <4>1. \A m \in 1 .. n : payload.entries[m].file = f <=> m = k
        BY <2>1, <1>1 DEF EntriesFit
      <4>2. Carried(i)' <=> \E m \in 1 .. n : /\ payload'.entries[m].file = i
                                              /\ payload'.entries[m].form # "cleared"
        BY <2>4 DEF Carried
      <4>3. Carried(i) <=> \E m \in 1 .. n : /\ payload.entries[m].file = i
                                             /\ payload.entries[m].form # "cleared"
        BY <2>1 DEF Carried
      <4>4. \A m \in 1 .. n : m # k => payload'.entries[m].form = payload.entries[m].form
        BY <2>4
      <4> HIDE DEF f, n
      <4> QED  BY <4>1, <4>2, <4>3, <4>4, <2>1, <2>2, <2>4, <2>5
    <3>2. \A i : Listed(i)' <=> Listed(i)
      BY <2>3 DEF Listed
    <3>3. \A i \in DOMAIN payload.manifest :
             payload'.manifest[i] <=> payload.manifest[i] /\ i # f
      BY <2>3
    <3> HIDE DEF f, manifest
    <3> QED  BY <3>1, <3>2, <3>3, <1>1, <1>5, <2>3 DEF ManifestTellsTheTruth, Listed
  <2>10. CollectedPayloadsAreAccepted'
    BY <1>1, <1>5 DEF CollectedPayloadsAreAccepted
  <2> QED  BY <2>6, <2>7, <2>8, <2>9, <2>10 DEF PayloadInv
<1> QED  BY <1>1, <1>4, <1>5 DEF DropLastContent, Removable

-----------------------------------------------------------------------------
(* The way to the analysis.                                                *)

(* Nothing the server does changes the payload, its types or its manifest. *)
LEMMA PayloadStands ==
  ASSUME PayloadInv, UNCHANGED <<kind, files, unspent, payload>>,
         spent' \in Nat, looked' \in Nat, subject' \in Seq(EntryShape),
         stage \in {"collected", "sent", "capping"},
         stage' \in {"sent", "capping", "admitted"}
  PROVE  /\ PayloadFits' /\ EntriesFit' /\ ManifestTellsTheTruth'
         /\ (Shortened' <=> Shortened) /\ \A c : Costs(c)' <=> Costs(c)
<1>1. /\ PayloadFits /\ EntriesFit /\ ManifestTellsTheTruth
  BY DEF PayloadInv
<1>2. PayloadFits'
  BY <1>1 DEF PayloadFits
<1>3. EntriesFit'
  BY <1>1 DEF EntriesFit, FilesWith, ChangesetEntryValid
<1>4. ManifestTellsTheTruth'
  BY <1>1 DEF ManifestTellsTheTruth, Listed, Carried
<1>5. (Shortened' <=> Shortened) /\ \A c : Costs(c)' <=> Costs(c)
  BY DEF Shortened, Costs, ContentLimit
<1> QED  BY <1>2, <1>3, <1>4, <1>5

(* Refusing to serialize changes nothing of what was collected.            *)
LEMMA RefuseKeeps == PayloadInv /\ RefuseSplit => PayloadInv'
<1> SUFFICES ASSUME PayloadInv, RefuseSplit PROVE PayloadInv'
  OBVIOUS
<1>1. /\ PayloadFits /\ EntriesFit /\ BudgetFits /\ stage = "collected" /\ stage' = "malformed"
      /\ UNCHANGED <<kind, files, unspent, spent, payload, looked, subject>>
  BY DEF PayloadInv, RefuseSplit
<1>2. PayloadFits' /\ EntriesFit'
  BY <1>1 DEF PayloadFits, EntriesFit, FilesWith, ChangesetEntryValid
<1>3. BudgetFits'
  BY <1>1 DEF BudgetFits, Shortened, Costs, ContentLimit
<1>4. ManifestTellsTheTruth' /\ CollectedPayloadsAreAccepted'
  BY <1>1 DEF ManifestTellsTheTruth, CollectedPayloadsAreAccepted
<1> QED  BY <1>2, <1>3, <1>4 DEF PayloadInv

(* Sending changes nothing of the payload.                                 *)
LEMMA TransmitKeeps == PayloadInv /\ Transmit => PayloadInv'
<1> SUFFICES ASSUME PayloadInv, Transmit PROVE PayloadInv'
  OBVIOUS
<1>1. /\ PayloadFits /\ BudgetFits /\ stage = "collected" /\ stage' = "sent"
      /\ UNCHANGED <<kind, files, unspent, spent, payload, looked, subject>>
  BY DEF PayloadInv, Transmit
<1>2. spent' \in Nat /\ looked' \in Nat /\ subject' \in Seq(EntryShape)
  BY <1>1 DEF PayloadFits
<1>3. /\ PayloadFits' /\ EntriesFit' /\ ManifestTellsTheTruth'
      /\ (Shortened' <=> Shortened) /\ \A c : Costs(c)' <=> Costs(c)
  BY <1>1, <1>2, PayloadStands
<1>4. BudgetFits'
  BY <1>1, <1>3 DEF BudgetFits
<1>5. CollectedPayloadsAreAccepted'
  BY <1>1 DEF CollectedPayloadsAreAccepted
<1> QED  BY <1>3, <1>4, <1>5 DEF PayloadInv

(* Validation accepts what was collected, and the count of the server      *)
(* starts below that of the client.                                        *)
LEMMA AdmitKeeps == PayloadInv /\ OriginsFit /\ Admit => PayloadInv'
<1> SUFFICES ASSUME PayloadInv, OriginsFit, Admit PROVE PayloadInv'
  OBVIOUS
<1>1. /\ PayloadFits /\ EntriesFit /\ BudgetFits /\ ManifestTellsTheTruth /\ stage = "sent"
      /\ UNCHANGED <<kind, files, unspent, payload, looked, subject>>
  BY DEF PayloadInv, Admit
<1>2. PayloadValid
  BY <1>1, OriginsAreValid DEF PayloadValid, EntriesFit, OriginsFit
<1>3. stage' = "capping" /\ spent' = 0
  BY <1>2 DEF Admit
<1>4. spent' \in Nat /\ looked' \in Nat /\ subject' \in Seq(EntryShape)
  BY <1>1, <1>3 DEF PayloadFits
<1>5. /\ PayloadFits' /\ EntriesFit' /\ ManifestTellsTheTruth'
      /\ (Shortened' <=> Shortened) /\ \A c : Costs(c)' <=> Costs(c)
  BY <1>1, <1>3, <1>4, PayloadStands
<1>6. BudgetFits'
  <2>1. payload.entries \in Seq(EntryShape)
    BY <1>1 DEF PayloadFits, PayloadShape
  <2>2. ASSUME NEW c, Costs(c)
        PROVE  PassedOn(c)'
    <3>1. 0 <= c[0] /\ 0 <= Len(payload.entries)
      BY <2>1, <2>2 DEF Costs
    <3> QED  BY <3>1, <1>1, <1>3 DEF PassedOn, BudgetFits
  <2> QED  BY <2>2, <1>1, <1>3, <1>5 DEF BudgetFits
<1>7. CollectedPayloadsAreAccepted'
  BY <1>3 DEF CollectedPayloadsAreAccepted
<1> QED  BY <1>5, <1>6, <1>7 DEF PayloadInv

(* The server holds the next entry against its caps: what it has paid is   *)
(* at most what the client had, so the entry fits, uncut.                  *)
LEMMA ApplyCapsKeeps == PayloadInv /\ ApplyCaps => PayloadInv'
<1> SUFFICES ASSUME PayloadInv, ApplyCaps PROVE PayloadInv'
  OBVIOUS
<1> DEFINE entry == payload.entries[looked + 1]
           chars == Least(entry.chars, FileBytes)
           kept == [entry EXCEPT !.chars = chars]
<1>1. /\ PayloadFits /\ BudgetFits /\ stage = "capping" /\ stage' = stage
      /\ UNCHANGED <<kind, files, unspent, payload>>
      /\ looked' = looked + 1 /\ looked < Len(payload.entries)
  BY DEF PayloadInv, ApplyCaps
<1>2. \/ /\ UNCHANGED <<spent, subject>>
         /\ \/ kind = "snapshot" /\ Len(subject) >= SnapshotFiles
            \/ spent + chars > ContentLimit
      \/ spent' = spent + chars /\ subject' = Append(subject, kept)
  BY DEF ApplyCaps, OverBudget
<1>3. /\ payload.entries \in Seq(EntryShape) /\ Len(payload.entries) \in Nat
      /\ subject \in Seq(EntryShape) /\ spent \in Nat /\ looked \in Nat
  BY <1>1 DEF PayloadFits, PayloadShape
<1>4. /\ looked + 1 \in DOMAIN payload.entries /\ looked + 1 \in 1 .. Len(payload.entries)
      /\ entry \in EntryShape
  BY <1>1, <1>3
<1> HIDE DEF entry
<1>5. entry.chars \in Nat /\ chars \in Nat
  BY <1>4, CapsAssumption DEF EntryShape, Least
<1>6. kept \in EntryShape /\ (chars = entry.chars => kept = entry)
  BY <1>4, <1>5 DEF EntryShape
<1> HIDE DEF chars, kept
<1>7. spent' \in Nat /\ looked' \in Nat /\ subject' \in Seq(EntryShape)
  <2>1. looked' \in Nat
    BY <1>1, <1>3
  <2>2. spent + chars \in Nat /\ Append(subject, kept) \in Seq(EntryShape)
    BY <1>3, <1>5, <1>6
  <2> QED  BY <2>1, <2>2, <1>2, <1>3
<1>8. /\ PayloadFits' /\ EntriesFit' /\ ManifestTellsTheTruth'
      /\ (Shortened' <=> Shortened) /\ \A c : Costs(c)' <=> Costs(c)
  BY <1>1, <1>7, PayloadStands
<1>9. BudgetFits'
  <2>1. ASSUME Shortened, NEW c, Costs(c), PassedOn(c)
        PROVE  PassedOn(c)'
    <3>1. chars = entry.chars
      BY <2>1, <1>1, <1>4, <1>5, CapsAssumption DEF BudgetFits, entry, chars, Least
    <3>2. spent + chars <= c[looked + 1]
      <4>1. c[looked] + entry.chars <= c[looked + 1] /\ spent <= c[looked]
        BY <2>1, <1>3, <1>4 DEF Costs, PassedOn, entry
      <4>2. c[looked] \in Nat /\ c[looked + 1] \in Nat
        <5>1. c \in [0 .. Len(payload.entries) -> Nat]
          BY <2>1 DEF Costs
        <5>2. looked \in 0 .. Len(payload.entries) /\ looked + 1 \in 0 .. Len(payload.entries)
          BY <1>1, <1>3
        <5> QED  BY <5>1, <5>2
      <4> QED  BY <4>1, <4>2, <3>1, <1>3, <1>5
    <3>3. spent + chars <= ContentLimit
      <4>1. c[looked + 1] <= ContentLimit /\ c[looked + 1] \in Nat
        BY <2>1, <1>1, <1>3 DEF Costs
      <4>2. ContentLimit \in Nat
        BY CapsAssumption DEF ContentLimit
      <4> QED  BY <4>1, <4>2, <3>2, <1>3, <1>5
    <3>4. ~(kind = "snapshot" /\ Len(subject) >= SnapshotFiles)
      BY <2>1, <1>1, <1>3, CapsAssumption DEF BudgetFits, PassedOn
    <3>5. ~(spent + chars > ContentLimit)
      <4>1. ContentLimit \in Nat
        BY CapsAssumption DEF ContentLimit
      <4> QED  BY <4>1, <3>3, <1>3, <1>5
    <3>6. spent' = spent + chars /\ subject' = Append(subject, entry)
      BY <3>1, <3>4, <3>5, <1>2, <1>6
    <3>7. /\ Len(subject') = looked + 1
          /\ \A k \in 1 .. looked + 1 : subject'[k] = payload.entries[k]
      <4>1. Len(subject) = looked /\ \A k \in 1 .. looked : subject[k] = payload.entries[k]
        BY <2>1 DEF PassedOn
      <4>2. ASSUME NEW k \in 1 .. looked + 1
            PROVE  subject'[k] = payload.entries[k]
        <5>1. CASE k = looked + 1
          BY <5>1, <4>1, <3>6, <1>3, <1>4 DEF entry
        <5>2. CASE k \in 1 .. looked
          BY <5>2, <4>1, <3>6, <1>3, <1>4
        <5> QED  BY <5>1, <5>2, <1>3
      <4> QED  BY <4>1, <4>2, <3>6, <1>3, <1>4
    <3> QED  BY <3>2, <3>6, <3>7, <1>1, <1>4 DEF PassedOn
  <2>2. ASSUME Shortened
        PROVE  \E c : Costs(c)' /\ PassedOn(c)'
    <3>1. PICK c : Costs(c) /\ PassedOn(c)
      BY <2>2, <1>1 DEF BudgetFits
    <3>2. Costs(c)' /\ PassedOn(c)'
      BY <3>1, <2>1, <2>2, <1>8
    <3> QED  BY <3>2
  <2> QED  BY <2>2, <1>1, <1>8 DEF BudgetFits
<1>10. CollectedPayloadsAreAccepted'
  BY <1>1 DEF CollectedPayloadsAreAccepted
<1> QED  BY <1>8, <1>9, <1>10 DEF PayloadInv

(* When the server has looked at every entry, it has passed on every       *)
(* entry.                                                                  *)
LEMMA AnalyseKeeps == PayloadInv /\ Analyse => PayloadInv'
<1> SUFFICES ASSUME PayloadInv, Analyse PROVE PayloadInv'
  OBVIOUS
<1>1. /\ PayloadFits /\ BudgetFits /\ stage = "capping" /\ stage' = "admitted"
      /\ UNCHANGED <<kind, files, unspent, spent, payload, looked, subject>>
      /\ looked = Len(payload.entries)
  BY DEF PayloadInv, Analyse
<1>2. spent' \in Nat /\ looked' \in Nat /\ subject' \in Seq(EntryShape)
      /\ payload.entries \in Seq(EntryShape)
  BY <1>1 DEF PayloadFits, PayloadShape
<1>3. /\ PayloadFits' /\ EntriesFit' /\ ManifestTellsTheTruth'
      /\ (Shortened' <=> Shortened) /\ \A c : Costs(c)' <=> Costs(c)
  BY <1>1, <1>2, PayloadStands
<1>4. BudgetFits'
  BY <1>1, <1>3 DEF BudgetFits
<1>5. CollectedPayloadsAreAccepted'
  <2>1. Shortened => subject = payload.entries
    BY <1>1, <1>2 DEF BudgetFits, PassedOn
  <2> QED  BY <2>1, <1>1 DEF CollectedPayloadsAreAccepted, Shortened
<1> QED  BY <1>3, <1>4, <1>5 DEF PayloadInv

(* Every step of the payload, and every stutter, keeps the invariant.      *)
LEMMA PayloadGoesOn == PayloadInv /\ OriginsFit /\ [PayloadNext]_payloadVars => PayloadInv'
<1> SUFFICES ASSUME PayloadInv, OriginsFit, [PayloadNext]_payloadVars PROVE PayloadInv'
  OBVIOUS
<1>1. CASE PayloadNext
  BY <1>1, ClassifyKeeps, SpendKeeps, AssembleKeeps, RefuseKeeps, DropKeeps, TransmitKeeps, AdmitKeeps,
     ApplyCapsKeeps, AnalyseKeeps DEF PayloadNext
<1>2. CASE UNCHANGED payloadVars
  BY <1>2 DEF payloadVars, PayloadInv, PayloadFits, EntriesFit, BudgetFits, FilesWith,
              ChangesetEntryValid, Shortened, Costs, PassedOn, ContentLimit,
              ManifestTellsTheTruth, Listed, Carried, CollectedPayloadsAreAccepted
<1> QED  BY <1>1, <1>2

(* What the manifest says of a file's content is what the payload carries, *)
(* and no file goes missing, whatever the capture holds and the caps are.  *)
THEOREM ManifestIsTrue == PayloadSpec => []ManifestTellsTheTruth
<1>1. PayloadInv => ManifestTellsTheTruth
  BY DEF PayloadInv
<1>2. PayloadInit => OriginsFit
  BY DEF PayloadInit, OriginsFit
<1> QED  BY <1>1, <1>2, PayloadStarts, PayloadGoesOn, OriginsStay, PTL DEF PayloadSpec

(* Whatever capture emits, a payload that passed the collector's check on  *)
(* origins is not refused by the server's and, unless redaction lengthened *)
(* a file of a snapshot, not cut by it, for all caps.                      *)
THEOREM ServerTakesWhatIsSent == PayloadSpec => []CollectedPayloadsAreAccepted
<1>1. PayloadInv => CollectedPayloadsAreAccepted
  BY DEF PayloadInv
<1>2. PayloadInit => OriginsFit
  BY DEF PayloadInit, OriginsFit
<1> QED  BY <1>1, <1>2, PayloadStarts, PayloadGoesOn, OriginsStay, PTL DEF PayloadSpec
=============================================================================
