-------------------------- MODULE WorkspaceCapture --------------------------
(***************************************************************************)
(* What the CLI captures of a repository: detectWorkspace and the three    *)
(* enumerations of capture.ts, over what Git reports.  Default mode asks   *)
(* Git twice, status first and the staged renames second, and the          *)
(* developer may stage in between.  Paths lie inside the Workspace Root,   *)
(* outside it or in a nested repository; submodules, links and unreadable  *)
(* path bytes change how a candidate is described, never whether it is     *)
(* one, and are left to WorkspacePayload.                                  *)
(***************************************************************************)
EXTENDS Integers, FiniteSets

CONSTANTS
  Path, Blob,
  Strayed   \* the path that is outside the root or in a nested repository

Absent == "absent"
NoOrigin == "no origin"
ASSUME CapturePathAssumption ==
  Strayed \in Path /\ NoOrigin \notin Path /\ Absent \notin Blob

VARIABLES
  mode,      \* "default", "staged", "all"
  place,     \* where Strayed is: "outside" or "nested"
  head, index, tree,   \* [Path -> Blob or Absent]; tree is the worktree
  unmerged,  \* [Path -> Merged or the XY code of an unresolved conflict]
  records,   \* the status records by path, merged
  captured,  \* the candidates: [path, status, from]
  step       \* "start", "status", "captured"

captureVars == <<mode, place, head, index, tree, unmerged, records, captured, step>>

Merged == "merged"   \* no conflict
Codes == {"UD", "DU", "AA"}  \* deleted by them, deleted by us, both added

\* A conflict is what it is relative to HEAD, which is "ours".
CaptureInit ==
  /\ mode \in {"default", "staged", "all"}
  /\ place \in {"outside", "nested"}
  /\ \E b \in Blob : head \in [Path -> {Absent, b}]
  /\ index \in [Path -> Blob \cup {Absent}]
  /\ tree \in [Path -> Blob \cup {Absent}]
  /\ unmerged \in [Path -> Codes \cup {Merged}]
  /\ \A p \in Path : unmerged[p] # Merged =>
       (head[p] = Absent <=> unmerged[p] = "DU") /\ index[p] = head[p]
  /\ unmerged[Strayed] = Merged /\ tree[Strayed] = index[Strayed]
  /\ records = [p \in {} |-> {}] /\ captured = {} /\ step = "start"

Outside(p) == p = Strayed /\ place = "outside"
Nested(p) == p = Strayed /\ place = "nested"

\* The developer's `git add` or `git rm --cached` of one path.
StagePath(p) ==
  /\ step # "captured"
  /\ index[p] # tree[p] \/ unmerged[p] # Merged
  /\ index' = [index EXCEPT ![p] = tree[p]]
  /\ unmerged' = [unmerged EXCEPT ![p] = Merged]
  /\ UNCHANGED <<mode, place, head, tree, records, captured, step>>

-----------------------------------------------------------------------------
(* Git                                                                     *)

\* status --porcelain=v2 --untracked-files=all --no-renames.  An unmerged
\* record carries the stages of the merge where a tracked one carries HEAD and
\* index: its headSha is the common ancestor's.
TrackedRecord(p) ==
  IF unmerged[p] # Merged
  THEN [staged |-> "U", worktree |-> IF unmerged[p] = "UD" THEN "D" ELSE "U",
        inHead |-> unmerged[p] # "AA", inIndex |-> unmerged[p] # "DU",
        untracked |-> FALSE]
  ELSE [staged |-> IF index[p] = Absent THEN "D" ELSE IF head[p] = Absent THEN "A" ELSE "M",
        worktree |-> IF index[p] # Absent /\ tree[p] = Absent THEN "D" ELSE ".",
        inHead |-> head[p] # Absent, inIndex |-> index[p] # Absent,
        untracked |-> FALSE]
UntrackedRecord ==
  [staged |-> ".", worktree |-> ".", inHead |-> FALSE, inIndex |-> FALSE,
   untracked |-> TRUE]

Tracked(p) ==
  \/ unmerged[p] # Merged
  \/ head[p] # index[p] \/ (index[p] # Absent /\ tree[p] # index[p])
Untracked(p) == unmerged[p] = Merged /\ index[p] = Absent /\ tree[p] # Absent

\* diff-index --cached -M: each deleted path is the origin of at most one added
\* one; which pairs are similar enough is Git's business.
Deleted == {p \in Path : unmerged[p] = Merged /\ head[p] # Absent /\ index[p] = Absent}
Added == {p \in Path : unmerged[p] = Merged /\ head[p] = Absent /\ index[p] # Absent}
RenamePairings ==
  {R \in SUBSET (Added \X Deleted) :
     \A r, s \in R : r # s => r[1] # s[1] /\ r[2] # s[2]}

-----------------------------------------------------------------------------
(* Default mode                                                            *)

\* Records of one path merge: an untracked file recreated over a staged
\* deletion wins.
MergedRecord(p) ==
  IF ~Tracked(p) THEN UntrackedRecord
  ELSE IF ~Untracked(p) THEN TrackedRecord(p)
  ELSE [TrackedRecord(p) EXCEPT !.worktree = ".", !.untracked = TRUE]

ReadStatus ==
  /\ mode = "default" /\ step = "start"
  /\ records' = [p \in {q \in Path : ~Outside(q) /\ (Tracked(q) \/ Untracked(q))}
                   |-> MergedRecord(p)]
  /\ step' = "status"
  /\ UNCHANGED <<mode, place, head, index, tree, unmerged, captured>>

IsWorktreeAbsent(r) ==
  \/ r.worktree = "D"
  \/ ~r.untracked /\ r.staged = "D" /\ ~r.inIndex

\* Mutation: a source is folded into its rename whatever became of the pair.
EveryRenameSource(renames) == {r[2] : r \in renames}

\* A rename's source is represented by the renamed entry only if the pair still
\* looks like a rename in the worktree.
RenameSources(renames) ==
  {r[2] : r \in {x \in renames :
     /\ x[1] \in DOMAIN records /\ ~IsWorktreeAbsent(records[x[1]])
     /\ x[2] \in DOMAIN records => IsWorktreeAbsent(records[x[2]])}}

Entry(p, status, from) == [path |-> p, status |-> status, from |-> from]

Origin(p, renames) ==
  IF \E r \in renames : r[1] = p THEN (CHOOSE r \in renames : r[1] = p)[2] ELSE NoOrigin

\* The destination of a rename from outside the root is an addition.
DefaultCandidate(p, renames) ==
  LET r == records[p] IN
  IF IsWorktreeAbsent(r) THEN Entry(p, "deleted", NoOrigin)
  ELSE Entry(p, IF r.inHead THEN "modified"
                ELSE IF Origin(p, renames) # NoOrigin THEN "renamed" ELSE "added",
             Origin(p, renames))

EnumerateDefault ==
  /\ mode = "default" /\ step = "status"
  /\ \E pairing \in RenamePairings :
       LET renames == {r \in pairing : ~Outside(r[1]) /\ ~Outside(r[2])}
           emitted == {p \in DOMAIN records \ RenameSources(renames) :
                         ~Nested(p) /\ (IsWorktreeAbsent(records[p]) => records[p].inHead)}
       IN  captured' = {DefaultCandidate(p, renames) : p \in emitted}
  /\ step' = "captured"
  /\ UNCHANGED <<mode, place, head, index, tree, unmerged, records>>

-----------------------------------------------------------------------------
(* The other modes                                                         *)

\* HEAD against the index.  A rename that leaves the root is the deletion of
\* its source; one that enters it is an addition.
EnumerateStaged ==
  /\ mode = "staged" /\ step = "start"
  /\ \E renames \in RenamePairings :
       LET paired == {r[1] : r \in renames} \cup {r[2] : r \in renames}
           differing == {p \in Path : index[p] # head[p] \/ unmerged[p] # Merged}
           Kept(p) == ~Outside(p) /\ ~Nested(p)
       IN  captured' =
             {Entry(r[1], IF Outside(r[2]) THEN "added" ELSE "renamed",
                    IF Outside(r[2]) THEN NoOrigin ELSE r[2]) :
                r \in {x \in renames : Kept(x[1])}}
             \cup {Entry(r[2], "deleted", NoOrigin) :
                     r \in {x \in renames : Outside(x[1]) /\ ~Outside(x[2])}}
             \cup {Entry(p, IF p \in Deleted THEN "deleted"
                            ELSE IF p \in Added THEN "added" ELSE "modified", NoOrigin) :
                     p \in {q \in differing \ paired : Kept(q)}}
  /\ step' = "captured"
  /\ UNCHANGED <<mode, place, head, index, tree, unmerged, records>>

\* ls-files --cached --others: what is tracked and what is not ignored.
EnumerateSnapshot ==
  /\ mode = "all" /\ step = "start"
  /\ captured' =
       {Entry(p, "unchanged", NoOrigin) : p \in {q \in Path :
          /\ ~Outside(q) /\ ~Nested(q)
          /\ index[q] # Absent \/ tree[q] # Absent \/ unmerged[q] # Merged}}
  /\ step' = "captured"
  /\ UNCHANGED <<mode, place, head, index, tree, unmerged, records>>

CaptureNext ==
  \/ \E p \in Path : StagePath(p)
  \/ ReadStatus \/ EnumerateDefault \/ EnumerateStaged \/ EnumerateSnapshot

CaptureSpec == CaptureInit /\ [][CaptureNext]_captureVars

-----------------------------------------------------------------------------
(* Properties                                                              *)

CandidateOf(p) == {c \in captured : c.path = p}
FoldedInto(p) == {c \in captured : c.from = p}

\* The changes of a mode: the worktree against HEAD, the index against HEAD,
\* or every file there is.
Changed(p) ==
  CASE mode = "default" -> tree[p] # head[p]
    [] mode = "staged"  -> index[p] # head[p]
    [] mode = "all"     -> tree[p] # Absent

\* No change inside the root gets lost between Git's two answers, wherever the
\* index moves meanwhile: each is a candidate, or the origin of a rename whose
\* source is gone, and never both a rename's origin and a deletion.  A rename
\* into a nested repository is left out of this.
ChangesAreCaptured ==
  step = "captured" =>
    /\ \A p \in Path :
         /\ Cardinality(CandidateOf(p)) <= 1
         /\ Changed(p) /\ ~Outside(p) /\ ~Nested(p)
              /\ ~(place = "nested" /\ Strayed \in Added /\ p \in Deleted) =>
              CandidateOf(p) \cup FoldedInto(p) # {}
         /\ FoldedInto(p) # {} => \A c \in CandidateOf(p) : c.status # "deleted"
    /\ \A c \in captured : ~Outside(c.path) /\ (c.from # NoOrigin => ~Outside(c.from))
=============================================================================
