---------------------------- MODULE VerifiedRead ----------------------------
(***************************************************************************)
(* Reading one captured file while the developer goes on working:          *)
(* classifyWorktreeCandidate and readWorktreeVerified.  The file has one   *)
(* ancestor below the Workspace Root.  What the path resolves to changes   *)
(* between any two system calls; an identity (device and inode) that was   *)
(* replaced does not come back, the residual risk capture.ts accepts.      *)
(***************************************************************************)
EXTENDS Integers

CONSTANT MaxChanges   \* bound on what the developer does to the path meanwhile

ASSUME MaxChangesAssumption == MaxChanges \in Nat

VARIABLES
  parent,    \* what stands at the ancestor's path: [id, kind]
  leaf,      \* what the file's path resolves to: [id, kind, links, inside]
  changes,   \* identities used up so far
  at,        \* the reader's next system call
  try,       \* attempt: 1, 2
  expected,  \* the identity the leaf must have, 0 when unknown
  chain,     \* the ancestor's verified identity
  opened,    \* the node behind the leaf's descriptor
  answer     \* "none", "link", "bytes", "unverifiable", "hardlink_alias"

pathVars == <<parent, leaf, changes>>
readVars == <<pathVars, at, try, expected, chain, opened, answer>>

NoNode == [id |-> 0, kind |-> "gone", links |-> 0, inside |-> FALSE]
FileKinds == {"file", "link", "other"}

ReadInit ==
  /\ parent = [id |-> 1, kind |-> "directory"]
  /\ leaf = [id |-> 2, kind |-> "file", links |-> 1, inside |-> TRUE]
  /\ changes = 2 /\ at = "classify" /\ try = 1
  /\ expected = 0 /\ chain = 0 /\ opened = NoNode /\ answer = "none"

-----------------------------------------------------------------------------
(* The developer                                                           *)

Fresh == changes + 1
ReaderOnly == UNCHANGED <<at, try, expected, chain, opened, answer>>
Changeable == at # "done" /\ changes < MaxChanges + 2

\* An editor's save by rename, a checkout, a deletion.
ReplaceLeaf ==
  /\ Changeable
  /\ changes' = Fresh
  /\ \/ leaf' = NoNode
     \/ /\ parent.kind # "gone"
        /\ \E kind \in FileKinds :
             leaf' = [id |-> Fresh, kind |-> kind, links |-> 1,
                      inside |-> parent.kind = "directory"]
  /\ UNCHANGED parent /\ ReaderOnly

\* The directory is replaced, possibly by a link out of the workspace.
ReplaceParent ==
  /\ Changeable
  /\ changes' = Fresh
  /\ \E kind \in {"directory", "link", "gone"} :
       /\ parent' = [id |-> Fresh, kind |-> kind]
       /\ leaf' \in {NoNode} \cup
            (IF kind = "gone" THEN {}
             ELSE {[id |-> Fresh, kind |-> "file", links |-> 1, inside |-> kind = "directory"]})
  /\ ReaderOnly

HardLink ==
  /\ Changeable /\ leaf.kind = "file" /\ leaf.links = 1
  /\ leaf' = [leaf EXCEPT !.links = 2]
  /\ UNCHANGED <<parent, changes>> /\ ReaderOnly

-----------------------------------------------------------------------------
(* The reader                                                              *)

Calls(c) == at' = c
Answer(result) == answer' = result /\ Calls("done")

\* A file that vanished before it was classified is left to the verified read.
ClassifyLeaf ==
  /\ at = "classify"
  /\ IF leaf.kind = "link" THEN Answer("link") /\ UNCHANGED expected
     ELSE /\ expected' = leaf.id
          /\ Calls("lstat_parent") /\ UNCHANGED answer
  /\ UNCHANGED <<pathVars, try, chain, opened>>

\* One bounded second attempt, which classifies again.
Retry ==
  IF try = 1
  THEN try' = 2 /\ expected' = 0 /\ Calls("lstat_parent") /\ UNCHANGED answer
  ELSE Answer("unverifiable") /\ UNCHANGED <<try, expected>>

LstatParent ==
  /\ at = "lstat_parent"
  /\ IF parent.kind = "directory"
     THEN chain' = parent.id /\ Calls("open_parent") /\ UNCHANGED <<try, expected, answer>>
     ELSE Retry /\ UNCHANGED chain
  /\ UNCHANGED <<pathVars, opened>>

\* O_NOFOLLOW | O_DIRECTORY, and the descriptor must be what lstat saw.
OpenParent ==
  /\ at = "open_parent"
  /\ IF parent.kind = "directory" /\ parent.id = chain
     THEN Calls(IF expected = 0 THEN "lstat_leaf" ELSE "open_leaf")
          /\ UNCHANGED <<try, expected, answer>>
     ELSE Retry
  /\ UNCHANGED <<pathVars, chain, opened>>

LstatLeaf ==
  /\ at = "lstat_leaf"
  /\ IF leaf.kind = "file" THEN expected' = leaf.id /\ Calls("open_leaf") /\ UNCHANGED answer
                           ELSE Answer("unverifiable") /\ UNCHANGED expected
  /\ UNCHANGED <<pathVars, try, chain, opened>>

\* O_NOFOLLOW refuses a link in the last component, and only there.
OpenLeaf ==
  /\ at = "open_leaf"
  /\ IF leaf.kind \in {"file", "other"} THEN opened' = leaf /\ Calls("fstat") /\ UNCHANGED answer
                                        ELSE Answer("unverifiable") /\ UNCHANGED opened
  /\ UNCHANGED <<pathVars, try, expected, chain>>

\* The node may have got a second name since it was opened.
FstatLeaf ==
  /\ at = "fstat"
  /\ opened' = IF leaf.id = opened.id THEN leaf ELSE opened
  /\ Calls("check")
  /\ UNCHANGED <<pathVars, try, expected, chain, answer>>

\* Mutation: the ancestors are not looked at again.
ChainAsOpened == TRUE
ChainStillIntact == parent.kind = "directory" /\ parent.id = chain

CheckIdentity ==
  /\ at = "check"
  /\ IF opened.kind = "file" /\ opened.id = expected /\ ChainStillIntact
     THEN Answer(IF opened.links > 1 THEN "hardlink_alias" ELSE "bytes")
          /\ UNCHANGED <<try, expected>>
     ELSE Retry
  /\ UNCHANGED <<pathVars, chain, opened>>

ReadNext ==
  \/ ReplaceLeaf \/ ReplaceParent \/ HardLink
  \/ ClassifyLeaf \/ LstatParent \/ OpenParent \/ LstatLeaf \/ OpenLeaf
  \/ FstatLeaf \/ CheckIdentity

ReadSpec == ReadInit /\ [][ReadNext]_readVars

\* The bytes sent under a path are those of a regular file of the workspace that
\* was reached through no link and has no other name, as it was classified last,
\* whatever is saved, moved or checked out during the read.
ReadsStayInside ==
  answer = "bytes" =>
    opened.kind = "file" /\ opened.inside /\ opened.links = 1 /\ opened.id = expected
=============================================================================
