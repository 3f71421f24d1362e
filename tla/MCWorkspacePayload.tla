-------------------------- MODULE MCWorkspacePayload --------------------------
(***************************************************************************)
(* The candidates of a capture, by what the pipeline tells apart: files    *)
(* that redaction shortens, keeps or lengthens, of either priority, edits  *)
(* and renames with and without a text base, one of every kind whose       *)
(* content does not travel, and the origin of a rename on files that are   *)
(* modified: the path was in conflict, is in HEAD, and was resolved and    *)
(* paired while it was captured.                                           *)
(***************************************************************************)
EXTENDS WorkspacePayload

Shape(k, st, fr, ru, re, sz, tx, ba, df, ti) ==
  [kind |-> k, status |-> st, from |-> fr, rule |-> ru, read |-> re, size |-> sz,
   text |-> tx, base |-> ba, diff |-> df, tier |-> ti]

NewFile(sz, tx, ti) == Shape("regular", "added", FALSE, "allowed", "text", sz, tx, "none", 0, ti)
Edited(st, ba, df) ==
  Shape("regular", st, st = "renamed", "allowed", "text", 2, 2, ba, df, 1)
Unsent(k, ru, re) == Shape(k, "modified", FALSE, ru, re, 5, 2, "text", 2, 1)

MCCandidate ==
  {NewFile(0, 0, 0), NewFile(1, 1, 0), NewFile(1, 1, 2), NewFile(2, 2, 0), NewFile(3, 3, 0),
   NewFile(1, 2, 2), NewFile(3, 4, 2),
   Edited("modified", "text", 1), Edited("modified", "unusable", 1),
   [Edited("modified", "text", 1) EXCEPT !.from = TRUE],
   [Edited("modified", "text", 1) EXCEPT !.from = TRUE, !.read = "binary"],
   Edited("renamed", "text", 3), Edited("renamed", "unusable", 3),
   Unsent("regular", "denied", "text"), Unsent("regular", "encoded", "text"),
   Unsent("regular", "allowed", "unreadable"), Unsent("regular", "allowed", "text"),
   Shape("regular", "added", FALSE, "allowed", "key", 1, 1, "none", 0, 0),
   Shape("regular", "added", FALSE, "allowed", "binary", 1, 1, "none", 0, 0),
   Unsent("submodule", "allowed", "text"), Unsent("symlink", "allowed", "text"),
   Shape("deleted", "deleted", FALSE, "allowed", "text", 0, 0, "none", 0, 3)}
=============================================================================
