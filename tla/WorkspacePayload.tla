-------------------------- MODULE WorkspacePayload --------------------------
(***************************************************************************)
(* What of a workspace reaches the model: the exclusion pipeline of the    *)
(* CLI, its budgets and payload cap, the server's validation of the        *)
(* payload and the caps it applies again.  A file is its position in       *)
(* bytewise path order; text is its length.  Both sides apply the same     *)
(* caps: WORKSPACE_SERVER_CAPS repeats DEFAULT_CAPS number for number, and *)
(* the server takes the minimum of its own and the reported ones.          *)
(***************************************************************************)
EXTENDS Integers, Sequences, FiniteSets, SequencesExt

CONSTANTS
  Candidate,        \* the shapes capture emits, see CandidateShape
  MaxFiles,         \* bound on the candidates of one capture
  FileBytes, ChangesetChars, SnapshotBytes, SnapshotFiles, ManifestEntries,
  PayloadBytes      \* the caps

\* rule: what the path rules say; read: what the bytes are; text: length after
\* redaction; base: whether HEAD has a usable text side, diff: the patch length.
CandidateShape ==
  [kind : {"regular", "symlink", "submodule", "deleted"},
   status : {"added", "modified", "renamed", "deleted"}, from : BOOLEAN,
   rule : {"allowed", "denied", "ignored", "encoded"},
   read : {"text", "binary", "key", "unreadable"},
   size : Nat, text : Nat, base : {"none", "text", "unusable"}, diff : Nat,
   tier : 0 .. 3]

\* Capture names the origin of a staged rename on whatever it finds at the new
\* path: on a file that is modified, too, if HEAD had one there.  What is deleted
\* has no origin.
ASSUME CandidateAssumption ==
  /\ Candidate \subseteq CandidateShape
  /\ \A c \in Candidate : c.from => c.status \in {"modified", "renamed"} /\ c.kind # "deleted"

\* DEFAULT_CAPS: 160000 characters of changes, 200000 bytes of a file.
ASSUME CapsAssumption ==
  /\ MaxFiles \in Nat /\ FileBytes \in Nat /\ ChangesetChars \in 0 .. FileBytes
  /\ SnapshotBytes \in Nat /\ SnapshotFiles \in Nat /\ ManifestEntries \in Nat
  /\ PayloadBytes \in Nat

VARIABLES
  kind,      \* "changeset" or "snapshot"
  files,     \* the capture's candidates, sorted by path
  unspent,   \* the text files no budget was spent on yet
  spent,     \* what the entries so far cost, of the client, then of the server
  payload,   \* [manifest, entries, withheld, truncated, omitted, split]: manifest
             \* says of every listed file whether its content is included, split
             \* that a cut fell between the two halves of a character
  looked,    \* how many entries the server has held against its caps
  subject,   \* the entries the server passes on
  stage      \* "captured", "budgeting", "collected", "sent", "capping", "admitted",
             \* or how it failed: "leaked", "malformed", "too_large", "rejected"

payloadVars == <<kind, files, unspent, spent, payload, looked, subject, stage>>

EmptyPayload == [manifest |-> [i \in {} |-> TRUE], entries |-> <<>>,
                 withheld |-> {}, truncated |-> <<>>, omitted |-> 0, split |-> FALSE]

PayloadInit ==
  /\ kind \in {"changeset", "snapshot"}
  /\ files \in UNION {[1 .. n -> Candidate] : n \in 1 .. MaxFiles}
  /\ unspent = {} /\ spent = 0 /\ looked = 0
  /\ payload = EmptyPayload /\ subject = <<>>
  /\ stage = "captured"

-----------------------------------------------------------------------------
(* The stages before the budget                                            *)

\* Path rules come first, then the shape, then the bytes actually read.
Fate(c) ==
  CASE c.rule \in {"denied", "ignored"}               -> "withheld"
    [] c.rule = "encoded" \/ c.kind = "submodule"      -> "listed_withheld"
    [] c.kind \in {"deleted", "symlink"}               -> "listed"
    [] c.read = "unreadable"                           -> "withheld"
    [] c.size > FileBytes \/ c.read = "binary"         -> "listed"
    [] c.read = "key"                                  -> "withheld"
    [] OTHER                                           -> "text"

FilesWith(fates) == {i \in DOMAIN files : Fate(files[i]) \in fates}

\* A patch needs a text base; an addition, a binary base or key material in
\* the base carries the whole new text.
EntryOf(i) ==
  LET c == files[i]
      added == c.status = "added" \/ c.base = "none"
      patched == ~added /\ c.base = "text"
  IN  [file |-> i, from |-> c.from,
       status |-> IF added THEN "added"
                  ELSE IF c.status = "renamed" THEN "renamed" ELSE "modified",
       form |-> IF patched THEN "patch" ELSE "content",
       chars |-> IF patched THEN c.diff ELSE c.text]

\* A regular file that could be read travels with its origin.
NamesOrigin(c) == c.from /\ c.rule = "allowed" /\ c.kind = "regular" /\ c.read # "unreadable"

\* Mutation: only what is sent as a change is looked at.
StaleInEntry(i) ==
  NamesOrigin(files[i]) /\ kind = "changeset" /\ Fate(files[i]) = "text" /\ EntryOf(i).status # "renamed"

\* finalizeFrom: a rename may, in the manifest and, when it is sent as a change,
\* in its entry.
CarriesStaleOrigin(i) ==
  /\ NamesOrigin(files[i])
  /\ \/ files[i].status \notin {"renamed", "deleted"}
     \/ kind = "changeset" /\ Fate(files[i]) = "text" /\ EntryOf(i).status # "renamed"

\* An origin that must not travel fails the whole capture with
\* rename_metadata_leak.
Classify ==
  /\ stage = "captured"
  /\ IF \E i \in DOMAIN files : CarriesStaleOrigin(i)
     THEN stage' = "leaked" /\ UNCHANGED <<unspent, payload>>
     ELSE /\ stage' = "budgeting"
          /\ unspent' = FilesWith({"text"})
          /\ payload' = [payload EXCEPT
                !.withheld = FilesWith({"withheld", "listed_withheld"})]
  /\ UNCHANGED <<kind, files, spent, looked, subject>>

-----------------------------------------------------------------------------
(* The budget: one file after the other                                    *)

\* compareSnapshotPriority: source, configuration, documents, the rest.
ByPriority(i, j) ==
  \/ files[i].tier < files[j].tier
  \/ files[i].tier = files[j].tier /\ i < j

\* Changes are taken in path order, a snapshot in order of priority.
InTurn(i) ==
  /\ stage = "budgeting" /\ i \in unspent
  /\ \A j \in unspent \ {i} : IF kind = "changeset" THEN i < j ELSE ByPriority(i, j)

\* The entry joins the payload with so many of its characters.
Carry(entry, chars, cut, splits) ==
  /\ spent' = spent + chars
  /\ payload' = [payload EXCEPT !.entries = Append(@, [entry EXCEPT !.chars = chars]),
                 !.truncated = IF cut THEN Append(@, entry.file) ELSE @,
                 !.split = @ \/ splits]

\* No budget is left for the file, and that is recorded.
CutWhole(i) ==
  /\ payload' = [payload EXCEPT !.truncated = Append(@, i)]
  /\ UNCHANGED spent

\* A change is cut at a number of UTF-16 units, which may split a character.
SpendOnChange(i) ==
  LET entry == EntryOf(i)
      room == ChangesetChars - spent
  IN  IF entry.chars <= room THEN Carry(entry, entry.chars, FALSE, FALSE)
      ELSE IF room = 0 THEN CutWhole(i)
      ELSE \E splits \in BOOLEAN : Carry(entry, room, TRUE, splits)

\* sliceUtf8 cuts before the first character that does not fit, which takes up
\* to four bytes.
Slices(text, room) == IF text <= room THEN {text} ELSE {k \in 0 .. room : room - k < 4}

\* What fits is told by the size on disk, what is kept by the redacted text.
\* Past the cap on files, a file is withheld instead.
SpendOnFile(i) ==
  LET c == files[i]
      fits == spent + c.size <= SnapshotBytes
      room == IF spent < SnapshotBytes THEN SnapshotBytes - spent ELSE 0
      entry == [file |-> i, from |-> FALSE, status |-> "snapshot", form |-> "content",
                chars |-> c.text]
  IN  IF Len(payload.entries) >= SnapshotFiles
      THEN /\ payload' = [payload EXCEPT !.withheld = @ \cup {i}]
           /\ UNCHANGED spent
      ELSE IF fits THEN Carry(entry, c.text, FALSE, FALSE)
      ELSE \E kept \in Slices(c.text, room) :
             IF kept = 0 THEN CutWhole(i) ELSE Carry(entry, kept, TRUE, FALSE)

Spend(i) ==
  /\ InTurn(i)
  /\ IF kind = "changeset" THEN SpendOnChange(i) ELSE SpendOnFile(i)
  /\ unspent' = unspent \ {i}
  /\ UNCHANGED <<kind, files, looked, subject, stage>>

Included(i) == \E k \in DOMAIN payload.entries : payload.entries[k].file = i
Listable ==
  FilesWith({"listed", "listed_withheld"}) \cup (FilesWith({"text"}) \ payload.withheld)

\* The manifest keeps path order whatever order the budget was spent in; past
\* its cap, paths are counted instead of listed.
Assemble ==
  /\ stage = "budgeting" /\ unspent = {}
  /\ LET listed == {i \in Listable : Cardinality({j \in Listable : j < i}) < ManifestEntries}
     IN  payload' = [payload EXCEPT !.manifest = [i \in listed |-> Included(i)],
                                    !.omitted = Cardinality(Listable \ listed)]
  /\ stage' = "collected"
  /\ UNCHANGED <<kind, files, unspent, spent, looked, subject>>

-----------------------------------------------------------------------------
(* The payload cap                                                         *)

\* Canonical bytes: one for every path the payload names, plus the contents.
CanonicalBytes(p) ==
  Cardinality(DOMAIN p.manifest) + Len(p.entries) + Cardinality(p.withheld)
    + FoldLeft(LAMBDA sum, e : sum + e.chars, Len(p.truncated), p.entries)

\* serializeValue takes well-formed strings only, and is called before anything
\* is dropped: a cut in the wrong place refuses the whole capture.
RefuseSplit ==
  /\ stage = "collected" /\ payload.split
  /\ stage' = "malformed"
  /\ UNCHANGED <<kind, files, unspent, spent, payload, looked, subject>>

\* A changeset entry can lose even empty content; a snapshot entry only text.
Removable ==
  {k \in DOMAIN payload.entries :
     IF kind = "changeset" THEN payload.entries[k].form # "cleared"
                           ELSE payload.entries[k].chars > 0}

\* Mutation: the manifest still says the content is there.
ClearSilently(k) ==
  [payload EXCEPT !.entries[k].form = "cleared", !.entries[k].chars = 0,
                  !.truncated = Append(@, payload.entries[k].file)]

\* The entry loses its content, its manifest line says so, and the loss is recorded.
ClearContent(k) ==
  [payload EXCEPT !.entries[k].form = "cleared", !.entries[k].chars = 0,
                  !.truncated = Append(@, payload.entries[k].file),
                  !.manifest = [i \in DOMAIN @ |-> @[i] /\ i # payload.entries[k].file]]

\* Contents go from the end until the payload fits or nothing is left to cut,
\* which is payload_too_large.
DropLastContent ==
  /\ stage = "collected" /\ ~payload.split
  /\ CanonicalBytes(payload) > PayloadBytes
  /\ IF Removable = {}
     THEN stage' = "too_large" /\ UNCHANGED payload
     ELSE /\ \E k \in Removable : /\ \A j \in Removable : j <= k
                                 /\ payload' = ClearContent(k)
          /\ UNCHANGED stage
  /\ UNCHANGED <<kind, files, unspent, spent, looked, subject>>

Transmit ==
  /\ stage = "collected" /\ ~payload.split
  /\ CanonicalBytes(payload) <= PayloadBytes
  /\ stage' = "sent"
  /\ UNCHANGED <<kind, files, unspent, spent, payload, looked, subject>>

-----------------------------------------------------------------------------
(* The server                                                              *)

\* validateManifestEntry and validateChangesetEntry: an origin is valid on a
\* renamed entry only, and a changeset entry has one of three statuses.
ManifestEntryValid(i) ==
  LET c == files[i]
      origin == NamesOrigin(c) \/ (c.from /\ c.rule = "allowed" /\ c.kind = "deleted")
  IN  origin => c.status = "renamed"

ChangesetEntryValid(e) ==
  /\ e.status \in {"added", "modified", "renamed"}
  /\ e.from => e.status = "renamed"

PayloadValid ==
  /\ \A i \in DOMAIN payload.manifest : ManifestEntryValid(i)
  /\ kind = "changeset" =>
       \A k \in DOMAIN payload.entries : ChangesetEntryValid(payload.entries[k])

\* An invalid payload is answered with 400 and nothing is analysed.  The server
\* counts what it admits from zero.
Admit ==
  /\ stage = "sent"
  /\ IF PayloadValid THEN stage' = "capping" /\ spent' = 0
                     ELSE stage' = "rejected" /\ UNCHANGED spent
  /\ UNCHANGED <<kind, files, unspent, payload, looked, subject>>

\* Mutation: an entry that fills the cap exactly is dropped.
OverBudgetAtLimit(chars, limit) == spent + chars >= limit
OverBudget(chars, limit) == spent + chars > limit

Least(a, b) == IF a < b THEN a ELSE b

ContentLimit == IF kind = "changeset" THEN ChangesetChars ELSE SnapshotBytes

\* applyServerCaps: each text is cut to the file cap, and an entry that no
\* longer fits is dropped while later, smaller ones may still fit.
ApplyCaps ==
  /\ stage = "capping" /\ looked < Len(payload.entries)
  /\ LET entry == payload.entries[looked + 1]
         chars == Least(entry.chars, FileBytes)
     IN  IF \/ kind = "snapshot" /\ Len(subject) >= SnapshotFiles
            \/ OverBudget(chars, ContentLimit)
         THEN UNCHANGED <<spent, subject>>
         ELSE /\ spent' = spent + chars
              /\ subject' = Append(subject, [entry EXCEPT !.chars = chars])
  /\ looked' = looked + 1
  /\ UNCHANGED <<kind, files, unspent, payload, stage>>

Analyse ==
  /\ stage = "capping" /\ looked = Len(payload.entries)
  /\ stage' = "admitted"
  /\ UNCHANGED <<kind, files, unspent, spent, payload, looked, subject>>

PayloadNext ==
  \/ Classify \/ (\E i \in unspent : Spend(i)) \/ Assemble
  \/ RefuseSplit \/ DropLastContent \/ Transmit \/ Admit \/ ApplyCaps \/ Analyse

PayloadSpec == PayloadInit /\ [][PayloadNext]_payloadVars

-----------------------------------------------------------------------------
(* Properties                                                              *)

Carried(i) == \E k \in DOMAIN payload.entries :
                payload.entries[k].file = i /\ payload.entries[k].form # "cleared"
Listed(i) == i \in DOMAIN payload.manifest

\* What the developer confirms is what is sent: every file is listed, recorded
\* as withheld or counted as omitted, and a listed file says its content is
\* included exactly when the payload carries it.
ManifestTellsTheTruth ==
  stage \in {"collected", "sent", "rejected", "capping", "admitted"} =>
    \A i \in DOMAIN files :
      /\ Listed(i) \/ i \in payload.withheld \/ payload.omitted > 0
      /\ Listed(i) => (payload.manifest[i] <=> Carried(i))
      /\ Carried(i) => Fate(files[i]) = "text" /\ (Listed(i) \/ payload.omitted > 0)

\* The server accepts every payload the collector builds: what passes the
\* collector's check on origins passes the server's.  The two sides spend the same
\* budgets the same way: the server drops and cuts nothing the client sent, of a
\* snapshot unless redaction made a file longer than it was.
CollectedPayloadsAreAccepted ==
  /\ stage # "rejected"
  /\ stage = "admitted"
     /\ (kind = "changeset" \/ \A i \in DOMAIN files : files[i].text <= files[i].size)
       => subject = payload.entries
=============================================================================
