--------------------------- MODULE WorkspaceAnswer ---------------------------
(***************************************************************************)
(* From the admitted subject to the advisory result: the server's second   *)
(* redaction, the bounded prompt, the request that a tuning makes of it,   *)
(* and what is kept of the model's answer.  A finding is its key, the file *)
(* it cites, how it spells the path, and its severity; texts are reduced   *)
(* to whether they are English.                                            *)
(***************************************************************************)
EXTENDS Integers, Sequences, FiniteSets, Functions

CONSTANTS
  File,           \* files a finding may name
  FindingKey,            \* finding keys, compared without case
  MaxFindings,    \* policy.maxFindings, WORKSPACE_MAX_FINDINGS on this route
  PromptBudget    \* files whose text the prompt has room for

NoFile == "no file"

ASSUME AnswerBoundsAssumption ==
  MaxFindings \in Nat \ {0} /\ PromptBudget \in Nat
ASSUME FileAssumption == NoFile \notin File

VARIABLES
  entries,    \* the subject: a sequence of [file, from, secret]
  minimum,    \* policy.minimumSeverity
  prompt,     \* the files whose text the model is given
  rewritten,  \* redactionApplied
  body,       \* the routing the request asks for
  raw,        \* the model's answer
  result,     \* what is returned, or why it is refused
  turn        \* "admitted", "asked", "answered", "done"

answerVars == <<entries, minimum, prompt, rewritten, body, raw, result, turn>>

Severities == <<"suggestion", "warning", "blocking">>
Rank(s) == CHOOSE i \in DOMAIN Severities : Severities[i] = s
Spellings == {"exact", "escaping"}

Finding == [key : FindingKey, file : File, spelling : Spellings,
            severity : {"suggestion", "blocking"}]
Findings == UNION {[1 .. n -> Finding] : n \in 0 .. MaxFindings}
NoAnswer == [english |-> TRUE, shaped |-> TRUE, findings |-> <<>>]
NoResult == [outcome |-> "none", findings |-> {}, unknownPath |-> 0, hidden |-> 0]

SubjectEntry(f, from, secret) == [file |-> f, from |-> from, secret |-> secret]

\* A changeset of one renamed file, or a snapshot of one or two.
AnswerInit ==
  /\ \/ \E f \in File, g \in File \cup {NoFile}, s \in BOOLEAN :
          f # g /\ entries = <<SubjectEntry(f, g, s)>>
     \/ \E f, g \in File, s \in BOOLEAN :
          f # g /\ entries = <<SubjectEntry(f, NoFile, s), SubjectEntry(g, NoFile, FALSE)>>
  /\ minimum \in {"suggestion", "warning"}
  /\ prompt = {} /\ rewritten = 0 /\ body = {}
  /\ raw = NoAnswer /\ result = NoResult /\ turn = "admitted"

-----------------------------------------------------------------------------
(* The request                                                             *)

\* redactWorkspaceAnalysisInput: each text is rewritten once, and counted if
\* that changed it.
RedactionApplied == Cardinality({i \in DOMAIN entries : entries[i].secret})

\* boundedSections: texts in order until the budget is spent, the rest counted.
PromptFiles == {entries[i].file : i \in {j \in DOMAIN entries : j <= PromptBudget}}

\* buildWorkspaceModelRequestBody: an order replaces the sort; what is omitted
\* never reaches the wire, since every parameter narrows the provider pool.
RequestBody(sort, order, effort) ==
  {"require_parameters"}
    \cup (IF effort = "omit" THEN {} ELSE {"reasoning"})
    \cup (IF order = "listed" THEN {"order"}
          ELSE IF sort = "omit" THEN {} ELSE {"sort"})

\* A variable that cannot be read refuses the review: an empty one is unset.
Ask ==
  /\ turn = "admitted"
  /\ \E sort \in {"latency", "omit", "bad"}, order \in {"unset", "omit", "listed", "bad"},
        effort \in {"none", "omit", "bad"} :
       IF "bad" \in {sort, order, effort}
       THEN /\ result' = [NoResult EXCEPT !.outcome = "tuning_config"]
            /\ turn' = "done" /\ UNCHANGED <<prompt, rewritten, body>>
       ELSE /\ prompt' = PromptFiles
            /\ rewritten' = RedactionApplied
            /\ body' = RequestBody(sort, order, effort)
            /\ turn' = "asked" /\ UNCHANGED result
  /\ UNCHANGED <<entries, minimum, raw>>

ModelAnswers ==
  /\ turn = "asked"
  /\ \E english, shaped \in BOOLEAN, findings \in Findings :
       /\ (english /\ shaped) \/ findings = <<>>
       /\ raw' = [english |-> english, shaped |-> shaped, findings |-> findings]
  /\ turn' = "answered"
  /\ UNCHANGED <<entries, minimum, prompt, rewritten, body, result>>

-----------------------------------------------------------------------------
(* The answer                                                              *)

\* parseWorkspaceReviewOutput: the shape, which includes that every finding names
\* its place and that there are at most MaxFindings, the language, no key twice.
Refusal ==
  LET keys == {raw.findings[i].key : i \in DOMAIN raw.findings} IN
  IF ~raw.shaped THEN "schema_invalid"
  ELSE IF ~raw.english THEN "language_invalid"
  ELSE IF Cardinality(keys) # Len(raw.findings) THEN "schema_invalid"
  ELSE "none"

\* normalizeFindingPath gives back the path, but for one that leaves the root.
Normalized(f) == IF f.spelling = "escaping" THEN NoFile ELSE f.file

\* buildAllowedFindingPaths: the subject's paths and their origins.
AllowedPaths == {entries[i].file : i \in DOMAIN entries}
                  \cup ({entries[i].from : i \in DOMAIN entries} \ {NoFile})

\* Mutation: a path that leaves the root is kept as it is spelled.
KeepUnresolvable(f) == f.spelling = "escaping" \/ Normalized(f) \in AllowedPaths
PathIsKnown(f) == Normalized(f) \in AllowedPaths

\* The findings kept, by their positions: known paths, then the policy's threshold.
\* Its cap is the one the parser enforces.
Report ==
  LET placed == {i \in DOMAIN raw.findings : PathIsKnown(raw.findings[i])}
      severe == {i \in placed : Rank(raw.findings[i].severity) >= Rank(minimum)}
  IN  [outcome |-> IF severe = {} THEN "pass" ELSE "findings",
       findings |-> {raw.findings[i] : i \in severe},
       unknownPath |-> Len(raw.findings) - Cardinality(placed),
       hidden |-> Cardinality(placed) - Cardinality(severe)]

\* A refused answer may be asked for once more, with a correction and away from
\* the provider; WorkspaceAnalysis decides whether there is time.
Conclude ==
  /\ turn = "answered"
  /\ IF Refusal = "none"
     THEN result' = Report /\ turn' = "done" /\ UNCHANGED <<raw, body>>
     ELSE IF "correction" \in body
     THEN result' = [NoResult EXCEPT !.outcome = Refusal] /\ turn' = "done"
          /\ UNCHANGED <<raw, body>>
     ELSE /\ raw' = NoAnswer
          /\ body' \in {body \cup {"correction"}, body \cup {"correction", "ignore"}}
          /\ turn' = "asked" /\ UNCHANGED result
  /\ UNCHANGED <<entries, minimum, prompt, rewritten>>

AnswerNext == Ask \/ ModelAnswers \/ Conclude

AnswerSpec == AnswerInit /\ [][AnswerNext]_answerVars

\* Nothing that matters is lost and nothing is made up: a reported finding is one
\* of the model's about a file of the subject or the name it was renamed from, every
\* blocking finding about those is reported, "pass" is never said beside one, and
\* what is left out is counted, under the reason it was left out for.
FindingsAreAccountedFor ==
  LET reported == result.findings
      about(f) == f.spelling # "escaping" /\ \E i \in DOMAIN entries :
                    f.file \in {entries[i].file, entries[i].from}
      said == raw.findings
  IN  turn = "done" /\ result.outcome \in {"pass", "findings"} =>
        /\ \A f \in reported : about(f) /\ f \in Range(said)
        /\ \A f \in Range(said) :
             about(f) /\ f.severity = "blocking" => f \in reported /\ result.outcome = "findings"
        /\ result.unknownPath = Cardinality({i \in DOMAIN said : ~about(said[i])})
        /\ result.hidden = Cardinality({i \in DOMAIN said : about(said[i]) /\ said[i] \notin reported})
=============================================================================
