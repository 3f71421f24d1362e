------------------------------ MODULE MCRequests ------------------------------
(***************************************************************************)
(* What the server does with a request: the submission of a review of a    *)
(* pull request's head, the gate of the workspace reviews and the analysis *)
(* of one, which is where something must eventually happen.  They share no *)
(* state: Init chooses which one a behaviour is about, and the others      *)
(* stand still.                                                            *)
(***************************************************************************)
EXTENDS ReviewSubmission, WorkspaceReviewGate, WorkspaceAnalysis, TLC

CONSTANTS push, pushAgain, rerun, rerunAgain, d1, d2, d3, j1, j2, canonical, checkRun

VARIABLE part

requestVars == <<vars, gateVars, analysisVars, part>>

-----------------------------------------------------------------------------
(* The calls that submit a review.                                         *)

\* A webhook and its redelivery, a rerun of the check and a second delivery of
\* the same click.
MCSubmissionOf == (push :> d1) @@ (pushAgain :> d1) @@ (rerun :> d2) @@ (rerunAgain :> d3)

MCKeysOf ==
  (push :> <<canonical, d1>>) @@ (pushAgain :> <<canonical, d1>>) @@
  (rerun :> <<d2, checkRun>>) @@ (rerunAgain :> <<d3, checkRun>>)
-----------------------------------------------------------------------------
(* A component that stands still.                                          *)

NoSubmission ==
  /\ guard = None /\ setter = None /\ alias = [k \in Key |-> None]
  /\ status = [j \in Job |-> "absent"] /\ releasing = {} /\ attached = {}
  /\ pc = [c \in Call |-> "done"] /\ seen = [c \in Call |-> None]
  /\ job = [c \in Call |-> None] /\ faults = 0

NoGate ==
  /\ handling = [r \in Request |-> "out"] /\ used = 0
  /\ slots = 0 /\ expires = FALSE /\ timed = {}
  /\ leaked = 0 /\ wiped = FALSE /\ gateFaults = 0

NoAnalysis ==
  /\ now = 0 /\ phase = "settled" /\ stream = FALSE /\ attempt = 0
  /\ timers = [deadline |-> 0, attempt |-> 0]
  /\ dataAt = 0 /\ acc = EmptyAccumulator /\ pending = Nil
  /\ tried = [i \in Attempts |-> Nil]
  /\ routing = [ignore |-> {}, correction |-> Nil]
  /\ notes = [retryReason |-> Nil, retrySkipped |-> FALSE]
  /\ outcome = "idle" /\ wire = SilentWire(0)

-----------------------------------------------------------------------------
RequestInit ==
  /\ part \in {"submission", "gate", "analysis"}
  /\ IF part = "submission" THEN Init ELSE NoSubmission
  /\ IF part = "gate" THEN GateInit ELSE NoGate
  /\ IF part = "analysis" THEN AnalysisInit ELSE NoAnalysis

\* The two deliveries of one webhook, and the ids of new jobs, are used in one
\* order: the other is the same but for the names.  A fault takes the place of
\* the second delivery of the rerun.
InOneOrder ==
  /\ pc[pushAgain] # "new" => pc[push] # "new"
  /\ status[j2] # "absent" => status[j1] # "absent"
  /\ faults > 0 => pc[rerunAgain] = "new"

RequestNext ==
  /\ \/ part = "submission" /\ Next /\ InOneOrder' /\ UNCHANGED <<gateVars, analysisVars>>
     \/ part = "gate" /\ GateNext /\ UNCHANGED <<vars, analysisVars>>
     \/ part = "analysis" /\ AnalysisNext /\ UNCHANGED <<vars, gateVars>>
  /\ UNCHANGED part

\* A component that stands still can make no step that its fairness asks for.
RequestSpec ==
  RequestInit /\ [][RequestNext]_requestVars /\ Fairness /\ GateFairness /\ AnalysisFairness
=============================================================================
