--------------------------- MODULE WorkspaceSubmit ---------------------------
(***************************************************************************)
(* One `ternary review`: runCli, the confirmation race of submit.ts, the   *)
(* exchange of transmit.ts with its own timeout, and the handler at the    *)
(* other end.  What is captured is WorkspacePayload's business, what the   *)
(* analysis does WorkspaceAnalysis'.  Clocks are discrete; the network may *)
(* delay, break and garble what it carries.                                *)
(***************************************************************************)
EXTENDS Integers, FiniteSets

CONSTANTS
  ConfirmTimeout,   \* CONFIRM_TIMEOUT_MS
  ClientTimeout,    \* DEFAULT_TIMEOUT_MS
  ServerDeadline    \* WORKSPACE_REVIEW_DEADLINE_MS

ASSUME SubmitTimesAssumption ==
  ConfirmTimeout \in Nat \ {0} /\ ServerDeadline \in Nat /\ ClientTimeout \in Nat

VARIABLES
  options,     \* [dryRun, yes, tty, configured, token]
  accepted,    \* the server's two token slots: [current, next]
  cli,         \* "collecting", "confirming", "committed", "waiting", "exited"
  interrupted, \* SIGINT was received
  exitCode,    \* what handleError or runSubmit returned, by its reason
  clock,       \* since the prompt, then since the request was sent
  request,     \* "none", "sent", "handled", "answered"
  handledFor,  \* how long the handler has been at it
  reply,       \* the answer on its way back
  lag,         \* ghost: how long the network held the request and the answer
  confirmed,   \* ghost: an explicit "yes" was read
  sentLate     \* ghost: the request left after SIGINT

submitVars == <<options, accepted, cli, interrupted, exitCode, clock, request,
                handledFor, reply, lag, confirmed, sentLate>>
cliVars == <<cli, exitCode>>
serverVars == <<request, handledFor, reply, lag>>

NoToken == "no token"
Tokens == {"first", "second"}

\* parseArgs: --staged and --all only choose what is captured.
SubmitInit ==
  /\ options \in [dryRun : BOOLEAN, yes : BOOLEAN, tty : BOOLEAN,
                  configured : BOOLEAN, token : Tokens]
  /\ accepted \in [current : Tokens \cup {NoToken}, next : Tokens \cup {NoToken}]
  /\ cli = "collecting" /\ interrupted = FALSE /\ exitCode = "running"
  /\ clock = 0 /\ request = "none" /\ handledFor = 0 /\ reply = "none"
  /\ lag = 0 /\ confirmed = FALSE /\ sentLate = FALSE

Exit(code) == cli' = "exited" /\ exitCode' = code

\* Ctrl-C only aborts the signal that the prompt and the transport listen to.
Interrupt ==
  /\ cli # "exited" /\ ~interrupted
  /\ interrupted' = TRUE
  /\ UNCHANGED <<options, accepted, cliVars, clock, serverVars, confirmed, sentLate>>

-----------------------------------------------------------------------------
(* Collecting and confirming                                               *)

BeforeSending == UNCHANGED <<options, accepted, interrupted, serverVars, sentLate>>

\* A dry run and a manifest end with the report.
CollectWorkspace ==
  /\ cli = "collecting"
  /\ \/ Exit("collector_error")
     \/ /\ options.dryRun
        /\ Exit("reported")
     \/ /\ ~options.dryRun /\ ~options.yes
        /\ IF options.tty THEN cli' = "confirming" /\ UNCHANGED exitCode ELSE Exit("usage")
     \/ /\ ~options.dryRun /\ options.yes
        /\ cli' = "committed" /\ UNCHANGED exitCode
  /\ UNCHANGED <<clock, confirmed>> /\ BeforeSending

\* The race of the prompt: a line, the end of stdin, the timer or the signal.
Answered ==
  /\ cli = "confirming"
  /\ \/ confirmed' = TRUE /\ cli' = "committed" /\ UNCHANGED exitCode
     \/ confirmed' = FALSE /\ Exit("usage")
  /\ UNCHANGED clock /\ BeforeSending

PromptTimesOut ==
  /\ cli = "confirming" /\ clock >= ConfirmTimeout
  /\ Exit("usage")
  /\ UNCHANGED <<clock, confirmed>> /\ BeforeSending

PromptInterrupted ==
  /\ cli = "confirming" /\ interrupted
  /\ Exit("aborted")
  /\ UNCHANGED <<clock, confirmed>> /\ BeforeSending

-----------------------------------------------------------------------------
(* The exchange                                                            *)

\* Mutation: a signal that was aborted before the request is not looked at.
PostUnlessUnconfigured ==
  /\ cli = "committed"
  /\ IF ~options.configured
     THEN Exit("usage") /\ UNCHANGED <<clock, request, sentLate>>
     ELSE /\ cli' = "waiting" /\ request' = "sent" /\ clock' = 0
          /\ sentLate' = interrupted /\ UNCHANGED exitCode
  /\ UNCHANGED <<options, accepted, interrupted, handledFor, reply, lag, confirmed>>

\* Endpoint and token are resolved only now; a signal aborted meanwhile fails
\* the fetch before anything is sent.
Post ==
  /\ cli = "committed"
  /\ IF ~options.configured
     THEN Exit("usage") /\ UNCHANGED <<clock, request>>
     ELSE IF interrupted
     THEN Exit("aborted") /\ UNCHANGED <<clock, request>>
     ELSE cli' = "waiting" /\ request' = "sent" /\ clock' = 0 /\ UNCHANGED exitCode
  /\ UNCHANGED <<options, accepted, interrupted, handledFor, reply, lag, confirmed, sentLate>>

InFlight == UNCHANGED <<options, accepted, interrupted, clock, confirmed, sentLate>>

\* classifyTransportError: an abort is the interrupt or the timer, whichever
\* came first; anything else is the network.
TransportBreaks ==
  /\ cli = "waiting"
  /\ \/ interrupted /\ Exit("aborted")
     \/ clock >= ClientTimeout /\ Exit("client_timeout")
     \/ Exit("network_error")
  /\ InFlight /\ UNCHANGED serverVars

\* authenticateWorkspaceReview: the next token counts only beside a current one.
Authenticated(token) ==
  accepted.current # NoToken /\ token \in {accepted.current, accepted.next}

\* The request arrives: 401 before the gate, the gate before the body.
Handle ==
  /\ request = "sent"
  /\ IF ~Authenticated(options.token)
     THEN request' = "answered" /\ reply' = "unauthorized"
     ELSE \/ /\ request' = "answered"
             /\ reply' \in {"rate_limited", "concurrency_ceiling", "gate_unavailable"}
          \/ request' = "handled" /\ UNCHANGED reply
  /\ UNCHANGED <<cliVars, handledFor, lag>> /\ InFlight

\* The analysis answers by the deadline, which counts from the handler's entry.
Respond ==
  /\ request = "handled"
  /\ reply' \in {"model_failure"} \cup
       (IF handledFor >= ServerDeadline THEN {"workspace_review_timeout"}
                                        ELSE {"pass", "findings"})
  /\ request' = "answered"
  /\ UNCHANGED <<cliVars, handledFor, lag>> /\ InFlight

\* The whole body has been read: a verdict counts only if it is a complete
\* result, and every other status is reported by the error it names.
Receive ==
  /\ cli = "waiting" /\ request = "answered"
  /\ \/ Exit(reply)
     \/ Exit("malformed_response")
  /\ InFlight /\ UNCHANGED serverVars

\* Time passes for whoever has the request.  The handler answers on time; the
\* signal and the timers fire before the clock moves on.
Tick ==
  /\ cli \in {"confirming", "waiting"} /\ ~interrupted
  /\ clock < IF cli = "confirming" THEN ConfirmTimeout ELSE ClientTimeout
  /\ request = "handled" => handledFor < ServerDeadline
  /\ clock' = clock + 1
  /\ IF request = "handled" THEN handledFor' = handledFor + 1 /\ UNCHANGED lag
     ELSE lag' = lag + (IF cli = "waiting" THEN 1 ELSE 0) /\ UNCHANGED handledFor
  /\ UNCHANGED <<options, accepted, interrupted, cliVars, request, reply, confirmed, sentLate>>

SubmitNext ==
  \/ Interrupt \/ CollectWorkspace \/ Answered \/ PromptTimesOut \/ PromptInterrupted
  \/ Post \/ TransportBreaks \/ Handle \/ Respond \/ Receive \/ Tick

SubmitSpec == SubmitInit /\ [][SubmitNext]_submitVars

\* The exit code tells what happened: 0 and 1 a verdict the server gave or no
\* submission at all, 2 that nothing was sent, 130 an interrupt.  Nothing is
\* sent without --yes or an explicit yes, nor after an interrupt, and only a
\* slow network turns the server's deadline into the client's own timeout.
ExitTellsWhatHappened ==
  /\ exitCode \in {"pass", "findings"} => reply = exitCode
  /\ exitCode \in {"usage", "reported", "collector_error"} => request = "none"
  /\ exitCode = "aborted" => interrupted
  /\ exitCode = "client_timeout" => lag >= ClientTimeout - ServerDeadline
  /\ request # "none" => ~options.dryRun /\ (options.yes \/ confirmed) /\ ~sentLate
=============================================================================
