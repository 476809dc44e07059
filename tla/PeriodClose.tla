----------------------------- MODULE PeriodClose -----------------------------
(***************************************************************************)
(* The guided close of one fiscal period: startSession, advanceSession,     *)
(* skipCurrentStep, abortSession and the step handlers                      *)
(* (accounting/period-close/period-close.service.ts) over markStepRunning   *)
(* and the two updates of markStepResult (period-close.repository.ts), next *)
(* to the unguided close and reopen of fiscal-period.resource.ts.           *)
(*                                                                          *)
(* A press is one run of an endpoint.  It loads the session once and works  *)
(* on the index it saw; other presses run at every await, and the process   *)
(* may die there.  The journals, statements, stock, returns and certificates*)
(* that the gates count are reduced to "some is left open".                 *)
(***************************************************************************)
EXTENDS Integers, Sequences, FiniteSets

CONSTANTS
    Press,      \* the presses that can be under way at once
    Ladder,     \* the step ladder: DEFAULT_PERIOD_CLOSE_STEPS or a part of it
    MaxSessions \* bound: how many sessions are ever created

StepKey == {"validate_drafts", "trial_balance", "bank_reconcile", "validate_settlements",
            "validate_clearing_balance", "validate_costing", "validate_negative_stock",
            "validate_open_pos_shifts", "validate_withholding", "validate_mushak",
            "validate_open_returns", "close_period", "archive"}

\* The steps that throw while their count is not zero.  validate_open_pos_shifts
\* is none: it counts in the collection `shifts', the shifts are in `pos_shifts'.
Gate == StepKey \ {"trial_balance", "bank_reconcile", "validate_open_pos_shifts",
                    "close_period", "archive"}

ASSUME PeriodConstants ==
    /\ Ladder \in Seq(StepKey)
    /\ Len(Ladder) > 0
    /\ MaxSessions \in Nat \ {0}

Session == 1 .. MaxSessions
StepNo  == 1 .. Len(Ladder)

VARIABLES
    closed,   \* the period's closed flag
    leftOpen, \* the gates whose count is not zero
    session,  \* status of each session
    index,    \* its currentStepIndex (the code counts from 0)
    skipped,  \* its steps with a skipReason
    press,    \* where each press is, and the session and index it loaded
    passed,   \* history: the steps whose handler returned, per session
    moves     \* history: how often each step advanced the index

books    == <<closed, leftOpen>>
document == <<session, index, skipped>>
periodVars == <<books, document, press, passed, moves>>

SessionStatus == {"none", "in_progress", "completed", "aborted"}
PressPlace    == {"idle", "aborting", "creating", "marking", "handling", "won", "lost",
                  "skipping", "moving"}

Idle == [pc |-> "idle", session |-> 1, index |-> 1]

PeriodInit ==
    /\ closed   = FALSE
    /\ leftOpen \in SUBSET {Ladder[i] : i \in {j \in StepNo : Ladder[j] \in Gate}}
    /\ session  = [s \in Session |-> "none"]
    /\ index    = [s \in Session |-> 1]
    /\ skipped  = [s \in Session |-> {}]
    /\ press    = [p \in Press |-> Idle]
    /\ passed   = [s \in Session |-> {}]
    /\ moves    = [s \in Session |-> [i \in StepNo |-> 0]]

PressGoTo(p, from, to) ==
    /\ press[p].pc = from
    /\ press' = [press EXCEPT ![p] = IF to = "idle" THEN Idle ELSE [@ EXCEPT !.pc = to]]

InProgress == {s \in Session : session[s] = "in_progress"}
-----------------------------------------------------------------------------
\* startSession: a closed period is a 409 ...
StartLoad(p) ==
    /\ ~closed
    /\ PressGoTo(p, "idle", "aborting")
    /\ UNCHANGED <<books, document, passed, moves>>

\* ... the session in progress, if any, is aborted ...
StartAborts(p) ==
    /\ PressGoTo(p, "aborting", "creating")
    /\ session' = [s \in Session |-> IF s \in InProgress THEN "aborted" ELSE session[s]]
    /\ UNCHANGED <<books, index, skipped, passed, moves>>

\* ... and a fresh one inserted, unless another start was quicker: the unique
\* index one_inprogress_per_period then refuses it.
StartCreates(p) ==
    \E s \in Session :
        /\ session[s] = "none"
        /\ \A t \in 1 .. (s - 1) : session[t] # "none"
        /\ InProgress = {}
        /\ PressGoTo(p, "creating", "idle")
        /\ session' = [session EXCEPT ![s] = "in_progress"]
        /\ UNCHANGED <<books, index, skipped, passed, moves>>

StartLosesRace(p) ==
    /\ InProgress # {}
    /\ PressGoTo(p, "creating", "idle")
    /\ UNCHANGED <<books, document, passed, moves>>
-----------------------------------------------------------------------------
\* The load that advance and skip begin with: 409 unless in progress, and
\* past the last step the session is answered as it is.
Loads(p, to) ==
    \E s \in InProgress :
        /\ index[s] <= Len(Ladder)
        /\ press[p].pc = "idle"
        /\ press' = [press EXCEPT ![p] = [pc |-> to, session |-> s, index |-> index[s]]]
        /\ UNCHANGED <<books, document, passed, moves>>

AdvanceLoad(p) == Loads(p, "marking")
SkipLoad(p)    == Loads(p, "skipping")

\* The statuses of the steps steer nothing: markStepRunning is an await.
MarkRunning(p) ==
    /\ PressGoTo(p, "marking", "handling")
    /\ UNCHANGED <<books, document, passed, moves>>

\* The handler of the loaded step returns: a gate only when it counts nothing.
\* closeFiscalPeriod (a package) closes the period; on a closed one it may
\* answer or throw.
HandlerReturns(p) ==
    LET key == Ladder[press[p].index]
    IN  /\ key \in Gate => key \notin leftOpen
        /\ PressGoTo(p, "handling", "won")
        /\ closed' = (closed \/ key = "close_period")
        /\ passed' = [passed EXCEPT ![press[p].session] = @ \cup {press[p].index}]
        /\ UNCHANGED <<leftOpen, document, moves>>

HandlerThrows(p) ==
    /\ PressGoTo(p, "handling", "lost")
    /\ UNCHANGED <<books, document, passed, moves>>

\* markStepResult, the first update.
ResultSuccess(p) ==
    /\ PressGoTo(p, "won", "moving")
    /\ UNCHANGED <<books, document, passed, moves>>

\* Mutant: a failed step moves on as well.
ResultFailedMoves(p) ==
    /\ PressGoTo(p, "lost", "moving")
    /\ UNCHANGED <<books, document, passed, moves>>

ResultFailed(p) ==
    /\ PressGoTo(p, "lost", "idle")
    /\ UNCHANGED <<books, document, passed, moves>>

ResultSkipped(p) ==
    /\ PressGoTo(p, "skipping", "moving")
    /\ skipped' = [skipped EXCEPT ![press[p].session] = @ \cup {press[p].index}]
    /\ UNCHANGED <<books, session, index, passed, moves>>

\* markStepResult, the second update: $inc on whatever the index is now, and
\* "completed" when the index the press loaded is the last one.
Moves(p) ==
    LET s == press[p].session
        i == press[p].index
    IN  /\ PressGoTo(p, "moving", "idle")
        /\ index' = [index EXCEPT ![s] = @ + 1]
        /\ session' = IF i = Len(Ladder)
                      THEN [session EXCEPT ![s] = "completed"] ELSE session
        /\ moves' = [moves EXCEPT ![s][i] = @ + 1]
        /\ UNCHANGED <<books, skipped, passed>>
-----------------------------------------------------------------------------
\* abortSession: one update filtered on in_progress.
AbortSession ==
    \E s \in InProgress :
        /\ session' = [session EXCEPT ![s] = "aborted"]
        /\ UNCHANGED <<books, index, skipped, press, passed, moves>>

PressDies(p) ==
    /\ press[p].pc # "idle"
    /\ press' = [press EXCEPT ![p] = Idle]
    /\ UNCHANGED <<books, document, passed, moves>>

\* PATCH /fiscal-periods/:id/close and /reopen.
CloseDirectly ==
    /\ ~closed
    /\ closed' = TRUE
    /\ UNCHANGED <<leftOpen, document, press, passed, moves>>

Reopen ==
    /\ closed
    /\ closed' = FALSE
    /\ UNCHANGED <<leftOpen, document, press, passed, moves>>

\* The books go on changing: work is left open or settled.
WorkChanges ==
    \E g \in {Ladder[i] : i \in StepNo} \cap Gate :
        /\ leftOpen' = IF g \in leftOpen THEN leftOpen \ {g} ELSE leftOpen \cup {g}
        /\ UNCHANGED <<closed, document, press, passed, moves>>

PressStep(p) ==
    \/ StartLoad(p) \/ StartAborts(p) \/ StartCreates(p) \/ StartLosesRace(p)
    \/ AdvanceLoad(p) \/ SkipLoad(p) \/ MarkRunning(p)
    \/ HandlerReturns(p) \/ HandlerThrows(p)
    \/ ResultSuccess(p) \/ ResultFailed(p) \/ ResultSkipped(p) \/ Moves(p)
    \/ PressDies(p)

PeriodNext ==
    \/ \E p \in Press : PressStep(p)
    \/ AbortSession
    \/ CloseDirectly
    \/ Reopen
    \/ WorkChanges

PeriodSpec == PeriodInit /\ [][PeriodNext]_periodVars
-----------------------------------------------------------------------------
PeriodTypeOK ==
    /\ closed   \in BOOLEAN
    /\ leftOpen \subseteq Gate
    /\ session  \in [Session -> SessionStatus]
    /\ index    \in [Session -> Nat \ {0}]
    /\ skipped  \in [Session -> SUBSET StepNo]
    /\ press    \in [Press -> [pc : PressPlace, session : Session, index : StepNo]]
    /\ passed   \in [Session -> SUBSET StepNo]
    /\ moves    \in [Session -> [StepNo -> Nat]]

\* Unless two presses finished the same step, a session walks its ladder one
\* step at a time: it moves past a step only after that step's handler
\* returned, its count zero, or after a skip with a reason, and it is
\* completed exactly when the last step was moved past, aborted in between
\* or not.
Overtaken(s) == \E i \in StepNo : moves[s][i] > 1

LadderWalked ==
    \A s \in Session : ~Overtaken(s) =>
        /\ \A i \in StepNo : i < index[s] => i \in passed[s] \cup skipped[s]
        /\ session[s] = "completed" <=> index[s] > Len(Ladder)

\* period-close.model.ts:25: "Skipping requires a documented `skipReason`."
SkipsAreDocumented ==
    \A s \in Session : session[s] = "completed" =>
        \A i \in StepNo : i \in passed[s] \cup skipped[s]
=============================================================================
