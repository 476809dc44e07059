-------------------------- MODULE SettlementImport --------------------------
(***************************************************************************)
(* One imported statement of a payment provider: postImport and             *)
(* cancelImport (accounting/settlement/settlement.service.ts) over          *)
(* createPosting (accounting/posting/posting.service.ts), and the matcher   *)
(* that pins its legs to the clearing lines of posted sales and reconciles  *)
(* it, next to the manual pin of finance (settlement-matcher.service.ts).   *)
(*                                                                          *)
(* Every update is unconditional: it relies on what its call loaded.        *)
(***************************************************************************)
EXTENDS Naturals, FiniteSets

CONSTANTS
    Officer, \* the calls that can be under way at once
    Leg,     \* the legs of the statement
    Line,    \* the clearing lines of the posted sales entries
    Fits,    \* which line is a candidate for which leg
    NoLine   \* "unmatched"

ASSUME SettlementConstants ==
    /\ Fits \subseteq Leg \X Line
    /\ NoLine \notin Line

VARIABLES
    import,     \* its status and whether reconciledAt is set
    entry,      \* the journal entry with its key exists
    pinned,     \* the line each leg is matched to
    officer,    \* where each call is; a matcher's legs to do, lines it claimed, pick
    halfPosted, \* history: a posting was cut off between entry and status
    raced,      \* history: posts or cancels of this import overlapped
    pinRaced    \* history: a matcher overlapped another one, or finance pinned by hand

settlementVars == <<import, entry, pinned, officer, halfPosted, raced, pinRaced>>

ImportStatus == {"pending", "posted", "reconciled", "cancelled"}
OfficerPlace == {"idle", "booking", "posting", "cancelling", "matching", "pinning",
                 "closing", "reconciling"}

AtDesk == [pc |-> "idle", todo |-> {}, claimed |-> {}, pick |-> NoLine]

SettlementInit ==
    /\ import  = [status |-> "pending", reconciledAt |-> FALSE]
    /\ entry   = FALSE
    /\ pinned  = [l \in Leg |-> NoLine]
    /\ officer = [o \in Officer |-> AtDesk]
    /\ halfPosted = FALSE
    /\ raced    = FALSE
    /\ pinRaced = FALSE

OfficerGoTo(o, from, to) ==
    /\ officer[o].pc = from
    /\ officer' = [officer EXCEPT ![o] = IF to = "idle" THEN AtDesk ELSE [@ EXCEPT !.pc = to]]

Busy(places) == \E o \in Officer : officer[o].pc \in places

\* Mutant: the status is not checked.
LoadsAny(o, to) ==
    /\ OfficerGoTo(o, "idle", to)
    /\ raced' = (raced \/ Busy({"booking", "posting", "cancelling"}))
    /\ UNCHANGED <<import, entry, pinned, halfPosted, pinRaced>>

\* Neither posted nor reconciled.
LoadsOpen(o, to) ==
    /\ import.status \notin {"posted", "reconciled"}
    /\ OfficerGoTo(o, "idle", to)
    /\ raced' = (raced \/ Busy({"booking", "posting", "cancelling"}))
    /\ UNCHANGED <<import, entry, pinned, halfPosted, pinRaced>>

PostLoad(o)   == import.status # "cancelled" /\ LoadsOpen(o, "booking")
CancelImportLoad(o) == LoadsOpen(o, "cancelling")

\* createPosting: the ledger keeps one entry per settlement-<importId>.
BookEntry(o) ==
    /\ OfficerGoTo(o, "booking", "posting")
    /\ entry' = TRUE
    /\ UNCHANGED <<import, pinned, halfPosted, raced, pinRaced>>

SetStatus(o, from, status) ==
    /\ OfficerGoTo(o, from, "idle")
    /\ import' = [import EXCEPT !.status = status]
    /\ UNCHANGED <<entry, pinned, halfPosted, raced, pinRaced>>

MarkPosted(o)    == SetStatus(o, "posting", "posted")
MarkCancelled(o) == SetStatus(o, "cancelling", "cancelled")

\* An error or the death of the process ends a call at any await.
OfficerFails(o) ==
    /\ officer[o].pc # "idle"
    /\ OfficerGoTo(o, officer[o].pc, "idle")
    /\ halfPosted' = (halfPosted \/ officer[o].pc = "posting")
    /\ UNCHANGED <<import, entry, pinned, raced, pinRaced>>
-----------------------------------------------------------------------------
\* matchSettlementLegs: the unmatched legs of the statement, whatever its
\* status.  Without any the run goes on only if another statement has some.
MatchLoad(o) ==
    /\ officer[o].pc = "idle"
    /\ officer' = [officer EXCEPT ![o] =
                     [AtDesk EXCEPT !.pc = "matching", !.todo = {l \in Leg : pinned[l] = NoLine}]]
    /\ pinRaced' = (pinRaced \/ Busy({"matching", "pinning", "closing", "reconciling"}))
    /\ UNCHANGED <<import, entry, pinned, halfPosted, raced>>

\* Mutant: only the claims of this run are left out.
FreeInRun(o, l) == {k \in Line : <<l, k>> \in Fits} \ officer[o].claimed

\* The candidates of a leg that neither this run nor a persisted leg claims.
Free(o, l) == {k \in Line : <<l, k>> \in Fits} \ (officer[o].claimed \cup {pinned[m] : m \in Leg})

\* A leg with one free candidate is picked; with none or several it is left.
MatchLeg(o) ==
    \E l \in officer[o].todo :
        /\ officer[o].pc = "matching"
        /\ \/ \E k \in Free(o, l) :
                  /\ Free(o, l) = {k}
                  /\ officer' = [officer EXCEPT ![o].pc = "pinning", ![o].pick = <<l, k>>,
                                   ![o].todo = @ \ {l}, ![o].claimed = @ \cup {k}]
           \/ /\ Cardinality(Free(o, l)) # 1
              /\ officer' = [officer EXCEPT ![o].todo = @ \ {l}]
        /\ UNCHANGED <<import, entry, pinned, halfPosted, raced, pinRaced>>

\* The update is not filtered on the leg being unmatched still.
PinLeg(o) ==
    /\ officer[o].pc = "pinning"
    /\ pinned' = [pinned EXCEPT ![officer[o].pick[1]] = officer[o].pick[2]]
    /\ officer' = [officer EXCEPT ![o] = [@ EXCEPT !.pc = "matching", !.pick = NoLine]]
    /\ UNCHANGED <<import, entry, halfPosted, raced, pinRaced>>

MatchEnds(o) ==
    /\ officer[o].todo = {}
    /\ OfficerGoTo(o, "matching", "closing")
    /\ UNCHANGED <<import, entry, pinned, halfPosted, raced, pinRaced>>

\* markReconciledImports reads the posted imports ...
FindMatched(o) ==
    /\ OfficerGoTo(o, "closing",
           IF /\ import = [status |-> "posted", reconciledAt |-> FALSE]
              /\ \A l \in Leg : pinned[l] # NoLine
           THEN "reconciling" ELSE "idle")
    /\ UNCHANGED <<import, entry, pinned, halfPosted, raced, pinRaced>>

\* ... and updates them by id.
Reconcile(o) ==
    /\ OfficerGoTo(o, "reconciling", "idle")
    /\ import' = [status |-> "reconciled", reconciledAt |-> TRUE]
    /\ UNCHANGED <<entry, pinned, halfPosted, raced, pinRaced>>

\* manualMatchLeg: any line, one update, no check.
PinByHand ==
    \E l \in Leg, k \in Line :
        /\ pinned' = [pinned EXCEPT ![l] = k]
        /\ pinRaced' = TRUE
        /\ UNCHANGED <<import, entry, officer, halfPosted, raced>>

SettlementNext ==
    \/ \E o \in Officer :
           \/ PostLoad(o) \/ CancelImportLoad(o) \/ BookEntry(o) \/ MarkPosted(o)
           \/ MarkCancelled(o) \/ OfficerFails(o)
           \/ MatchLoad(o) \/ MatchLeg(o) \/ PinLeg(o) \/ MatchEnds(o)
           \/ FindMatched(o) \/ Reconcile(o)
    \/ PinByHand

SettlementSpec == SettlementInit /\ [][SettlementNext]_settlementVars
-----------------------------------------------------------------------------
SettlementTypeOK ==
    /\ import \in [status : ImportStatus, reconciledAt : BOOLEAN]
    /\ entry \in BOOLEAN
    /\ pinned \in [Leg -> Line \cup {NoLine}]
    /\ officer \in [Officer -> [pc : OfficerPlace, todo : SUBSET Leg, claimed : SUBSET Line,
                                pick : (Leg \X Line) \cup {NoLine}]]
    /\ halfPosted \in BOOLEAN
    /\ raced \in BOOLEAN
    /\ pinRaced \in BOOLEAN

\* The statement and the ledger tell the same story: a posted or reconciled
\* statement has its entry, a reconciled one is never reopened, and a
\* cancelled one has no entry, unless posts and cancels of it overlapped or a
\* posting was cut off after the entry.
BooksAgree ==
    /\ import.status \in {"posted", "reconciled"} => entry
    /\ ~raced => (import.reconciledAt => import.status = "reconciled")
    /\ ~raced /\ ~halfPosted => (import.status = "cancelled" => ~entry)

\* settlement-matcher.service.ts:24: a line already pinned by another leg is
\* left out.  That holds for one matcher run after another, however often they
\* fail half way; not next to another run or a manual pin.
LinesPinnedOnce ==
    ~pinRaced => \A l, m \in Leg : pinned[l] = pinned[m] /\ pinned[l] # NoLine => l = m
=============================================================================
