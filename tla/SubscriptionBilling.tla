------------------------ MODULE SubscriptionBilling ------------------------
(***************************************************************************)
(* One subscription with a billing date: processBillingDue                  *)
(* (payments/subscription/cron/process-billing-due.ts) and the actions      *)
(* pause, resume and cancel (actions/subscription.actions.ts).  Sweeps are  *)
(* steps of a streamline workflow that every replica starts under one key,  *)
(* but a step taken for dead is run again and its REST resource starts      *)
(* further runs, so that they may overlap.                                  *)
(*                                                                          *)
(* A date is a day; Interval is metadata.intervalDays, which nobody         *)
(* changes.  renewalCount steers nothing and is left out.                   *)
(***************************************************************************)
EXTENDS Naturals, FiniteSets

CONSTANTS
    Biller,   \* the sweeps that can be under way at once
    Resumer,  \* the resume calls that can be
    Interval, \* the days of a cycle
    First,    \* the billing date the subscription is created with
    Horizon,  \* bound: the last day
    MaxDates  \* bound: the dates set otherwise than by a sweep

ASSUME BillingConstants ==
    /\ Interval \in Nat \ {0}
    /\ Horizon \in Nat
    /\ First \in 0 .. (Horizon + Interval)
    /\ MaxDates \in Nat

Day  == 0 .. Horizon
Date == 0 .. (Horizon + Interval)

VARIABLES
    today,
    subStatus, \* status and isActive of the subscription
    nextDate,  \* metadata.nextBillingDate
    bills,     \* the dates with a transaction: one per idempotency key
    biller,    \* where each sweep is, and the date it loaded
    resumer,   \* where each resume is, and the day it made the subscription active
    anchors,   \* history: the dates set by the creation, a resume or by hand
    crossed    \* history: a date was set by hand, or by a resume with a sweep around

billingVars == <<today, subStatus, nextDate, bills, biller, resumer, anchors, crossed>>

Resting  == [pc |-> "idle", date |-> 0]
NoResume  == [pc |-> "idle", since |-> 0]

BillingInit ==
    /\ today     = 0
    /\ subStatus = "active"
    /\ nextDate  = First
    /\ bills     = {}
    /\ biller    = [b \in Biller |-> Resting]
    /\ resumer   = [r \in Resumer |-> NoResume]
    /\ anchors   = {First}
    /\ crossed   = FALSE

BillerGoTo(b, from, to) ==
    /\ biller[b].pc = from
    /\ biller' = [biller EXCEPT ![b] = IF to = "idle" THEN Resting ELSE [@ EXCEPT !.pc = to]]

Sweeping   == \E b \in Biller : biller[b].pc # "idle"
Reanchored == \E r \in Resumer : resumer[r].pc = "reanchoring"

\* findAll: active and due.
FindDue(b) ==
    /\ subStatus = "active"
    /\ nextDate <= today
    /\ biller[b].pc = "idle"
    /\ biller' = [biller EXCEPT ![b] = [pc |-> "billing", date |-> nextDate]]
    /\ crossed' = (crossed \/ Reanchored)
    /\ UNCHANGED <<today, subStatus, nextDate, bills, resumer, anchors>>

\* The transaction is inserted under the key of its date.
Bill(b) ==
    /\ biller[b].date \notin bills
    /\ BillerGoTo(b, "billing", "advancing")
    /\ bills' = bills \cup {biller[b].date}
    /\ UNCHANGED <<today, subStatus, nextDate, resumer, anchors, crossed>>

\* The key was used: the repository (a package) hands back the transaction ...
BillDeduplicated(b) ==
    /\ biller[b].date \in bills
    /\ BillerGoTo(b, "billing", "advancing")
    /\ UNCHANGED <<today, subStatus, nextDate, bills, resumer, anchors, crossed>>

\* Mutant: a failing create is taken for a duplicate.
BillFailsAdvances(b) ==
    /\ BillerGoTo(b, "billing", "advancing")
    /\ UNCHANGED <<today, subStatus, nextDate, bills, resumer, anchors, crossed>>

\* ... or throws, as for any other error, stored or not: logged, and on to the
\* next subscription.
BillFails(b) ==
    /\ BillerGoTo(b, "billing", "idle")
    /\ \/ UNCHANGED bills
       \/ bills' = bills \cup {biller[b].date}
    /\ UNCHANGED <<today, subStatus, nextDate, resumer, anchors, crossed>>

\* Mutant: the interval that was billed is counted twice.
AdvanceTwice(b) ==
    /\ BillerGoTo(b, "advancing", "idle")
    /\ nextDate' = biller[b].date + 2 * Interval
    /\ UNCHANGED <<today, subStatus, bills, resumer, anchors, crossed>>

\* One interval after the date this sweep loaded, not the one stored by now.
AdvanceDate(b) ==
    /\ BillerGoTo(b, "advancing", "idle")
    /\ nextDate' = biller[b].date + Interval
    /\ UNCHANGED <<today, subStatus, bills, resumer, anchors, crossed>>

SweepDies(b) ==
    /\ BillerGoTo(b, "advancing", "idle")
    /\ UNCHANGED <<today, subStatus, nextDate, bills, resumer, anchors, crossed>>

DayPasses ==
    /\ today < Horizon
    /\ today' = today + 1
    /\ UNCHANGED <<subStatus, nextDate, bills, biller, resumer, anchors, crossed>>

-----------------------------------------------------------------------------
\* pause and cancel leave the date alone.
Pause ==
    /\ subStatus = "active"
    /\ subStatus' = "paused"
    /\ UNCHANGED <<today, nextDate, bills, biller, resumer, anchors, crossed>>

CancelSub ==
    /\ subStatus # "cancelled"
    /\ subStatus' = "cancelled"
    /\ UNCHANGED <<today, nextDate, bills, biller, resumer, anchors, crossed>>

\* resume makes it active; with extendPeriod that is all ...
Resume(r) ==
    /\ subStatus = "paused"
    /\ resumer[r].pc = "idle"
    /\ subStatus' = "active"
    /\ \/ UNCHANGED resumer
       \/ resumer' = [resumer EXCEPT ![r] = [pc |-> "reanchoring", since |-> today]]
    /\ UNCHANGED <<today, nextDate, bills, biller, anchors, crossed>>

\* A date that does not come from a sweep.
SetDate(d) ==
    /\ Cardinality(anchors) <= MaxDates
    /\ nextDate' = d
    /\ anchors'  = anchors \cup {d}

\* ... otherwise a second write moves the date to an interval from now, over
\* whatever a sweep wrote or is about to write.
Reanchor(r) ==
    /\ resumer[r].pc = "reanchoring"
    /\ \E now \in resumer[r].since .. today : SetDate(now + Interval)
    /\ resumer' = [resumer EXCEPT ![r] = NoResume]
    /\ crossed' = (crossed \/ Sweeping)
    /\ UNCHANGED <<today, subStatus, bills, biller>>

ReanchorFails(r) ==
    /\ resumer[r].pc = "reanchoring"
    /\ resumer' = [resumer EXCEPT ![r] = NoResume]
    /\ UNCHANGED <<today, subStatus, nextDate, bills, biller, anchors, crossed>>

\* An update of the subscription: metadata is the client's to change.
Reschedule ==
    /\ \E d \in Date : SetDate(d)
    /\ crossed' = TRUE
    /\ UNCHANGED <<today, subStatus, bills, biller, resumer>>

BillingNext ==
    \/ \E b \in Biller :
           \/ FindDue(b) \/ Bill(b) \/ BillDeduplicated(b) \/ BillFails(b)
           \/ AdvanceDate(b) \/ SweepDies(b)
    \/ \E r \in Resumer : Resume(r) \/ Reanchor(r) \/ ReanchorFails(r)
    \/ DayPasses \/ Pause \/ CancelSub \/ Reschedule

BillingSpec == BillingInit /\ [][BillingNext]_billingVars
-----------------------------------------------------------------------------
BillingTypeOK ==
    /\ today \in Day
    /\ subStatus \in {"active", "paused", "cancelled"}
    /\ nextDate \in Date
    /\ bills \subseteq Day
    /\ biller \in [Biller -> [pc : {"idle", "billing", "advancing"}, date : Day]]
    /\ resumer \in [Resumer -> [pc : {"idle", "reanchoring"}, since : Day]]
    /\ anchors \subseteq Date
    /\ crossed \in BOOLEAN

\* A date follows a billed one, or somebody set it.
Chained(n) == n \in anchors \/ \E m \in bills : n = m + Interval

\* No cycle is given away and none is charged twice, however sweeps overlap,
\* die between the bill and the date, or write an old date back.  Only the
\* creation, a resume and finance start a count anew: any other date, billed or
\* next to bill, comes one interval after a billed one.  And as long as no date
\* is set by hand or by a resume with a sweep around, bills are never closer
\* than an interval, whatever resumes in between.
NoCycleForFree ==
    /\ \A n \in bills \cup {nextDate} : Chained(n)
    /\ crossed \/ \A m, n \in bills : m < n => m + Interval <= n
=============================================================================
