-------------------------- MODULE BackOffice_proof --------------------------
(***************************************************************************)
(* The safety of the approval chain, of the billing sweep and of a          *)
(* settlement import, for any number of approvers, calls, sweeps, days,     *)
(* legs and lines, and at the end of all the desks together.  The stated    *)
(* invariants speak of what is stored; each is made inductive by what the   *)
(* calls under way hold:                                                    *)
(*   Truthful : an approval in any copy of the chain, and the quorum a copy  *)
(*              claims, was given to the submission the copy belongs to;     *)
(*   InTurn   : a sweep works on a date that is due and follows a billed     *)
(*              one, or was set, and moves on only from a billed one;        *)
(*   Uncrossed: as long as no date was set out of turn, all bills since some *)
(*              day a are of one count from a, and no bill is younger than a *)
(*              resume that has not moved the date yet;                      *)
(*   OneClerk : unless a race was noticed, one call at a time changes the    *)
(*              statement's status, on a status that still allows it;        *)
(*   OneRun   : unless a race was noticed, one matcher at a time pins, and   *)
(*              what it is about to pin is pinned by nobody.                 *)
(***************************************************************************)
EXTENDS MCBackOffice, PeriodClose_proof, PosShift_proof, EffectOnce_proof, FiniteSetTheorems, TLAPS

\* Every approval in the copy c, and the quorum it claims, was given to the
\* submission c belongs to: `to` says who approved which.
Given(c, to) ==
    /\ \A a \in Seat : c.verdict[a] = "approved" => c.attempt > 0 /\ a \in to[c.attempt]
    /\ c.status = "approved" => c.attempt > 0 /\ Quorate(c.attempt, to[c.attempt])

Consented(to) == \E n \in 1 .. MaxAttempts : Quorate(n, to[n])

Truthful ==
    /\ Given(chain, sent)
    /\ \A h \in Handler : Given(handler[h].writes, sent)
    /\ \A h \in Handler : handler[h].pc = "approving" => Consented(sent)

ApprovalInv == ApprovalTypeOK /\ Truthful /\ ApprovedByQuorum

LEMMA QuorateGrows ==
    ASSUME NEW n \in 1 .. MaxAttempts, NEW yes, NEW more \in SUBSET Seat,
           yes \subseteq more, Quorate(n, yes)
    PROVE  Quorate(n, more)
  <1> SUFFICES ASSUME NEW s \in ChainStep
      PROVE  Cardinality({a \in more : StepOf[a] = s}) >= Required[n][s]
    BY DEF Quorate
  <1> DEFINE A == {a \in yes : StepOf[a] = s}
             B == {a \in more : StepOf[a] = s}
  <1>1. IsFiniteSet(Seat) /\ B \subseteq Seat /\ A \subseteq B
    BY ApprovalConstants
  <1>2. IsFiniteSet(B)
    BY <1>1, FS_Subset
  <1>3. IsFiniteSet(A) /\ Cardinality(A) <= Cardinality(B)
    BY <1>1, <1>2, FS_Subset
  <1>4. Cardinality(A) \in Nat /\ Cardinality(B) \in Nat
    BY <1>2, <1>3, FS_CardinalityType
  <1>5. Required[n][s] \in Nat /\ Cardinality(A) >= Required[n][s]
    BY ApprovalConstants DEF Quorate
  <1> HIDE DEF A, B
  <1>6. Cardinality(B) >= Required[n][s]
    BY <1>3, <1>4, <1>5
  <1> QED
    BY <1>6 DEF B

\* Approvals are only added.
Grows ==
    /\ sent' \in [1 .. MaxAttempts -> SUBSET Seat]
    /\ \A n \in 1 .. MaxAttempts : sent[n] \subseteq sent'[n]

LEMMA GivenGrows ==
    ASSUME Grows
    PROVE  /\ \A c \in Chain : Given(c, sent) => Given(c, sent')
           /\ Consented(sent) => Consented(sent')
  <1>1. ASSUME NEW n \in 1 .. MaxAttempts, Quorate(n, sent[n]) PROVE Quorate(n, sent'[n])
    BY <1>1, QuorateGrows DEF Grows
  <1>2. \A c \in Chain : c.attempt > 0 => c.attempt \in 1 .. MaxAttempts
    BY ApprovalConstants DEF Chain
  <1>3. ASSUME NEW c \in Chain, Given(c, sent) PROVE Given(c, sent')
    <2>1. ASSUME NEW a \in Seat, c.verdict[a] = "approved"
          PROVE  c.attempt > 0 /\ a \in sent'[c.attempt]
      BY <1>2, <1>3, <2>1 DEF Given, Grows
    <2>2. c.status = "approved" => c.attempt > 0 /\ Quorate(c.attempt, sent'[c.attempt])
      BY <1>1, <1>2, <1>3 DEF Given
    <2> QED
      BY <2>1, <2>2 DEF Given, Quorate
  <1>4. Consented(sent) => Consented(sent')
    BY <1>1 DEF Consented, Quorate
  <1> QED
    BY <1>3, <1>4

LEMMA FreshGiven == \A n \in 0 .. MaxAttempts : Fresh(n) \in Chain /\ Given(Fresh(n), sent)
  BY DEF Fresh, Chain, Verdict, Given

-----------------------------------------------------------------------------
LEMMA ApprovalInitOK == ApprovalInit => ApprovalInv
  <1> SUFFICES ASSUME ApprovalInit PROVE ApprovalInv
    OBVIOUS
  <1>1. Fresh(0) \in Chain /\ Given(Fresh(0), sent)
    BY FreshGiven, ApprovalConstants
  <1>2. ApprovalTypeOK
    <2>1. handler \in [Handler -> [pc : HandlerPlace, writes : Chain]]
      BY <1>1 DEF ApprovalInit, HandlerPlace
    <2>2. attempts \in 0 .. MaxAttempts /\ sent \in [1 .. MaxAttempts -> SUBSET Seat]
      BY ApprovalConstants DEF ApprovalInit
    <2> QED
      BY <1>1, <2>1, <2>2 DEF ApprovalInit, ApprovalTypeOK
  <1>3. Truthful /\ ApprovedByQuorum
    BY <1>1 DEF ApprovalInit, Truthful, ApprovedByQuorum
  <1> QED
    BY <1>2, <1>3 DEF ApprovalInv

\* A call goes somewhere, with the copy c in hand.
LEMMA HandlerMoves ==
    ASSUME ApprovalInv, Grows, NEW h \in Handler, NEW to \in HandlerPlace, NEW c \in Chain,
           handler' = [handler EXCEPT ![h] = [pc |-> to, writes |-> c]],
           Given(c, sent'), to = "approving" => Consented(sent),
           chain' \in Chain, Given(chain', sent')
    PROVE  /\ handler' \in [Handler -> [pc : HandlerPlace, writes : Chain]]
           /\ Truthful'
  <1>0. handler \in [Handler -> [pc : HandlerPlace, writes : Chain]] /\ Truthful
    BY DEF ApprovalInv, ApprovalTypeOK
  <1>1. /\ handler' \in [Handler -> [pc : HandlerPlace, writes : Chain]]
        /\ handler'[h].pc = to /\ handler'[h].writes = c
        /\ \A g \in Handler \ {h} : handler'[g] = handler[g]
    BY <1>0
  <1>2. /\ \A d \in Chain : Given(d, sent) => Given(d, sent')
        /\ Consented(sent) => Consented(sent')
    BY GivenGrows
  <1>3. ASSUME NEW g \in Handler \ {h} PROVE Given(handler'[g].writes, sent')
    <2>1. handler[g].writes \in Chain /\ Given(handler[g].writes, sent)
      BY <1>0 DEF Truthful
    <2>2. Given(handler[g].writes, sent')
      BY <1>2, <2>1
    <2> QED
      BY <1>1, <2>2
  <1>4. \A g \in Handler : handler'[g].pc = "approving" => Consented(sent')
    BY <1>0, <1>1, <1>2 DEF Truthful
  <1>5. \A g \in Handler : Given(handler'[g].writes, sent')
    BY <1>1, <1>3
  <1> QED
    BY <1>1, <1>4, <1>5 DEF Truthful

\* A call computes a chain, and writes it later.
LEMMA ChainComputed ==
    ASSUME ApprovalInv, Grows, NEW h \in Handler, NEW c \in Chain,
           Computes(h, c), Given(c, sent'),
           attempts' \in 0 .. MaxAttempts, UNCHANGED <<poStatus, chain, direct>>
    PROVE  ApprovalInv'
  <1>1. /\ ApprovalTypeOK /\ Truthful /\ ApprovedByQuorum
        /\ handler' = [handler EXCEPT ![h] = [pc |-> "writing", writes |-> c]]
    BY DEF ApprovalInv, Computes
  <1>2. chain \in Chain /\ Given(chain, sent') /\ (Consented(sent) => Consented(sent'))
    BY <1>1, GivenGrows DEF Truthful, ApprovalTypeOK
  <1>3. handler' \in [Handler -> [pc : HandlerPlace, writes : Chain]] /\ Truthful'
    BY <1>1, <1>2, HandlerMoves DEF HandlerPlace
  <1>4. ApprovalTypeOK'
    BY <1>1, <1>3 DEF ApprovalTypeOK, Grows
  <1>5. ApprovedByQuorum'
    BY <1>1, <1>2 DEF ApprovedByQuorum, Consented
  <1> QED
    BY <1>3, <1>4, <1>5 DEF ApprovalInv

LEMMA ApprovalStepOK == ApprovalInv /\ [ApprovalNext]_approvalVars => ApprovalInv'
  <1> SUFFICES ASSUME ApprovalInv, [ApprovalNext]_approvalVars
      PROVE  ApprovalInv'
    OBVIOUS
  <1>0. /\ ApprovalTypeOK /\ Truthful /\ ApprovedByQuorum
        /\ chain \in Chain /\ Given(chain, sent)
        /\ \A h \in Handler : handler[h].writes \in Chain /\ Given(handler[h].writes, sent)
        /\ Fresh(0) \in Chain /\ Given(Fresh(0), sent)
    BY FreshGiven, ApprovalConstants DEF ApprovalInv, ApprovalTypeOK, Truthful
  <1>1. ASSUME NEW h \in Handler, Submit(h) PROVE ApprovalInv'
    <2>1. /\ attempts' = attempts + 1 /\ attempts' \in 0 .. MaxAttempts
          /\ Computes(h, Fresh(attempts'))
          /\ UNCHANGED <<poStatus, chain, sent, direct>>
      BY <1>0, <1>1, ApprovalConstants DEF Submit, ApprovalTypeOK
    <2>2. Fresh(attempts') \in Chain /\ Given(Fresh(attempts'), sent)
      BY <2>1, FreshGiven
    <2>3. Grows
      BY <1>0, <2>1 DEF Grows, ApprovalTypeOK
    <2> QED
      BY <2>1, <2>2, <2>3, ChainComputed
  <1>2. ASSUME NEW h \in Handler, Decide(h) PROVE ApprovalInv'
    <2>1. /\ chain.attempt \in 1 .. MaxAttempts
          /\ attempts \in 0 .. MaxAttempts
          /\ UNCHANGED <<poStatus, chain, attempts, direct>>
      BY <1>0, <1>2, ApprovalConstants DEF Decide, ApprovalTypeOK, Chain
    <2>2. PICK a \in Seat : Approves(h, a) \/ Rejects(h, a)
      BY <1>2 DEF Decide, Seats
    <2>3. CASE Approves(h, a)
      <3> DEFINE yes == Seats(chain, "approved") \cup {a}
                 after == IF Quorate(chain.attempt, yes) THEN "approved" ELSE "pending"
                 c == [chain EXCEPT !.verdict[a] = "approved", !.status = after]
      <3>1. Computes(h, c) /\ sent' = [sent EXCEPT ![chain.attempt] = @ \cup {a}]
        BY <2>3 DEF Approves
      <3>2. Grows /\ a \in sent'[chain.attempt]
        BY <1>0, <2>1, <3>1 DEF Grows, ApprovalTypeOK
      <3>3. yes \subseteq sent'[chain.attempt] /\ sent'[chain.attempt] \in SUBSET Seat
        BY <1>0, <2>1, <3>2 DEF Grows, Given, Seats
      <3>4. after = "approved" => Quorate(chain.attempt, sent'[chain.attempt])
        BY <2>1, <3>3, QuorateGrows
      <3>5. after \in {"approved", "pending"}
        OBVIOUS
      <3> HIDE DEF after
      <3>6. /\ c \in Chain /\ c.attempt = chain.attempt /\ c.status = after
            /\ \A x \in Seat : c.verdict[x] = "approved" => x \in yes
        BY <1>0, <3>5 DEF Chain, Verdict, Seats
      <3> HIDE DEF c, yes
      <3>7. Given(c, sent')
        BY <2>1, <3>3, <3>4, <3>6 DEF Given
      <3> QED
        BY <2>1, <3>1, <3>2, <3>6, <3>7, ChainComputed
    <2>4. CASE Rejects(h, a)
      <3>1. PICK s \in {"pending", "rejected"} :
              Computes(h, [chain EXCEPT !.verdict[a] = "rejected", !.status = s])
        BY <2>4 DEF Rejects
      <3> DEFINE c == [chain EXCEPT !.verdict[a] = "rejected", !.status = s]
      <3>2. Grows /\ sent' = sent
        BY <1>0, <2>4 DEF Rejects, Grows, ApprovalTypeOK
      <3>3. c \in Chain /\ Given(c, sent)
        BY <1>0 DEF Chain, Verdict, Given
      <3> HIDE DEF c
      <3>4. Computes(h, c)
        BY <3>1 DEF c
      <3> QED
        BY <2>1, <3>2, <3>3, <3>4, ChainComputed
    <2> QED
      BY <2>2, <2>3, <2>4
  \* The other steps leave what was approved alone.
  <1>a. ASSUME NEW h \in Handler, NEW to \in HandlerPlace, UNCHANGED <<attempts, sent>>,
               handler' = [handler EXCEPT ![h] = [pc |-> to, writes |-> Fresh(0)]],
               to = "approving" => Consented(sent),
               chain' \in Chain, Given(chain', sent),
               poStatus' \in {"draft", "approved"}, direct' \in BOOLEAN,
               ApprovedByQuorum'
        PROVE  ApprovalInv'
    <2>1. Grows
      BY <1>0, <1>a DEF Grows, ApprovalTypeOK
    <2>2. handler' \in [Handler -> [pc : HandlerPlace, writes : Chain]] /\ Truthful'
      BY <1>0, <1>a, <2>1, HandlerMoves
    <2>3. ApprovalTypeOK'
      BY <1>0, <1>a, <2>2 DEF ApprovalTypeOK
    <2> QED
      BY <1>a, <2>2, <2>3 DEF ApprovalInv
  <1>3. ASSUME NEW h \in Handler, WriteChain(h) \/ HandlerFails(h) PROVE ApprovalInv'
    <2>1. /\ UNCHANGED <<poStatus, attempts, sent, direct>>
          /\ chain' \in {chain, handler[h].writes}
          /\ handler' = [handler EXCEPT ![h] = [pc |-> "idle", writes |-> Fresh(0)]]
      BY <1>3 DEF WriteChain, HandlerFails, HandlerGoTo
    <2>2. ApprovedByQuorum'
      BY <1>0, <2>1 DEF ApprovedByQuorum
    <2> QED
      BY <1>0, <1>a, <2>1, <2>2 DEF ApprovalTypeOK, HandlerPlace
  <1>4. ASSUME NEW h \in Handler, ApproveOrder(h) PROVE ApprovalInv'
    <2>1. PICK to \in {"approving", "approving directly"} :
            /\ to = "approving" => chain.attempt > 0 /\ chain.status = "approved"
            /\ HandlerGoTo(h, to)
      BY <1>4 DEF ApproveOrder
    <2>2. UNCHANGED <<poStatus, chain, attempts, sent, direct>>
      BY <1>4 DEF ApproveOrder
    <2>3. to = "approving" => Consented(sent)
      BY <1>0, <2>1, ApprovalConstants DEF Given, Consented, Chain
    <2>4. handler' = [handler EXCEPT ![h] = [pc |-> to, writes |-> Fresh(0)]]
      BY <2>1 DEF HandlerGoTo
    <2>5. Grows
      BY <1>0, <2>2 DEF Grows, ApprovalTypeOK
    <2>6. handler' \in [Handler -> [pc : HandlerPlace, writes : Chain]] /\ Truthful'
      BY <1>0, <2>2, <2>3, <2>4, <2>5, HandlerMoves DEF HandlerPlace
    <2> QED
      BY <1>0, <2>2, <2>6 DEF ApprovalInv, ApprovalTypeOK, ApprovedByQuorum
  <1>5. ASSUME NEW h \in Handler, SaveOrder(h) PROVE ApprovalInv'
    <2>1. /\ handler[h].pc \in {"approving", "approving directly"}
          /\ poStatus' = "approved"
          /\ direct' = (direct \/ handler[h].pc = "approving directly")
          /\ handler' = [handler EXCEPT ![h] = [pc |-> "idle", writes |-> Fresh(0)]]
          /\ UNCHANGED <<chain, attempts, sent>>
      BY <1>5 DEF SaveOrder, HandlerGoTo
    <2>2. handler[h].pc = "approving" => Consented(sent)
      BY <1>0 DEF Truthful
    <2>3. direct' \/ Consented(sent)
      BY <2>1, <2>2
    <2>4. ApprovedByQuorum'
      BY <2>1, <2>3 DEF ApprovedByQuorum, Consented
    <2>5. direct' \in BOOLEAN
      BY <2>1, Zenon
    <2> QED
      BY <1>0, <1>a, <2>1, <2>4, <2>5 DEF HandlerPlace
  <1>6. CASE UNCHANGED approvalVars
    BY <1>0, <1>6 DEF approvalVars, ApprovalInv, ApprovalTypeOK, Truthful, ApprovedByQuorum
  <1> QED
    BY <1>1, <1>2, <1>3, <1>4, <1>5, <1>6 DEF ApprovalNext

(* However decisions are lost, resubmitted or written over newer chains, an  *)
(* order that had a chain when its approval was asked for is approved only   *)
(* with a quorum of every step of one submission: the handlers of            *)
(* with-approval-chain.ts and the kernel's gate.                             *)
THEOREM ApprovalSafe == ApprovalSpec => [](ApprovalTypeOK /\ ApprovedByQuorum)
  <1>1. ApprovalInv => ApprovalTypeOK /\ ApprovedByQuorum
    BY DEF ApprovalInv
  <1> QED
    BY ApprovalInitOK, ApprovalStepOK, <1>1, PTL DEF ApprovalSpec
-----------------------------------------------------------------------------
\* What a sweep has in hand is due and comes in turn, and what it advances from
\* is billed.
InTurn ==
    /\ \A n \in bills : n <= today
    /\ \A n \in bills \cup {nextDate} : Chained(n)
    /\ \A b \in Biller : biller[b].pc # "idle" =>
          Chained(biller[b].date) /\ biller[b].date <= today
    /\ \A b \in Biller : biller[b].pc = "advancing" => biller[b].date \in bills

\* The count that starts at the day a: its dates go from bill to bill.
InCount(n, a, B) == n >= a /\ (n = a \/ \E m \in B : n = m + Interval)

\* Bills are of that count, or over when it starts.
OneCount(a, B) == \A n \in B : n + Interval <= a \/ InCount(n, a, B)

Apart(B) == \A m, n \in B : m < n => m + Interval <= n

Uncrossed ==
    /\ Apart(bills)
    /\ \E a \in Date :
          /\ OneCount(a, bills)
          /\ InCount(nextDate, a, bills)
          /\ \A b \in Biller : biller[b].pc # "idle" => InCount(biller[b].date, a, bills)
    \* No bill is younger than the day a resume may count from.
    /\ \A r \in Resumer : resumer[r].pc = "reanchoring" =>
          /\ \A n \in bills : n <= resumer[r].since
          /\ \A b \in Biller : biller[b].pc # "idle" => biller[b].date <= resumer[r].since

BillingInv == BillingTypeOK /\ InTurn /\ (crossed \/ Uncrossed)

LEMMA CountGoesOn ==
    ASSUME NEW a \in Nat, NEW B \in SUBSET Nat, NEW d \in Nat,
           OneCount(a, B), Apart(B), InCount(d, a, B)
    PROVE  /\ OneCount(a, B \cup {d}) /\ Apart(B \cup {d})
           /\ \A n : InCount(n, a, B) => InCount(n, a, B \cup {d})
  <1>0. Interval \in Nat /\ Interval > 0
    BY BillingConstants
  <1>1. \A n : InCount(n, a, B) => InCount(n, a, B \cup {d})
    BY DEF InCount
  <1>2. OneCount(a, B \cup {d})
    BY <1>1 DEF OneCount
  <1>3. ASSUME NEW m \in B, m < d PROVE m + Interval <= d
    <2>1. CASE m + Interval <= a
      BY <1>0, <2>1 DEF InCount
    <2>2. CASE InCount(m, a, B) /\ d # a
      <3>1. PICK p \in B : d = p + Interval
        BY <2>2 DEF InCount
      <3>2. m <= p
        <4>1. SUFFICES ASSUME p < m PROVE FALSE
          BY <3>1
        <4>2. p + Interval <= m
          BY <4>1 DEF Apart
        <4> QED
          BY <1>0, <1>3, <3>1, <4>2
      <3> QED
        BY <1>0, <3>1, <3>2
    <2>3. CASE InCount(m, a, B) /\ d = a
      BY <1>3, <2>3 DEF InCount
    <2> QED
      BY <2>1, <2>2, <2>3 DEF OneCount
  <1>4. ASSUME NEW m \in B, d < m PROVE d + Interval <= m
    <2>1. InCount(m, a, B) /\ m # a
      BY <1>0, <1>4 DEF OneCount, InCount
    <2>2. PICK q \in B : m = q + Interval
      BY <2>1 DEF InCount
    <2>3. d <= q
      <3>1. SUFFICES ASSUME q < d PROVE FALSE
        BY <2>2
      <3>2. q + Interval <= d
        BY <1>3, <3>1
      <3> QED
        BY <1>0, <1>4, <2>2, <3>2
    <2> QED
      BY <1>0, <2>2, <2>3
  <1>5. Apart(B \cup {d})
    BY <1>3, <1>4 DEF Apart
  <1> QED
    BY <1>1, <1>2, <1>5

\* A resume starts a new count when every bill is over.
LEMMA CountStarts ==
    ASSUME NEW day \in Nat, NEW B \in SUBSET Nat, \A n \in B : n <= day
    PROVE  OneCount(day + Interval, B) /\ InCount(day + Interval, day + Interval, B)
  BY BillingConstants DEF OneCount, InCount

LEMMA UncrossedApart == BillingInv => NoCycleForFree
  BY DEF BillingInv, InTurn, Uncrossed, Apart, NoCycleForFree

LEMMA BillingInitOK == BillingInit => BillingInv
  <1> SUFFICES ASSUME BillingInit PROVE BillingInv
    OBVIOUS
  <1>0. 0 \in Day /\ First \in Date /\ Date \subseteq Nat
    BY BillingConstants DEF Day, Date
  <1>1. BillingTypeOK
    BY <1>0 DEF BillingInit, BillingTypeOK, Resting, NoResume
  <1>2. InTurn
    BY <1>0 DEF BillingInit, InTurn, Chained, Resting
  <1>3. OneCount(First, {}) /\ InCount(First, First, {}) /\ Apart({})
    BY <1>0 DEF OneCount, InCount, Apart
  <1>4. Uncrossed
    BY <1>0, <1>3 DEF BillingInit, Uncrossed, Resting, NoResume
  <1> QED
    BY <1>1, <1>2, <1>4 DEF BillingInv

ABiller == [pc : {"idle", "billing", "advancing"}, date : Day]

LEMMA BillerMoves ==
  ASSUME BillingTypeOK, NEW b \in Biller, NEW from, NEW to \in {"idle", "advancing"},
         BillerGoTo(b, from, to)
  PROVE  /\ biller[b].pc = from
         /\ biller' \in [Biller -> ABiller]
         /\ biller'[b].pc = to
         /\ to = "advancing" => biller'[b].date = biller[b].date
         /\ \A c \in Biller \ {b} : biller'[c] = biller[c]
  <1> DEFINE moved == IF to = "idle" THEN Resting ELSE [biller[b] EXCEPT !.pc = to]
  <1>1. biller' = [biller EXCEPT ![b] = moved] /\ biller[b].pc = from
    BY DEF BillerGoTo
  <1>2. Resting \in ABiller
    BY BillingConstants DEF Resting, ABiller, Day
  <1>3. biller \in [Biller -> ABiller]
    BY DEF BillingTypeOK, ABiller
  <1>4. /\ moved \in ABiller
        /\ moved.pc = to
        /\ to = "advancing" => moved.date = biller[b].date
    BY <1>2, <1>3 DEF Resting, ABiller
  <1> HIDE DEF moved
  <1>5. biller'[b] = moved /\ \A c \in Biller \ {b} : biller'[c] = biller[c]
    BY <1>1, <1>3
  <1> QED
    BY <1>1, <1>3, <1>4, <1>5

\* One date is billed, or none: the date of a sweep that goes on, or gives up.
LEMMA SweepBills ==
    ASSUME BillingInv, NEW b \in Biller, NEW to \in {"idle", "advancing"},
           NEW from \in {"billing", "advancing"}, BillerGoTo(b, from, to),
           bills' = bills \/ (from = "billing" /\ bills' = bills \cup {biller[b].date}),
           to = "advancing" => biller[b].date \in bills',
           UNCHANGED <<today, subStatus, nextDate, resumer, anchors, crossed>>
    PROVE  BillingInv'
  <1> DEFINE d == biller[b].date
  <1>1. /\ biller[b].pc = from
        /\ biller' \in [Biller -> ABiller]
        /\ biller'[b].pc = to
        /\ to = "advancing" => biller'[b].date = d
        /\ \A c \in Biller \ {b} : biller'[c] = biller[c]
    BY BillerMoves DEF BillingInv
  <1>2. /\ d \in Day /\ Day \subseteq Nat /\ Date \subseteq Nat /\ bills \subseteq Nat
        /\ \A c \in Biller : biller[c].date \in Day
    BY BillingConstants DEF BillingInv, BillingTypeOK, Day, Date
  <1>3. d <= today /\ Chained(d)
    BY <1>1 DEF BillingInv, InTurn
  <1> HIDE DEF d
  <1>4. bills \subseteq bills' /\ bills' \subseteq bills \cup {d} /\ bills' \subseteq Day
    BY <1>2 DEF d, BillingInv, BillingTypeOK
  <1>5. BillingTypeOK'
    BY <1>1, <1>4 DEF BillingInv, BillingTypeOK, ABiller
  <1>6. ASSUME NEW n, Chained(n) PROVE Chained(n)'
    BY <1>4, <1>6 DEF Chained
  <1>7. \A c \in Biller : biller'[c].pc # "idle" =>
            biller[c].pc # "idle" /\ biller'[c].date = biller[c].date
    BY <1>1 DEF d
  <1>8. InTurn'
    <2>1. \A n \in bills' : n <= today'
      BY <1>3, <1>4 DEF BillingInv, InTurn
    <2>2. \A n \in bills' \cup {nextDate'} : Chained(n)'
      BY <1>3, <1>4, <1>6 DEF BillingInv, InTurn
    <2>3. ASSUME NEW c \in Biller, biller'[c].pc # "idle"
          PROVE  Chained(biller[c].date)' /\ biller'[c].date <= today'
      BY <1>6, <1>7, <2>3 DEF BillingInv, InTurn
    <2>4. \A c \in Biller : biller'[c].pc = "advancing" => biller'[c].date \in bills'
      BY <1>1, <1>4 DEF d, BillingInv, InTurn
    <2> QED
      BY <1>7, <2>1, <2>2, <2>3, <2>4 DEF InTurn, Chained
  <1>9. ASSUME Uncrossed PROVE Uncrossed'
    <2>1. PICK a \in Date :
            /\ OneCount(a, bills)
            /\ InCount(nextDate, a, bills)
            /\ \A c \in Biller : biller[c].pc # "idle" => InCount(biller[c].date, a, bills)
      BY <1>9 DEF Uncrossed
    <2>2. /\ OneCount(a, bills') /\ Apart(bills')
          /\ \A n : InCount(n, a, bills) => InCount(n, a, bills')
      <3>1. Apart(bills) /\ InCount(d, a, bills)
        BY <1>1, <1>9, <2>1 DEF Uncrossed, d
      <3>2. CASE bills' = bills
        BY <2>1, <3>1, <3>2
      <3>3. CASE bills' = bills \cup {d}
        BY <1>2, <2>1, <3>1, <3>3, CountGoesOn
      <3> QED
        BY <3>2, <3>3 DEF d
    <2>3. /\ InCount(nextDate', a, bills')
          /\ \A c \in Biller : biller'[c].pc # "idle" => InCount(biller'[c].date, a, bills')
      BY <1>7, <2>1, <2>2
    <2>4. ASSUME NEW r \in Resumer, resumer'[r].pc = "reanchoring"
          PROVE  /\ \A n \in bills' : n <= resumer'[r].since
                 /\ \A c \in Biller : biller'[c].pc # "idle" => biller'[c].date <= resumer'[r].since
      <3>1. /\ \A n \in bills : n <= resumer[r].since
            /\ \A c \in Biller : biller[c].pc # "idle" => biller[c].date <= resumer[r].since
        BY <1>9, <2>4 DEF Uncrossed
      <3>2. d <= resumer[r].since
        BY <1>1, <3>1 DEF d
      <3> QED
        BY <1>4, <1>7, <3>1, <3>2
    <2> QED
      BY <2>1, <2>2, <2>3, <2>4 DEF Uncrossed
  <1> QED
    BY <1>5, <1>8, <1>9 DEF BillingInv

LEMMA BillingStepOK == BillingInv /\ [BillingNext]_billingVars => BillingInv'
  <1> SUFFICES ASSUME BillingInv, [BillingNext]_billingVars
      PROVE  BillingInv'
    OBVIOUS
  <1>0. /\ BillingTypeOK /\ InTurn /\ (crossed \/ Uncrossed)
        /\ Interval \in Nat \ {0} /\ Horizon \in Nat
        /\ Day \subseteq Nat /\ Date \subseteq Nat /\ Day \subseteq Date /\ bills \subseteq Nat
        /\ today \in Nat
        /\ biller \in [Biller -> ABiller]
        /\ \A b \in Biller : biller[b].date \in Nat
        /\ \A r \in Resumer : resumer[r].since \in Nat
    BY BillingConstants DEF BillingInv, BillingTypeOK, Day, Date, ABiller
  <1>1. ASSUME NEW b \in Biller, FindDue(b) PROVE BillingInv'
    <2>1. /\ nextDate <= today /\ crossed' = (crossed \/ Reanchored)
          /\ UNCHANGED <<today, subStatus, nextDate, bills, resumer, anchors>>
          /\ biller' = [biller EXCEPT ![b] = [pc |-> "billing", date |-> nextDate]]
      BY <1>1 DEF FindDue
    <2>2. nextDate \in Day
      BY <1>0, <2>1 DEF BillingTypeOK, Day, Date
    <2>3. /\ biller' \in [Biller -> ABiller]
          /\ biller'[b].pc = "billing" /\ biller'[b].date = nextDate
          /\ \A c \in Biller \ {b} : biller'[c] = biller[c]
      BY <1>0, <2>1, <2>2 DEF ABiller
    <2>4. crossed' \in BOOLEAN
      BY <2>1, Zenon
    <2>5. BillingTypeOK'
      BY <1>0, <2>1, <2>3, <2>4 DEF BillingTypeOK, ABiller
    <2>6. InTurn'
      BY <1>0, <2>1, <2>3 DEF InTurn, Chained
    <2>7. ASSUME ~crossed' PROVE Uncrossed'
      <3>1. Uncrossed /\ \A r \in Resumer : resumer'[r].pc # "reanchoring"
        BY <1>0, <2>1, <2>7 DEF Reanchored
      <3>2. PICK a \in Date :
              /\ OneCount(a, bills)
              /\ InCount(nextDate, a, bills)
              /\ \A c \in Biller : biller[c].pc # "idle" => InCount(biller[c].date, a, bills)
        BY <3>1 DEF Uncrossed
      <3>3. \A c \in Biller : biller'[c].pc # "idle" => InCount(biller'[c].date, a, bills)
        BY <2>3, <3>2
      <3>4. Apart(bills')
        BY <2>1, <3>1 DEF Uncrossed
      <3> QED
        BY <2>1, <3>1, <3>2, <3>3, <3>4 DEF Uncrossed
    <2> QED
      BY <2>5, <2>6, <2>7 DEF BillingInv
  <1>2. ASSUME NEW b \in Biller, Bill(b) PROVE BillingInv'
    BY <1>2, SweepBills DEF Bill
  <1>3. ASSUME NEW b \in Biller, BillDeduplicated(b) PROVE BillingInv'
    BY <1>3, SweepBills DEF BillDeduplicated
  <1>4. ASSUME NEW b \in Biller, BillFails(b) PROVE BillingInv'
    BY <1>4, SweepBills DEF BillFails
  <1>5. ASSUME NEW b \in Biller, SweepDies(b) PROVE BillingInv'
    BY <1>5, SweepBills DEF SweepDies
  <1>6. ASSUME NEW b \in Biller, AdvanceDate(b) PROVE BillingInv'
    <2> DEFINE d == biller[b].date
    <2>1. /\ BillerGoTo(b, "advancing", "idle")
          /\ nextDate' = d + Interval
          /\ UNCHANGED <<today, subStatus, bills, resumer, anchors, crossed>>
      BY <1>6 DEF AdvanceDate
    <2>2. /\ biller[b].pc = "advancing"
          /\ biller' \in [Biller -> ABiller]
          /\ biller'[b].pc = "idle"
          /\ \A c \in Biller \ {b} : biller'[c] = biller[c]
      BY <1>0, <2>1, BillerMoves
    <2>3. d \in bills /\ d \in Day /\ d \in Nat
      BY <1>0, <2>2 DEF InTurn, ABiller
    <2> HIDE DEF d
    <2>4. nextDate' \in Date
      BY <1>0, <2>1, <2>3 DEF Day, Date
    <2>5. BillingTypeOK'
      BY <1>0, <2>1, <2>2, <2>4 DEF BillingTypeOK, ABiller
    <2>6. InTurn'
      BY <1>0, <2>1, <2>2, <2>3 DEF InTurn, Chained
    <2>7. ASSUME Uncrossed PROVE Uncrossed'
      <3>1. PICK a \in Date :
              /\ OneCount(a, bills)
              /\ InCount(nextDate, a, bills)
              /\ \A c \in Biller : biller[c].pc # "idle" => InCount(biller[c].date, a, bills)
        BY <2>7 DEF Uncrossed
      <3>2. InCount(nextDate', a, bills)
        BY <1>0, <2>1, <2>2, <2>3, <3>1 DEF InCount, d
      <3>3. \A c \in Biller : biller'[c].pc # "idle" => InCount(biller'[c].date, a, bills)
        BY <2>2, <3>1
      <3> QED
        BY <2>1, <2>2, <2>7, <3>1, <3>2, <3>3 DEF Uncrossed
    <2> QED
      BY <1>0, <2>1, <2>5, <2>6, <2>7 DEF BillingInv
  <1>7. CASE DayPasses
    <2>1. today' = today + 1 /\ today' \in Day
      BY <1>0, <1>7 DEF DayPasses, BillingTypeOK, Day
    <2>2. UNCHANGED <<subStatus, nextDate, bills, biller, resumer, anchors, crossed>>
      BY <1>7 DEF DayPasses
    <2>3. InTurn'
      BY <1>0, <2>1, <2>2 DEF InTurn, Chained
    <2>4. BillingTypeOK'
      BY <1>0, <2>1, <2>2 DEF BillingTypeOK
    <2>5. Uncrossed => Uncrossed'
      BY <2>2 DEF Uncrossed
    <2> QED
      BY <1>0, <2>2, <2>3, <2>4, <2>5 DEF BillingInv
  <1>8. CASE Pause \/ CancelSub
    <2>1. /\ subStatus' \in {"paused", "cancelled"}
          /\ UNCHANGED <<today, nextDate, bills, biller, resumer, anchors, crossed>>
      BY <1>8 DEF Pause, CancelSub
    <2>2. BillingTypeOK' /\ InTurn'
      BY <1>0, <2>1 DEF BillingTypeOK, InTurn, Chained
    <2>3. Uncrossed => Uncrossed'
      BY <2>1 DEF Uncrossed
    <2> QED
      BY <1>0, <2>1, <2>2, <2>3 DEF BillingInv
  <1>9. ASSUME NEW r \in Resumer, Resume(r) PROVE BillingInv'
    <2>1. /\ subStatus' = "active"
          /\ UNCHANGED <<today, nextDate, bills, biller, anchors, crossed>>
          /\ resumer' = resumer \/ resumer' = [resumer EXCEPT ![r] = [pc |-> "reanchoring", since |-> today]]
      BY <1>9 DEF Resume
    <2>2. BillingTypeOK'
      BY <1>0, <2>1 DEF BillingTypeOK
    <2>3. InTurn'
      BY <1>0, <2>1 DEF InTurn, Chained
    <2>4. ASSUME Uncrossed PROVE Uncrossed'
      <3>1. ASSUME NEW q \in Resumer, resumer'[q].pc = "reanchoring"
            PROVE  /\ \A n \in bills : n <= resumer'[q].since
                   /\ \A c \in Biller : biller[c].pc # "idle" => biller[c].date <= resumer'[q].since
        <4>1. \/ resumer'[q] = resumer[q]
              \/ resumer'[q].since = today
          BY <1>0, <2>1 DEF BillingTypeOK
        <4>2. CASE resumer'[q] = resumer[q]
          BY <2>4, <3>1, <4>2 DEF Uncrossed
        <4>3. CASE resumer'[q].since = today
          BY <1>0, <4>3 DEF InTurn
        <4> QED
          BY <4>1, <4>2, <4>3
      <3> QED
        BY <2>1, <2>4, <3>1 DEF Uncrossed
    <2> QED
      BY <1>0, <2>1, <2>2, <2>3, <2>4 DEF BillingInv
  \* A date set otherwise starts a new count.
  <1>a. ASSUME NEW day \in Date, SetDate(day), UNCHANGED <<today, subStatus, bills, biller>>,
               resumer' \in [Resumer -> [pc : {"idle", "reanchoring"}, since : Day]],
               crossed' \in BOOLEAN
        PROVE  BillingTypeOK' /\ InTurn' /\ nextDate' = day
    <2>1. nextDate' = day /\ anchors' = anchors \cup {day}
      BY <1>a DEF SetDate
    <2>2. BillingTypeOK'
      BY <1>0, <1>a, <2>1 DEF BillingTypeOK
    <2>3. InTurn'
      BY <1>0, <1>a, <2>1 DEF InTurn, Chained
    <2> QED
      BY <2>1, <2>2, <2>3
  <1>10. ASSUME NEW r \in Resumer, Reanchor(r) PROVE BillingInv'
    <2>1. PICK now \in resumer[r].since .. today : SetDate(now + Interval)
      BY <1>10 DEF Reanchor
    <2>2. /\ resumer[r].pc = "reanchoring"
          /\ resumer' = [resumer EXCEPT ![r] = NoResume]
          /\ crossed' = (crossed \/ Sweeping)
          /\ UNCHANGED <<today, subStatus, bills, biller>>
      BY <1>10 DEF Reanchor
    <2>3. now \in Nat /\ now + Interval \in Date /\ resumer[r].since <= now
      BY <1>0, <2>1 DEF BillingTypeOK, Day, Date
    <2>4. /\ resumer' \in [Resumer -> [pc : {"idle", "reanchoring"}, since : Day]]
          /\ resumer'[r].pc = "idle"
          /\ \A q \in Resumer \ {r} : resumer'[q] = resumer[q]
      BY <1>0, <2>2 DEF BillingTypeOK, NoResume, Day
    <2>5. crossed' \in BOOLEAN
      BY <2>2, Zenon
    <2>6. BillingTypeOK' /\ InTurn' /\ nextDate' = now + Interval
      BY <1>a, <2>1, <2>2, <2>3, <2>4, <2>5
    <2>7. ASSUME ~crossed' PROVE Uncrossed'
      <3>1. Uncrossed /\ \A b \in Biller : biller[b].pc = "idle"
        BY <1>0, <2>2, <2>7 DEF Sweeping
      <3>2. \A n \in bills : n <= now
        BY <1>0, <2>2, <2>3, <3>1 DEF Uncrossed
      <3>3. OneCount(now + Interval, bills) /\ InCount(now + Interval, now + Interval, bills)
        BY <1>0, <2>3, <3>2, CountStarts
      <3> QED
        BY <2>2, <2>3, <2>4, <2>6, <3>1, <3>3 DEF Uncrossed
    <2> QED
      BY <2>6, <2>7 DEF BillingInv
  <1>11. ASSUME NEW r \in Resumer, ReanchorFails(r) PROVE BillingInv'
    <2>1. /\ resumer' = [resumer EXCEPT ![r] = NoResume]
          /\ UNCHANGED <<today, subStatus, nextDate, bills, biller, anchors, crossed>>
      BY <1>11 DEF ReanchorFails
    <2>2. /\ resumer' \in [Resumer -> [pc : {"idle", "reanchoring"}, since : Day]]
          /\ resumer'[r].pc = "idle"
          /\ \A q \in Resumer \ {r} : resumer'[q] = resumer[q]
      BY <1>0, <2>1, BillingConstants DEF BillingTypeOK, NoResume, Day
    <2>3. BillingTypeOK' /\ InTurn'
      BY <1>0, <2>1, <2>2 DEF BillingTypeOK, InTurn, Chained
    <2>4. Uncrossed => Uncrossed'
      BY <2>1, <2>2 DEF Uncrossed
    <2> QED
      BY <1>0, <2>1, <2>3, <2>4 DEF BillingInv
  <1>12. CASE Reschedule
    <2>1. PICK day \in Date : SetDate(day)
      BY <1>12 DEF Reschedule
    <2>2. crossed' = TRUE /\ UNCHANGED <<today, subStatus, bills, biller, resumer>>
      BY <1>12 DEF Reschedule
    <2> QED
      BY <1>0, <1>a, <2>1, <2>2 DEF BillingInv, BillingTypeOK
  <1>13. CASE UNCHANGED billingVars
    BY <1>0, <1>13 DEF billingVars, BillingInv, BillingTypeOK, InTurn, Chained, Uncrossed
  <1> QED
    BY <1>1, <1>2, <1>3, <1>4, <1>5, <1>6, <1>7, <1>8, <1>9, <1>10, <1>11, <1>12, <1>13
       DEF BillingNext

(* However sweeps overlap, die between the bill and the date or write an old *)
(* date back (process-billing-due.ts), and whenever the subscription is      *)
(* paused and resumed (subscription.actions.ts): dates go from bill to bill  *)
(* unless somebody set one, and bills keep their distance unless one was set *)
(* by hand or by a resume with a sweep around.                               *)
THEOREM BillingSafe == BillingSpec => [](BillingTypeOK /\ NoCycleForFree)
  <1>1. BillingInv => BillingTypeOK /\ NoCycleForFree
    BY UncrossedApart DEF BillingInv
  <1> QED
    BY BillingInitOK, BillingStepOK, <1>1, PTL DEF BillingSpec

\* A step that bills, bills a date that is due, and either follows a bill or
\* was set by somebody.
BillsInTurn ==
    /\ bills \subseteq bills'
    /\ \A n \in bills' \ bills : n <= today /\ Chained(n)

LEMMA BillingTurnOK == BillingInv /\ [BillingNext]_billingVars => [BillsInTurn]_billingVars
  <1> SUFFICES ASSUME BillingInv, BillingNext PROVE BillsInTurn
    OBVIOUS
  <1>1. UNCHANGED bills => BillsInTurn
    BY DEF BillsInTurn
  <1>2. ASSUME NEW b \in Biller, Bill(b) \/ BillFails(b) PROVE BillsInTurn
    <2>1. biller[b].pc = "billing" /\ (bills' = bills \/ bills' = bills \cup {biller[b].date})
      BY <1>2 DEF Bill, BillFails, BillerGoTo
    <2>2. biller[b].date <= today /\ Chained(biller[b].date)
      BY <2>1 DEF BillingInv, InTurn
    <2> QED
      BY <2>1, <2>2 DEF BillsInTurn
  <1>3. (\A b \in Biller : ~Bill(b) /\ ~BillFails(b)) => UNCHANGED bills
    BY DEF BillingNext, FindDue, BillDeduplicated, AdvanceDate, SweepDies, DayPasses, Pause,
           CancelSub, Resume, Reanchor, ReanchorFails, Reschedule
  <1> QED
    BY <1>1, <1>2, <1>3

(* Bills are never taken back, and a step of processBillingDue that adds one *)
(* bills a date that is due and comes one interval after a billed one, or    *)
(* was set by the creation, a resume or by hand: a slow sweep that writes    *)
(* "an interval after the date I loaded" over a newer date opens no gap.     *)
THEOREM BilledInTurn == BillingSpec => [][BillsInTurn]_billingVars
  BY BillingInitOK, BillingStepOK, BillingTurnOK, PTL DEF BillingSpec
-----------------------------------------------------------------------------
Changing   == {o \in Officer : officer[o].pc \in {"booking", "posting", "cancelling"}}
MatchPlace == {"matching", "pinning", "closing", "reconciling"}

OneClerk ==
    /\ \A o \in Officer : officer[o].pc = "posting" => entry
    /\ \A o \in Officer : officer[o].pc = "reconciling" => entry
    /\ ~raced =>
          /\ \A o, q \in Changing : o = q
          /\ Changing # {} => import.status \notin {"posted", "reconciled"}
          /\ \A o \in Officer : officer[o].pc = "reconciling" => import.status \in {"posted", "reconciled"}
          /\ \A o \in Officer : officer[o].pc \in {"booking", "posting"} => import.status # "cancelled"
    /\ ~raced /\ ~halfPosted /\ entry =>
          \/ import.status \in {"posted", "reconciled"}
          \/ \E o \in Officer : officer[o].pc = "posting"

ImportInv == SettlementTypeOK /\ OneClerk /\ BooksAgree

PinningPicks == \A o \in Officer : officer[o].pc = "pinning" => officer[o].pick \in Leg \X Line

AnOfficer == [pc : OfficerPlace, todo : SUBSET Leg, claimed : SUBSET Line,
              pick : (Leg \X Line) \cup {NoLine}]

OfficerTypes == officer \in [Officer -> AnOfficer]

\* What one step of MatchLeg does with the leg l.
Picks(o, l, k) ==
    officer' = [officer EXCEPT ![o].pc = "pinning", ![o].pick = <<l, k>>,
                               ![o].todo = @ \ {l}, ![o].claimed = @ \cup {k}]

MatchOne(o, l) ==
    \/ \E k \in Free(o, l) : Free(o, l) = {k} /\ Picks(o, l, k)
    \/ officer' = [officer EXCEPT ![o].todo = @ \ {l}]

LEMMA OfficerUpdate ==
    ASSUME OfficerTypes, PinningPicks, NEW o \in Officer, NEW r \in AnOfficer,
           r.pc = "pinning" => r.pick \in Leg \X Line,
           officer' = [officer EXCEPT ![o] = r]
    PROVE  OfficerTypes' /\ PinningPicks'
  BY DEF OfficerTypes, PinningPicks, AnOfficer

LEMMA ImportTypes ==
    ASSUME SettlementTypeOK, PinningPicks, [SettlementNext]_settlementVars
    PROVE  SettlementTypeOK' /\ PinningPicks'
  <1> USE DEF SettlementTypeOK, OfficerPlace, ImportStatus, AtDesk, PinningPicks
  <1>1. ASSUME NEW o \in Officer, PostLoad(o) \/ CancelImportLoad(o) PROVE SettlementTypeOK' /\ PinningPicks'
    <2>1. raced' \in BOOLEAN
      BY <1>1, Zenon DEF PostLoad, CancelImportLoad, LoadsOpen
    <2>2. \E to \in OfficerPlace \ {"pinning"} : OfficerGoTo(o, "idle", to)
      BY <1>1 DEF PostLoad, CancelImportLoad, LoadsOpen
    <2>3. UNCHANGED <<import, entry, pinned, halfPosted, pinRaced>>
      BY <1>1 DEF PostLoad, CancelImportLoad, LoadsOpen
    <2> QED
      BY <2>1, <2>2, <2>3 DEF OfficerGoTo
  <1>2. ASSUME NEW o \in Officer, BookEntry(o) PROVE SettlementTypeOK' /\ PinningPicks'
    BY <1>2 DEF BookEntry, OfficerGoTo
  <1>3. ASSUME NEW o \in Officer, MarkPosted(o) \/ MarkCancelled(o) PROVE SettlementTypeOK' /\ PinningPicks'
    <2>1. PICK status \in ImportStatus, from \in OfficerPlace : SetStatus(o, from, status)
      BY <1>3 DEF MarkPosted, MarkCancelled
    <2>2. import' \in [status : ImportStatus, reconciledAt : BOOLEAN]
      BY <2>1 DEF SetStatus
    <2>3. OfficerTypes' /\ PinningPicks'
      BY <2>1 DEF SetStatus, OfficerGoTo, OfficerTypes, AnOfficer
    <2> QED
      BY <2>1, <2>2, <2>3 DEF SetStatus, OfficerTypes, AnOfficer
  <1>4. ASSUME NEW o \in Officer, OfficerFails(o) PROVE SettlementTypeOK' /\ PinningPicks'
    BY <1>4 DEF OfficerFails, OfficerGoTo
  <1>5. ASSUME NEW o \in Officer, MatchLoad(o) PROVE SettlementTypeOK' /\ PinningPicks'
    BY <1>5 DEF MatchLoad
  <1>6. ASSUME NEW o \in Officer, MatchLeg(o) PROVE SettlementTypeOK' /\ PinningPicks'
    <2> PICK l \in officer[o].todo : MatchOne(o, l)
      BY <1>6 DEF MatchLeg, MatchOne, Picks
    <2>1. UNCHANGED <<import, entry, pinned, halfPosted, raced, pinRaced>>
      BY <1>6 DEF MatchLeg
    <2>2. l \in Leg /\ Free(o, l) \subseteq Line
      BY DEF Free
    <2>3. CASE officer' = [officer EXCEPT ![o].todo = @ \ {l}]
      BY <2>1, <2>3
    <2>4. ASSUME NEW k \in Free(o, l), Picks(o, l, k)
          PROVE  SettlementTypeOK' /\ PinningPicks'
      <3>1. officer' = [officer EXCEPT ![o] =
               [pc |-> "pinning", todo |-> officer[o].todo \ {l},
                claimed |-> officer[o].claimed \cup {k}, pick |-> <<l, k>>]]
        BY <2>4 DEF Picks
      <3>2. [pc |-> "pinning", todo |-> officer[o].todo \ {l},
             claimed |-> officer[o].claimed \cup {k}, pick |-> <<l, k>>] \in AnOfficer
        BY <2>2 DEF AnOfficer
      <3>3. OfficerTypes' /\ PinningPicks'
        BY <3>1, <3>2, <2>2, OfficerUpdate DEF OfficerTypes, AnOfficer
      <3> QED
        BY <2>1, <3>3 DEF OfficerTypes, AnOfficer
    <2> QED
      BY <2>3, <2>4 DEF MatchOne
  <1>7. ASSUME NEW o \in Officer, PinLeg(o) PROVE SettlementTypeOK' /\ PinningPicks'
    <2>1. officer[o].pick \in Leg \X Line
      BY <1>7 DEF PinLeg
    <2>2. pinned' \in [Leg -> Line \cup {NoLine}]
      BY <1>7, <2>1 DEF PinLeg
    <2>8. officer[o] \in AnOfficer
      BY DEF AnOfficer
    <2> DEFINE r == [officer[o] EXCEPT !.pc = "matching", !.pick = NoLine]
    <2>6. officer' = [officer EXCEPT ![o] = r]
      BY <1>7 DEF PinLeg
    <2>7. r \in AnOfficer
      BY <2>8 DEF AnOfficer
    <2>4. OfficerTypes' /\ PinningPicks'
      BY <2>6, <2>7, OfficerUpdate DEF OfficerTypes, AnOfficer
    <2>5. UNCHANGED <<import, entry, halfPosted, raced, pinRaced>>
      BY <1>7 DEF PinLeg
    <2> QED
      BY <2>2, <2>4, <2>5 DEF OfficerTypes, AnOfficer
  <1>8. ASSUME NEW o \in Officer, MatchEnds(o) \/ FindMatched(o) \/ Reconcile(o)
        PROVE  SettlementTypeOK' /\ PinningPicks'
    <2>1. \E from \in OfficerPlace, to \in OfficerPlace \ {"pinning"} : OfficerGoTo(o, from, to)
      BY <1>8 DEF MatchEnds, FindMatched, Reconcile
    <2>2. OfficerTypes' /\ PinningPicks'
      BY <2>1 DEF OfficerTypes, AnOfficer, OfficerGoTo
    <2>3. import' = import \/ import' = [status |-> "reconciled", reconciledAt |-> TRUE]
      BY <1>8 DEF MatchEnds, FindMatched, Reconcile
    <2>5. import' \in [status : ImportStatus, reconciledAt : BOOLEAN]
      <3>1. CASE import' = import
        BY <3>1
      <3>2. CASE import' = [status |-> "reconciled", reconciledAt |-> TRUE]
        BY <3>2
      <3> QED
        BY <2>3, <3>1, <3>2
    <2>4. UNCHANGED <<entry, pinned, halfPosted, raced, pinRaced>>
      BY <1>8 DEF MatchEnds, FindMatched, Reconcile
    <2> QED
      BY <2>2, <2>4, <2>5 DEF OfficerTypes, AnOfficer
  <1>9. CASE PinByHand
    BY <1>9 DEF PinByHand
  <1>10. CASE UNCHANGED settlementVars
    BY <1>10 DEF settlementVars
  <1> QED
    BY <1>1, <1>2, <1>3, <1>4, <1>5, <1>6, <1>7, <1>8, <1>9, <1>10 DEF SettlementNext

\* A call that does not change the statement keeps what is known of those that do.
LEMMA Bystander ==
    ASSUME SettlementTypeOK, OneClerk, BooksAgree, NEW o \in Officer,
           officer[o].pc \notin {"booking", "posting", "cancelling"},
           officer' = [officer EXCEPT ![o] = officer'[o]],
           officer'[o].pc \notin {"booking", "posting", "cancelling", "reconciling"},
           UNCHANGED <<import, entry, halfPosted, raced>>
    PROVE  OneClerk' /\ BooksAgree'
  <1>1. \A q \in Officer : q # o => officer'[q] = officer[q]
    BY DEF SettlementTypeOK
  <1>2. Changing' = Changing
    BY <1>1 DEF Changing
  <1> QED
    BY <1>1, <1>2 DEF OneClerk, BooksAgree

LEMMA ImportStepOK ==
    ASSUME ImportInv, PinningPicks, [SettlementNext]_settlementVars
    PROVE  OneClerk' /\ BooksAgree'
  <1>a. SettlementTypeOK /\ OneClerk /\ BooksAgree /\ officer \in [Officer -> AnOfficer]
    BY DEF ImportInv, SettlementTypeOK, AnOfficer
  <1>b. \A o \in Officer, to \in OfficerPlace : OfficerGoTo(o, officer[o].pc, to) =>
          /\ officer'[o].pc = to
          /\ \A q \in Officer : q # o => officer'[q] = officer[q]
          /\ officer' = [officer EXCEPT ![o] = officer'[o]]
    BY <1>a DEF OfficerGoTo, AtDesk, AnOfficer
  <1>1. ASSUME NEW o \in Officer, NEW to \in {"booking", "cancelling"}, LoadsOpen(o, to),
               to = "booking" => import.status # "cancelled"
        PROVE  OneClerk' /\ BooksAgree'
    <2>1. /\ officer[o].pc = "idle" /\ officer'[o].pc = to
          /\ \A q \in Officer : q # o => officer'[q] = officer[q]
      BY <1>1, <1>b DEF LoadsOpen, OfficerGoTo, OfficerPlace
    <2>2. /\ import.status \notin {"posted", "reconciled"}
          /\ UNCHANGED <<import, entry, pinned, halfPosted, pinRaced>>
          /\ ~raced' <=> (~raced /\ Changing = {})
      BY <1>1 DEF LoadsOpen, Busy, Changing
    <2>3. Changing' = Changing \cup {o}
      BY <2>1 DEF Changing
    <2> QED
      BY <1>1, <1>a, <2>1, <2>2, <2>3 DEF OneClerk, BooksAgree, Changing
  <1>2. ASSUME NEW o \in Officer, PostLoad(o) \/ CancelImportLoad(o) PROVE OneClerk' /\ BooksAgree'
    BY <1>1, <1>2 DEF PostLoad, CancelImportLoad
  <1>3. ASSUME NEW o \in Officer, BookEntry(o) PROVE OneClerk' /\ BooksAgree'
    <2>1. /\ officer[o].pc = "booking" /\ officer'[o].pc = "posting"
          /\ \A q \in Officer : q # o => officer'[q] = officer[q]
      BY <1>3, <1>b DEF BookEntry, OfficerGoTo, OfficerPlace
    <2>2. entry' /\ UNCHANGED <<import, pinned, halfPosted, raced, pinRaced>>
      BY <1>3 DEF BookEntry
    <2>3. Changing' = Changing
      BY <2>1 DEF Changing
    <2> QED
      BY <1>a, <2>1, <2>2, <2>3 DEF OneClerk, BooksAgree
  <1>4. ASSUME NEW o \in Officer, MarkPosted(o) PROVE OneClerk' /\ BooksAgree'
    <2>1. /\ officer[o].pc = "posting" /\ officer'[o].pc = "idle"
          /\ \A q \in Officer : q # o => officer'[q] = officer[q]
      BY <1>4, <1>b DEF MarkPosted, SetStatus, OfficerGoTo, OfficerPlace
    <2>2. /\ import'.status = "posted" /\ import'.reconciledAt = import.reconciledAt
          /\ UNCHANGED <<entry, pinned, halfPosted, raced, pinRaced>>
      BY <1>4, <1>a DEF MarkPosted, SetStatus, SettlementTypeOK
    <2>3. Changing' = Changing \ {o} /\ o \in Changing
      BY <2>1 DEF Changing
    <2> QED
      BY <1>a, <2>1, <2>2, <2>3 DEF OneClerk, BooksAgree, Changing
  <1>5. ASSUME NEW o \in Officer, MarkCancelled(o) PROVE OneClerk' /\ BooksAgree'
    <2>1. /\ officer[o].pc = "cancelling" /\ officer'[o].pc = "idle"
          /\ \A q \in Officer : q # o => officer'[q] = officer[q]
      BY <1>5, <1>b DEF MarkCancelled, SetStatus, OfficerGoTo, OfficerPlace
    <2>2. /\ import'.status = "cancelled" /\ import'.reconciledAt = import.reconciledAt
          /\ UNCHANGED <<entry, pinned, halfPosted, raced, pinRaced>>
      BY <1>5, <1>a DEF MarkCancelled, SetStatus, SettlementTypeOK
    <2>3. Changing' = Changing \ {o} /\ o \in Changing
      BY <2>1 DEF Changing
    <2>4. ~raced => \A q \in Officer : officer[q].pc \notin {"booking", "posting"}
      BY <1>a, <2>1, <2>3 DEF OneClerk, Changing
    <2>5. ~raced => \A q \in Officer : officer[q].pc # "reconciling"
      BY <1>a, <2>3 DEF OneClerk
    <2> QED
      BY <1>a, <2>1, <2>2, <2>3, <2>4, <2>5 DEF OneClerk, BooksAgree
  <1>6. ASSUME NEW o \in Officer, OfficerFails(o) PROVE OneClerk' /\ BooksAgree'
    <2>1. /\ officer'[o].pc = "idle"
          /\ \A q \in Officer : q # o => officer'[q] = officer[q]
      BY <1>6, <1>b DEF OfficerFails, OfficerPlace
    <2>2. /\ UNCHANGED <<import, entry, pinned, raced, pinRaced>>
          /\ ~halfPosted' <=> (~halfPosted /\ officer[o].pc # "posting")
      BY <1>6 DEF OfficerFails
    <2>3. Changing' = Changing \ {o}
      BY <2>1 DEF Changing
    <2> QED
      BY <1>a, <2>1, <2>2, <2>3 DEF OneClerk, BooksAgree
  <1>7. ASSUME NEW o \in Officer, MatchLoad(o) \/ MatchLeg(o) \/ PinLeg(o) \/ MatchEnds(o)
        PROVE  OneClerk' /\ BooksAgree'
    <2>1. UNCHANGED <<import, entry, halfPosted, raced>>
      BY <1>7 DEF MatchLoad, MatchLeg, PinLeg, MatchEnds
    <2>2. officer[o].pc \in {"idle", "matching", "pinning"}
      BY <1>7 DEF MatchLoad, MatchLeg, PinLeg, MatchEnds, OfficerGoTo
    <2>3. CASE MatchEnds(o)
      BY <1>a, <1>b, <2>1, <2>2, <2>3, Bystander DEF MatchEnds, OfficerGoTo, OfficerPlace
    <2>4. CASE MatchLoad(o)
      BY <1>a, <2>1, <2>2, <2>4, Bystander DEF MatchLoad, AtDesk, AnOfficer
    <2>5. CASE PinLeg(o)
      BY <1>a, <2>1, <2>2, <2>5, Bystander DEF PinLeg, AnOfficer
    <2>6. CASE MatchLeg(o)
      <3>1. \A q \in Officer : q # o => officer'[q] = officer[q]
        BY <1>a, <2>6 DEF MatchLeg
      <3>4. PICK l \in officer[o].todo : MatchOne(o, l)
        BY <2>6 DEF MatchLeg, MatchOne, Picks
      <3>5. officer[o].pc = "matching"
        BY <2>6 DEF MatchLeg
      <3>6. ASSUME officer' = [officer EXCEPT ![o].todo = @ \ {l}] PROVE officer'[o].pc = "matching"
        BY <1>a, <3>5, <3>6 DEF AnOfficer
      <3>7. ASSUME NEW k \in Free(o, l), Picks(o, l, k) PROVE officer'[o].pc = "pinning"
        BY <1>a, <3>7 DEF Picks, AnOfficer
      <3>2. officer'[o].pc \in {"matching", "pinning"} /\ officer[o].pc = "matching"
        BY <1>a, <3>4, <3>5, <3>6, <3>7 DEF MatchOne, AnOfficer
      <3>3. Changing' = Changing
        BY <3>1, <3>2 DEF Changing
      <3> QED
        BY <1>a, <2>1, <3>1, <3>2, <3>3 DEF OneClerk, BooksAgree
    <2> QED
      BY <1>7, <2>3, <2>4, <2>5, <2>6
  <1>8. ASSUME NEW o \in Officer, FindMatched(o) PROVE OneClerk' /\ BooksAgree'
    <2>1. /\ officer[o].pc = "closing" /\ officer'[o].pc \in {"reconciling", "idle"}
          /\ officer'[o].pc = "reconciling" => import.status = "posted"
          /\ \A q \in Officer : q # o => officer'[q] = officer[q]
      <3> DEFINE matched == /\ import = [status |-> "posted", reconciledAt |-> FALSE]
                            /\ \A l \in Leg : pinned[l] # NoLine
                 to == IF matched THEN "reconciling" ELSE "idle"
      <3>1. OfficerGoTo(o, "closing", to)
        BY <1>8 DEF FindMatched
      <3>2. officer[o].pc = "closing" /\ to \in OfficerPlace
        BY <3>1 DEF OfficerGoTo, OfficerPlace
      <3>3. officer'[o].pc = to /\ \A q \in Officer : q # o => officer'[q] = officer[q]
        BY <1>b, <3>1, <3>2
      <3>4. to = "reconciling" => import.status = "posted"
        OBVIOUS
      <3> QED
        BY <3>2, <3>3, <3>4
    <2>2. UNCHANGED <<import, entry, pinned, halfPosted, raced, pinRaced>>
      BY <1>8 DEF FindMatched
    <2>3. Changing' = Changing
      BY <2>1 DEF Changing
    <2> QED
      BY <1>a, <2>1, <2>2, <2>3 DEF OneClerk, BooksAgree
  <1>9. ASSUME NEW o \in Officer, Reconcile(o) PROVE OneClerk' /\ BooksAgree'
    <2>1. /\ officer[o].pc = "reconciling" /\ officer'[o].pc = "idle"
          /\ \A q \in Officer : q # o => officer'[q] = officer[q]
      BY <1>9, <1>b DEF Reconcile, OfficerGoTo, OfficerPlace
    <2>2. /\ import'.status = "reconciled"
          /\ UNCHANGED <<entry, pinned, halfPosted, raced, pinRaced>>
      BY <1>9 DEF Reconcile
    <2>3. Changing' = Changing
      BY <2>1 DEF Changing
    <2>4. ~raced => Changing = {}
      BY <1>a, <2>1 DEF OneClerk
    <2> QED
      BY <1>a, <2>1, <2>2, <2>3, <2>4 DEF OneClerk, BooksAgree, Changing
  <1>10. CASE PinByHand \/ UNCHANGED settlementVars
    <2>1. UNCHANGED <<import, entry, officer, halfPosted, raced>>
      BY <1>10 DEF PinByHand, settlementVars
    <2> QED
      BY <1>a, <2>1 DEF OneClerk, BooksAgree, Changing
  <1> QED
    BY <1>2, <1>3, <1>4, <1>5, <1>6, <1>7, <1>8, <1>9, <1>10 DEF SettlementNext

ImportAll == ImportInv /\ PinningPicks

(* Posts, cancels and reconciliations of a statement may die at any await of *)
(* settlement.service.ts: unless two of them overlapped, the statement's     *)
(* status and the ledger agree.                                              *)
THEOREM ImportSafe == SettlementSpec => [](SettlementTypeOK /\ BooksAgree)
  <1>1. SettlementInit => ImportAll
    <2> SUFFICES ASSUME SettlementInit PROVE ImportAll
      OBVIOUS
    <2>1. SettlementTypeOK /\ PinningPicks
      BY DEF SettlementInit, SettlementTypeOK, PinningPicks, AtDesk, ImportStatus, OfficerPlace
    <2>2. OneClerk /\ BooksAgree
      BY DEF SettlementInit, OneClerk, BooksAgree, Changing, AtDesk
    <2> QED
      BY <2>1, <2>2 DEF ImportAll, ImportInv
  <1>2. ImportAll /\ [SettlementNext]_settlementVars => ImportAll'
    BY ImportTypes, ImportStepOK DEF ImportAll, ImportInv
  <1>3. ImportAll => SettlementTypeOK /\ BooksAgree
    BY DEF ImportAll, ImportInv
  <1> QED
    BY <1>1, <1>2, <1>3, PTL DEF SettlementSpec
-----------------------------------------------------------------------------
Matching == {o \in Officer : officer[o].pc \in MatchPlace}

OneRun ==
    ~pinRaced =>
        /\ \A o, q \in Matching : o = q
        /\ \A o \in Officer : officer[o].pc = "pinning" =>
              \A m \in Leg : pinned[m] # officer[o].pick[2]

PinInv == SettlementTypeOK /\ PinningPicks /\ OneRun /\ LinesPinnedOnce

LEMMA PinStepOK ==
    ASSUME PinInv, [SettlementNext]_settlementVars
    PROVE  OneRun' /\ LinesPinnedOnce'
  <1>a. officer \in [Officer -> AnOfficer] /\ pinned \in [Leg -> Line \cup {NoLine}]
    BY DEF PinInv, SettlementTypeOK, AnOfficer
  <1>b. \A o \in Officer, from, to \in OfficerPlace : OfficerGoTo(o, from, to) =>
          /\ officer[o].pc = from /\ officer'[o].pc = to
          /\ \A q \in Officer : q # o => officer'[q] = officer[q]
    BY <1>a DEF OfficerGoTo, AtDesk, AnOfficer
  <1>c. OneRun /\ LinesPinnedOnce
    BY DEF PinInv
  \* A call that moves on without picking or pinning.
  <1>d. ASSUME NEW o \in Officer, NEW from \in OfficerPlace, NEW to \in OfficerPlace \ {"pinning"},
               OfficerGoTo(o, from, to), to \in MatchPlace => from \in MatchPlace,
               UNCHANGED <<pinned, pinRaced>>
        PROVE  OneRun' /\ LinesPinnedOnce'
    <2>1. /\ officer[o].pc = from /\ officer'[o].pc = to
          /\ \A q \in Officer : q # o => officer'[q] = officer[q]
      BY <1>b, <1>d
    <2>2. Matching' \subseteq Matching
      BY <1>d, <2>1 DEF Matching
    <2> QED
      BY <1>c, <1>d, <2>1, <2>2 DEF OneRun, LinesPinnedOnce
  <1>1. ASSUME NEW o \in Officer, PostLoad(o) \/ CancelImportLoad(o) PROVE OneRun' /\ LinesPinnedOnce'
    BY <1>1, <1>d DEF PostLoad, CancelImportLoad, LoadsOpen, MatchPlace, OfficerPlace
  <1>2. ASSUME NEW o \in Officer, BookEntry(o) PROVE OneRun' /\ LinesPinnedOnce'
    BY <1>2, <1>d DEF BookEntry, MatchPlace, OfficerPlace
  <1>3. ASSUME NEW o \in Officer, MarkPosted(o) \/ MarkCancelled(o) PROVE OneRun' /\ LinesPinnedOnce'
    BY <1>3, <1>d DEF MarkPosted, MarkCancelled, SetStatus, MatchPlace, OfficerPlace
  <1>4. ASSUME NEW o \in Officer, OfficerFails(o) PROVE OneRun' /\ LinesPinnedOnce'
    <2>1. officer[o].pc \in OfficerPlace
      BY <1>a DEF AnOfficer
    <2> QED
      BY <1>4, <1>d, <2>1 DEF OfficerFails, MatchPlace, OfficerPlace
  <1>5. ASSUME NEW o \in Officer, MatchLoad(o) PROVE OneRun' /\ LinesPinnedOnce'
    <2>1. /\ officer'[o].pc = "matching"
          /\ \A q \in Officer : q # o => officer'[q] = officer[q]
          /\ pinned' = pinned
      BY <1>5, <1>a DEF MatchLoad, AtDesk, AnOfficer
    <2>2. ~pinRaced' <=> (~pinRaced /\ Matching = {})
      BY <1>5 DEF MatchLoad, Busy, Matching, MatchPlace
    <2>3. Matching' = Matching \cup {o}
      BY <2>1 DEF Matching, MatchPlace
    <2>4. LinesPinnedOnce'
      BY <1>c, <2>1, <2>2 DEF LinesPinnedOnce
    <2> QED
      BY <1>c, <2>1, <2>2, <2>3, <2>4 DEF OneRun
  <1>6. ASSUME NEW o \in Officer, MatchLeg(o) PROVE OneRun' /\ LinesPinnedOnce'
    <2>1. PICK l \in officer[o].todo : MatchOne(o, l)
      BY <1>6 DEF MatchLeg, MatchOne, Picks
    <2>2. officer[o].pc = "matching" /\ UNCHANGED <<pinned, pinRaced>>
      BY <1>6 DEF MatchLeg
    <2>3. LinesPinnedOnce'
      BY <1>c, <2>2 DEF LinesPinnedOnce
    <2>4. ASSUME officer' = [officer EXCEPT ![o].todo = @ \ {l}] PROVE OneRun'
      <3>1. /\ officer'[o].pc = "matching"
            /\ \A q \in Officer : q # o => officer'[q] = officer[q]
        BY <1>a, <2>2, <2>4 DEF AnOfficer
      <3>2. Matching' = Matching
        BY <2>2, <3>1 DEF Matching, MatchPlace
      <3> QED
        BY <1>c, <2>2, <3>1, <3>2 DEF OneRun
    <2>5. ASSUME NEW k \in Free(o, l), Picks(o, l, k) PROVE OneRun'
      <3>1. /\ officer'[o].pc = "pinning" /\ officer'[o].pick = <<l, k>>
            /\ \A q \in Officer : q # o => officer'[q] = officer[q]
        BY <1>a, <2>5 DEF Picks, AnOfficer
      <3>2. Matching' = Matching /\ o \in Matching
        BY <2>2, <3>1 DEF Matching, MatchPlace
      <3>3. \A m \in Leg : pinned'[m] # officer'[o].pick[2]
        BY <2>2, <3>1 DEF Free
      <3> QED
        BY <1>c, <2>2, <3>1, <3>2, <3>3 DEF OneRun, Matching, MatchPlace
    <2> QED
      BY <2>1, <2>3, <2>4, <2>5 DEF MatchOne
  <1>7. ASSUME NEW o \in Officer, PinLeg(o) PROVE OneRun' /\ LinesPinnedOnce'
    <2>1. /\ officer[o].pc = "pinning" /\ officer'[o].pc = "matching"
          /\ \A q \in Officer : q # o => officer'[q] = officer[q]
          /\ pinRaced' = pinRaced
      BY <1>7, <1>a DEF PinLeg, AnOfficer
    <2>2. Matching' = Matching /\ o \in Matching
      BY <2>1 DEF Matching, MatchPlace
    <2>3. OneRun'
      BY <1>c, <2>1, <2>2 DEF OneRun, Matching, MatchPlace
    <2>4. PICK l \in Leg, k \in Line : officer[o].pick = <<l, k>>
      BY <2>1 DEF PinInv, PinningPicks
    <2>5. pinned' = [pinned EXCEPT ![l] = k]
      BY <1>7, <2>4 DEF PinLeg
    <2>6. ~pinRaced => \A m \in Leg : pinned[m] # k
      BY <1>c, <2>1, <2>4 DEF OneRun
    <2>7. LinesPinnedOnce'
      BY <1>a, <1>c, <2>1, <2>5, <2>6 DEF LinesPinnedOnce
    <2> QED
      BY <2>3, <2>7
  <1>8. ASSUME NEW o \in Officer, MatchEnds(o) PROVE OneRun' /\ LinesPinnedOnce'
    BY <1>8, <1>d DEF MatchEnds, MatchPlace, OfficerPlace
  <1>9. ASSUME NEW o \in Officer, FindMatched(o) PROVE OneRun' /\ LinesPinnedOnce'
    <2>1. PICK to \in {"reconciling", "idle"} : OfficerGoTo(o, "closing", to)
      BY <1>9 DEF FindMatched
    <2> QED
      BY <1>9, <1>d, <2>1 DEF FindMatched, MatchPlace, OfficerPlace
  <1>10. ASSUME NEW o \in Officer, Reconcile(o) PROVE OneRun' /\ LinesPinnedOnce'
    BY <1>10, <1>d DEF Reconcile, MatchPlace, OfficerPlace
  <1>11. CASE PinByHand
    BY <1>11 DEF PinByHand, OneRun, LinesPinnedOnce
  <1>12. CASE UNCHANGED settlementVars
    BY <1>c, <1>12 DEF settlementVars, OneRun, LinesPinnedOnce, Matching
  <1> QED
    BY <1>1, <1>2, <1>3, <1>4, <1>5, <1>6, <1>7, <1>8, <1>9, <1>10, <1>11, <1>12 DEF SettlementNext

(* Unless matchers overlap or finance pins by hand, no two legs are pinned   *)
(* to one clearing line, however often a matcher dies half way               *)
(* (settlement-matcher.service.ts).                                          *)
THEOREM MatcherSafe == SettlementSpec => []LinesPinnedOnce
  <1>1. SettlementInit => PinInv
    <2> SUFFICES ASSUME SettlementInit PROVE PinInv
      OBVIOUS
    <2>1. SettlementTypeOK /\ PinningPicks
      BY DEF SettlementInit, SettlementTypeOK, PinningPicks, AtDesk, ImportStatus, OfficerPlace
    <2>2. OneRun /\ LinesPinnedOnce
      BY DEF SettlementInit, OneRun, LinesPinnedOnce, Matching, MatchPlace, AtDesk
    <2> QED
      BY <2>1, <2>2 DEF PinInv
  <1>2. PinInv /\ [SettlementNext]_settlementVars => PinInv'
    BY ImportTypes, PinStepOK DEF PinInv
  <1>3. PinInv => LinesPinnedOnce
    BY DEF PinInv
  <1> QED
    BY <1>1, <1>2, <1>3, PTL DEF SettlementSpec
-----------------------------------------------------------------------------
LEMMA DeskInitOK ==
    Init => /\ PeriodInit /\ RequestInit /\ ApprovalInit /\ BillingInit
            /\ SettlementInit /\ CodInit /\ ShiftInit
  BY DEF Init

\* A step of one desk is a step of its protocol and a stutter of the others.
LEMMA DeskStepOK ==
    [Next]_vars =>
        /\ [PeriodNext]_periodVars
        /\ [RequestNext]_requestVars
        /\ [ApprovalNext]_approvalVars
        /\ [BillingNext]_billingVars
        /\ [SettlementNext]_settlementVars
        /\ [CodNext]_codVars
        /\ [ShiftNext]_shiftVars
  BY DEF Next, vars, Period, Request, Approval, Billing, Settlement, Cod, Till

\* The desks share no document: what happens at one of them looks to every other
\* like time passing.
LEMMA DesksAreIndependent ==
    Spec => /\ PeriodSpec /\ RequestSpec /\ ApprovalSpec /\ BillingSpec
            /\ SettlementSpec /\ CodSpec /\ ShiftSpec
  BY DeskInitOK, DeskStepOK, PTL
     DEF Spec, PeriodSpec, RequestSpec, ApprovalSpec, BillingSpec, SettlementSpec, CodSpec, ShiftSpec

(* Whatever the presses, clerks, approvers, sweeps, officers, tellers and    *)
(* cashiers do, every document keeps its shape and no protocol's invariant   *)
(* is broken (period-close.service.ts to shift.handlers.ts).                *)
THEOREM BackOfficeSafe ==
    Spec => []( /\ TypeOK
                /\ LadderWalked
                /\ ApprovedByQuorum
                /\ NoCycleForFree
                /\ BooksAgree
                /\ LinesPinnedOnce
                /\ FourEyes
                /\ DrawerCovered )
  <1>1. /\ PeriodTypeOK /\ RequestTypeOK /\ ApprovalTypeOK /\ BillingTypeOK
        /\ SettlementTypeOK /\ CodTypeOK /\ ShiftTypeOK
        => TypeOK
    BY DEF TypeOK
  <1> QED
    BY <1>1, DesksAreIndependent, PeriodSafe, RequestTransfersOnce, ApprovalSafe, BillingSafe,
       ImportSafe, MatcherSafe, CodClearsOnce, ShiftSafe, PTL

(* The composed desks still implement the contract twice: goods asked for    *)
(* are transferred once and the receivable is cleared once per noticed fault *)
(* (stock-request.service.ts, cod-settlement.handler.ts).                    *)
THEOREM BackOfficeEffectsOnce == Spec => TransferredOnce /\ ClearedOnce
  BY DesksAreIndependent, RequestTransfersOnce, CodClearsOnce

(* The composed desks also keep their order in time: one shift and one close *)
(* session at once, closed shifts and ended sessions stay as they are        *)
(* (shift.handlers.ts, period-close.repository.ts), and bills go in turn     *)
(* (process-billing-due.ts).                                                 *)
THEOREM BackOfficeStands ==
    Spec => /\ [](OneActive /\ OneInProgress)
            /\ [][ClosedStays]_shiftVars
            /\ [][SessionsGoOn]_periodVars
            /\ [][BillsInTurn]_billingVars
  BY DesksAreIndependent, ClosedShiftsStand, SessionsStand, BilledInTurn, PTL
=============================================================================
