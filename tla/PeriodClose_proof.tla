-------------------------- MODULE PeriodClose_proof --------------------------
(***************************************************************************)
(* Proofs about the guided close of a period: its types, and that a session *)
(* no two presses moved past the same step walks its ladder.                *)
(*                                                                          *)
(* The second update of markStepResult increments whatever the index is     *)
(* now.  The argument is that a press never carries an index larger than    *)
(* the session's: when its step was not moved past before, the index it     *)
(* carries is the session's, and the increment is the right one.            *)
(***************************************************************************)
EXTENDS PeriodClose, TLAPS

Earned(s) == passed[s] \cup skipped[s]

AtWork == {"marking", "handling", "won", "lost", "skipping", "moving"}

\* What the presses carry.
Carries(p) ==
    /\ press[p].pc \in AtWork => press[p].index <= index[press[p].session]
    /\ press[p].pc = "won" => press[p].index \in passed[press[p].session]
    /\ press[p].pc = "moving" => press[p].index \in Earned(press[p].session)

Carried == \A p \in Press : Carries(p)

MovesEarned == \A s \in Session, i \in StepNo : moves[s][i] >= 1 => i \in Earned(s)

InStep ==
    \A s \in Session : ~Overtaken(s) =>
        /\ \A i \in StepNo : moves[s][i] = 1 <=> i < index[s]
        /\ session[s] = "completed" <=> index[s] > Len(Ladder)

PeriodInv == PeriodTypeOK /\ Carried /\ MovesEarned /\ InStep

LEMMA Bounds == 1 \in Session /\ 1 \in StepNo /\ Len(Ladder) \in Nat /\ Len(Ladder) > 0
                /\ Session \subseteq Nat /\ StepNo \subseteq Nat
  BY PeriodConstants DEF Session, StepNo

LEMMA LadderKeys == \A i \in StepNo : Ladder[i] \in StepKey
  BY PeriodConstants DEF StepNo

LEMMA PeriodInitOK == PeriodInit => PeriodInv
  <1> SUFFICES ASSUME PeriodInit PROVE PeriodInv
    OBVIOUS
  <1>1. leftOpen \subseteq Gate
    BY DEF PeriodInit
  <1>2. /\ \A s \in Session : index[s] = 1 /\ session[s] = "none"
        /\ \A s \in Session, i \in StepNo : moves[s][i] = 0
        /\ \A p \in Press : press[p].pc = "idle"
    BY DEF PeriodInit, Idle
  <1>3. PeriodTypeOK
    <2>1. press \in [Press -> [pc : PressPlace, session : Session, index : StepNo]]
      BY Bounds DEF PeriodInit, Idle, PressPlace
    <2>2. closed \in BOOLEAN
      BY DEF PeriodInit
    <2>5. session \in [Session -> SessionStatus] /\ index \in [Session -> Nat \ {0}]
      <3>1. [u \in Session |-> "none"] \in [Session -> SessionStatus]
        BY DEF SessionStatus
      <3>2. [u \in Session |-> 1] \in [Session -> Nat \ {0}]
        OBVIOUS
      <3> QED
        BY <3>1, <3>2 DEF PeriodInit
    <2>4. skipped \in [Session -> SUBSET StepNo] /\ passed \in [Session -> SUBSET StepNo]
      <3>1. [u \in Session |-> {}] \in [Session -> SUBSET StepNo]
        OBVIOUS
      <3> QED
        BY <3>1 DEF PeriodInit
    <2>3. moves \in [Session -> [StepNo -> Nat]]
      <3>1. [i \in StepNo |-> 0] \in [StepNo -> Nat]
        OBVIOUS
      <3> QED
        BY <3>1 DEF PeriodInit
    <2> QED
      BY <1>1, <2>1, <2>2, <2>3, <2>4, <2>5 DEF PeriodTypeOK
  <1>4. Carried /\ MovesEarned
    BY <1>2 DEF Carried, Carries, MovesEarned, AtWork
  <1>5. InStep
    <2> SUFFICES ASSUME NEW s \in Session
                 PROVE  /\ \A i \in StepNo : moves[s][i] = 1 <=> i < index[s]
                        /\ session[s] = "completed" <=> index[s] > Len(Ladder)
      BY DEF InStep
    <2>1. \A i \in StepNo : moves[s][i] = 0 /\ ~(i < index[s])
      BY <1>2 DEF StepNo
    <2> QED
      BY <1>2, <2>1, Bounds
  <1> QED
    BY <1>3, <1>4, <1>5 DEF PeriodInv
-----------------------------------------------------------------------------
PressRecord == [pc : PressPlace, session : Session, index : StepNo]

\* A press goes on with what it loaded, or is over.
LEMMA PressGoes ==
    ASSUME PeriodTypeOK, NEW p \in Press, NEW from, NEW to \in PressPlace, PressGoTo(p, from, to)
    PROVE  /\ press' \in [Press -> PressRecord]
           /\ press[p].pc = from /\ press'[p].pc = to
           /\ to # "idle" => /\ press'[p].session = press[p].session
                             /\ press'[p].index = press[p].index
           /\ \A q \in Press : q # p => press'[q] = press[q]
  <1>1. Idle \in PressRecord /\ Idle.pc = "idle"
    BY Bounds DEF Idle, PressRecord, PressPlace
  <1>2. press \in [Press -> PressRecord] /\ press[p] \in PressRecord
    BY DEF PeriodTypeOK, PressRecord
  <1>3. CASE to = "idle"
    BY <1>1, <1>2, <1>3 DEF PressGoTo
  <1>4. CASE to # "idle"
    <2> DEFINE r == [press[p] EXCEPT !.pc = to]
    <2>1. /\ r \in PressRecord /\ r.pc = to
          /\ r.session = press[p].session /\ r.index = press[p].index
      BY <1>2 DEF PressRecord
    <2>2. press' = [press EXCEPT ![p] = r] /\ press[p].pc = from
      BY <1>4 DEF PressGoTo
    <2> HIDE DEF r
    <2> QED
      BY <1>2, <2>1, <2>2
  <1> QED
    BY <1>3, <1>4

\* Steps that leave the sessions' indexes, results and moves as they are and
\* complete no session.
LEMMA Untouched ==
    ASSUME PeriodInv, UNCHANGED <<index, skipped, passed, moves>>,
           \A s \in Session : session'[s] = "completed" <=> session[s] = "completed"
    PROVE  MovesEarned' /\ InStep'
  <1>1. \A s \in Session : Earned(s)' = Earned(s) /\ (Overtaken(s)' <=> Overtaken(s))
    BY DEF Earned, Overtaken
  <1>2. MovesEarned'
    BY <1>1 DEF PeriodInv, MovesEarned
  <1>3. InStep'
    BY <1>1 DEF PeriodInv, InStep
  <1> QED
    BY <1>2, <1>3

\* A press goes on while the documents stay as they are.
LEMMA GoesOn ==
    ASSUME PeriodInv, NEW p \in Press, NEW from, NEW to \in PressPlace, PressGoTo(p, from, to),
           UNCHANGED <<leftOpen, document, passed, moves>>, closed' \in BOOLEAN,
           to \in AtWork => from \in AtWork,
           to = "won" => FALSE,
           to = "moving" => from = "won"
    PROVE  PeriodInv'
  <1>1. PeriodTypeOK
    BY DEF PeriodInv
  <1>2. PeriodTypeOK'
    BY <1>1, PressGoes DEF PeriodTypeOK, document, PressRecord
  <1>3. Carried'
    <2>2. \A q \in Press : q # p => press'[q] = press[q]
      BY <1>1, PressGoes
    <2>3. /\ press[p].pc = from /\ press'[p].pc = to
          /\ to # "idle" => press'[p].session = press[p].session /\ press'[p].index = press[p].index
      BY <1>1, PressGoes
    <2>4. /\ from \in AtWork => press[p].index <= index[press[p].session]
          /\ from = "won" => press[p].index \in Earned(press[p].session)
      BY <2>3 DEF PeriodInv, Carried, Carries, Earned
    <2>5. UNCHANGED <<index, passed>>
      BY DEF document
    <2>6. Carries(p)'
      BY <2>3, <2>4, <2>5 DEF AtWork, Carries, Earned, document
    <2>7. ASSUME NEW q \in Press, q # p PROVE Carries(q)'
      BY <2>2, <2>5, <2>7 DEF PeriodInv, Carried, Carries, Earned, document
    <2> QED
      BY <2>6, <2>7 DEF Carried
  <1>4. MovesEarned' /\ InStep'
    BY Untouched DEF document
  <1> QED
    BY <1>2, <1>3, <1>4 DEF PeriodInv

\* Steps of which no press takes notice: the period and the sessions' status.
LEMMA StatusOnly ==
    ASSUME PeriodInv, UNCHANGED <<index, skipped, passed, moves>>,
           closed' \in BOOLEAN, leftOpen' \subseteq Gate,
           session' \in [Session -> SessionStatus],
           \A s \in Session : session'[s] = "completed" <=> session[s] = "completed",
           press' \in [Press -> PressRecord],
           \A p \in Press : press'[p] = press[p] \/ press'[p].pc \notin AtWork
    PROVE  PeriodInv'
  <1>1. PeriodTypeOK'
    BY DEF PeriodInv, PeriodTypeOK, PressRecord
  <1>2. Carried'
    BY DEF PeriodInv, Carried, Carries, Earned, AtWork
  <1> QED
    BY <1>1, <1>2, Untouched DEF PeriodInv

LEMMA StartsOK ==
    ASSUME PeriodInv, NEW p \in Press,
           StartLoad(p) \/ StartAborts(p) \/ StartCreates(p) \/ StartLosesRace(p)
    PROVE  PeriodInv'
  <1>0. PeriodTypeOK
    BY DEF PeriodInv
  <1>1. PICK from, to \in {"aborting", "creating", "idle"} : PressGoTo(p, from, to)
    BY DEF StartLoad, StartAborts, StartCreates, StartLosesRace
  <1>2. /\ press' \in [Press -> PressRecord]
        /\ \A q \in Press : press'[q] = press[q] \/ press'[q].pc \notin AtWork
    BY <1>0, <1>1, PressGoes DEF AtWork, PressPlace
  <1>3. UNCHANGED <<closed, leftOpen, index, skipped, passed, moves>>
    BY DEF StartLoad, StartAborts, StartCreates, StartLosesRace, books, document
  <1>4. /\ session' \in [Session -> SessionStatus]
        /\ \A s \in Session : session'[s] = "completed" <=> session[s] = "completed"
    <2>1. CASE UNCHANGED session
      BY <2>1, <1>0 DEF PeriodTypeOK
    <2>2. CASE session' = [s \in Session |-> IF s \in InProgress THEN "aborted" ELSE session[s]]
      BY <2>2, <1>0 DEF PeriodTypeOK, SessionStatus, InProgress
    <2>3. CASE \E s \in Session : session[s] = "none" /\ session' = [session EXCEPT ![s] = "in_progress"]
      BY <2>3, <1>0 DEF PeriodTypeOK, SessionStatus
    <2> QED
      BY <2>1, <2>2, <2>3 DEF StartLoad, StartAborts, StartCreates, StartLosesRace, document
  <1> QED
    BY <1>0, <1>2, <1>3, <1>4, StatusOnly DEF PeriodTypeOK

LEMMA LoadsOK ==
    ASSUME PeriodInv, NEW p \in Press, NEW to \in {"marking", "skipping"}, Loads(p, to)
    PROVE  PeriodInv'
  <1>1. PICK s \in InProgress :
            /\ index[s] <= Len(Ladder) /\ press[p].pc = "idle"
            /\ press' = [press EXCEPT ![p] = [pc |-> to, session |-> s, index |-> index[s]]]
            /\ UNCHANGED <<books, document, passed, moves>>
    BY DEF Loads
  <1>2. s \in Session /\ index[s] \in Nat \ {0} /\ index[s] \in StepNo
    BY <1>1, Bounds DEF InProgress, PeriodInv, PeriodTypeOK, StepNo
  <1>3. [pc |-> to, session |-> s, index |-> index[s]] \in PressRecord
    BY <1>2 DEF PressRecord, PressPlace
  <1>4. /\ press' \in [Press -> PressRecord]
        /\ press'[p] = [pc |-> to, session |-> s, index |-> index[s]]
        /\ \A q \in Press : q # p => press'[q] = press[q]
    BY <1>1, <1>3 DEF PeriodInv, PeriodTypeOK, PressRecord
  <1>5. UNCHANGED <<closed, leftOpen, session, index, skipped, passed, moves>>
    BY <1>1 DEF books, document
  <1>6. PeriodTypeOK'
    BY <1>4, <1>5 DEF PeriodInv, PeriodTypeOK, PressRecord
  <1>7. press'[p].index <= index[press'[p].session] /\ press'[p].pc \notin {"won", "moving"}
    BY <1>2, <1>4
  <1>9. Carried'
    BY <1>4, <1>5, <1>7 DEF PeriodInv, Carried, Carries, Earned
  <1> QED
    BY <1>5, <1>6, <1>9, Untouched DEF PeriodInv

\* The steps that record a result: a handler's, or a skip's.
LEMMA ResultsOK ==
    ASSUME PeriodInv, NEW p \in Press, HandlerReturns(p) \/ ResultSkipped(p)
    PROVE  PeriodInv'
  <1>a. PICK s \in Session, i \in StepNo : press[p].session = s /\ press[p].index = i
    BY DEF PeriodInv, PeriodTypeOK
  <1>0. PeriodTypeOK
    BY DEF PeriodInv
  <1>1. PICK from \in {"handling", "skipping"}, to \in {"won", "moving"} :
            /\ PressGoTo(p, from, to)
            /\ to = "won" => passed' = [passed EXCEPT ![s] = @ \cup {i}] /\ UNCHANGED skipped
            /\ to = "moving" => skipped' = [skipped EXCEPT ![s] = @ \cup {i}] /\ UNCHANGED passed
            /\ UNCHANGED <<leftOpen, session, index, moves>>
            /\ closed' \in BOOLEAN
    <2>1. CASE HandlerReturns(p)
      <3>1. closed' \in BOOLEAN
        BY <2>1, <1>0, Zenon DEF HandlerReturns, PeriodTypeOK
      <3> QED
        BY <1>a, <2>1, <3>1 DEF HandlerReturns, document
    <2>2. CASE ResultSkipped(p)
      BY <1>a, <2>2, <1>0 DEF ResultSkipped, books, PeriodTypeOK
    <2> QED
      BY <2>1, <2>2
  <1>2. /\ press' \in [Press -> PressRecord]
        /\ press[p].pc = from /\ press'[p].pc = to
        /\ press'[p].session = s /\ press'[p].index = i
        /\ \A q \in Press : q # p => press'[q] = press[q]
    BY <1>a, <1>0, <1>1, PressGoes DEF PressPlace
  <1>3. /\ passed' \in [Session -> SUBSET StepNo] /\ skipped' \in [Session -> SUBSET StepNo]
        /\ \A u \in Session : passed[u] \subseteq passed'[u] /\ Earned(u) \subseteq Earned(u)'
        /\ i \in Earned(s)' /\ (to = "won" => i \in passed'[s])
    <2>a. /\ passed \in [Session -> SUBSET StepNo] /\ skipped \in [Session -> SUBSET StepNo]
      BY <1>0 DEF PeriodTypeOK
    <2>1. CASE to = "won"
      <3>1. passed' = [passed EXCEPT ![s] = @ \cup {i}] /\ skipped' = skipped
        BY <2>1, <1>1
      <3>2. /\ passed' \in [Session -> SUBSET StepNo] /\ i \in passed'[s]
            /\ \A u \in Session : passed[u] \subseteq passed'[u]
        BY <3>1, <2>a
      <3> QED
        BY <2>1, <2>a, <3>1, <3>2 DEF Earned
    <2>2. CASE to = "moving"
      <3>1. skipped' = [skipped EXCEPT ![s] = @ \cup {i}] /\ passed' = passed
        BY <2>2, <1>1
      <3>2. /\ skipped' \in [Session -> SUBSET StepNo] /\ i \in skipped'[s]
            /\ \A u \in Session : skipped[u] \subseteq skipped'[u]
        BY <3>1, <2>a
      <3> QED
        BY <2>2, <2>a, <3>1, <3>2 DEF Earned
    <2> QED
      BY <2>1, <2>2
  <1>4. PeriodTypeOK'
    BY <1>0, <1>1, <1>2, <1>3 DEF PeriodTypeOK, PressRecord
  <1>5. i <= index[s]
    BY <1>a, <1>1, <1>2 DEF PeriodInv, Carried, Carries, AtWork
  <1>6. Carries(p)'
    BY <1>1, <1>2, <1>3, <1>5 DEF Carries, Earned
  <1>7. ASSUME NEW q \in Press, q # p PROVE Carries(q)'
    <2>1. press[q].session \in Session /\ press'[q] = press[q]
      BY <1>0, <1>2, <1>7 DEF PeriodTypeOK
    <2> QED
      BY <1>1, <1>3, <2>1 DEF PeriodInv, Carried, Carries, Earned
  <1>8. Carried'
    BY <1>6, <1>7 DEF Carried
  <1>9. MovesEarned'
    BY <1>1, <1>3 DEF PeriodInv, MovesEarned
  <1>10. InStep'
    BY <1>1 DEF PeriodInv, InStep, Overtaken
  <1> QED
    BY <1>4, <1>8, <1>9, <1>10 DEF PeriodInv
-----------------------------------------------------------------------------
\* The increment: the only step that changes an index.
LEMMA MovesOK == ASSUME PeriodInv, NEW p \in Press, Moves(p) PROVE PeriodInv'
  <1> DEFINE s == press[p].session
             i == press[p].index
  <1>0. /\ PeriodTypeOK /\ s \in Session /\ i \in StepNo /\ i \in Nat
        /\ Len(Ladder) \in Nat /\ i <= Len(Ladder)
    BY Bounds DEF PeriodInv, PeriodTypeOK, StepNo
  <1>1. /\ PressGoTo(p, "moving", "idle")
        /\ index' = [index EXCEPT ![s] = @ + 1]
        /\ session' = IF i = Len(Ladder) THEN [session EXCEPT ![s] = "completed"] ELSE session
        /\ moves' = [moves EXCEPT ![s][i] = @ + 1]
        /\ UNCHANGED <<closed, leftOpen, skipped, passed>>
    BY DEF Moves, books
  <1>2. /\ i <= index[s] /\ i \in Earned(s)
    BY <1>1 DEF PeriodInv, Carried, Carries, AtWork, PressGoTo
  <1>3. /\ index[s] \in Nat /\ index'[s] = index[s] + 1
        /\ index' \in [Session -> Nat \ {0}]
        /\ \A u \in Session : u # s => index'[u] = index[u]
    BY <1>0, <1>1 DEF PeriodTypeOK
  <1>4. /\ moves' \in [Session -> [StepNo -> Nat]]
        /\ moves[s][i] \in Nat /\ moves'[s][i] = moves[s][i] + 1
        /\ \A j \in StepNo : j # i => moves'[s][j] = moves[s][j]
        /\ \A u \in Session : u # s => moves'[u] = moves[u]
    BY <1>0, <1>1 DEF PeriodTypeOK
  <1>5. /\ session' \in [Session -> SessionStatus]
        /\ \A u \in Session : u # s => session'[u] = session[u]
        /\ i = Len(Ladder) => session'[s] = "completed"
        /\ i # Len(Ladder) => session'[s] = session[s]
    BY <1>0, <1>1 DEF PeriodTypeOK, SessionStatus
  <1>6. /\ press' \in [Press -> PressRecord]
        /\ press'[p].pc = "idle"
        /\ \A q \in Press : q # p => press'[q] = press[q]
    BY <1>0, <1>1, PressGoes DEF PressPlace
  <1> HIDE DEF s, i
  <1>7. PeriodTypeOK'
    BY <1>0, <1>1, <1>3, <1>4, <1>5, <1>6 DEF PeriodTypeOK, PressRecord
  <1>8. \A u : Earned(u)' = Earned(u)
    BY <1>1 DEF Earned
  <1>9. ASSUME NEW u \in Session PROVE index[u] \in Nat /\ index'[u] \in Nat /\ index'[u] >= index[u]
    <2>1. index[u] \in Nat
      BY <1>0 DEF PeriodTypeOK
    <2> QED
      BY <1>3, <2>1
  <1>10. Carried'
    <2> SUFFICES ASSUME NEW q \in Press, q # p
                 PROVE  /\ press[q].pc \in AtWork => press[q].index <= index'[press[q].session]
                        /\ press[q].pc = "won" => press[q].index \in passed[press[q].session]
                        /\ press[q].pc = "moving" => press[q].index \in Earned(press[q].session)
      BY <1>1, <1>6 DEF Carried, Carries, AtWork, Earned
    <2>1. press[q].session \in Session /\ press[q].index \in Nat
      BY <1>0, Bounds DEF PeriodTypeOK
    <2> QED
      BY <1>9, <2>1 DEF PeriodInv, Carried, Carries
  <1>11. MovesEarned'
    <2> SUFFICES ASSUME NEW u \in Session, NEW j \in StepNo, moves'[u][j] >= 1
                 PROVE  j \in Earned(u)
      BY <1>8 DEF MovesEarned
    <2>1. CASE u = s /\ j = i
      BY <2>1, <1>2
    <2>2. CASE ~(u = s /\ j = i)
      BY <2>2, <1>4 DEF PeriodInv, MovesEarned
    <2> QED
      BY <2>1, <2>2
  <1>12. InStep'
    <2> SUFFICES ASSUME NEW u \in Session, ~Overtaken(u)'
                 PROVE  /\ \A j \in StepNo : moves'[u][j] = 1 <=> j < index'[u]
                        /\ session'[u] = "completed" <=> index'[u] > Len(Ladder)
      BY DEF InStep
    <2>1. ASSUME u # s
          PROVE  /\ \A j \in StepNo : moves'[u][j] = 1 <=> j < index'[u]
                 /\ session'[u] = "completed" <=> index'[u] > Len(Ladder)
      <3>1. moves'[u] = moves[u] /\ index'[u] = index[u] /\ session'[u] = session[u]
        BY <2>1, <1>3, <1>4, <1>5
      <3>2. ~Overtaken(u)
        BY <3>1 DEF Overtaken
      <3> QED
        BY <3>1, <3>2 DEF PeriodInv, InStep
    <2>2. ASSUME u = s
          PROVE  /\ \A j \in StepNo : moves'[s][j] = 1 <=> j < index'[s]
                 /\ session'[s] = "completed" <=> index'[s] > Len(Ladder)
      <3>1. moves[s][i] = 0
        BY <1>0, <1>4, <2>2 DEF Overtaken
      <3>2. ~Overtaken(s)
        <4>1. \A j \in StepNo : moves'[s][j] <= 1 /\ moves[s][j] \in Nat
          BY <1>0, <1>4, <2>2 DEF Overtaken, PeriodTypeOK
        <4> QED
          BY <1>4, <3>1, <4>1 DEF Overtaken
      <3>3. /\ \A j \in StepNo : moves[s][j] = 1 <=> j < index[s]
            /\ session[s] = "completed" <=> index[s] > Len(Ladder)
        BY <1>0, <3>2 DEF PeriodInv, InStep
      <3>4. i = index[s]
        BY <1>0, <1>2, <1>3, <3>1, <3>3
      <3>5. \A j \in StepNo : moves'[s][j] = 1 <=> j < index'[s]
        <4> SUFFICES ASSUME NEW j \in StepNo PROVE moves'[s][j] = 1 <=> j < index'[s]
          OBVIOUS
        <4>1. j \in Nat /\ index'[s] = i + 1 /\ index[s] = i /\ i \in Nat
          BY <1>0, <1>3, <3>4, Bounds
        <4>2. CASE j = i
          BY <1>4, <3>1, <4>1, <4>2
        <4>3. CASE j # i
          BY <1>4, <3>3, <4>1, <4>3
        <4> QED
          BY <4>2, <4>3
      <3>6. session'[s] = "completed" <=> index'[s] > Len(Ladder)
        BY <1>0, <1>3, <1>5, <3>3, <3>4
      <3> QED
        BY <3>5, <3>6
    <2> QED
      BY <2>1, <2>2
  <1> QED
    BY <1>7, <1>10, <1>11, <1>12 DEF PeriodInv

LEMMA PressStepOK == ASSUME PeriodInv, NEW p \in Press, PressStep(p) PROVE PeriodInv'
  <1>0. PeriodTypeOK /\ closed \in BOOLEAN
    BY DEF PeriodInv, PeriodTypeOK
  <1>1. ASSUME StartLoad(p) \/ StartAborts(p) \/ StartCreates(p) \/ StartLosesRace(p) PROVE PeriodInv'
    BY <1>1, StartsOK
  <1>2. ASSUME AdvanceLoad(p) \/ SkipLoad(p) PROVE PeriodInv'
    BY <1>2, LoadsOK DEF AdvanceLoad, SkipLoad
  <1>3. ASSUME MarkRunning(p) PROVE PeriodInv'
    BY <1>0, <1>3, GoesOn DEF MarkRunning, PressPlace, AtWork, books
  <1>4. ASSUME HandlerThrows(p) PROVE PeriodInv'
    BY <1>0, <1>4, GoesOn DEF HandlerThrows, PressPlace, AtWork, books
  <1>5. ASSUME ResultSuccess(p) PROVE PeriodInv'
    BY <1>0, <1>5, GoesOn DEF ResultSuccess, PressPlace, AtWork, books
  <1>6. ASSUME ResultFailed(p) PROVE PeriodInv'
    BY <1>0, <1>6, GoesOn DEF ResultFailed, PressPlace, AtWork, books
  <1>7. ASSUME PressDies(p) PROVE PeriodInv'
    <2>1. Idle \in PressRecord /\ Idle.pc \notin AtWork
      BY Bounds DEF Idle, PressRecord, PressPlace, AtWork
    <2>2. /\ press' = [press EXCEPT ![p] = Idle]
          /\ UNCHANGED <<closed, leftOpen, session, index, skipped, passed, moves>>
      BY <1>7 DEF PressDies, books, document
    <2>3. /\ press' \in [Press -> PressRecord]
          /\ \A q \in Press : press'[q] = press[q] \/ press'[q].pc \notin AtWork
      BY <1>0, <2>1, <2>2 DEF PeriodTypeOK, PressRecord
    <2> QED
      BY <1>0, <2>2, <2>3, StatusOnly DEF PeriodTypeOK
  <1> QED
    BY <1>1, <1>2, <1>3, <1>4, <1>5, <1>6, <1>7, ResultsOK, MovesOK DEF PressStep

LEMMA BooksOK ==
    ASSUME PeriodInv, AbortSession \/ CloseDirectly \/ Reopen \/ WorkChanges \/ UNCHANGED periodVars
    PROVE  PeriodInv'
  <1>0. PeriodTypeOK
    BY DEF PeriodInv
  <1>1. /\ UNCHANGED <<index, skipped, press, passed, moves>>
        /\ closed' \in BOOLEAN /\ leftOpen' \subseteq Gate
    BY <1>0 DEF AbortSession, CloseDirectly, Reopen, WorkChanges, periodVars, books, document,
                PeriodTypeOK
  <1>2. /\ session' \in [Session -> SessionStatus]
        /\ \A s \in Session : session'[s] = "completed" <=> session[s] = "completed"
    <2>1. CASE UNCHANGED session
      BY <2>1, <1>0 DEF PeriodTypeOK
    <2>2. CASE AbortSession
      BY <2>2, <1>0 DEF AbortSession, InProgress, PeriodTypeOK, SessionStatus
    <2> QED
      BY <2>1, <2>2 DEF CloseDirectly, Reopen, WorkChanges, periodVars, document
  <1>3. press' \in [Press -> PressRecord]
    BY <1>0, <1>1 DEF PeriodTypeOK, PressRecord
  <1> QED
    BY <1>1, <1>2, <1>3, StatusOnly

\* Types, and the ladder: a session no two presses moved past the same step
\* has a returned handler or a skip behind every step it moved past, and is
\* completed exactly when it moved past the last one (period-close.service.ts
\* advanceSession and skipCurrentStep, markStepResult).
THEOREM PeriodSafe == PeriodSpec => []PeriodTypeOK /\ []LadderWalked
  <1>1. PeriodInit => PeriodInv
    BY PeriodInitOK
  <1>2. PeriodInv /\ [PeriodNext]_periodVars => PeriodInv'
    BY PressStepOK, BooksOK DEF PeriodNext
  <1>3. PeriodInv => PeriodTypeOK /\ LadderWalked
    <2> SUFFICES ASSUME PeriodInv PROVE LadderWalked
      BY DEF PeriodInv
    <2> SUFFICES ASSUME NEW s \in Session, ~Overtaken(s)
                 PROVE  /\ \A i \in StepNo : i < index[s] => i \in passed[s] \cup skipped[s]
                        /\ session[s] = "completed" <=> index[s] > Len(Ladder)
      BY DEF LadderWalked
    <2>1. /\ \A i \in StepNo : i < index[s] => moves[s][i] = 1
          /\ session[s] = "completed" <=> index[s] > Len(Ladder)
      BY DEF PeriodInv, InStep
    <2>2. \A i \in StepNo : moves[s][i] >= 1 => i \in passed[s] \cup skipped[s]
      BY DEF PeriodInv, MovesEarned, Earned
    <2> QED
      BY <2>1, <2>2
  <1> QED
    BY <1>1, <1>2, <1>3, PTL DEF PeriodSpec
-----------------------------------------------------------------------------
\* A period has one session in progress at most.
OneInProgress == \A s, t \in InProgress : s = t

\* Sessions only go on: what was completed stays so, nothing that ended is in
\* progress again, the index never falls, and no skip or result is forgotten.
SessionsGoOn ==
    \A s \in Session :
        /\ session[s] = "completed" => session'[s] = "completed"
        /\ session[s] # "none" => session'[s] \in {session[s], "completed", "aborted"}
        /\ index[s] <= index'[s]
        /\ skipped[s] \subseteq skipped'[s]
        /\ passed[s] \subseteq passed'[s]

LEMMA SessionsStepOK ==
    ASSUME PeriodTypeOK, OneInProgress, [PeriodNext]_periodVars
    PROVE  OneInProgress' /\ SessionsGoOn
  <1>0. /\ session \in [Session -> SessionStatus] /\ index \in [Session -> Nat \ {0}]
        /\ skipped \in [Session -> SUBSET StepNo] /\ passed \in [Session -> SUBSET StepNo]
        /\ press \in [Press -> PressRecord]
    BY DEF PeriodTypeOK, PressRecord
  <1> DEFINE Ended ==
          \A s \in Session : session'[s] # session[s] =>
              session[s] = "in_progress" /\ session'[s] = "aborted"
  <1>a. UNCHANGED session => Ended
    OBVIOUS
  <1>b. session' = [s \in Session |-> IF s \in InProgress THEN "aborted" ELSE session[s]] => Ended
    BY DEF InProgress
  <1>c. ASSUME NEW s \in InProgress, session' = [session EXCEPT ![s] = "aborted"] PROVE Ended
    BY <1>0, <1>c DEF InProgress
  <1>1. ASSUME UNCHANGED <<index, skipped, passed>>, Ended
        PROVE  OneInProgress' /\ SessionsGoOn
    BY <1>0, <1>1 DEF OneInProgress, InProgress, SessionsGoOn
  <1> HIDE DEF Ended
  <1>2. ASSUME NEW p \in Press, StartCreates(p) PROVE OneInProgress' /\ SessionsGoOn
    <2>1. PICK s \in Session : /\ session[s] = "none" /\ InProgress = {}
                               /\ session' = [session EXCEPT ![s] = "in_progress"]
      BY <1>2 DEF StartCreates
    <2>2. UNCHANGED <<index, skipped, passed>>
      BY <1>2 DEF StartCreates
    <2>3. session'[s] = "in_progress" /\ \A t \in Session : t # s => session'[t] = session[t]
      BY <1>0, <2>1
    <2>4. InProgress' \subseteq {s}
      BY <2>1, <2>3 DEF InProgress
    <2> QED
      BY <1>0, <2>1, <2>2, <2>3, <2>4 DEF OneInProgress, SessionsGoOn
  <1>3. ASSUME NEW p \in Press, Moves(p) PROVE OneInProgress' /\ SessionsGoOn
    <2> DEFINE s == press[p].session
    <2>1. /\ index' = [index EXCEPT ![s] = @ + 1] /\ UNCHANGED <<skipped, passed>>
          /\ session' \in {session, [session EXCEPT ![s] = "completed"]}
          /\ s \in Session
      BY <1>0, <1>3 DEF Moves, PressRecord
    <2> HIDE DEF s
    <2>2. \A t \in Session : index'[t] >= index[t]
      BY <1>0, <2>1
    <2>3. \A t \in Session : session'[t] \in {session[t], "completed"}
      BY <1>0, <2>1
    <2>4. InProgress' \subseteq InProgress
      BY <2>3 DEF InProgress
    <2> QED
      BY <1>0, <2>1, <2>2, <2>3, <2>4 DEF OneInProgress, SessionsGoOn
  <1>4. ASSUME NEW p \in Press, ResultSkipped(p) \/ HandlerReturns(p)
        PROVE  OneInProgress' /\ SessionsGoOn
    <2>1. UNCHANGED <<session, index>>
      BY <1>4 DEF ResultSkipped, HandlerReturns, document
    <2>2. \A s \in Session : skipped[s] \subseteq skipped'[s]
      BY <1>0, <1>4 DEF ResultSkipped, HandlerReturns, document
    <2>3. \A s \in Session : passed[s] \subseteq passed'[s]
      BY <1>0, <1>4 DEF ResultSkipped, HandlerReturns
    <2> QED
      BY <1>0, <2>1, <2>2, <2>3 DEF OneInProgress, InProgress, SessionsGoOn
  <1>5. ASSUME NEW p \in Press,
               \/ StartLoad(p) \/ StartLosesRace(p) \/ AdvanceLoad(p) \/ SkipLoad(p) \/ MarkRunning(p)
               \/ HandlerThrows(p) \/ ResultSuccess(p) \/ ResultFailed(p) \/ PressDies(p)
        PROVE  OneInProgress' /\ SessionsGoOn
    <2>1. UNCHANGED <<session, index, skipped, passed>>
      BY <1>5 DEF StartLoad, StartLosesRace, AdvanceLoad, SkipLoad, Loads, MarkRunning, HandlerThrows,
                  ResultSuccess, ResultFailed, PressDies, document
    <2> QED
      BY <1>1, <1>a, <2>1
  <1>6. ASSUME NEW p \in Press, StartAborts(p) PROVE OneInProgress' /\ SessionsGoOn
    BY <1>1, <1>b, <1>6 DEF StartAborts, books
  <1>7. CASE AbortSession
    BY <1>1, <1>c, <1>7 DEF AbortSession, books
  <1>8. CASE CloseDirectly \/ Reopen \/ WorkChanges \/ UNCHANGED periodVars
    <2>1. UNCHANGED <<session, index, skipped, passed>>
      BY <1>8 DEF CloseDirectly, Reopen, WorkChanges, periodVars, document
    <2> QED
      BY <1>1, <1>a, <2>1
  <1> QED
    BY <1>2, <1>3, <1>4, <1>5, <1>6, <1>7, <1>8 DEF PeriodNext, PressStep

\* Any number of starts, advances, skips and aborts race on a period: it has one
\* session in progress at most, and a session never falls back, not by a press
\* that finishes after the session was aborted or replaced.
THEOREM SessionsStand == PeriodSpec => []OneInProgress /\ [][SessionsGoOn]_periodVars
  <1>1. PeriodInit => OneInProgress
    BY DEF PeriodInit, OneInProgress, InProgress
  <1>2. PeriodTypeOK /\ OneInProgress /\ [PeriodNext]_periodVars =>
            OneInProgress' /\ [SessionsGoOn]_periodVars
    BY SessionsStepOK
  <1> QED
    BY <1>1, <1>2, PeriodSafe, PTL DEF PeriodSpec
=============================================================================
