------------------------------ MODULE CronTick ------------------------------
(***************************************************************************)
(* startCronJob (cron/define-job.ts) and tryAcquireCronLock                 *)
(* (cron/cron-lock.ts) for one named job on every replica of the server.    *)
(*                                                                          *)
(* A tick is one callback of the interval timer.  It reads `running`, awaits*)
(* the lease of the job, which the lock adapter (a package outside the      *)
(* repository) grants to anybody when it is free or over, and again to the  *)
(* instance that has it, and only then sets `running`.  Nothing releases    *)
(* the lease: it ends by itself after 90% of the interval.                  *)
(***************************************************************************)
EXTENDS Naturals, FiniteSets

CONSTANTS
    Instance,   \* the replicas, each under its own instance id
    Tick,       \* the callbacks that can be under way at once
    InstanceOf, \* the replica of each
    Nobody      \* "no holder"

ASSUME CronConstants ==
    /\ InstanceOf \in [Tick -> Instance]
    /\ Nobody \notin Instance

VARIABLES
    alive,   \* the replicas that have not died
    running, \* the re-entrancy flag of each replica
    at,      \* where each tick is
    holder,  \* the instance in the job's lock document
    over,    \* its lease has run out
    overran  \* history: ticks whose lease ran out before their job was over

cron == <<alive, running, at, holder, over, overran>>

CronTypeOK ==
    /\ alive \subseteq Instance
    /\ running \in [Instance -> BOOLEAN]
    /\ at \in [Tick -> {"idle", "asking", "locked", "running"}]
    /\ holder \in Instance \cup {Nobody}
    /\ over \in BOOLEAN
    /\ overran \subseteq Tick

CronInit ==
    /\ alive   = Instance
    /\ running = [i \in Instance |-> FALSE]
    /\ at      = [t \in Tick |-> "idle"]
    /\ holder  = Nobody
    /\ over    = FALSE
    /\ overran = {}

Move(t, from, to) ==
    /\ at[t] = from
    /\ at' = [at EXCEPT ![t] = to]

\* The timer fires while the previous run is not known to be under way.
Fire(t) ==
    /\ InstanceOf[t] \in alive
    /\ ~running[InstanceOf[t]]
    /\ Move(t, "idle", "asking")
    /\ UNCHANGED <<alive, running, holder, over, overran>>

\* Mutant: the lease is not asked about.
CanAlwaysLock(t) == InstanceOf[t] \in alive

\* tryAcquire: one atomic upsert on the lock document.
CanLock(t) == holder \in {Nobody, InstanceOf[t]} \/ over

LockGranted(t) ==
    /\ CanLock(t)
    /\ Move(t, "asking", "locked")
    /\ holder' = InstanceOf[t]
    /\ over'   = FALSE
    /\ UNCHANGED <<alive, running, overran>>

\* The answer is back: the flag is set and the job begins.
Proceed(t) ==
    /\ Move(t, "locked", "running")
    /\ running' = [running EXCEPT ![InstanceOf[t]] = TRUE]
    /\ UNCHANGED <<alive, holder, over, overran>>

\* Another replica holds the lease: the tick is skipped.
LockRefused(t) ==
    /\ ~CanLock(t)
    /\ Move(t, "asking", "idle")
    /\ UNCHANGED <<alive, running, holder, over, overran>>

\* The adapter throws, or mongo is away: the tick is skipped as well.
LockErrs(t) ==
    /\ Move(t, "asking", "idle")
    /\ UNCHANGED <<alive, running, holder, over, overran>>

\* The job is over: the flag is cleared, the lease is kept.
Finish(t) ==
    /\ Move(t, "running", "idle")
    /\ running' = [running EXCEPT ![InstanceOf[t]] = FALSE]
    /\ overran' = overran \ {t}
    /\ UNCHANGED <<alive, holder, over>>

\* A replica dies with its ticks.  Its successor has another instance id.
Die(i) ==
    /\ i \in alive
    /\ alive'   = alive \ {i}
    /\ running' = [running EXCEPT ![i] = FALSE]
    /\ at'      = [t \in Tick |-> IF InstanceOf[t] = i THEN "idle" ELSE at[t]]
    /\ overran' = {t \in overran : InstanceOf[t] # i}
    /\ UNCHANGED <<holder, over>>

LeaseEnds ==
    /\ holder # Nobody /\ ~over
    /\ over' = TRUE
    /\ overran' = overran \cup {t \in Tick : at[t] \in {"locked", "running"} /\ InstanceOf[t] = holder}
    /\ UNCHANGED <<alive, running, at, holder>>

-----------------------------------------------------------------------------
\* The lock keeps replicas apart: two of them run the job at once only when
\* one of the two has been running for longer than its lease.
AloneUnlessOverrun ==
    \A t, u \in Tick :
        at[t] = "running" /\ at[u] = "running" /\ InstanceOf[t] # InstanceOf[u]
            => t \in overran \/ u \in overran

\* define-job.ts:7-9: the re-entrancy guard "Prevents two concurrent sweeps
\* stomping on each other".
OneSweepPerInstance ==
    \A t, u \in Tick :
        at[t] = "running" /\ at[u] = "running" /\ InstanceOf[t] = InstanceOf[u] => t = u
=============================================================================
