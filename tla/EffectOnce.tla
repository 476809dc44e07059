----------------------------- MODULE EffectOnce -----------------------------
(***************************************************************************)
(* The promise behind every "check, act, stamp" of the code base: an effect *)
(* on a subject (goods moved, a transfer created, money taken) happens once,*)
(* and once more at most for every fault that hid the earlier one from the  *)
(* check: a stamp that was not written, a call that loaded the subject      *)
(* before another one stamped it.                                           *)
(***************************************************************************)
EXTENDS Naturals

CONSTANT Subject

VARIABLES
    done,   \* how often the effect happened
    excused \* how many faults hid it

Init ==
    /\ done    = [s \in Subject |-> 0]
    /\ excused = [s \in Subject |-> 0]

\* The answer may be lost at once.
Perform(s) ==
    /\ done[s] <= excused[s]
    /\ done' = [done EXCEPT ![s] = @ + 1]
    /\ \/ UNCHANGED excused
       \/ excused' = [excused EXCEPT ![s] = @ + 1]

Excuse(s) ==
    /\ excused' = [excused EXCEPT ![s] = @ + 1]
    /\ UNCHANGED done

Next == \E s \in Subject : Perform(s) \/ Excuse(s)

Spec == Init /\ [][Next]_<<done, excused>>
=============================================================================
