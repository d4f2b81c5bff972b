---------------------------- MODULE TaskContract ----------------------------
(***************************************************************************)
(* What the task store promises to whoever relies on it, without leases,   *)
(* fences, clocks or task states: a task is given to one runner at a time, *)
(* at most MaxAttempts times, takes at most one answer, from the runner it *)
(* is given to, and is not given out again once it has an answer or was    *)
(* withdrawn.                                                              *)
(***************************************************************************)
EXTENDS Integers

CONSTANTS Tasks, MaxAttempts

VARIABLES
    granted,    \* by task: how many attempts have been given out
    running,    \* by task: the attempts that may still answer
    answered,   \* by task: the attempts whose answer was taken
    withdrawn   \* the tasks an operator or runner has cancelled

vars == <<granted, running, answered, withdrawn>>

Init ==
    /\ granted = [t \in Tasks |-> 0]
    /\ running = [t \in Tasks |-> {}]
    /\ answered = [t \in Tasks |-> {}]
    /\ withdrawn = {}

Open(t) == answered[t] = {} /\ t \notin withdrawn

Grant(t) ==
    /\ Open(t)
    /\ running[t] = {}
    /\ granted[t] < MaxAttempts
    /\ granted' = [granted EXCEPT ![t] = @ + 1]
    /\ running' = [running EXCEPT ![t] = {granted[t] + 1}]
    /\ UNCHANGED <<answered, withdrawn>>

Answer(t) ==
    \E n \in running[t] :
        /\ Open(t)
        /\ answered' = [answered EXCEPT ![t] = {n}]
        /\ running' = [running EXCEPT ![t] = {}]
        /\ UNCHANGED <<granted, withdrawn>>

\* Runners that failed, or that were given up because their time was over.
Lose(batch) ==
    /\ \A t \in batch : running[t] # {}
    /\ running' = [t \in Tasks |-> IF t \in batch THEN {} ELSE running[t]]
    /\ UNCHANGED <<granted, answered, withdrawn>>

Withdraw(t) ==
    /\ Open(t)
    /\ withdrawn' = withdrawn \cup {t}
    /\ running' = [running EXCEPT ![t] = {}]
    /\ UNCHANGED <<granted, answered>>

Next ==
    \/ \E t \in Tasks : Grant(t) \/ Answer(t) \/ Withdraw(t)
    \/ \E batch \in SUBSET Tasks : Lose(batch)

Spec == Init /\ [][Next]_vars

=============================================================================
