----------------------- MODULE TaskRepository_proofs -----------------------
(***************************************************************************)
(* The invariants of TaskRepository, and that it implements TaskContract,  *)
(* for every set of tasks, every attempt budget, lease length, lock wait   *)
(* and recovery limit.                                                     *)
(*                                                                         *)
(* Every operation rewrites one task row and the attempt rows of that task *)
(* (recover_expired does so for several tasks at once).  RowOK says what   *)
(* holds between a task row and its attempt rows; the lemmas show, without *)
(* mentioning a step, that what an operation writes keeps RowOK, and the   *)
(* invariance proof only has to find the lemma of each action.             *)
(***************************************************************************)
EXTENDS TaskRepository, TLAPS

\* States of the machine that no caller asks for and no operation writes.
UnusedStates == {"waiting", "verifying", "degraded"}

WaitingStates == ClaimableStates \cup {"created", "planned", "blocked"}

Typed(row, rows) ==
    /\ row \in TaskRow
    /\ rows \in [AttemptNo -> AttemptRow]

Activity(row, rows) ==
    /\ row.state = "running" <=> row.active_attempt # 0
    /\ \A n \in AttemptNo : rows[n].state = "running" <=> row.active_attempt = n
    /\ row.active_attempt # 0 =>
         /\ row.active_attempt = row.attempts_started
         /\ rows[row.active_attempt].fence = row.current_fence

Numbering(row, rows) ==
    \A n \in AttemptNo :
        /\ rows[n].state # "none" <=> n <= row.attempts_started
        /\ n <= row.attempts_started =>
             /\ rows[n].fence \in 1..row.current_fence
             /\ \A m \in 1..(n - 1) : rows[m].fence < rows[n].fence

Budget(row) ==
    /\ row.attempts_started <= row.max_attempts
    /\ row.state \in WaitingStates => row.attempts_started < row.max_attempts
    /\ row.state = "absent" => row.attempts_started = 0
    /\ row.state \notin UnusedStates

Last(row, rows, states) ==
    row.attempts_started > 0 /\ rows[row.attempts_started].state \in states

Outcome(row, rows) ==
    /\ row.state = "completed" <=> Last(row, rows, {"succeeded"})
    /\ row.result = IF row.state = "completed" THEN row.attempts_started ELSE 0
    /\ Last(row, rows, {"cancelled"}) => row.state = "cancelled"
    /\ row.state \in {"failed", "retrying", "recovering"} => row.attempts_started > 0
    /\ row.state \notin {"running", "completed", "cancelled"} /\ row.attempts_started > 0
         => Last(row, rows, {"failed", "expired"})
    /\ \A n \in 1..(row.attempts_started - 1) : rows[n].state \in {"failed", "expired"}

RowOK(row, rows) ==
    /\ Typed(row, rows)
    /\ Activity(row, rows)
    /\ Numbering(row, rows)
    /\ Budget(row)
    /\ Outcome(row, rows)

\* The inductive invariant.
IInv ==
    /\ clock \in Nat
    /\ task \in [Tasks -> TaskRow]
    /\ attempt \in [Tasks -> [AttemptNo -> AttemptRow]]
    /\ \A t \in Tasks : RowOK(task[t], attempt[t])

USE DEF AttemptNo, AttemptState, TaskState, ClaimableStates

-----------------------------------------------------------------------------
(***************************************************************************)
(* What the operations write keeps RowOK.                                  *)
(***************************************************************************)
\* A state change outside an attempt: to one of the requested states, to
\* retrying from failed, or to cancelled from a state that is not over.
LEMMA IdleMoveOK ==
    ASSUME NEW row, NEW rows, NEW to, NEW at \in Nat,
           RowOK(row, rows),
           row.active_attempt = 0,
           row.state # "absent",
           \/ /\ to \in {"planned", "ready", "blocked"}
              /\ row.state \in WaitingStates
              /\ to = "planned" => row.state = "created"
           \/ /\ to = "retrying"
              /\ row.state = "failed"
              /\ row.attempts_started < row.max_attempts
           \/ /\ to = "cancelled"
              /\ row.state \in WaitingStates
    PROVE  /\ RowOK(Moved(row, to), rows)
           /\ RowOK(Released(row, to), rows)
           /\ RowOK([Moved(row, to) EXCEPT !.next_run_at = at], rows)
<1> DEFINE new == [Moved(row, to) EXCEPT !.next_run_at = at]
<1>1. /\ row \in TaskRow
      /\ rows \in [AttemptNo -> AttemptRow]
  BY DEF RowOK, Typed
<1>2. /\ new = [row EXCEPT !.state = to, !.next_run_at = at]
      /\ to \in TaskState
  BY DEF Moved
<1>3. Typed(new, rows) /\ Typed(Moved(row, to), rows) /\ Typed(Released(row, to), rows)
  <2>1. Moved(row, to) \in TaskRow
    BY <1>1, <1>2 DEF TaskRow, Moved
  <2>2. Released(row, to) \in TaskRow
    BY <2>1, ConstantsOK DEF TaskRow, Released
  <2>3. new \in TaskRow
    BY <2>1 DEF TaskRow
  <2> HIDE DEF new
  <2>4. QED
    BY <1>1, <2>1, <2>2, <2>3 DEF Typed
<1>4. /\ new.state = to /\ Moved(row, to).state = to /\ Released(row, to).state = to
      /\ new.active_attempt = 0 /\ Moved(row, to).active_attempt = 0
      /\ Released(row, to).active_attempt = 0
      /\ \A r \in {new, Moved(row, to), Released(row, to)} :
           /\ r.attempts_started = row.attempts_started
           /\ r.max_attempts = row.max_attempts
           /\ r.current_fence = row.current_fence
           /\ r.result = row.result
  BY <1>1 DEF Moved, Released, TaskRow
<1>5. ASSUME NEW r \in {new, Moved(row, to), Released(row, to)}
      PROVE  Activity(r, rows) /\ Numbering(r, rows) /\ Budget(r) /\ Outcome(r, rows)
  <2>1. /\ r.state = to
        /\ r.active_attempt = 0
        /\ r.attempts_started = row.attempts_started
        /\ r.max_attempts = row.max_attempts
        /\ r.current_fence = row.current_fence
        /\ r.result = row.result
    BY <1>4
  <2>2. Activity(r, rows)
    BY <2>1 DEF RowOK, Activity, WaitingStates
  <2>3. Numbering(r, rows)
    BY <2>1 DEF RowOK, Numbering
  <2>4. Budget(r)
    BY <2>1 DEF RowOK, Budget, WaitingStates, UnusedStates
  <2>5. Outcome(r, rows)
    BY <1>1, <2>1 DEF RowOK, Outcome, Last, WaitingStates, TaskRow
  <2>6. QED
    BY <2>2, <2>3, <2>4, <2>5
<1>6. QED
  BY <1>3, <1>5 DEF RowOK

\* claim(): the next attempt starts under the next fence.
LEMMA ClaimOK ==
    ASSUME NEW row, NEW rows, NEW now \in Nat,
           RowOK(row, rows),
           row.state \in ClaimableStates,
           row.attempts_started < row.max_attempts
    PROVE  RowOK(Started(row),
                 [rows EXCEPT ![row.attempts_started + 1] = NewAttempt(row, now)])
<1> DEFINE new == Started(row)
           next == row.attempts_started + 1
           news == [rows EXCEPT ![next] = NewAttempt(row, now)]
<1>1. /\ row \in TaskRow
      /\ rows \in [AttemptNo -> AttemptRow]
      /\ next \in AttemptNo
  BY ConstantsOK DEF RowOK, Typed, TaskRow
<1>2. /\ new.state = "running"
      /\ new.active_attempt = next
      /\ new.attempts_started = next
      /\ new.current_fence = row.current_fence + 1
      /\ new.max_attempts = row.max_attempts
      /\ new.result = row.result
  BY <1>1 DEF Started, Moved, TaskRow
<1>3. NewAttempt(row, now) \in AttemptRow
  <2>1. row.current_fence + 1 \in Nat
    BY <1>1 DEF TaskRow
  <2>2. now + LeaseSeconds \in Nat
    BY ConstantsOK
  <2>3. {} \in SUBSET Nat /\ "running" \in AttemptState \cup {"none"}
    BY DEF AttemptState
  <2> HIDE DEF new, next, news
  <2>4. QED
    BY <2>1, <2>2, <2>3 DEF NewAttempt, AttemptRow
<1>4. /\ news[next] = NewAttempt(row, now)
      /\ news[next].state = "running"
      /\ news[next].fence = row.current_fence + 1
      /\ \A n \in AttemptNo \ {next} : news[n] = rows[n]
  BY <1>1 DEF NewAttempt
<1>5. Typed(new, news)
  <2>1. new = [row EXCEPT !.state = "running", !.attempts_started = next,
                          !.current_fence = row.current_fence + 1,
                          !.active_attempt = next]
    BY <1>1 DEF TaskRow, Started, Moved
  <2>2. next \in 0..MaxAttempts /\ row.current_fence + 1 \in Nat
    BY <1>1, ConstantsOK DEF TaskRow
  <2> HIDE DEF next, new
  <2>3. new \in TaskRow
    BY <1>1, <2>1, <2>2 DEF TaskRow
  <2>4. news \in [AttemptNo -> AttemptRow]
    BY <1>1, <1>3
  <2>5. QED
    BY <2>3, <2>4 DEF Typed
<1>6. row.active_attempt = 0 /\ row.result = 0
  BY <1>1 DEF RowOK, Activity, Outcome
<1>7. Activity(new, news)
  BY <1>1, <1>2, <1>4, <1>6 DEF RowOK, Activity, TaskRow
<1>8. Numbering(new, news)
  <2>1. /\ row.attempts_started \in Nat
        /\ row.current_fence \in Nat
        /\ \A m \in AttemptNo : rows[m].fence \in Nat
    BY <1>1, ConstantsOK DEF TaskRow, AttemptRow
  <2>2. \A m \in 1..row.attempts_started :
          m \in AttemptNo /\ rows[m].fence \in 1..row.current_fence /\ news[m] = rows[m]
    BY <1>1, <1>4, <2>1, ConstantsOK DEF RowOK, Numbering, TaskRow
  <2>3. ASSUME NEW n \in AttemptNo
        PROVE  news[n].state # "none" <=> n <= next
    BY <1>1, <1>4, <2>1 DEF RowOK, Numbering
  <2>4. ASSUME NEW n \in AttemptNo, n <= next
        PROVE  /\ news[n].fence \in 1..(row.current_fence + 1)
               /\ \A m \in 1..(n - 1) : news[m].fence < news[n].fence
    <3>1. CASE n = next
      BY <1>4, <2>1, <2>2, <3>1
    <3>2. CASE n # next
      <4>1. n \in 1..row.attempts_started /\ news[n] = rows[n]
        BY <2>1, <2>2, <2>4, <3>2
      <4>2. \A m \in 1..(n - 1) : m \in 1..row.attempts_started /\ news[m] = rows[m]
        BY <2>1, <2>2, <4>1
      <4>3. \A m \in 1..(n - 1) : rows[m].fence < rows[n].fence
        BY <4>1, <2>1 DEF RowOK, Numbering
      <4>4. QED
        BY <2>1, <2>2, <4>1, <4>2, <4>3
    <3>3. QED
      BY <3>1, <3>2
  <2>5. QED
    BY <1>2, <2>3, <2>4 DEF Numbering
<1>9. Budget(new)
  BY <1>1, <1>2 DEF Budget, UnusedStates, WaitingStates, TaskRow
<1>10. Outcome(new, news)
  <2>1. \A n \in 1..(next - 1) : news[n].state \in {"failed", "expired"}
    BY <1>1, <1>4 DEF RowOK, Outcome, Last, TaskRow
  <2>2. ~Last(new, news, {"succeeded"}) /\ ~Last(new, news, {"cancelled"})
    BY <1>2, <1>4 DEF Last
  <2>3. QED
    BY <1>1, <1>2, <1>6, <2>1, <2>2 DEF Outcome, TaskRow
<1>11. QED
  BY <1>5, <1>7, <1>8, <1>9, <1>10 DEF RowOK

\* complete(), cancel() by a holder and recover_expired(): the active attempt
\* ends as astate and the task moves to the state that goes with it.
LEMMA FinishOK ==
    ASSUME NEW row, NEW rows, NEW to, NEW astate, NEW at \in Nat, NEW result,
           RowOK(row, rows),
           row.state = "running",
           \/ to = "completed" /\ astate = "succeeded"
           \/ to = "cancelled" /\ astate = "cancelled"
           \/ to = "failed" /\ astate \in {"failed", "expired"}
           \/ /\ to \in {"retrying", "recovering"}
              /\ astate \in {"failed", "expired"}
              /\ row.attempts_started < row.max_attempts,
           result = IF to = "completed" THEN row.active_attempt ELSE 0
    PROVE  LET news == [rows EXCEPT ![row.active_attempt].state = astate]
           IN /\ RowOK([Released(row, to) EXCEPT !.next_run_at = at, !.result = result], news)
              /\ to # "completed" =>
                   /\ RowOK([Released(row, to) EXCEPT !.next_run_at = at], news)
                   /\ RowOK(Released(row, to), news)
<1> DEFINE n0 == row.active_attempt
           news == [rows EXCEPT ![n0].state = astate]
           full == [Released(row, to) EXCEPT !.next_run_at = at, !.result = result]
           timed == [Released(row, to) EXCEPT !.next_run_at = at]
           plain == Released(row, to)
<1>1. /\ row \in TaskRow
      /\ rows \in [AttemptNo -> AttemptRow]
      /\ n0 \in AttemptNo
      /\ n0 = row.attempts_started
      /\ row.result = 0
      /\ to \in TaskState
      /\ astate \in AttemptState \ {"running"}
  BY DEF RowOK, Typed, TaskRow, Activity, Outcome
<1>2. result \in 0..MaxAttempts
  BY <1>1, ConstantsOK
<1>3. /\ news[n0].state = astate
      /\ news[n0].fence = rows[n0].fence
      /\ \A n \in AttemptNo \ {n0} : news[n] = rows[n]
      /\ news \in [AttemptNo -> AttemptRow]
  BY <1>1 DEF AttemptRow
<1>4. full \in TaskRow /\ timed \in TaskRow /\ plain \in TaskRow
  <2>1. Moved(row, to) \in TaskRow
    BY <1>1 DEF Moved, TaskRow
  <2>2. plain \in TaskRow
    BY <2>1, ConstantsOK DEF Released, TaskRow
  <2>3. timed \in TaskRow
    BY <2>2 DEF TaskRow
  <2>4. full = [timed EXCEPT !.result = result]
    OBVIOUS
  <2> HIDE DEF timed, full
  <2>5. full \in TaskRow
    BY <1>2, <2>3, <2>4 DEF TaskRow
  <2>6. QED
    BY <2>2, <2>3, <2>5
<1>5. ASSUME NEW r \in {full, timed, plain},
             r = full \/ to # "completed"
      PROVE  RowOK(r, news)
  <2>1. /\ r.state = to
        /\ r.active_attempt = 0
        /\ r.attempts_started = n0
        /\ r.current_fence = row.current_fence
        /\ r.max_attempts = row.max_attempts
        /\ r.result = result
    <3>1. CASE r = full
      BY <1>1, <3>1 DEF Released, Moved, TaskRow
    <3>2. CASE r = timed /\ to # "completed"
      BY <1>1, <3>2 DEF Released, Moved, TaskRow
    <3>3. CASE r = plain /\ to # "completed"
      BY <1>1, <3>3 DEF Released, Moved, TaskRow
    <3> HIDE DEF full, timed, plain
    <3>4. QED
      BY <1>5, <3>1, <3>2, <3>3
  <2>2. Typed(r, news)
    BY <1>3, <1>4 DEF Typed
  <2>3. Activity(r, news)
    BY <1>1, <1>3, <2>1 DEF RowOK, Activity
  <2>4. Numbering(r, news)
    BY <1>1, <1>3, <2>1 DEF RowOK, Numbering
  <2>5. Budget(r)
    BY <1>1, <2>1 DEF RowOK, Budget, WaitingStates, UnusedStates
  <2>6. Outcome(r, news)
    <3>1. \A n \in 1..(n0 - 1) : news[n].state \in {"failed", "expired"}
      BY <1>1, <1>3 DEF RowOK, Outcome, TaskRow
    <3>2. /\ Last(r, news, {"succeeded"}) <=> astate = "succeeded"
          /\ Last(r, news, {"cancelled"}) <=> astate = "cancelled"
          /\ Last(r, news, {"failed", "expired"}) <=> astate \in {"failed", "expired"}
          /\ n0 > 0
      BY <1>1, <1>3, <2>1, ConstantsOK DEF Last
    <3>3. QED
      BY <1>1, <2>1, <3>1, <3>2 DEF Outcome
  <2>7. QED
    BY <2>2, <2>3, <2>4, <2>5, <2>6 DEF RowOK
<1>6. QED
  BY <1>5

\* renew(): only the end and the renewal events of an attempt change.
LEMMA RenewOK ==
    ASSUME NEW row, NEW rows, NEW n \in AttemptNo, NEW until \in Nat, NEW now \in Nat,
           RowOK(row, rows)
    PROVE  RowOK(row, [rows EXCEPT ![n].lease_until = until,
                                   ![n].renewals = @ \cup {now}])
<1> DEFINE news == [rows EXCEPT ![n].lease_until = until,
                                ![n].renewals = @ \cup {now}]
<1>1. rows \in [AttemptNo -> AttemptRow] /\ row \in TaskRow
  BY DEF RowOK, Typed
<1>2. /\ news \in [AttemptNo -> AttemptRow]
      /\ \A m \in AttemptNo : news[m].state = rows[m].state /\ news[m].fence = rows[m].fence
  <2> DEFINE new == [rows[n] EXCEPT !.lease_until = until, !.renewals = @ \cup {now}]
  <2>1. rows[n] \in AttemptRow
    BY <1>1
  <2>2. new \in AttemptRow /\ new.state = rows[n].state /\ new.fence = rows[n].fence
    BY <2>1 DEF AttemptRow
  <2>3. news = [rows EXCEPT ![n] = new]
    BY <1>1
  <2> HIDE DEF new, news
  <2>4. QED
    BY <1>1, <2>2, <2>3
<1> HIDE DEF news
<1>3. Typed(row, news)
  BY <1>1, <1>2 DEF Typed
<1>4. Activity(row, news)
  <2>1. row.active_attempt # 0 => row.active_attempt \in AttemptNo
    BY <1>1, ConstantsOK DEF TaskRow
  <2>2. QED
    BY <1>2, <2>1 DEF RowOK, Activity
<1>5. Numbering(row, news)
  <2>1. \A m \in AttemptNo : 1..(m - 1) \subseteq AttemptNo
    BY ConstantsOK
  <2>2. QED
    BY <1>2, <2>1 DEF RowOK, Numbering
<1>6. Outcome(row, news)
  <2>1. /\ row.attempts_started > 0 => row.attempts_started \in AttemptNo
        /\ 1..(row.attempts_started - 1) \subseteq AttemptNo
    BY <1>1, ConstantsOK DEF TaskRow
  <2>2. \A m \in 1..(row.attempts_started - 1) : news[m].state \in {"failed", "expired"}
    BY <1>2, <2>1 DEF RowOK, Outcome
  <2>3. /\ Last(row, news, {"succeeded"}) <=> Last(row, rows, {"succeeded"})
        /\ Last(row, news, {"cancelled"}) <=> Last(row, rows, {"cancelled"})
        /\ Last(row, news, {"failed", "expired"}) <=> Last(row, rows, {"failed", "expired"})
    BY <1>2, <2>1 DEF Last
  <2>4. QED
    BY <2>2, <2>3 DEF RowOK, Outcome
<1>7. QED
  BY <1>3, <1>4, <1>5, <1>6 DEF RowOK, news

-----------------------------------------------------------------------------
(***************************************************************************)
(* The inductive invariant.                                                *)
(***************************************************************************)
\* Which of the machine's transitions the callers of transition() and cancel()
\* can take from the states that are used.
LEMMA AllowedFrom ==
    ASSUME NEW s \in TaskState \ UnusedStates
    PROVE  /\ "planned" \in AllowedTransitions[s] => s = "created"
           /\ "ready" \in AllowedTransitions[s] => s \in WaitingStates
           /\ "blocked" \in AllowedTransitions[s] => s \in WaitingStates
           /\ "cancelled" \in AllowedTransitions[s] => s \in WaitingStates \cup {"running"}
BY DEF AllowedTransitions, UnusedStates, WaitingStates

\* A step that rewrites the rows of one task keeps IInv if it keeps RowOK there.
LEMMA OneTaskStep ==
    ASSUME IInv, NEW t \in Tasks, NEW row, NEW rows,
           RowOK(row, rows),
           clock' = clock,
           task' = [task EXCEPT ![t] = row],
           attempt' = [attempt EXCEPT ![t] = rows]
    PROVE  IInv'
<1>1. row \in TaskRow /\ rows \in [AttemptNo -> AttemptRow]
  BY DEF RowOK, Typed
<1>2. /\ clock' \in Nat
      /\ task' \in [Tasks -> TaskRow]
      /\ attempt' \in [Tasks -> [AttemptNo -> AttemptRow]]
  BY <1>1 DEF IInv
<1>3. \A u \in Tasks : RowOK(task'[u], attempt'[u])
  BY DEF IInv
<1>4. QED
  BY <1>2, <1>3 DEF IInv

LEMMA InitIInv == Init => IInv
<1> SUFFICES ASSUME Init PROVE IInv
  OBVIOUS
<1>1. NoTask \in TaskRow
  BY ConstantsOK DEF NoTask, TaskRow
<1>2. NoAttempt \in AttemptRow
  BY DEF NoAttempt, AttemptRow
<1>3. RowOK(NoTask, [n \in AttemptNo |-> NoAttempt])
  BY <1>1, <1>2, ConstantsOK
  DEF RowOK, Typed, Activity, Numbering, Budget, Outcome, Last, NoTask, NoAttempt,
      UnusedStates, WaitingStates
<1>4. QED
  BY <1>1, <1>2, <1>3 DEF Init, IInv

\* submit(): a new row, and no attempts yet.
LEMMA SubmitStep ==
    ASSUME IInv, NEW t \in Tasks, NEW key \in Keys \cup {NoKey},
           NEW budget \in AttemptNo, NEW now \in Nat, Submit(t, key, budget, now)
    PROVE  IInv'
<1> DEFINE row == NewTask(key, budget, now)
<1>1. row \in TaskRow
  BY ConstantsOK DEF TaskRow, NewTask
<1>2. /\ row.state = "created"
      /\ row.max_attempts = budget
      /\ row.attempts_started = 0
      /\ row.active_attempt = 0
      /\ row.result = 0
  BY DEF NewTask
<1>3. /\ RowOK(task[t], attempt[t])
      /\ task[t].state = "absent"
      /\ task[t] \in TaskRow
  BY DEF IInv, Submit, Exists
<1>4. /\ task[t].active_attempt = 0
      /\ task[t].attempts_started = 0
      /\ \A n \in AttemptNo : attempt[t][n].state = "none"
  BY <1>3, ConstantsOK DEF RowOK, Activity, Numbering, Budget, TaskRow
<1>5. RowOK(row, attempt[t])
  BY <1>1, <1>2, <1>3, <1>4, ConstantsOK
  DEF RowOK, Typed, Activity, Numbering, Budget, Outcome, Last, UnusedStates, WaitingStates
<1>6. attempt' = [attempt EXCEPT ![t] = attempt[t]] /\ clock' = clock
  BY DEF Submit, IInv
<1>7. QED
  BY <1>5, <1>6, OneTaskStep DEF Submit

\* transition(), cancel() without a lease, retry().
LEMMA IdleStep ==
    ASSUME IInv, NEW t \in Tasks, NEW now \in Nat,
           \/ \E to \in RequestedStates : Transition(t, to)
           \/ CancelIdle(t)
           \/ Retry(t, now)
    PROVE  IInv'
<1>1. /\ RowOK(task[t], attempt[t])
      /\ task[t] \in TaskRow
  BY DEF IInv
<1>2. task[t].state # "absent" => task[t].state \in TaskState \ UnusedStates
  BY <1>1 DEF RowOK, Budget, TaskRow
<1>3. attempt' = [attempt EXCEPT ![t] = attempt[t]] /\ clock' = clock
  BY DEF Transition, CancelIdle, Retry, IInv
<1>4. CASE \E to \in RequestedStates : Transition(t, to)
  <2>1. PICK to \in RequestedStates : Transition(t, to)
    BY <1>4
  <2>2. /\ to \in {"planned", "ready", "blocked"}
        /\ task[t].state \in WaitingStates
        /\ to = "planned" => task[t].state = "created"
    BY <1>2, <2>1, AllowedFrom DEF Transition, Exists, RequestedStates, WaitingStates
  <2>3. RowOK(Moved(task[t], to), attempt[t])
    BY <1>1, <2>1, <2>2, IdleMoveOK DEF Transition, Exists
  <2>4. QED
    BY <1>3, <2>1, <2>3, OneTaskStep DEF Transition
<1>5. CASE CancelIdle(t)
  <2>1. task[t].state \in WaitingStates
    BY <1>1, <1>2, <1>5, AllowedFrom DEF CancelIdle, Exists, RowOK, Activity
  <2>2. RowOK(Released(task[t], "cancelled"), attempt[t])
    BY <1>1, <1>5, <2>1, IdleMoveOK DEF CancelIdle, Exists
  <2>3. QED
    BY <1>3, <1>5, <2>2, OneTaskStep DEF CancelIdle
<1>6. CASE Retry(t, now)
  <2>1. task[t].active_attempt = 0
    BY <1>1, <1>6 DEF Retry, RowOK, Activity
  <2>2. RowOK([Moved(task[t], "retrying") EXCEPT !.next_run_at = now], attempt[t])
    BY <1>1, <1>6, <2>1, IdleMoveOK DEF Retry
  <2>3. QED
    BY <1>3, <1>6, <2>2, OneTaskStep DEF Retry
<1>7. QED
  BY <1>4, <1>5, <1>6

LEMMA ClaimStep ==
    ASSUME IInv, NEW t \in Tasks, NEW now \in Nat, Claim(t, now)
    PROVE  IInv'
<1> DEFINE next == task[t].attempts_started + 1
           rows == [attempt[t] EXCEPT ![next] = NewAttempt(task[t], now)]
<1>1. RowOK(Started(task[t]), rows)
  BY ClaimOK DEF IInv, Claim, Claimable
<1>2. /\ task' = [task EXCEPT ![t] = Started(task[t])]
      /\ attempt' = [attempt EXCEPT ![t] = rows]
      /\ clock' = clock
  BY DEF Claim, IInv
<1>3. QED
  BY <1>1, <1>2, OneTaskStep

\* renew(), complete() and cancel() by the holder of a lease.
LEMMA HolderStepOK ==
    ASSUME IInv, NEW t \in Tasks, NEW now \in Nat, HolderStep(t, now)
    PROVE  IInv'
<1>1. /\ RowOK(task[t], attempt[t])
      /\ task[t] \in TaskRow
      /\ attempt[t] \in [AttemptNo -> AttemptRow]
  BY DEF IInv
<1>2. PICK n \in AttemptNo :
        \/ Renew(t, n, now)
        \/ Succeed(t, n, now)
        \/ \E retryable \in BOOLEAN, d \in Backoffs : Fail(t, n, retryable, now + d, now)
        \/ CancelHeld(t, n, now)
  BY DEF HolderStep
<1>3. LeaseValid(t, n, now)
  BY <1>2 DEF Renew, Succeed, Fail, CancelHeld
<1>4. task[t].state = "running" /\ task[t].active_attempt = n
  BY <1>3 DEF LeaseValid
<1>5. ASSUME NEW astate
      PROVE  Finished(t, n, astate)
               = [attempt EXCEPT ![t] = [attempt[t] EXCEPT ![n].state = astate]]
  BY DEF Finished, IInv
<1>6. CASE Renew(t, n, now)
  <2> DEFINE until == IF attempt[t][n].lease_until >= now + LeaseSeconds
                      THEN attempt[t][n].lease_until ELSE now + LeaseSeconds
             rows == [attempt[t] EXCEPT ![n].lease_until = until,
                                        ![n].renewals = @ \cup {now}]
  <2>1. until \in Nat
    BY <1>1, ConstantsOK DEF AttemptRow
  <2>2. RowOK(task[t], rows)
    BY <1>1, <2>1, RenewOK
  <2>3. /\ task' = [task EXCEPT ![t] = task[t]]
        /\ attempt' = [attempt EXCEPT ![t] = rows]
        /\ clock' = clock
    BY <1>6 DEF Renew, IInv
  <2>4. QED
    BY <2>2, <2>3, OneTaskStep
<1>7. CASE Succeed(t, n, now)
  <2> DEFINE row == [Released(task[t], "completed") EXCEPT !.next_run_at = now, !.result = n]
             rows == [attempt[t] EXCEPT ![n].state = "succeeded"]
  <2>1. RowOK(row, rows)
    BY <1>1, <1>4, FinishOK
  <2>2. /\ task' = [task EXCEPT ![t] = row]
        /\ attempt' = [attempt EXCEPT ![t] = rows]
        /\ clock' = clock
    BY <1>5, <1>7 DEF Succeed
  <2>3. QED
    BY <2>1, <2>2, OneTaskStep
<1>8. CASE \E retryable \in BOOLEAN, d \in Backoffs : Fail(t, n, retryable, now + d, now)
  <2>1. PICK retryable \in BOOLEAN, d \in Backoffs : Fail(t, n, retryable, now + d, now)
    BY <1>8
  <2> DEFINE to == FailureTarget(task[t], retryable)
             row == [Released(task[t], to) EXCEPT !.next_run_at = now + d, !.result = 0]
             rows == [attempt[t] EXCEPT ![n].state = "failed"]
  <2>2. now + d \in Nat
    BY ConstantsOK
  <2>3. \/ to = "failed"
        \/ to = "retrying" /\ task[t].attempts_started < task[t].max_attempts
    BY DEF FailureTarget
  <2> HIDE DEF to
  <2>4. RowOK(row, rows)
    BY <1>1, <1>4, <2>2, <2>3, FinishOK
  <2>5. /\ task' = [task EXCEPT ![t] = row]
        /\ attempt' = [attempt EXCEPT ![t] = rows]
        /\ clock' = clock
    BY <1>5, <2>1 DEF Fail, to
  <2>6. QED
    BY <2>4, <2>5, OneTaskStep
<1>9. CASE CancelHeld(t, n, now)
  <2> DEFINE rows == [attempt[t] EXCEPT ![n].state = "cancelled"]
  <2>1. RowOK(Released(task[t], "cancelled"), rows)
    BY <1>1, <1>4, FinishOK
  <2>2. /\ task' = [task EXCEPT ![t] = Released(task[t], "cancelled")]
        /\ attempt' = [attempt EXCEPT ![t] = rows]
        /\ clock' = clock
    BY <1>5, <1>9 DEF CancelHeld
  <2>3. QED
    BY <2>1, <2>2, OneTaskStep
<1>10. QED
  BY <1>2, <1>6, <1>7, <1>8, <1>9

\* recover_expired(): the rows of the batch end as expired, the others stay.
LEMMA RecoverStep ==
    ASSUME IInv, NEW T \in SUBSET Tasks, NEW now \in Nat, RecoverExpired(T, now)
    PROVE  IInv'
<1>1. PICK batch \in SUBSET Expired(T, now) :
        /\ task' = [t \in Tasks |->
                      IF t \in batch
                      THEN [Released(task[t], RecoveryTarget(task[t]))
                              EXCEPT !.next_run_at = now]
                      ELSE task[t]]
        /\ attempt' = [t \in Tasks |->
                        IF t \in batch
                        THEN [attempt[t] EXCEPT
                                ![task[t].active_attempt].state = "expired"]
                        ELSE attempt[t]]
        /\ UNCHANGED clock
  BY DEF RecoverExpired
<1>2. ASSUME NEW t \in Tasks PROVE RowOK(task'[t], attempt'[t])
  <2>1. RowOK(task[t], attempt[t])
    BY DEF IInv
  <2>2. CASE t \in batch
    <3> DEFINE to == RecoveryTarget(task[t])
    <3>1. task[t].state = "running"
      BY <2>2 DEF Expired
    <3>2. \/ to = "failed"
          \/ to = "recovering" /\ task[t].attempts_started < task[t].max_attempts
      BY DEF RecoveryTarget
    <3>3. /\ task'[t] = [Released(task[t], to) EXCEPT !.next_run_at = now]
          /\ attempt'[t] = [attempt[t] EXCEPT ![task[t].active_attempt].state = "expired"]
      BY <1>1, <2>2
    <3> HIDE DEF to
    <3>4. RowOK([Released(task[t], to) EXCEPT !.next_run_at = now],
                [attempt[t] EXCEPT ![task[t].active_attempt].state = "expired"])
      BY <2>1, <3>1, <3>2, FinishOK
    <3>5. QED
      BY <3>3, <3>4
  <2>3. CASE t \notin batch
    BY <1>1, <2>1, <2>3
  <2>4. QED
    BY <2>2, <2>3
<1>3. \A t \in Tasks : task'[t] \in TaskRow /\ attempt'[t] \in [AttemptNo -> AttemptRow]
  BY <1>2 DEF RowOK, Typed
<1>4. QED
  BY <1>1, <1>2, <1>3 DEF IInv

LEMMA NextIInv == IInv /\ [Next]_vars => IInv'
<1> SUFFICES ASSUME IInv, [Next]_vars PROVE IInv'
  OBVIOUS
<1>1. Stamps \subseteq Nat
  BY DEF Stamps, IInv
<1>2. CASE Tick
  BY <1>2 DEF Tick, IInv
<1>3. CASE Recovery
  BY <1>1, <1>3, RecoverStep DEF Recovery
<1>4. ASSUME NEW t \in Tasks, NEW now \in Stamps,
             \/ \E key \in Keys \cup {NoKey}, budget \in AttemptNo :
                    Submit(t, key, budget, now)
             \/ WithinHorizon(now) /\ Claim(t, now)
             \/ HolderStep(t, now)
             \/ Retry(t, now)
      PROVE  IInv'
  BY <1>1, <1>4, SubmitStep, ClaimStep, HolderStepOK, IdleStep
<1>5. ASSUME NEW t \in Tasks,
             \/ \E to \in RequestedStates : Transition(t, to)
             \/ CancelIdle(t)
      PROVE  IInv'
  BY <1>5, IdleStep
<1>6. CASE UNCHANGED vars
  BY <1>6 DEF vars, IInv
<1>7. QED
  BY <1>2, <1>3, <1>4, <1>5, <1>6 DEF Next

\* The invariant holds in every state of every behaviour.
THEOREM Invariance == Spec => []IInv
<1>1. QED
  BY InitIInv, NextIInv, PTL DEF Spec

-----------------------------------------------------------------------------
(***************************************************************************)
(* What follows from it.                                                   *)
(***************************************************************************)
\* Every row keeps to the columns of its table.
THEOREM TypeCorrect == Spec => []TypeOK
<1>1. IInv => TypeOK
  BY DEF IInv, TypeOK
<1>2. QED
  BY <1>1, Invariance, PTL

\* A task runs exactly while its newest attempt does, and no other attempt runs.
THEOREM ActiveAttempt == Spec => []OneActiveAttempt
<1>1. IInv => OneActiveAttempt
  BY DEF IInv, RowOK, Activity, OneActiveAttempt
<1>2. QED
  BY <1>1, Invariance, PTL

\* Attempts are numbered without gaps under strictly growing fences.
THEOREM Fences == Spec => []FencesGrow
<1>1. IInv => FencesGrow
  BY DEF IInv, RowOK, Numbering, FencesGrow
<1>2. QED
  BY <1>1, Invariance, PTL

\* A task that waits for an attempt has budget for one.
THEOREM Budgets == Spec => []WaitingTaskHasBudget
<1>1. IInv => WaitingTaskHasBudget
  BY DEF IInv, RowOK, Budget, WaitingStates, WaitingTaskHasBudget
<1>2. QED
  BY <1>1, Invariance, PTL

\* The state of a task is the story its attempts tell.
THEOREM Outcomes == Spec => []OutcomeIsLastAttempts
<1>1. IInv => OutcomeIsLastAttempts
  BY DEF IInv, RowOK, Outcome, Last, OutcomeIsLastAttempts
<1>2. QED
  BY <1>1, Invariance, PTL

-----------------------------------------------------------------------------
(***************************************************************************)
(* What is over stays over.                                                *)
(***************************************************************************)
\* The task rows and attempt rows a step may write are not over.
LEMMA FinishedStep ==
    ASSUME IInv, [Next]_vars, NEW t \in Tasks
    PROVE  /\ task[t].state \in {"completed", "cancelled"} => task'[t] = task[t]
           /\ \A n \in AttemptNo :
                attempt[t][n].state \notin {"none", "running"} =>
                    attempt'[t][n] = attempt[t][n]
<1> DEFINE Kept(u) == /\ task[u].state \in {"completed", "cancelled"} => task'[u] = task[u]
                      /\ \A n \in AttemptNo :
                           attempt[u][n].state \notin {"none", "running"} =>
                               attempt'[u][n] = attempt[u][n]
<1>1. /\ task \in [Tasks -> TaskRow]
      /\ attempt \in [Tasks -> [AttemptNo -> AttemptRow]]
      /\ \A u \in Tasks : RowOK(task[u], attempt[u])
  BY DEF IInv
<1>2. CASE Tick \/ UNCHANGED vars
  BY <1>2 DEF Tick, vars
<1>3. CASE Recovery
  <2>0. PICK now \in Stamps : RecoverExpired(Tasks, now)
    BY <1>3 DEF Recovery
  <2>1. PICK batch \in SUBSET Expired(Tasks, now) :
          /\ task' = [u \in Tasks |->
                        IF u \in batch
                        THEN [Released(task[u], RecoveryTarget(task[u]))
                                EXCEPT !.next_run_at = now]
                        ELSE task[u]]
          /\ attempt' = [u \in Tasks |->
                          IF u \in batch
                          THEN [attempt[u] EXCEPT
                                  ![task[u].active_attempt].state = "expired"]
                          ELSE attempt[u]]
    BY <2>0 DEF RecoverExpired
  <2>2. CASE t \in batch
    <3>1. /\ task[t].state = "running"
          /\ attempt[t][task[t].active_attempt].state = "running"
      BY <2>2 DEF Expired
    <3>2. attempt'[t] = [attempt[t] EXCEPT ![task[t].active_attempt].state = "expired"]
      BY <2>1, <2>2
    <3>3. QED
      BY <1>1, <3>1, <3>2
  <2>3. CASE t \notin batch
    BY <2>1, <2>3
  <2>4. QED
    BY <2>2, <2>3
<1>4. ASSUME NEW u \in Tasks, NEW now \in Stamps,
             \E key \in Keys \cup {NoKey}, budget \in AttemptNo : Submit(u, key, budget, now)
      PROVE  Kept(t)
  BY <1>1, <1>4 DEF Submit, Exists
<1>5. ASSUME NEW u \in Tasks, NEW now \in Stamps, Claim(u, now)
      PROVE  Kept(t)
  <2> DEFINE next == task[u].attempts_started + 1
  <2>1. task[u].attempts_started < next /\ task[u].attempts_started \in Nat
    BY <1>1, ConstantsOK DEF TaskRow
  <2>2. next \in AttemptNo => attempt[u][next].state = "none"
    BY <1>1, <2>1 DEF RowOK, Numbering
  <2>3. task[u].state \in ClaimableStates
    BY <1>5 DEF Claim, Claimable
  <2>4. /\ task' = [task EXCEPT ![u] = Started(task[u])]
        /\ attempt' = [attempt EXCEPT ![u][next] = NewAttempt(task[u], now)]
    BY <1>5 DEF Claim
  <2> HIDE DEF next
  <2>5. task[t].state \in {"completed", "cancelled"} => task'[t] = task[t]
    BY <1>1, <2>3, <2>4
  <2>6. ASSUME NEW n \in AttemptNo, attempt[t][n].state \notin {"none", "running"}
        PROVE  attempt'[t][n] = attempt[t][n]
    <3>1. t # u \/ n # next
      BY <2>2, <2>6
    <3>2. QED
      BY <1>1, <2>4, <3>1
  <2>7. QED
    BY <2>5, <2>6
<1>6. ASSUME NEW u \in Tasks, NEW now \in Stamps, HolderStep(u, now)
      PROVE  Kept(t)
  <2>1. PICK n \in AttemptNo :
          \/ Renew(u, n, now)
          \/ Succeed(u, n, now)
          \/ \E retryable \in BOOLEAN, d \in Backoffs : Fail(u, n, retryable, now + d, now)
          \/ CancelHeld(u, n, now)
    BY <1>6 DEF HolderStep
  <2>2. /\ task[u].state = "running"
        /\ attempt[u][n].state = "running"
    BY <2>1 DEF Renew, Succeed, Fail, CancelHeld, LeaseValid
  <2>3. \A v \in Tasks : v # u => task'[v] = task[v] /\ attempt'[v] = attempt[v]
    BY <1>1, <2>1 DEF Renew, Succeed, Fail, CancelHeld, Finished
  <2>4. ASSUME NEW m \in AttemptNo, m # n PROVE attempt'[u][m] = attempt[u][m]
    <3>1. CASE Renew(u, n, now)
      <4>1. PICK until, renewals :
              attempt' = [attempt EXCEPT ![u][n].lease_until = until,
                                         ![u][n].renewals = renewals]
        BY <3>1 DEF Renew
      <4>2. attempt'[u] = [attempt[u] EXCEPT ![n].lease_until = until,
                                             ![n].renewals = renewals]
        BY <1>1, <4>1
      <4>3. QED
        BY <1>1, <2>4, <4>2
    <3>2. CASE ~Renew(u, n, now)
      <4>1. PICK astate : attempt' = [attempt EXCEPT ![u][n].state = astate]
        BY <2>1, <3>2 DEF Succeed, Fail, CancelHeld, Finished
      <4>2. QED
        BY <1>1, <2>4, <4>1
    <3>3. QED
      BY <3>1, <3>2
  <2>5. QED
    BY <2>2, <2>3, <2>4
<1>7. ASSUME NEW u \in Tasks, NEW now \in Stamps, Retry(u, now)
      PROVE  Kept(t)
  BY <1>1, <1>7 DEF Retry
<1>8. ASSUME NEW u \in Tasks,
             \/ \E to \in RequestedStates : Transition(u, to)
             \/ CancelIdle(u)
      PROVE  Kept(t)
  <2>1. PICK to : /\ task' = [task EXCEPT ![u] = Moved(@, to)] \/
                        task' = [task EXCEPT ![u] = Released(@, to)]
                  /\ attempt' = attempt
                  /\ to \in AllowedTransitions[task[u].state]
                  /\ task[u].state # "absent"
    BY <1>8 DEF Transition, CancelIdle, Exists
  <2>2. task[u].state \in TaskState
    BY <1>1, <2>1 DEF TaskRow
  <2>3. task[u].state \notin {"completed", "cancelled"}
    BY <2>1, <2>2 DEF AllowedTransitions
  <2>4. QED
    BY <1>1, <2>1, <2>3
<1>9. QED
  BY <1>2, <1>3, <1>4, <1>5, <1>6, <1>7, <1>8 DEF Next

\* A completed or cancelled task and a finished attempt are never written again.
THEOREM Finality == Spec => FinishedStaysFinished
<1>1. IInv /\ [Next]_vars =>
        [\A t \in Tasks :
           /\ task[t].state \in {"completed", "cancelled"} => task'[t] = task[t]
           /\ \A n \in AttemptNo :
                attempt[t][n].state \notin {"none", "running"} =>
                    attempt'[t][n] = attempt[t][n]]_vars
  BY FinishedStep
<1>2. QED
  BY <1>1, Invariance, PTL DEF Spec, FinishedStaysFinished

-----------------------------------------------------------------------------
(***************************************************************************)
(* The store implements TaskContract.                                      *)
(***************************************************************************)
\* What the contract sees of one task.
InState(rows, s) == {n \in AttemptNo : rows[n].state = s}

\* A task that keeps RowOK shows its active attempt as running and, once it is
\* completed, its last attempt as answered.
LEMMA ContractView ==
    ASSUME NEW row, NEW rows, RowOK(row, rows)
    PROVE  /\ InState(rows, "running") =
                IF row.state = "running" THEN {row.attempts_started} ELSE {}
           /\ InState(rows, "succeeded") =
                IF row.state = "completed" THEN {row.attempts_started} ELSE {}
<1>1. /\ row \in TaskRow
      /\ rows \in [AttemptNo -> AttemptRow]
      /\ row.attempts_started \in 0..MaxAttempts
  BY DEF RowOK, Typed, TaskRow
<1>2. ASSUME NEW n \in AttemptNo
      PROVE  rows[n].state = "running" <=>
               row.state = "running" /\ n = row.attempts_started
  BY <1>1 DEF RowOK, Activity
<1>3. ASSUME NEW n \in AttemptNo
      PROVE  rows[n].state = "succeeded" <=>
               row.state = "completed" /\ n = row.attempts_started
  <2>1. CASE n < row.attempts_started
    BY <1>1, <2>1 DEF RowOK, Outcome
  <2>2. CASE n = row.attempts_started
    BY <1>1, <2>2 DEF RowOK, Outcome, Last
  <2>3. CASE n > row.attempts_started
    BY <1>1, <2>3 DEF RowOK, Numbering
  <2>4. QED
    BY <1>1, <2>1, <2>2, <2>3
<1>4. /\ row.state = "running" => row.attempts_started \in AttemptNo
      /\ row.state = "completed" => row.attempts_started \in AttemptNo
  BY <1>1, ConstantsOK DEF RowOK, Activity, Outcome, Last
<1>5. QED
  BY <1>2, <1>3, <1>4 DEF InState

\* What the contract sees of the store.
Granted == [t \in Tasks |-> task[t].attempts_started]
Running == [t \in Tasks |-> {n \in AttemptNo : attempt[t][n].state = "running"}]
Answered == [t \in Tasks |-> {n \in AttemptNo : attempt[t][n].state = "succeeded"}]
Withdrawn == {t \in Tasks : task[t].state = "cancelled"}

\* What the contract sees is determined by state and attempts_started.
StoreShown ==
    /\ Running = [t \in Tasks |-> IF task[t].state = "running"
                                  THEN {task[t].attempts_started} ELSE {}]
    /\ Answered = [t \in Tasks |-> IF task[t].state = "completed"
                                   THEN {task[t].attempts_started} ELSE {}]

LEMMA StoreView == IInv => StoreShown
<1> SUFFICES ASSUME IInv PROVE StoreShown
  OBVIOUS
<1>1. \A t \in Tasks : RowOK(task[t], attempt[t])
  BY DEF IInv
<1>2. ASSUME NEW t \in Tasks
      PROVE  /\ {n \in AttemptNo : attempt[t][n].state = "running"} =
                   IF task[t].state = "running" THEN {task[t].attempts_started} ELSE {}
             /\ {n \in AttemptNo : attempt[t][n].state = "succeeded"} =
                   IF task[t].state = "completed" THEN {task[t].attempts_started} ELSE {}
  BY <1>1, ContractView DEF InState
<1>3. QED
  BY <1>1, <1>2 DEF Running, Answered, StoreShown

LEMMA StoreViewAfter == IInv' => StoreShown'
<1>1. QED
  BY StoreView, PTL

\* An operation that starts, ends and cancels no attempt shows nothing.
LEMMA QuietStep ==
    ASSUME IInv, IInv', NEW t \in Tasks, NEW row,
           task' = [task EXCEPT ![t] = row],
           row.attempts_started = task[t].attempts_started,
           row.state = task[t].state \/
             {row.state, task[t].state} \cap {"running", "completed", "cancelled"} = {}
    PROVE  UNCHANGED <<Granted, Running, Answered, Withdrawn>>
<1>1. \A u \in Tasks : task'[u] = IF u = t THEN row ELSE task[u]
  BY DEF IInv
<1>2. \A u \in Tasks :
        /\ task'[u].attempts_started = task[u].attempts_started
        /\ \A s \in {"running", "completed", "cancelled"} :
             task'[u].state = s <=> task[u].state = s
  BY <1>1
<1>3. Granted' = Granted /\ Withdrawn' = Withdrawn
  BY <1>2 DEF Granted, Withdrawn
<1>4. Running' = Running /\ Answered' = Answered
  BY <1>2, StoreView, StoreViewAfter DEF StoreShown
<1>5. QED
  BY <1>3, <1>4

\* claim() gives the next attempt out.
LEMMA ClaimGrants ==
    ASSUME IInv, IInv', NEW t \in Tasks,
           task[t].state \in WaitingStates,
           task[t].attempts_started < task[t].max_attempts,
           task' = [task EXCEPT ![t] = Started(@)]
    PROVE  Contract!Grant(t)
<1> DEFINE next == task[t].attempts_started + 1
<1>1. /\ task \in [Tasks -> TaskRow]
      /\ task[t].attempts_started \in Nat
      /\ task[t].max_attempts <= MaxAttempts
      /\ task[t].max_attempts \in Nat
      /\ task[t] \in TaskRow
  <2>1. task \in [Tasks -> TaskRow] /\ task[t] \in TaskRow
    BY DEF IInv
  <2>2. task[t].attempts_started \in 0..MaxAttempts /\ task[t].max_attempts \in AttemptNo
    BY <2>1 DEF TaskRow
  <2>3. QED
    BY <2>1, <2>2, ConstantsOK
<1>2. /\ task[t].state \notin {"running", "completed", "cancelled"}
      /\ task[t].attempts_started < task[t].max_attempts
      /\ task' = [task EXCEPT ![t] = Started(task[t])]
  BY DEF WaitingStates
<1>3. Started(task[t]).state = "running" /\ Started(task[t]).attempts_started = next
  BY <1>1 DEF Started, Moved, TaskRow
<1>4. /\ task'[t].state = "running"
      /\ task'[t].attempts_started = next
      /\ \A u \in Tasks : u # t => task'[u] = task[u]
  <2>1. /\ task'[t] = Started(task[t])
        /\ \A u \in Tasks : u # t => task'[u] = task[u]
    BY <1>1, <1>2
  <2>2. QED
    BY <1>3, <2>1
<1>5. StoreShown /\ StoreShown'
  BY StoreView, StoreViewAfter
<1>6. Running[t] = {} /\ Answered[t] = {} /\ t \notin Withdrawn
  BY <1>2, <1>5 DEF StoreShown, Withdrawn
<1>7. Granted[t] < MaxAttempts
  BY <1>1, <1>2, ConstantsOK DEF Granted
<1>8. Granted' = [Granted EXCEPT ![t] = @ + 1]
  <2>1. \A u \in Tasks :
          task'[u].attempts_started = IF u = t THEN Granted[t] + 1 ELSE Granted[u]
    BY <1>4 DEF Granted
  <2>2. QED
    BY <2>1 DEF Granted
<1>9. Running' = [Running EXCEPT ![t] = {Granted[t] + 1}]
  BY <1>4, <1>5 DEF StoreShown, Granted
<1>10. Answered' = Answered /\ Withdrawn' = Withdrawn
  <2>1. \A u \in Tasks : \A s \in {"completed", "cancelled"} :
          task'[u].state = s <=> task[u].state = s
    BY <1>2, <1>4
  <2>2. QED
    BY <1>4, <1>5, <2>1 DEF StoreShown, Withdrawn
<1>11. QED
  BY <1>6, <1>7, <1>8, <1>9, <1>10
  DEF Contract!Grant, Contract!Open, Granted, Running, Answered, Withdrawn

\* complete(): a success is the answer of the running attempt, a failure loses it.
LEMMA CompleteAnswersOrLoses ==
    ASSUME IInv, IInv', NEW t \in Tasks, NEW to \in TaskState, NEW row,
           task[t].state = "running",
           to \notin {"running", "cancelled"},
           task' = [task EXCEPT ![t] = row],
           row.state = to,
           row.attempts_started = task[t].attempts_started
    PROVE  IF to = "completed" THEN Contract!Answer(t) ELSE Contract!Lose({t})
<1> DEFINE n0 == task[t].attempts_started
<1>1. /\ task'[t].state = to
      /\ task'[t].attempts_started = n0
      /\ \A u \in Tasks : u # t => task'[u] = task[u]
  BY DEF IInv
<1>2. StoreShown /\ StoreShown'
  BY StoreView, StoreViewAfter
<1>3. Granted' = Granted /\ Withdrawn' = Withdrawn
  BY <1>1 DEF Granted, Withdrawn
<1>4. Running[t] = {n0} /\ Answered[t] = {} /\ t \notin Withdrawn
  BY <1>2 DEF StoreShown, Withdrawn
<1>5. /\ Running' = [Running EXCEPT ![t] = {}]
      /\ Running' = [u \in Tasks |-> IF u \in {t} THEN {} ELSE Running[u]]
  BY <1>1, <1>2 DEF StoreShown
<1>6. CASE to = "completed"
  <2>1. Answered' = [Answered EXCEPT ![t] = {n0}]
    <3>1. /\ Answered = [u \in Tasks |-> Answered[u]]
          /\ Answered' = [u \in Tasks |-> Answered'[u]]
      BY DEF Answered
    <3>2. Answered'[t] = {n0}
      BY <1>1, <1>2, <1>6 DEF StoreShown
    <3>3. \A u \in Tasks : u # t => Answered'[u] = Answered[u]
      BY <1>1, <1>2 DEF StoreShown
    <3>4. QED
      BY <3>1, <3>2, <3>3
  <2>2. Contract!Answer(t)
    BY <1>3, <1>4, <1>5, <2>1
    DEF Contract!Answer, Contract!Open, Granted, Running, Answered, Withdrawn
  <2>3. QED
    BY <1>6, <2>2
<1>7. CASE to # "completed"
  <2>1. Answered' = Answered
    BY <1>1, <1>2, <1>7 DEF StoreShown
  <2>2. Contract!Lose({t})
    BY <1>3, <1>4, <1>5, <2>1
    DEF Contract!Lose, Granted, Running, Answered, Withdrawn
  <2>3. QED
    BY <1>7, <2>2
<1>8. QED
  BY <1>6, <1>7

\* cancel(), by a holder or without a lease, withdraws a task that is not over.
LEMMA CancelWithdraws ==
    ASSUME IInv, IInv', NEW t \in Tasks,
           task[t].state \notin {"completed", "cancelled"},
           task' = [task EXCEPT ![t] = Released(@, "cancelled")]
    PROVE  Contract!Withdraw(t)
<1>1. /\ task'[t].state = "cancelled"
      /\ task'[t].attempts_started = task[t].attempts_started
      /\ \A u \in Tasks : u # t => task'[u] = task[u]
  BY DEF IInv, Released, Moved, TaskRow
<1>2. StoreShown /\ StoreShown'
  BY StoreView, StoreViewAfter
<1>3. Granted' = Granted /\ Withdrawn' = Withdrawn \cup {t}
  BY <1>1 DEF Granted, Withdrawn
<1>4. Answered[t] = {} /\ t \notin Withdrawn
  BY <1>2 DEF StoreShown, Withdrawn
<1>5. Running' = [Running EXCEPT ![t] = {}] /\ Answered' = Answered
  BY <1>1, <1>2 DEF StoreShown
<1>6. QED
  BY <1>3, <1>4, <1>5
  DEF Contract!Withdraw, Contract!Open, Granted, Running, Answered, Withdrawn

\* recover_expired(): the attempts of the batch are lost.
LEMMA RecoveryLoses ==
    ASSUME IInv, IInv', NEW T \in SUBSET Tasks, NEW now, RecoverExpired(T, now)
    PROVE  \E batch \in SUBSET Tasks : Contract!Lose(batch)
<1>1. PICK batch \in SUBSET Expired(T, now) :
        task' = [t \in Tasks |->
                   IF t \in batch
                   THEN [Released(task[t], RecoveryTarget(task[t]))
                           EXCEPT !.next_run_at = now]
                   ELSE task[t]]
  BY DEF RecoverExpired
<1>2. /\ batch \subseteq Tasks
      /\ \A t \in batch : task[t].state = "running"
  BY DEF Expired
<1>3. ASSUME NEW t \in batch
      PROVE  /\ task'[t].state \in {"recovering", "failed"}
             /\ task'[t].attempts_started = task[t].attempts_started
  <2>1. task[t] \in TaskRow
    BY <1>2 DEF IInv
  <2>2. QED
    BY <1>1, <1>2, <2>1 DEF Released, Moved, RecoveryTarget, TaskRow
<1>4. \A t \in Tasks \ batch : task'[t] = task[t]
  BY <1>1
<1>5. StoreShown /\ StoreShown'
  BY StoreView, StoreViewAfter
<1>6. \A t \in batch : Running[t] # {}
  BY <1>2, <1>5 DEF StoreShown
<1>7. Running' = [t \in Tasks |-> IF t \in batch THEN {} ELSE Running[t]]
  BY <1>2, <1>3, <1>4, <1>5 DEF StoreShown
<1>8. \A t \in Tasks :
        /\ task'[t].attempts_started = task[t].attempts_started
        /\ \A s \in {"completed", "cancelled"} : task'[t].state = s <=> task[t].state = s
  BY <1>2, <1>3, <1>4
<1>9. Granted' = Granted /\ Withdrawn' = Withdrawn /\ Answered' = Answered
  BY <1>5, <1>8 DEF Granted, Withdrawn, StoreShown
<1>10. Contract!Lose(batch)
  BY <1>6, <1>7, <1>9 DEF Contract!Lose, Granted, Running, Answered, Withdrawn
<1>11. QED
  BY <1>2, <1>10

\* Every step of the store is a step of the contract or shows nothing.
LEMMA ContractStep ==
    ASSUME IInv, IInv', [Next]_vars
    PROVE  Contract!Next \/ UNCHANGED <<Granted, Running, Answered, Withdrawn>>
<1> DEFINE Quiet == UNCHANGED <<Granted, Running, Answered, Withdrawn>>
<1>1. /\ task \in [Tasks -> TaskRow]
      /\ \A t \in Tasks : RowOK(task[t], attempt[t])
  BY DEF IInv
<1>2. CASE Tick \/ UNCHANGED vars
  BY <1>2 DEF Tick, vars, Granted, Running, Answered, Withdrawn
<1>3. CASE Recovery
  BY <1>3, RecoveryLoses DEF Recovery, Contract!Next
<1>4. ASSUME NEW t \in Tasks, NEW now \in Stamps, NEW key \in Keys \cup {NoKey},
             NEW budget \in AttemptNo, Submit(t, key, budget, now)
      PROVE  Quiet
  <2> DEFINE row == NewTask(key, budget, now)
  <2>1. row.attempts_started = 0 /\ row.state = "created"
    BY DEF NewTask
  <2>2. task[t].state = "absent" /\ task[t].attempts_started = 0
    BY <1>1, <1>4 DEF Submit, Exists, RowOK, Budget
  <2>3. task' = [task EXCEPT ![t] = row]
    BY <1>4 DEF Submit
  <2> HIDE DEF row
  <2>4. QED
    BY <2>1, <2>2, <2>3, QuietStep
<1>5. ASSUME NEW t \in Tasks, NEW now \in Stamps, Claim(t, now)
      PROVE  Contract!Next
  BY <1>5, ClaimGrants DEF Claim, Claimable, WaitingStates, Contract!Next
<1>6. ASSUME NEW t \in Tasks, NEW now \in Stamps, HolderStep(t, now)
      PROVE  Contract!Next \/ Quiet
  <2>1. PICK n \in AttemptNo :
          \/ Renew(t, n, now)
          \/ Succeed(t, n, now)
          \/ \E retryable \in BOOLEAN, d \in Backoffs : Fail(t, n, retryable, now + d, now)
          \/ CancelHeld(t, n, now)
    BY <1>6 DEF HolderStep
  <2>2. task[t].state = "running" /\ task[t] \in TaskRow
    BY <1>1, <2>1 DEF Renew, Succeed, Fail, CancelHeld, LeaseValid
  <2>3. CASE Renew(t, n, now)
    <3>1. task' = [task EXCEPT ![t] = task[t]]
      BY <1>1, <2>3 DEF Renew
    <3>2. QED
      BY <3>1, QuietStep
  <2>4. CASE Succeed(t, n, now)
    <3> DEFINE row == [Released(task[t], "completed") EXCEPT !.next_run_at = now, !.result = n]
    <3>1. row.state = "completed" /\ row.attempts_started = task[t].attempts_started
      BY <2>2 DEF Released, Moved, TaskRow
    <3>2. task' = [task EXCEPT ![t] = row]
      BY <2>4 DEF Succeed
    <3> HIDE DEF row
    <3>3. Contract!Answer(t)
      BY <2>2, <3>1, <3>2, CompleteAnswersOrLoses
    <3>4. QED
      BY <3>3 DEF Contract!Next
  <2>5. CASE \E retryable \in BOOLEAN, d \in Backoffs : Fail(t, n, retryable, now + d, now)
    <3>1. PICK retryable \in BOOLEAN, d \in Backoffs : Fail(t, n, retryable, now + d, now)
      BY <2>5
    <3> DEFINE to == FailureTarget(task[t], retryable)
               row == [Released(task[t], to) EXCEPT !.next_run_at = now + d, !.result = 0]
    <3>2. row.state = to /\ row.attempts_started = task[t].attempts_started
      BY <2>2 DEF Released, Moved, TaskRow
    <3>3. to \in {"retrying", "failed"}
      BY DEF FailureTarget
    <3>4. task' = [task EXCEPT ![t] = row]
      BY <3>1 DEF Fail
    <3> HIDE DEF to, row
    <3>5. Contract!Lose({t})
      BY <2>2, <3>2, <3>3, <3>4, CompleteAnswersOrLoses
    <3>6. QED
      BY <3>5 DEF Contract!Next
  <2>6. CASE CancelHeld(t, n, now)
    <3>1. Contract!Withdraw(t)
      BY <2>2, <2>6, CancelWithdraws DEF CancelHeld
    <3>2. QED
      BY <3>1 DEF Contract!Next
  <2>7. QED
    BY <2>1, <2>3, <2>4, <2>5, <2>6
<1>7. ASSUME NEW t \in Tasks, NEW now \in Stamps, Retry(t, now)
      PROVE  Quiet
  <2> DEFINE row == [Moved(task[t], "retrying") EXCEPT !.next_run_at = now]
  <2>1. /\ row.state = "retrying" /\ task[t].state = "failed"
        /\ row.attempts_started = task[t].attempts_started
    BY <1>1, <1>7 DEF Retry, Moved, TaskRow
  <2>2. task' = [task EXCEPT ![t] = row]
    BY <1>7 DEF Retry
  <2> HIDE DEF row
  <2>3. QED
    BY <2>1, <2>2, QuietStep
<1>8. ASSUME NEW t \in Tasks, NEW to \in RequestedStates, Transition(t, to)
      PROVE  Quiet
  <2> DEFINE row == Moved(task[t], to)
  <2>1. row.state = to /\ row.attempts_started = task[t].attempts_started
    BY <1>1 DEF Moved, TaskRow
  <2>2. task[t].state \in TaskState
    BY <1>1, <1>8 DEF Transition, Exists, TaskRow
  <2>3. /\ task[t].state \notin {"running", "completed", "cancelled"}
        /\ to \notin {"running", "completed", "cancelled"}
    BY <1>1, <1>8, <2>2
    DEF Transition, RequestedStates, AllowedTransitions, RowOK, Activity
  <2>4. task' = [task EXCEPT ![t] = row]
    BY <1>8 DEF Transition
  <2> HIDE DEF row
  <2>5. QED
    BY <2>1, <2>3, <2>4, QuietStep
<1>9. ASSUME NEW t \in Tasks, CancelIdle(t)
      PROVE  Contract!Next
  <2>1. task[t].state \in TaskState
    BY <1>1, <1>9 DEF CancelIdle, Exists, TaskRow
  <2>2. task[t].state \notin {"completed", "cancelled"}
    BY <1>9, <2>1 DEF CancelIdle, AllowedTransitions
  <2>3. Contract!Withdraw(t)
    BY <1>9, <2>2, CancelWithdraws DEF CancelIdle
  <2>4. QED
    BY <2>3 DEF Contract!Next
<1>10. QED
  BY <1>2, <1>3, <1>4, <1>5, <1>6, <1>7, <1>8, <1>9 DEF Next

\* The store keeps the contract of a task: one runner at a time, at most
\* MaxAttempts grants, one answer and none after a withdrawal.
THEOREM Refinement == Spec => ImplementsContract
<1>1. Init => Contract!Init
  <2> SUFFICES ASSUME Init PROVE Contract!Init
    OBVIOUS
  <2>1. /\ \A t \in Tasks : task[t] = NoTask
        /\ \A t \in Tasks : \A n \in AttemptNo : attempt[t][n] = NoAttempt
    BY DEF Init
  <2>2. QED
    BY <2>1 DEF Contract!Init, NoTask, NoAttempt
<1>2. IInv /\ IInv' /\ [Next]_vars => [Contract!Next]_(Contract!vars)
  BY ContractStep DEF Contract!vars, Granted, Running, Answered, Withdrawn
<1>3. QED
  BY <1>1, <1>2, Invariance, PTL DEF Spec, ImplementsContract, Contract!Spec

=============================================================================
