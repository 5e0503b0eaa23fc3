------------------------------ MODULE Scheduler -----------------------------
(***************************************************************************)
(* The main loop of src/src/main.c and scheduler_run of                    *)
(* src/src/modules/scheduler.c: every turn looks at how long the last one  *)
(* took, and unless that was a second or more checks each task's timer and *)
(* calls the tasks that are due.  Every look at the clock may be torn (see *)
(* Clock), and time passes while a task runs.                              *)
(*                                                                         *)
(* Every task is enabled: nothing calls task_disable or task_set_rate.     *)
(* timer_elapsed at a turn's end computes what only the Linux build uses.  *)
(***************************************************************************)
EXTENDS Timers, Sequences

CONSTANTS Rates,    \* task_tab[i]->rate, in the order of task_create
          Second,   \* the dt that makes the main loop skip a turn
          Long      \* the longest a task runs

(* The bound of the count leaves room for where it starts. *)
ASSUME SchedulerAssumption ==
  /\ Rates \in Seq(Nat \ {0}) /\ Rates # <<>>
  /\ Second \in Nat \ {0} /\ Long \in Nat
  /\ MaxCnt >= 3

Tasks == DOMAIN Rates

VARIABLES
  main_loop_time,  \* main's static
  skips,           \* dt of this turn was a second or more
  pc,              \* where the turn stands
  i,               \* scheduler_run's task
  last_run,        \* task_tab[i]->last_run
  ran,             \* the count when the task was last found due
  passed_over,     \* how often in a row a due task was not run
  early            \* runs before a task's time, so far

vars == <<timer_cnt, main_loop_time, skips, pc, i, last_run, ran, passed_over, early>>

TypeOK ==
  /\ timer_cnt \in 0 .. MaxCnt
  /\ main_loop_time \in 0 .. TimeMax
  /\ skips \in BOOLEAN
  /\ pc \in {"dt", "mark", "check", "stamp", "call"}
  /\ i \in Tasks
  /\ last_run \in [Tasks -> 0 .. TimeMax]
  /\ ran \in [Tasks -> 0 .. MaxCnt]
  /\ passed_over \in [Tasks -> Nat]
  /\ early \in Nat

(* After the initialisation of main: some time has passed, no task has run. *)
Init ==
  /\ timer_cnt \in 1 .. 3
  /\ main_loop_time = 0 /\ skips = FALSE
  /\ pc = "dt" /\ i = 1
  /\ last_run = [t \in Tasks |-> 0] /\ ran = [t \in Tasks |-> 0]
  /\ passed_over = [t \in Tasks |-> 0] /\ early = 0

-----------------------------------------------------------------------------
(* A task whose time has certainly come, whatever the reads said. *)
Due(t) == timer_cnt > ran[t] + Rates[t] + 1

(* Due tasks of T are passed over. *)
PassOver(T) ==
  passed_over' = [t \in Tasks |-> IF t \in T /\ Due(t) THEN passed_over[t] + 1
                                  ELSE passed_over[t]]

(* timer_get_dt, first half: the time since the last turn, of which there  *)
(* is none in the first turn.  The subtraction is unsigned.                *)
Dt ==
  /\ pc = "dt"
  /\ \E r \in Reads(timer_cnt) :
       /\ timer_cnt' = r.cnt
       /\ skips' = (main_loop_time > 0 /\ (r.now - main_loop_time) % (TimeMax + 1) >= Second)
  /\ pc' = "mark"
  /\ UNCHANGED <<main_loop_time, i, last_run, ran, passed_over, early>>

(* Its second half, and the decision of the main loop. *)
Mark ==
  /\ pc = "mark"
  /\ \E r \in Reads(timer_cnt) : timer_cnt' = r.cnt /\ main_loop_time' = r.now
  /\ IF skips THEN pc' = "dt" /\ PassOver(Tasks)
              ELSE pc' = "check" /\ UNCHANGED passed_over
  /\ UNCHANGED <<skips, i, last_run, ran, early>>

(* Bug: the loop goes on behind the last task. *)
AdvanceTooFar ==
  /\ pc' = IF i > Len(Rates) THEN "dt" ELSE "check"
  /\ i'  = IF i > Len(Rates) THEN 1 ELSE i + 1

(* The loop's step to the next task, or the turn's end. *)
Advance ==
  /\ pc' = IF i = Len(Rates) THEN "dt" ELSE "check"
  /\ i'  = IF i = Len(Rates) THEN 1 ELSE i + 1

(* timer_check, its test: the task is due, or has to wait. *)
Check ==
  /\ pc = "check"
  /\ \E r \in Reads(timer_cnt) :
       /\ timer_cnt' = r.cnt
       /\ IF Elapsed(r.now, last_run[i], Rates[i])
          THEN /\ pc' = "stamp"
               /\ early' = IF r.cnt - ran[i] > Rates[i] THEN early ELSE early + 1
               /\ UNCHANGED <<i, passed_over>>
          ELSE Advance /\ PassOver({i}) /\ UNCHANGED early
  /\ UNCHANGED <<main_loop_time, skips, last_run, ran>>

(* timer_check reads the clock again for the task's new last_run. *)
Stamp ==
  /\ pc = "stamp"
  /\ \E r \in Reads(timer_cnt) :
       /\ timer_cnt' = r.cnt
       /\ last_run' = [last_run EXCEPT ![i] = r.now]
  /\ ran' = [ran EXCEPT ![i] = timer_cnt]
  /\ passed_over' = [passed_over EXCEPT ![i] = 0]
  /\ pc' = "call"
  /\ UNCHANGED <<main_loop_time, skips, i, early>>

(* The callback returns at c. *)
Return(c) ==
  /\ timer_cnt' = c
  /\ Advance
  /\ UNCHANGED <<main_loop_time, skips, last_run, ran, passed_over, early>>

(* When a task that is called at c may return. *)
Ends(c) == c .. c + Long

(* The callback. *)
Call == pc = "call" /\ \E c \in Ends(timer_cnt) : Return(c)

Turn == Dt \/ Mark \/ Check \/ Stamp

Next == (Turn \/ Call) /\ timer_cnt' <= MaxCnt

Spec == Init /\ [][Next]_vars
-----------------------------------------------------------------------------
(* Correctness.                                                            *)

(* timer_check keeps the tasks' rates, torn reads included: a task runs    *)
(* before its time at most once for every overflow of the low half, and    *)
(* never for any other reason.                                             *)
KeepsRate == early <= Carries(timer_cnt)

(* A task whose time has come is run in this turn, or after the turn the   *)
(* main loop skips because the last one was long, or after one more that   *)
(* a torn read costs: a time stamp that lies ahead is no reason to wait.   *)
NoTaskStarves == \A t \in Tasks : passed_over[t] <= 2
=============================================================================
