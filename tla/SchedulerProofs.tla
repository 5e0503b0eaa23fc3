--------------------------- MODULE SchedulerProofs --------------------------
(***************************************************************************)
(* Proofs about Scheduler for every task table and every width of the      *)
(* clock's halves: the types, that tasks keep their rates, and that none   *)
(* starves while turns and periods are short against half the clock.       *)
(***************************************************************************)
EXTENDS Scheduler, CommonLemmas, FiniteSets, FiniteSetTheorems

(* A task's last_run is a count between its last run and now, as it is if  *)
(* the read that set it was not torn.                                      *)
GoodStamp(t) == ran[t] <= last_run[t] /\ last_run[t] <= timer_cnt

(* The tasks that may run early without another torn read: the one that    *)
(* is about to be stamped anew is no longer among them.                    *)
Misled == {t \in Tasks : ~GoodStamp(t) /\ ~(pc = "stamp" /\ t = i)}

(* Every torn read costs an overflow, and pays for one early run: in the   *)
(* same look, or later through the stamp it leaves behind.                 *)
RateInv == early + Cardinality(Misled) <= High(timer_cnt)

SInv == TypeOK /\ RateInv

-----------------------------------------------------------------------------
(* Constants and Tasks. *)
LEMMA TaskTable ==
  /\ Tasks = 1 .. Len(Rates) /\ Len(Rates) \in Nat \ {0} /\ IsFiniteSet(Tasks)
  /\ \A t \in Tasks : Rates[t] \in Nat
<1>1. Tasks = 1 .. Len(Rates) /\ Len(Rates) \in Nat /\ \A t \in Tasks : Rates[t] \in Nat
  BY SchedulerAssumption DEF Tasks
<1>2. Len(Rates) # 0
  BY SchedulerAssumption
<1>3. IsFiniteSet(1 .. Len(Rates))
  BY <1>1, FS_Interval
<1> QED
  BY <1>1, <1>2, <1>3

LEMMA MisledFinite ==
  /\ IsFiniteSet(Misled) /\ Cardinality(Misled) \in Nat
<1>1. Misled \subseteq Tasks
  BY DEF Misled
<1> QED
  BY <1>1, TaskTable, FS_Subset, FS_CardinalityType

(* The account of torn reads.  M is Misled before and N after a step, e    *)
(* and f are early, h and g the high half of the count.                    *)
LEMMA Account ==
  ASSUME NEW M, IsFiniteSet(M), NEW N, NEW x,
         NEW e \in Nat, NEW f \in Nat, NEW h \in Nat, NEW g \in Nat,
         e + Cardinality(M) <= h,
         \/ N \subseteq M /\ f = e /\ h <= g
         \/ N \subseteq M /\ f = e + 1 /\ g = h + 1
         \/ x \in M /\ N \subseteq M \ {x} /\ f = e + 1 /\ h <= g
         \/ N \subseteq M \cup {x} /\ f = e /\ g = h + 1
  PROVE  f + Cardinality(N) <= g
<1>0. Cardinality(M) \in Nat
  BY FS_CardinalityType
<1>1. CASE /\ N \subseteq M
           /\ (f = e /\ h <= g) \/ (f = e + 1 /\ g = h + 1)
  <2>1. Cardinality(N) \in Nat /\ Cardinality(N) <= Cardinality(M)
    BY <1>1, FS_Subset, FS_CardinalityType
  <2> QED
    BY <1>0, <1>1, <2>1
<1>3. CASE x \in M /\ N \subseteq M \ {x} /\ f = e + 1 /\ h <= g
  <2>1. IsFiniteSet(M \ {x}) /\ Cardinality(M \ {x}) = Cardinality(M) - 1
    BY <1>3, FS_RemoveElement
  <2>2. Cardinality(N) \in Nat /\ Cardinality(N) <= Cardinality(M \ {x})
    BY <1>3, <2>1, FS_Subset, FS_CardinalityType
  <2> QED
    BY <1>0, <1>3, <2>1, <2>2
<1>2. CASE N \subseteq M \cup {x} /\ f = e /\ g = h + 1
  <2>1. IsFiniteSet(M \cup {x}) /\ Cardinality(M \cup {x}) <= Cardinality(M) + 1
    <3>1. CASE x \in M
      BY <1>0, <3>1, FS_AddElement
    <3>2. CASE x \notin M
      BY <1>0, <3>2, FS_AddElement
    <3> QED
      BY <3>1, <3>2
  <2>2. Cardinality(N) \in Nat /\ Cardinality(N) <= Cardinality(M \cup {x})
    BY <1>2, <2>1, FS_Subset, FS_CardinalityType
  <2>3. Cardinality(M \cup {x}) \in Nat
    BY <2>1, FS_CardinalityType
  <2> QED
    BY <1>0, <1>2, <2>1, <2>2, <2>3
<1> QED
  BY Zenon, <1>1, <1>2, <1>3

-----------------------------------------------------------------------------
(* Types. *)

(* What an action needs of the types. *)
LEMMA Typed ==
  ASSUME TypeOK
  PROVE  /\ timer_cnt \in Nat /\ i \in Tasks /\ early \in Nat
         /\ \A t \in Tasks : last_run[t] \in Nat /\ ran[t] \in Nat
BY ClockAssumption, TimersAssumption DEF TypeOK

LEMMA InitTypes == Init => TypeOK
<1> SUFFICES ASSUME Init PROVE TypeOK
  OBVIOUS
<1>1. skips \in BOOLEAN
  BY Zenon DEF Init
<1>2. timer_cnt \in 0 .. MaxCnt
  BY SchedulerAssumption, TimersAssumption DEF Init
<1>3. 0 \in 0 .. TimeMax /\ 0 \in 0 .. MaxCnt
  BY TimersAssumption, ClockAssumption
<1>4. /\ last_run \in [Tasks -> 0 .. TimeMax] /\ ran \in [Tasks -> 0 .. MaxCnt]
      /\ passed_over \in [Tasks -> Nat] /\ i \in Tasks
  BY <1>3, TaskTable DEF Init
<1> QED
  BY <1>1, <1>2, <1>3, <1>4 DEF Init, TypeOK

(* A read in a step that stays within the bound. *)
LEMMA ReadTyped ==
  ASSUME TypeOK, NEW r \in Reads(timer_cnt), r.cnt <= MaxCnt
  PROVE  r.cnt \in 0 .. MaxCnt /\ r.now \in 0 .. TimeMax
<1>1. timer_cnt \in Nat
  BY Typed
<1> QED
  BY <1>1, ReadTakes, ReadIsTime, TimersAssumption DEF Times

LEMMA AdvanceTyped == TypeOK /\ Advance => i' \in Tasks /\ pc' \in {"dt", "check"}
BY TaskTable DEF TypeOK, Advance

LEMMA PassOverTyped ==
  ASSUME TypeOK, NEW T, PassOver(T) PROVE passed_over' \in [Tasks -> Nat]
<1>1. \A t \in Tasks : passed_over[t] \in Nat /\ passed_over[t] + 1 \in Nat
  BY DEF TypeOK
<1> QED
  BY <1>1 DEF PassOver

LEMMA DtTypes == TypeOK /\ Dt /\ timer_cnt' <= MaxCnt => TypeOK'
<1> SUFFICES ASSUME TypeOK, Dt, timer_cnt' <= MaxCnt PROVE TypeOK'
  OBVIOUS
<1>1. timer_cnt' \in 0 .. MaxCnt
  BY ReadTyped DEF Dt
<1>2. skips' \in BOOLEAN
  BY Zenon DEF Dt
<1> QED
  BY <1>1, <1>2 DEF Dt, TypeOK

LEMMA MarkTypes == TypeOK /\ Mark /\ timer_cnt' <= MaxCnt => TypeOK'
<1> SUFFICES ASSUME TypeOK, Mark, timer_cnt' <= MaxCnt PROVE TypeOK'
  OBVIOUS
<1>1. timer_cnt' \in 0 .. MaxCnt /\ main_loop_time' \in 0 .. TimeMax
  BY ReadTyped DEF Mark
<1>2. passed_over' \in [Tasks -> Nat]
  BY PassOverTyped DEF Mark, TypeOK
<1>3. skips' \in BOOLEAN
  BY Zenon DEF Mark, TypeOK
<1> QED
  BY <1>1, <1>2, <1>3 DEF Mark, TypeOK

LEMMA CheckTypes == TypeOK /\ Check /\ timer_cnt' <= MaxCnt => TypeOK'
<1> SUFFICES ASSUME TypeOK, Check, timer_cnt' <= MaxCnt PROVE TypeOK'
  OBVIOUS
<1>1. timer_cnt' \in 0 .. MaxCnt
  BY ReadTyped DEF Check
<1>2. passed_over' \in [Tasks -> Nat]
  BY PassOverTyped DEF Check, TypeOK
<1>3. skips' \in BOOLEAN
  BY Zenon DEF Check, TypeOK
<1>4. i' \in Tasks /\ pc' \in {"dt", "check", "stamp"}
  BY AdvanceTyped DEF Check, TypeOK
<1>5. early' \in Nat
  BY DEF Check, TypeOK
<1> QED
  BY <1>1, <1>2, <1>3, <1>4, <1>5 DEF Check, TypeOK

LEMMA StampTypes == TypeOK /\ Stamp /\ timer_cnt' <= MaxCnt => TypeOK'
<1> SUFFICES ASSUME TypeOK, Stamp, timer_cnt' <= MaxCnt PROVE TypeOK'
  OBVIOUS
<1>1. timer_cnt' \in 0 .. MaxCnt /\ last_run' \in [Tasks -> 0 .. TimeMax]
  BY ReadTyped DEF Stamp, TypeOK
<1>2. skips' \in BOOLEAN
  BY Zenon DEF Stamp, TypeOK
<1> QED
  BY <1>1, <1>2 DEF Stamp, TypeOK

LEMMA CallTypes == TypeOK /\ Call /\ timer_cnt' <= MaxCnt => TypeOK'
<1> SUFFICES ASSUME TypeOK, Call, timer_cnt' <= MaxCnt PROVE TypeOK'
  OBVIOUS
<1>1. timer_cnt' \in Nat
  BY Typed, SchedulerAssumption DEF Call, Ends, Return
<1>2. timer_cnt' \in 0 .. MaxCnt
  BY <1>1, TimersAssumption
<1>3. skips' \in BOOLEAN
  BY Zenon DEF Call, Return, TypeOK
<1>4. i' \in Tasks /\ pc' \in {"dt", "check"}
  BY AdvanceTyped DEF Call, Return
<1> QED
  BY <1>2, <1>3, <1>4 DEF Call, Return, TypeOK

LEMMA NextTypes == TypeOK /\ [Next]_vars => TypeOK'
<1>1. TypeOK /\ UNCHANGED vars => TypeOK'
  BY DEF TypeOK, vars
<1> QED
  BY <1>1, DtTypes, MarkTypes, CheckTypes, StampTypes, CallTypes DEF Next, Turn

(* The types, for every task table: no index leaves it, and no time that a *)
(* torn read returns leaves the clock's 64 bits.                           *)
THEOREM TypesCorrect == Spec => []TypeOK
BY InitTypes, NextTypes, PTL DEF Spec

-----------------------------------------------------------------------------
(* The account.                                                            *)

LEMMA InitRate == Init => RateInv
<1> SUFFICES ASSUME Init PROVE RateInv
  OBVIOUS
<1>1. \A t \in Tasks : GoodStamp(t)
  BY DEF Init, GoodStamp
<1>2. Misled = {}
  BY <1>1 DEF Misled
<1>3. timer_cnt \in Nat /\ High(timer_cnt) \in Nat
  BY Halves DEF Init
<1> QED
  BY <1>2, <1>3, FS_EmptySet DEF Init, RateInv

(* What a step does to the account, for RateInv to hold behind it. *)
LEMMA RateStep ==
  ASSUME SInv, TypeOK', timer_cnt <= timer_cnt', NEW x,
         \/ Misled' \subseteq Misled /\ early' = early
         \/ Misled' \subseteq Misled /\ early' = early + 1 /\ High(timer_cnt') = High(timer_cnt) + 1
         \/ x \in Misled /\ Misled' \subseteq Misled \ {x} /\ early' = early + 1
         \/ Misled' \subseteq Misled \cup {x} /\ early' = early /\ High(timer_cnt') = High(timer_cnt) + 1
  PROVE  RateInv'
<1>1. timer_cnt \in Nat /\ early \in Nat
  BY Typed DEF SInv
<1>2. timer_cnt' \in Nat /\ early' \in Nat
  BY TimersAssumption DEF TypeOK
<1>3. High(timer_cnt) \in Nat /\ High(timer_cnt') \in Nat /\ High(timer_cnt) <= High(timer_cnt')
  BY <1>1, <1>2, Halves, HighGrows
<1>4. IsFiniteSet(Misled) /\ early + Cardinality(Misled) <= High(timer_cnt)
  BY MisledFinite DEF SInv, RateInv
<1>5. \/ Misled' \subseteq Misled /\ early' = early /\ High(timer_cnt) <= High(timer_cnt')
      \/ Misled' \subseteq Misled /\ early' = early + 1 /\ High(timer_cnt') = High(timer_cnt) + 1
      \/ x \in Misled /\ Misled' \subseteq Misled \ {x} /\ early' = early + 1
         /\ High(timer_cnt) <= High(timer_cnt')
      \/ Misled' \subseteq Misled \cup {x} /\ early' = early /\ High(timer_cnt') = High(timer_cnt) + 1
  BY Zenon, <1>3
<1>6. early' + Cardinality(Misled') <= High(timer_cnt')
  BY <1>1, <1>2, <1>3, <1>4, <1>5, Account
<1> QED
  BY <1>6 DEF RateInv

(* A good stamp stays good as time passes. *)
LEMMA StampsKeep ==
  ASSUME TypeOK, timer_cnt' \in Nat, timer_cnt <= timer_cnt', UNCHANGED <<last_run, ran>>,
         NEW t \in Tasks, GoodStamp(t)
  PROVE  GoodStamp(t)'
<1>1. timer_cnt \in Nat /\ last_run[t] \in Nat
  BY Typed
<1> QED
  BY <1>1 DEF GoodStamp

(* Steps away from timer_check. *)
LEMMA QuietStep ==
  ASSUME SInv, TypeOK', timer_cnt <= timer_cnt', UNCHANGED <<last_run, ran, early>>,
         pc # "stamp"
  PROVE  RateInv'
<1>1. timer_cnt' \in Nat
  BY TimersAssumption DEF TypeOK
<1>2. Misled' \subseteq Misled
  BY <1>1, StampsKeep DEF SInv, Misled
<1> QED
  BY <1>2, RateStep

LEMMA DtRate == SInv /\ Dt /\ TypeOK' => RateInv'
<1> SUFFICES ASSUME SInv, Dt, TypeOK' PROVE RateInv'
  OBVIOUS
<1>1. timer_cnt <= timer_cnt'
  BY Typed, ReadTakes DEF Dt, SInv
<1> QED
  BY <1>1, QuietStep DEF Dt

LEMMA MarkRate == SInv /\ Mark /\ TypeOK' => RateInv'
<1> SUFFICES ASSUME SInv, Mark, TypeOK' PROVE RateInv'
  OBVIOUS
<1>1. timer_cnt <= timer_cnt'
  BY Typed, ReadTakes DEF Mark, SInv
<1> QED
  BY <1>1, QuietStep DEF Mark

LEMMA CallRate == SInv /\ Call /\ TypeOK' => RateInv'
<1> SUFFICES ASSUME SInv, Call, TypeOK' PROVE RateInv'
  OBVIOUS
<1>1. timer_cnt <= timer_cnt'
  BY Typed, SchedulerAssumption DEF Call, Ends, Return, SInv
<1> QED
  BY <1>1, QuietStep DEF Call, Return

(* A look that finds a task due by a whole read and a good stamp finds it  *)
(* in time.                                                                *)
LEMMA InTimeIfGood ==
  ASSUME TypeOK, NEW r \in Reads(timer_cnt), r.now \in {timer_cnt, timer_cnt + 1}, r.now <= r.cnt,
         GoodStamp(i), Elapsed(r.now, last_run[i], Rates[i])
  PROVE  r.cnt - ran[i] > Rates[i]
<1>1. /\ timer_cnt \in Nat /\ last_run[i] \in Nat /\ ran[i] \in Nat /\ Rates[i] \in Nat
      /\ r.cnt \in Nat
  BY Typed, TaskTable, ReadTakes
<1>2. r.now >= last_run[i]
  BY <1>1 DEF GoodStamp
<1>3. r.now - last_run[i] > Rates[i]
  BY <1>2 DEF Elapsed, Passed
<1> QED
  BY <1>1, <1>3 DEF GoodStamp

LEMMA CheckRate == SInv /\ Check /\ TypeOK' => RateInv'
<1> SUFFICES ASSUME SInv, Check, TypeOK' PROVE RateInv'
  OBVIOUS
<1>1. PICK r \in Reads(timer_cnt) :
        /\ timer_cnt' = r.cnt
        /\ IF Elapsed(r.now, last_run[i], Rates[i])
           THEN /\ pc' = "stamp"
                /\ early' = IF r.cnt - ran[i] > Rates[i] THEN early ELSE early + 1
                /\ UNCHANGED <<i, passed_over>>
           ELSE Advance /\ PassOver({i}) /\ UNCHANGED early
  BY DEF Check
<1>2. timer_cnt \in Nat /\ timer_cnt' \in Nat /\ timer_cnt <= timer_cnt' /\ i \in Tasks
  BY <1>1, Typed, ReadTakes DEF SInv
<1>3. pc = "check" /\ UNCHANGED <<last_run, ran>>
  BY DEF Check
<1>4. CASE ~Elapsed(r.now, last_run[i], Rates[i])
  BY <1>1, <1>2, <1>3, <1>4, QuietStep
<1>5. CASE Elapsed(r.now, last_run[i], Rates[i])
  <2>1. pc' = "stamp" /\ i' = i
    BY <1>1, <1>5
  <2>2. Misled' \subseteq Misled \ {i}
    BY <1>2, <1>3, <2>1, StampsKeep DEF SInv, Misled
  <2>3. CASE r.cnt - ran[i] > Rates[i]
    <3>1. early' = early /\ Misled' \subseteq Misled
      BY <1>1, <1>5, <2>2, <2>3
    <3> QED
      BY <1>2, <3>1, RateStep
  <2>4. CASE ~(r.cnt - ran[i] > Rates[i])
    <3>1. early' = early + 1
      BY <1>1, <1>5, <2>4
    <3>2. CASE GoodStamp(i)
      <4>1. High(timer_cnt') = High(timer_cnt) + 1
        BY <1>1, <1>2, <1>5, <2>4, <3>2, WholeOrCarry, InTimeIfGood DEF SInv
      <4> QED
        BY <1>2, <2>2, <3>1, <4>1, RateStep
    <3>3. CASE ~GoodStamp(i)
      <4>1. i \in Misled
        BY <1>2, <1>3, <3>3 DEF Misled
      <4> QED
        BY <1>2, <2>2, <3>1, <4>1, RateStep
    <3> QED
      BY <3>2, <3>3
  <2> QED
    BY <2>3, <2>4
<1> QED
  BY <1>4, <1>5

LEMMA StampRate == SInv /\ Stamp /\ TypeOK' => RateInv'
<1> SUFFICES ASSUME SInv, Stamp, TypeOK' PROVE RateInv'
  OBVIOUS
<1>1. PICK r \in Reads(timer_cnt) :
        timer_cnt' = r.cnt /\ last_run' = [last_run EXCEPT ![i] = r.now]
  BY DEF Stamp
<1>2. timer_cnt \in Nat /\ timer_cnt' \in Nat /\ timer_cnt <= timer_cnt' /\ i \in Tasks
  BY <1>1, Typed, ReadTakes DEF SInv
<1>3. /\ pc = "stamp" /\ pc' = "call" /\ i' = i /\ early' = early
      /\ ran' = [ran EXCEPT ![i] = timer_cnt]
  BY DEF Stamp
<1>4. /\ last_run'[i] = r.now /\ ran'[i] = timer_cnt
      /\ \A t \in Tasks \ {i} : last_run'[t] = last_run[t] /\ ran'[t] = ran[t]
  BY <1>1, <1>2, <1>3 DEF SInv, TypeOK
<1>5. Misled' \subseteq Misled \cup {i}
  <2> SUFFICES ASSUME NEW t \in Tasks \ {i}, GoodStamp(t) PROVE GoodStamp(t)'
    BY <1>3 DEF Misled
  <2>1. last_run[t] \in Nat
    BY Typed DEF SInv
  <2> QED
    BY <1>2, <1>4, <2>1 DEF GoodStamp
<1>6. CASE r.now \in {timer_cnt, timer_cnt + 1} /\ r.now <= r.cnt
  <2>1. GoodStamp(i)'
    BY <1>1, <1>2, <1>3, <1>4, <1>6 DEF GoodStamp
  <2>2. Misled' \subseteq Misled
    BY <1>3, <1>5, <2>1 DEF Misled
  <2> QED
    BY <1>2, <1>3, <2>2, RateStep
<1>7. CASE High(timer_cnt') = High(timer_cnt) + 1
  BY <1>2, <1>3, <1>5, <1>7, RateStep
<1> QED
  BY <1>1, <1>2, <1>6, <1>7, WholeOrCarry

LEMMA NextRate == SInv /\ [Next]_vars => SInv'
<1>1. TypeOK /\ [Next]_vars => TypeOK'
  BY NextTypes
<1>2. SInv /\ UNCHANGED vars => RateInv'
  BY DEF SInv, RateInv, Misled, GoodStamp, vars
<1> QED
  BY <1>1, <1>2, DtRate, MarkRate, CheckRate, StampRate, CallRate DEF Next, Turn, SInv

(* timer_check keeps the tasks' rates, for every task table: there are     *)
(* never more early runs than overflows of the clock's low half, however   *)
(* its two halves are read.                                                *)
THEOREM RatesKept == Spec => []KeepsRate
<1>1. Init => SInv
  BY InitTypes, InitRate DEF SInv
<1>2. SInv => KeepsRate
  <2> SUFFICES ASSUME SInv PROVE early <= High(timer_cnt)
    BY DEF KeepsRate, Carries
  <2>1. early \in Nat /\ High(timer_cnt) \in Nat
    BY Typed, Halves DEF SInv
  <2> QED
    BY <2>1, MisledFinite DEF SInv, RateInv
<1> QED
  BY <1>1, <1>2, NextRate, PTL DEF Spec

-----------------------------------------------------------------------------
(* No task starves.  A turn, in which every task may take its time, and a  *)
(* task's period are short against one half of the clock, and a second is  *)
(* more than the ticks of a few reads.  Of the firmware's clock, which     *)
(* counts 10 us, one half is twelve hours.                                 *)
TurnsShort ==
  /\ Second >= 3
  /\ \A t \in Tasks : Rates[t] + Len(Rates) * (Long + 3) + 10 <= Half

(* The time the first n tasks take in a turn, at most. *)
Part(n) == n * (Long + 3)

(* How much of its time the turn has spent on its tasks. *)
Position ==
  CASE pc = "check" -> Part(i - 1)
    [] pc = "stamp" -> Part(i - 1) + 1
    [] pc = "call"  -> Part(i - 1) + 2
    [] OTHER        -> 0

Age(t) == timer_cnt - ran[t]

(* Since a turn looked at its tasks, w ticks at most have passed. *)
Waited(w) ==
  \A t \in Tasks : Age(t) <= Rates[t] + 2 + Part(Len(Rates)) - Part(t - 1) + w

PassedOver(n) == \A t \in Tasks : passed_over[t] <= n

(* The main loop's last look at the clock was right. *)
Fresh == main_loop_time \in {timer_cnt - 1, timer_cnt}

(* A turn that ran its tasks is over, or the next one was skipped, or two  *)
(* were: the second because of a torn read, so that no other is near.      *)
AtDt ==
  /\ i = 1
  /\ \/ Waited(0) /\ PassedOver(0)
     \/ Waited(2) /\ PassedOver(1) /\ (Fresh \/ Low(timer_cnt) = 0)
     \/ Waited(4) /\ PassedOver(2) /\ Fresh /\ Low(timer_cnt) <= 2

AtMark ==
  /\ i = 1
  /\ \/ ~skips /\ Waited(5) /\ PassedOver(2)
     \/ skips /\ Waited(1) /\ PassedOver(0)
     \/ skips /\ Waited(3) /\ PassedOver(1) /\ Low(timer_cnt) <= 1

(* The tasks a turn has looked at, and those it has still to look at. *)
LookedAt(t) ==
  passed_over[t] = 0 /\ Age(t) <= Rates[t] + 2 + Position - Part(t - 1)

Waits(t) ==
  passed_over[t] <= 2 /\ Age(t) <= Rates[t] + 8 + Part(Len(Rates)) - Part(t - 1) + Position

InLoop ==
  \A t \in Tasks : IF t < i \/ (t = i /\ pc = "call") THEN LookedAt(t) ELSE Waits(t)

(* A torn read leaves a stamp almost one half of the clock off, either     *)
(* way; and a task that was passed over is due until it runs.              *)
Stamps ==
  \A t \in Tasks :
    /\ ran[t] <= timer_cnt
    /\ last_run[t] \in {ran[t], ran[t] + 1, ran[t] - Half + 1, ran[t] + Half}
    /\ passed_over[t] > 0 => Due(t)

TurnInv ==
  /\ TypeOK /\ Stamps
  /\ pc = "dt" => AtDt
  /\ pc = "mark" => AtMark
  /\ pc \in {"check", "stamp", "call"} => InLoop

LEMMA Parts ==
  /\ Part(0) = 0 /\ Len(Rates) \in Nat \ {0} /\ Long \in Nat
  /\ \A n \in Nat : Part(n) \in Nat /\ Part(n + 1) = Part(n) + Long + 3
  /\ \A n, m \in Nat : n <= m => Part(n) <= Part(m)
<1>1. Long \in Nat /\ Len(Rates) \in Nat \ {0}
  BY SchedulerAssumption, TaskTable
<1> DEFINE k == Long + 3
<1>2. k \in Nat
  BY <1>1
<1> HIDE DEF k
<1>3. \A n \in Nat : n * k \in Nat /\ (n + 1) * k = n * k + k
  BY <1>2
<1>4. ASSUME NEW n \in Nat, NEW m \in Nat, n <= m PROVE n * k <= m * k
  <2>1. (m - n) * k \in Nat /\ m * k = n * k + (m - n) * k
    BY <1>2, <1>4
  <2> QED
    BY <1>3, <2>1
<1>5. 0 * k = 0
  BY <1>2
<1> QED
  BY <1>1, <1>3, <1>4, <1>5 DEF Part, k

(* What a task's place in the turn says about time. *)
LEMMA Places ==
  ASSUME NEW t \in Tasks
  PROVE  /\ t \in Nat /\ t >= 1 /\ t <= Len(Rates) /\ t - 1 \in Nat /\ Rates[t] \in Nat
         /\ Part(t - 1) \in Nat /\ Part(t) = Part(t - 1) + Long + 3
         /\ Part(t) <= Part(Len(Rates)) /\ Part(t) \in Nat /\ Part(Len(Rates)) \in Nat
         /\ \A n \in Nat : n >= t => Part(t) <= Part(n)
<1>1. t \in Nat /\ t >= 1 /\ t <= Len(Rates) /\ t - 1 \in Nat /\ t - 1 + 1 = t /\ Rates[t] \in Nat
  BY TaskTable
<1>2. Len(Rates) \in Nat
  BY Parts
<1> QED
  BY <1>1, <1>2, Parts

(* A read returns the count before or after it, or the low half is all     *)
(* ones: it may then return a time that is almost one half of the clock    *)
(* off, and no other such read is near.                                    *)
LEMMA ReadsNearOrTorn ==
  ASSUME NEW c \in Nat, NEW r \in Reads(c)
  PROVE  /\ r.cnt \in {c, c + 1} /\ r.now \in Nat
         /\ \/ r.now \in {c, c + 1} /\ r.now <= r.cnt
            \/ Straddles(c) /\ r.cnt = c + 1 /\ Low(c + 1) = 0 /\ r.now \in {c - Half + 1, c + Half}
<1>1. r.cnt \in {c, c + 1} /\ r.now \in Nat
  BY ReadTakes
<1>2. CASE ~Straddles(c)
  BY <1>1, <1>2, ReadsWhole
<1>3. CASE Straddles(c)
  <2> DEFINE q == High(c)
             s == Low(c + 1)
  <2>1. c = Half * q + (Half - 1) /\ q \in Nat /\ High(c + 1) = q + 1
    BY <1>3, Halves, Carry DEF Straddles
  <2>2. c + 1 = Half * (q + 1) + s /\ s \in 0 .. Half - 1
    BY <2>1, Halves
  <2> HIDE DEF q, s
  <2>3. Half * (q + 1) = Half * q + Half /\ Half * q \in Nat /\ Half \in Nat
    BY <2>1, ClockAssumption
  <2>4. s = 0
    BY <2>1, <2>2, <2>3
  <2>5. q * Half = Half * q /\ (q + 1) * Half = Half * q + Half
    BY <2>1, <2>3, ClockAssumption
  <2>6. Join(q, s) = c - Half + 1 /\ Join(q + 1, Low(c)) = c + Half
    BY <1>3, <2>1, <2>3, <2>4, <2>5 DEF Join, Straddles
  <2>7. \/ r.now = c /\ r.cnt = c
        \/ r.cnt = c + 1 /\ r.now \in {c, c + 1, c - Half + 1, c + Half}
    BY <2>1, <2>6 DEF Reads, q, s
  <2> QED
    BY <1>1, <1>3, <2>4, <2>7 DEF s
<1> QED
  BY <1>2, <1>3

LEMMA ShortIs ==
  ASSUME TurnsShort, NEW t \in Tasks
  PROVE  Rates[t] + Part(Len(Rates)) + 10 <= Half /\ Half > 10 /\ Half \in Nat
<1> DEFINE p == Part(Len(Rates))
<1>1. Rates[t] + p + 10 <= Half
  BY DEF TurnsShort, Part
<1> HIDE DEF p
<1>2. p \in Nat /\ Rates[t] \in Nat /\ Half \in Nat /\ Rates[t] # 0
  <2>1. Rates[t] \in Nat \ {0}
    BY SchedulerAssumption DEF Tasks
  <2> QED
    BY <2>1, Places, ClockAssumption DEF p
<1>3. Half > 10
  BY <1>1, <1>2
<1> QED
  BY <1>1, <1>2, <1>3 DEF p

(* A few ticks behind an overflow no read is torn. *)
LEMMA LowIsWhole ==
  ASSUME TurnsShort, NEW c \in Nat, Low(c) <= 2, NEW r \in Reads(c)
  PROVE  /\ r.now \in {c, c + 1} /\ r.now <= r.cnt
         /\ Low(r.cnt) <= Low(c) + 1 /\ Low(c) \in Nat /\ Low(r.cnt) \in Nat
<1>1. Half > 10
  <2>1. 1 \in Tasks
    BY TaskTable
  <2> QED
    BY <2>1, ShortIs
<1>2. ~Straddles(c) /\ Low(c) \in Nat
  BY <1>1, Halves, ClockAssumption DEF Straddles
<1>3. Low(c + 1) = Low(c) + 1
  BY <1>2, NoCarry
<1> QED
  BY <1>2, <1>3, ReadTakes, ReadsWhole

(* A task that is due is found due, whatever the look and its stamp say.   *)
LEMMA DueIsElapsed ==
  ASSUME TypeOK, Stamps, TurnsShort, NEW t \in Tasks, Due(t),
         Age(t) <= Rates[t] + 8 + Part(Len(Rates)), NEW r \in Reads(timer_cnt)
  PROVE  Elapsed(r.now, last_run[t], Rates[t])
<1> DEFINE c == timer_cnt
           d == ran[t]
           s == last_run[t]
           n == r.now
           k == Rates[t]
<1>1. c \in Nat /\ d \in Nat /\ s \in Nat /\ n \in Nat /\ k \in Nat
  BY Typed, Places, ReadTakes
<1>2. c > d + k + 1
  BY DEF Due
<1>3. Half \in Nat /\ k + 10 <= Half /\ c <= d + Half - 2
  <2> DEFINE p == Part(Len(Rates))
  <2>1. k + p + 10 <= Half /\ p \in Nat /\ Half \in Nat
    BY Places, ShortIs
  <2>2. c - d <= k + 8 + p
    BY DEF Age
  <2> HIDE DEF p, c, d, k
  <2> QED
    BY <1>1, <2>1, <2>2
<1>4. s \in {d, d + 1, d - Half + 1, d + Half}
  BY DEF Stamps
<1>5. n \in {c, c + 1, c - Half + 1, c + Half}
  BY <1>1, ReadsNearOrTorn
<1>6. TimeMax \in Nat /\ TimeMax + 1 >= 4 * Half
  <2>1. Half * Half \in Nat /\ (Half - 4) * Half \in Nat /\ Half * Half = (Half - 4) * Half + 4 * Half
    BY <1>1, <1>3
  <2> QED
    BY <1>3, <2>1, ClockAssumption
<1> HIDE DEF c, d, s, n, k
<1>7. Passed(n, s) > k
  <2>1. CASE n >= s
    BY <1>1, <1>2, <1>3, <1>4, <1>5, <2>1 DEF Passed
  <2>2. CASE n < s
    <3>1. s - n <= 2 * Half
      BY <1>1, <1>2, <1>3, <1>4, <1>5
    <3> QED
      BY <1>1, <1>3, <1>6, <2>2, <3>1 DEF Passed
  <2> QED
    BY <1>1, <2>1, <2>2
<1> QED
  BY <1>7 DEF Elapsed, n, s, k

(* What an action that is not timer_check leaves of stamps and waits. *)
LEMMA StampsStay ==
  ASSUME TypeOK, Stamps, timer_cnt' \in Nat, timer_cnt <= timer_cnt', UNCHANGED <<ran, last_run>>,
         \A t \in Tasks : passed_over'[t] > 0 => passed_over[t] > 0 \/ Due(t)
  PROVE  Stamps'
<1> SUFFICES ASSUME NEW t \in Tasks
             PROVE  /\ ran'[t] <= timer_cnt'
                    /\ last_run'[t] \in {ran'[t], ran'[t] + 1, ran'[t] - Half + 1, ran'[t] + Half}
                    /\ passed_over'[t] > 0 => Due(t)'
  BY DEF Stamps
<1>1. timer_cnt \in Nat /\ ran[t] \in Nat /\ Rates[t] \in Nat
  BY Typed, Places
<1>2. Due(t) => Due(t)'
  BY <1>1 DEF Due
<1> QED
  BY <1>1, <1>2 DEF Stamps

LEMMA LaterWait ==
  ASSUME NEW c \in Nat, NEW d \in Nat, NEW a \in Nat, NEW b \in Int, NEW e \in Int,
         NEW m \in Nat, d <= c + m, c - a <= b, b + m <= e
  PROVE  d - a <= e
OBVIOUS

LEMMA WaitStays ==
  ASSUME TypeOK, timer_cnt' \in Nat, timer_cnt' <= timer_cnt + 1, UNCHANGED ran,
         NEW w \in Nat, NEW v \in Nat, v >= w + 1, Waited(w)
  PROVE  Waited(v)'
<1> SUFFICES ASSUME NEW t \in Tasks
             PROVE  timer_cnt' - ran'[t] <= Rates[t] + 2 + Part(Len(Rates)) - Part(t - 1) + v
  BY DEF Waited, Age
<1>1. timer_cnt \in Nat /\ ran[t] \in Nat
  BY Typed
<1>2. Rates[t] \in Nat /\ Part(Len(Rates)) \in Nat /\ Part(t - 1) \in Nat
  BY Places
<1> DEFINE b == Rates[t] + 2 + Part(Len(Rates)) - Part(t - 1)
<1>3. timer_cnt - ran[t] <= b + w
  BY DEF Waited, Age
<1>4. b \in Int
  BY <1>2
<1> HIDE DEF b
<1>5. v >= w + 1 /\ w \in Nat /\ v \in Nat
  OBVIOUS
<1>6. b + w \in Int /\ b + v \in Int /\ b + w + 1 <= b + v
  BY ONLY <1>4, <1>5
<1>7. timer_cnt' - ran[t] <= b + v
  BY <1>1, <1>3, <1>6, LaterWait
<1> QED
  BY <1>7 DEF b

LEMMA PassedMore ==
  ASSUME TypeOK, NEW n \in Nat, NEW m \in Nat, n <= m, PassedOver(n)
  PROVE  PassedOver(m)
<1>1. \A t \in Tasks : passed_over[t] \in Nat
  BY DEF TypeOK
<1> QED
  BY <1>1 DEF PassedOver

(* A turn that is not skipped, since the last look was right and this one  *)
(* is too.                                                                 *)
LEMMA NotSkipped ==
  ASSUME TypeOK, TurnsShort, Fresh, NEW n, n \in {timer_cnt, timer_cnt + 1}
  PROVE  ~((n - main_loop_time) % (TimeMax + 1) >= Second)
<1> DEFINE d == n - main_loop_time
<1>1. timer_cnt \in Nat /\ main_loop_time \in Nat
  BY Typed, ClockAssumption DEF TypeOK
<1>2. d \in 0 .. 2
  BY <1>1 DEF Fresh
<1>3. TimeMax \in Nat /\ TimeMax >= 3
  <2>1. Half \in Nat /\ Half > 10
    <3>1. 1 \in Tasks
      BY TaskTable
    <3> QED
      BY <3>1, ShortIs
  <2>2. Half * Half >= 10 * Half /\ Half * Half \in Nat
    BY <2>1
  <2> QED
    BY <2>1, <2>2, ClockAssumption
<1> HIDE DEF d
<1>4. d % (TimeMax + 1) = d
  BY <1>2, <1>3
<1>5. Second \in Nat /\ Second >= 3
  BY SchedulerAssumption DEF TurnsShort
<1> QED
  BY <1>2, <1>4, <1>5 DEF d

LEMMA DtTurn ==
  ASSUME TurnInv, TurnsShort, Dt, TypeOK'
  PROVE  TurnInv'
<1>1. TypeOK /\ Stamps /\ AtDt /\ pc = "dt" /\ pc' = "mark"
  BY DEF TurnInv, Dt
<1>2. PICK r \in Reads(timer_cnt) :
        /\ timer_cnt' = r.cnt
        /\ skips' = (main_loop_time > 0 /\ (r.now - main_loop_time) % (TimeMax + 1) >= Second)
  BY DEF Dt
<1>3. UNCHANGED <<main_loop_time, i, last_run, ran, passed_over>>
  BY DEF Dt
<1>4. timer_cnt \in Nat /\ timer_cnt' \in Nat /\ timer_cnt <= timer_cnt' /\ timer_cnt' <= timer_cnt + 1
  BY <1>1, <1>2, Typed, ReadTakes
<1>5. Stamps'
  BY <1>1, <1>3, <1>4, StampsStay
<1>6. \A n \in Nat : PassedOver(n) => PassedOver(n)'
  BY <1>3 DEF PassedOver
<1>7. ASSUME Waited(0), PassedOver(0) PROVE AtMark'
  <2>1. Waited(5)' /\ Waited(1)'
    BY <1>1, <1>3, <1>4, <1>7, WaitStays
  <2>2. PassedOver(2)' /\ PassedOver(0)'
    BY <1>1, <1>6, <1>7, PassedMore
  <2> QED
    BY <1>1, <1>3, <2>1, <2>2 DEF AtMark, AtDt
<1>8. ASSUME Waited(2), PassedOver(1), Fresh \/ Low(timer_cnt) = 0 PROVE AtMark'
  <2>1. Waited(5)' /\ Waited(3)'
    BY <1>1, <1>3, <1>4, <1>8, WaitStays
  <2>2. PassedOver(2)' /\ PassedOver(1)'
    BY <1>1, <1>6, <1>8, PassedMore
  <2>3. ASSUME skips' PROVE Low(timer_cnt') <= 1
    <3>1. (r.now - main_loop_time) % (TimeMax + 1) >= Second
      BY <1>2, <2>3, Zenon
    <3>2. CASE Fresh
      <4>1. ~(r.now \in {timer_cnt, timer_cnt + 1})
        BY <1>1, <3>1, <3>2, NotSkipped
      <4> QED
        BY <1>2, <1>4, <4>1, ReadsNearOrTorn
    <3>3. CASE Low(timer_cnt) = 0
      BY <1>2, <1>4, <3>3, LowIsWhole
    <3> QED
      BY <1>8, <3>2, <3>3
  <2> QED
    BY <1>1, <1>3, <2>1, <2>2, <2>3 DEF AtMark, AtDt
<1>9. ASSUME Waited(4), PassedOver(2), Fresh, Low(timer_cnt) <= 2 PROVE AtMark'
  <2>1. Waited(5)'
    BY <1>1, <1>3, <1>4, <1>9, WaitStays
  <2>2. PassedOver(2)'
    BY <1>6, <1>9
  <2>3. ~skips'
    <3>1. r.now \in {timer_cnt, timer_cnt + 1}
      BY <1>4, <1>9, LowIsWhole
    <3>2. ~((r.now - main_loop_time) % (TimeMax + 1) >= Second)
      BY <1>1, <1>9, <3>1, NotSkipped
    <3> QED
      BY <1>2, <3>2, Zenon
  <2> QED
    BY <1>1, <1>3, <2>1, <2>2, <2>3 DEF AtMark, AtDt
<1>10. AtMark'
  BY <1>1, <1>7, <1>8, <1>9 DEF AtDt
<1> QED
  BY <1>1, <1>5, <1>10 DEF TurnInv

LEMMA MarkTurn ==
  ASSUME TurnInv, TurnsShort, Mark, TypeOK'
  PROVE  TurnInv'
<1>1. TypeOK /\ Stamps /\ AtMark /\ pc = "mark"
  BY DEF TurnInv, Mark
<1>2. PICK r \in Reads(timer_cnt) : timer_cnt' = r.cnt /\ main_loop_time' = r.now
  BY DEF Mark
<1>3. UNCHANGED <<skips, i, last_run, ran>>
  BY DEF Mark
<1>4. timer_cnt \in Nat /\ timer_cnt' \in Nat /\ timer_cnt <= timer_cnt' /\ timer_cnt' <= timer_cnt + 1
  BY <1>1, <1>2, Typed, ReadTakes
<1>5. \A t \in Tasks : passed_over[t] \in Nat
  BY <1>1 DEF TypeOK
<1>6. CASE skips
  <2>1. pc' = "dt" /\ PassOver(Tasks)
    BY <1>6 DEF Mark
  <2>2. \A t \in Tasks : /\ passed_over'[t] <= passed_over[t] + 1
                         /\ passed_over'[t] > 0 => passed_over[t] > 0 \/ Due(t)
    BY <1>5, <2>1 DEF PassOver
  <2>3. Stamps'
    BY <1>1, <1>3, <1>4, <2>2, StampsStay
  <2>4. ASSUME Waited(1), PassedOver(0) PROVE AtDt'
    <3>1. Waited(2)'
      BY <1>1, <1>3, <1>4, <2>4, WaitStays
    <3>2. PassedOver(1)'
      BY <1>5, <2>2, <2>4 DEF PassedOver
    <3>3. Fresh' \/ Low(timer_cnt') = 0
      BY <1>2, <1>4, ReadsNearOrTorn DEF Fresh
    <3> QED
      BY <1>1, <1>3, <3>1, <3>2, <3>3 DEF AtDt, AtMark
  <2>5. ASSUME Waited(3), PassedOver(1), Low(timer_cnt) <= 1 PROVE AtDt'
    <3>1. Waited(4)'
      BY <1>1, <1>3, <1>4, <2>5, WaitStays
    <3>2. PassedOver(2)'
      <4>1. ASSUME NEW t \in Tasks PROVE passed_over'[t] <= 2
        <5>1. passed_over[t] \in Nat /\ passed_over[t] <= 1 /\ passed_over'[t] \in Nat
          BY <1>5, <2>5 DEF PassedOver, TypeOK
        <5>2. passed_over'[t] <= passed_over[t] + 1
          BY <2>2
        <5> QED
          BY <5>1, <5>2
      <4> QED
        BY <4>1 DEF PassedOver
    <3>3. Low(timer_cnt) \in Nat
      BY <1>4, Halves, ClockAssumption
    <3>4. Fresh' /\ Low(timer_cnt') <= 2
      BY <1>2, <1>4, <2>5, <3>3, LowIsWhole, ReadTakes DEF Fresh
    <3> QED
      BY <1>1, <1>3, <3>1, <3>2, <3>4 DEF AtDt, AtMark
  <2>6. AtDt'
    BY <1>1, <1>6, <2>4, <2>5 DEF AtMark
  <2> QED
    BY <2>1, <2>3, <2>6 DEF TurnInv
<1>7. CASE ~skips
  <2>1. pc' = "check" /\ passed_over' = passed_over
    BY <1>7 DEF Mark
  <2>2. Stamps'
    BY <1>1, <1>3, <1>4, <2>1, StampsStay
  <2>3. i = 1 /\ i' = 1 /\ Waited(5) /\ PassedOver(2)
    BY <1>1, <1>3, <1>7 DEF AtMark
  <2>4. ASSUME NEW t \in Tasks PROVE ~(t < i') /\ Waits(t)'
    <3>1. t \in Nat /\ t >= 1 /\ Rates[t] \in Nat /\ Part(t - 1) \in Nat /\ Part(Len(Rates)) \in Nat
      BY Places
    <3>2. Position' = Part(0) /\ Part(0) = 0
      BY <2>1, <2>3, Parts DEF Position
    <3>3. timer_cnt - ran[t] <= Rates[t] + 2 + Part(Len(Rates)) - Part(t - 1) + 5
      BY <2>3 DEF Waited, Age
    <3>4. ran[t] \in Nat
      BY <1>1, Typed
    <3>5. timer_cnt' - ran'[t] <= Rates[t] + 8 + Part(Len(Rates)) - Part(t - 1) + Position'
      <4> DEFINE b == Rates[t] + 2 + Part(Len(Rates)) - Part(t - 1) + 5
                 e == Rates[t] + 8 + Part(Len(Rates)) - Part(t - 1) + Position'
      <4>1. b \in Int /\ e \in Int /\ b + 1 <= e
        BY <3>1, <3>2
      <4>2. timer_cnt - ran[t] <= b /\ ran'[t] = ran[t]
        BY <1>3, <3>3
      <4> HIDE DEF b, e
      <4>3. timer_cnt' - ran[t] <= e
        BY <1>4, <3>4, <4>1, <4>2, LaterWait
      <4> QED
        BY <4>2, <4>3 DEF e
    <3> QED
      BY <2>1, <2>3, <3>1, <3>5 DEF Waits, Age, PassedOver
  <2>5. InLoop'
    BY <2>1, <2>4 DEF InLoop
  <2> QED
    BY <2>1, <2>2, <2>5 DEF TurnInv
<1> QED
  BY <1>6, <1>7

LEMMA AgeLater ==
  ASSUME TypeOK, NEW m \in Nat, timer_cnt' \in Nat, timer_cnt' <= timer_cnt + m, UNCHANGED ran,
         NEW t \in Tasks, NEW b \in Int, NEW e \in Int, Age(t) <= b, b + m <= e
  PROVE  Age(t)' <= e
<1>1. timer_cnt \in Nat /\ ran[t] \in Nat
  BY Typed
<1>2. timer_cnt - ran[t] <= b
  BY DEF Age
<1>3. timer_cnt' - ran[t] <= e
  BY <1>1, <1>2, LaterWait
<1> QED
  BY <1>3 DEF Age

(* A task behind the first n of this turn, or before them, as the turn has *)
(* come to its nth task's end.                                             *)
Behind(t, n) ==
  passed_over[t] = 0 /\ Age(t) <= Rates[t] + 2 + Part(n) - Part(t - 1)

Ahead(t, n) ==
  passed_over[t] <= 2 /\ Age(t) <= Rates[t] + 8 + Part(Len(Rates)) - Part(t - 1) + Part(n)

LEMMA AdvanceTurn ==
  ASSUME TypeOK, Advance, NEW n, n = i,
         \A t \in Tasks : IF t <= n THEN Behind(t, n)' ELSE Ahead(t, n)'
  PROVE  /\ pc' \in {"dt", "check"}
         /\ pc' = "dt" => AtDt'
         /\ pc' = "check" => InLoop'
<1>1. n \in Tasks /\ n \in Nat /\ Tasks = 1 .. Len(Rates) /\ Len(Rates) \in Nat
  BY TaskTable DEF TypeOK
<1>2. CASE n = Len(Rates)
  <2>1. pc' = "dt" /\ i' = 1
    BY <1>2 DEF Advance
  <2>2. \A t \in Tasks : Behind(t, n)'
    BY <1>1, <1>2
  <2>3. PassedOver(0)'
    BY <2>2 DEF PassedOver, Behind
  <2>4. Waited(0)'
    <3> SUFFICES ASSUME NEW t \in Tasks
                 PROVE  Age(t)' <= Rates[t] + 2 + Part(Len(Rates)) - Part(t - 1) + 0
      BY DEF Waited
    <3> DEFINE b == Rates[t] + 2 + Part(Len(Rates)) - Part(t - 1)
    <3>1. b \in Int /\ b + 0 = b
      BY Places
    <3>2. Age(t)' <= b
      BY <1>2, <2>2 DEF Behind
    <3> HIDE DEF b
    <3>3. Age(t)' <= b + 0
      BY <3>1, <3>2
    <3> QED
      BY <3>3 DEF b
  <2> QED
    BY <2>1, <2>3, <2>4 DEF AtDt
<1>3. CASE n # Len(Rates)
  <2>1. pc' = "check" /\ i' = n + 1
    BY <1>3 DEF Advance
  <2>2. Position' = Part(n)
    <3>1. i' - 1 = n
      BY <1>1, <2>1
    <3> QED
      BY <2>1, <3>1 DEF Position
  <2>3. ASSUME NEW t \in Tasks
        PROVE  IF t < i' \/ (t = i' /\ pc' = "call") THEN LookedAt(t)' ELSE Waits(t)'
    <3>1. t \in Nat
      BY Places
    <3>2. CASE t <= n
      BY <1>1, <2>1, <2>2, <3>1, <3>2 DEF Behind, LookedAt
    <3>3. CASE ~(t <= n)
      BY <1>1, <2>1, <2>2, <3>1, <3>3 DEF Ahead, Waits
    <3> QED
      BY <3>2, <3>3
  <2>4. InLoop'
    BY <2>3 DEF InLoop
  <2> QED
    BY <2>1, <2>4
<1> QED
  BY <1>2, <1>3

LEMMA CheckTurn ==
  ASSUME TurnInv, TurnsShort, Check, TypeOK'
  PROVE  TurnInv'
<1>1. TypeOK /\ Stamps /\ InLoop /\ pc = "check" /\ i \in Tasks
  BY DEF TurnInv, Check, TypeOK
<1>2. PICK r \in Reads(timer_cnt) :
        /\ timer_cnt' = r.cnt
        /\ IF Elapsed(r.now, last_run[i], Rates[i])
           THEN pc' = "stamp" /\ UNCHANGED <<i, passed_over>>
           ELSE Advance /\ PassOver({i})
  BY DEF Check
<1>3. UNCHANGED <<last_run, ran>>
  BY DEF Check
<1>4. timer_cnt \in Nat /\ timer_cnt' \in Nat /\ timer_cnt <= timer_cnt' /\ timer_cnt' <= timer_cnt + 1
  BY <1>1, <1>2, Typed, ReadTakes
<1> DEFINE p == Part(i - 1)
           q == Part(i)
           N == Part(Len(Rates))
<1>5. /\ Position = p /\ p \in Nat /\ q \in Nat /\ q = p + Long + 3 /\ N \in Nat /\ Long \in Nat
      /\ i \in Nat
  BY <1>1, Places, SchedulerAssumption DEF Position
<1>6. \A t \in Tasks : IF t < i THEN LookedAt(t) ELSE Waits(t)
  BY <1>1 DEF InLoop
<1>0. PICK n \in Tasks : n = i
  BY <1>1
(* How far the tasks' ages are from their bounds. *)
<1>7. ASSUME NEW t \in Tasks, t < i
      PROVE  passed_over[t] = 0 /\ Age(t)' <= Rates[t] + 2 + p - Part(t - 1) + 1
  <2> DEFINE b == Rates[t] + 2 + p - Part(t - 1)
  <2>1. passed_over[t] = 0 /\ Age(t) <= b
    BY <1>5, <1>6, <1>7 DEF LookedAt
  <2>2. b \in Int /\ b + 1 \in Int
    <3> DEFINE k == Rates[t]
               s == Part(t - 1)
    <3>1. k \in Nat /\ s \in Nat
      BY Places
    <3> HIDE DEF k, s, p, N
    <3>2. k + 2 + p - s \in Int /\ k + 2 + p - s + 1 \in Int
      BY ONLY <1>5, <3>1
    <3> QED
      BY <3>2 DEF k, s, p, N
  <2> HIDE DEF b
  <2>3. Age(t)' <= b + 1
    BY <1>1, <1>3, <1>4, <2>1, <2>2, AgeLater
  <2> QED
    BY <2>1, <2>3 DEF b
<1>8. ASSUME NEW t \in Tasks, ~(t < i)
      PROVE  /\ passed_over[t] <= 2 /\ Age(t) <= Rates[t] + 8 + N - Part(t - 1) + p
             /\ Age(t)' <= Rates[t] + 8 + N - Part(t - 1) + p + 1
  <2> DEFINE b == Rates[t] + 8 + N - Part(t - 1) + p
  <2>1. passed_over[t] <= 2 /\ Age(t) <= b
    BY <1>5, <1>6, <1>8 DEF Waits
  <2>2. b \in Int /\ b + 1 \in Int
    <3> DEFINE k == Rates[t]
               s == Part(t - 1)
    <3>1. k \in Nat /\ s \in Nat
      BY Places
    <3> HIDE DEF k, s, p, N
    <3>2. k + 8 + N - s + p \in Int /\ k + 8 + N - s + p + 1 \in Int
      BY ONLY <1>5, <3>1
    <3> QED
      BY <3>2 DEF k, s, p, N
  <2> HIDE DEF b
  <2>3. Age(t)' <= b + 1
    BY <1>1, <1>3, <1>4, <2>1, <2>2, AgeLater
  <2> QED
    BY <2>1, <2>3 DEF b
<1> HIDE DEF p, q, N
<1>9. CASE Elapsed(r.now, last_run[i], Rates[i])
  <2>1. pc' = "stamp" /\ i' = i /\ passed_over' = passed_over
    BY <1>2, <1>9
  <2>2. Stamps'
    BY <1>1, <1>3, <1>4, <2>1, StampsStay
  <2>3. Position' = p + 1
    BY <2>1 DEF Position, p
  <2>4. ASSUME NEW t \in Tasks
        PROVE  IF t < i' \/ (t = i' /\ pc' = "call") THEN LookedAt(t)' ELSE Waits(t)'
    <3> DEFINE k == Rates[t]
               s == Part(t - 1)
    <3>1. k \in Nat /\ s \in Nat
      BY Places
    <3>2. CASE t < i
      <4>1. passed_over[t] = 0 /\ Age(t)' <= k + 2 + p - s + 1
        BY <1>7, <3>2
      <4> HIDE DEF k, s
      <4>2. k + 2 + p - s + 1 = k + 2 + (p + 1) - s
        BY <1>5, <3>1
      <4>3. passed_over'[t] = 0 /\ Age(t)' <= k + 2 + Position' - s
        BY <2>1, <2>3, <4>1, <4>2
      <4> QED
        BY <2>1, <3>2, <4>3 DEF LookedAt, k, s
    <3>3. CASE ~(t < i)
      <4>1. passed_over[t] <= 2 /\ Age(t)' <= k + 8 + N - s + p + 1
        BY <1>8, <3>3
      <4> HIDE DEF k, s
      <4>2. k + 8 + N - s + p + 1 = k + 8 + N - s + (p + 1)
        BY <1>5, <3>1
      <4>3. passed_over'[t] <= 2 /\ Age(t)' <= k + 8 + N - s + Position'
        BY <2>1, <2>3, <4>1, <4>2
      <4> QED
        BY <2>1, <3>3, <4>3 DEF Waits, k, s, N
    <3> QED
      BY <3>2, <3>3
  <2>5. InLoop'
    BY <2>4 DEF InLoop
  <2> QED
    BY <2>1, <2>2, <2>5 DEF TurnInv
<1>10. CASE ~Elapsed(r.now, last_run[i], Rates[i])
  <2>1. Advance /\ PassOver({i})
    BY <1>2, <1>10
  <2>2. ~Due(i)
    <3> SUFFICES ASSUME Due(i) PROVE FALSE
      OBVIOUS
    <3>1. Age(i) <= Rates[i] + 8 + N - p + p
      BY <1>1, <1>5, <1>8 DEF p
    <3>2. Rates[i] \in Nat
      BY <1>1, Places
    <3>3. Rates[i] + 8 + N - p + p = Rates[i] + 8 + N
      BY <1>5, <3>2
    <3>4. Age(i) <= Rates[i] + 8 + N
      BY <3>1, <3>3
    <3> QED
      BY <1>1, <1>10, <3>4, DueIsElapsed DEF N
  <2>3. \A t \in Tasks : passed_over'[t] = passed_over[t]
    BY <2>1, <2>2 DEF PassOver
  <2>4. passed_over[i] = 0
    <3>1. passed_over[i] \in Nat
      BY <1>1 DEF TypeOK
    <3> QED
      BY <1>1, <2>2, <3>1 DEF Stamps
  <2>5. Stamps'
    BY <1>1, <1>3, <1>4, <2>3, StampsStay
  <2>6. Age(n)' <= Rates[n] + 2
    <3> DEFINE b == Rates[n] + 1
    <3>1. Rates[n] \in Nat /\ timer_cnt \in Nat /\ ran[n] \in Nat
      BY <1>1, Places, Typed
    <3>2. Age(n) <= b
      BY <1>0, <2>2, <3>1 DEF Due, Age
    <3>3. b \in Int /\ b + 1 = Rates[n] + 2 /\ b + 1 \in Int
      BY <3>1
    <3> HIDE DEF b
    <3>4. Age(n)' <= b + 1
      BY <1>1, <1>3, <1>4, <3>2, <3>3, AgeLater
    <3> QED
      BY <3>3, <3>4
  <2>7. ASSUME NEW t \in Tasks PROVE IF t <= n THEN Behind(t, n)' ELSE Ahead(t, n)'
    <3> DEFINE k == Rates[t]
               s == Part(t - 1)
               a == timer_cnt' - ran'[t]
    <3>1. k \in Nat /\ s \in Nat /\ t \in Nat
      BY Places
    <3>2. a \in Int
      <4>1. ran[t] \in Nat
        BY <1>1, Typed
      <4> QED
        BY <1>3, <1>4, <4>1
    <3>3. a = Age(t)' /\ q = Part(n) /\ n \in Nat
      BY <1>0, <1>5 DEF Age, q
    <3>4. CASE t < i
      <4>1. passed_over[t] = 0 /\ a <= k + 2 + p - s + 1
        BY <1>7, <3>3, <3>4
      <4> HIDE DEF k, s, a
      <4>2. a <= k + 2 + q - s
        BY ONLY <1>5, <3>1, <3>2, <4>1
      <4>3. t <= n /\ passed_over'[t] = 0
        BY <1>0, <2>3, <3>1, <3>3, <3>4, <4>1
      <4>4. Age(t)' <= k + 2 + Part(n) - s
        BY <3>3, <4>2
      <4> QED
        BY <4>3, <4>4 DEF Behind, k, s
    <3>5. CASE t = i
      <4>1. a <= k + 2
        BY <1>0, <2>6, <3>3, <3>5
      <4>2. s = p
        BY <3>5 DEF p
      <4> HIDE DEF k, s, a
      <4>3. a <= k + 2 + q - s
        BY ONLY <1>5, <3>1, <3>2, <4>1, <4>2
      <4>4. t <= n /\ passed_over'[t] = 0
        BY <1>0, <2>3, <2>4, <3>3, <3>5
      <4>5. Age(t)' <= k + 2 + Part(n) - s
        BY <3>3, <4>3
      <4> QED
        BY <4>4, <4>5 DEF Behind, k, s
    <3>6. CASE t > i
      <4>1. ~(t < i)
        BY <1>5, <3>1, <3>6
      <4>2. passed_over[t] <= 2 /\ a <= k + 8 + N - s + p + 1
        BY <1>8, <3>3, <4>1
      <4> HIDE DEF k, s, a
      <4>3. a <= k + 8 + N - s + q
        BY ONLY <1>5, <3>1, <3>2, <4>2
      <4>4. ~(t <= n) /\ passed_over'[t] <= 2
        BY <1>0, <2>3, <3>1, <3>3, <3>6, <4>2
      <4>5. Age(t)' <= k + 8 + N - s + Part(n)
        BY <3>3, <4>3
      <4> QED
        BY <4>4, <4>5 DEF Ahead, k, s, N
    <3> QED
      BY <1>5, <3>1, <3>4, <3>5, <3>6
  <2>9. pc' \in {"dt", "check"} /\ (pc' = "dt" => AtDt') /\ (pc' = "check" => InLoop')
    BY <1>0, <1>1, <2>1, <2>7, AdvanceTurn
  <2> QED
    BY <2>5, <2>9 DEF TurnInv
<1> QED
  BY <1>9, <1>10

LEMMA StampTurn ==
  ASSUME TurnInv, TurnsShort, Stamp, TypeOK'
  PROVE  TurnInv'
<1>1. TypeOK /\ Stamps /\ InLoop /\ pc = "stamp" /\ i \in Tasks
  BY DEF TurnInv, Stamp, TypeOK
<1>2. PICK n \in Tasks : n = i
  BY <1>1
<1>3. PICK r \in Reads(timer_cnt) :
        timer_cnt' = r.cnt /\ last_run' = [last_run EXCEPT ![i] = r.now]
  BY DEF Stamp
<1>4. timer_cnt \in Nat /\ timer_cnt' \in Nat /\ timer_cnt <= timer_cnt' /\ timer_cnt' <= timer_cnt + 1
  BY <1>1, <1>3, Typed, ReadTakes
<1>5. pc' = "call" /\ i' = i
  BY DEF Stamp
<1>6. /\ last_run'[n] = r.now /\ ran'[n] = timer_cnt /\ passed_over'[n] = 0
      /\ \A t \in Tasks \ {n} : /\ last_run'[t] = last_run[t] /\ ran'[t] = ran[t]
                                /\ passed_over'[t] = passed_over[t]
  BY <1>1, <1>2, <1>3 DEF Stamp, TypeOK
<1> DEFINE p == Part(i - 1)
           N == Part(Len(Rates))
<1>7. /\ Position = p + 1 /\ Position' = p + 2 /\ p \in Nat /\ N \in Nat /\ i \in Nat
      /\ p = Part(n - 1)
  BY <1>1, <1>2, <1>5, Places DEF Position
<1>8. Stamps'
  <2> SUFFICES ASSUME NEW t \in Tasks
               PROVE  /\ ran'[t] <= timer_cnt'
                      /\ last_run'[t] \in {ran'[t], ran'[t] + 1, ran'[t] - Half + 1, ran'[t] + Half}
                      /\ passed_over'[t] > 0 => Due(t)'
    BY DEF Stamps
  <2>1. CASE t = n
    <3>1. r.now \in {timer_cnt, timer_cnt + 1, timer_cnt - Half + 1, timer_cnt + Half}
      BY <1>4, ReadsNearOrTorn
    <3> QED
      BY <1>4, <1>6, <2>1, <3>1
  <2>2. CASE t # n
    <3>1. ran'[t] = ran[t] /\ last_run'[t] = last_run[t] /\ passed_over'[t] = passed_over[t]
      BY <1>6, <2>2
    <3>2. ran[t] \in Nat /\ Rates[t] \in Nat
      BY <1>1, Typed, Places
    <3>3. Due(t) => Due(t)'
      BY <1>4, <3>1, <3>2 DEF Due
    <3> QED
      BY <1>1, <1>4, <3>1, <3>2, <3>3 DEF Stamps
  <2> QED
    BY <2>1, <2>2
<1> HIDE DEF p, N
<1>9. ASSUME NEW t \in Tasks
      PROVE  IF t < i' \/ (t = i' /\ pc' = "call") THEN LookedAt(t)' ELSE Waits(t)'
  <2> DEFINE k == Rates[t]
             s == Part(t - 1)
  <2>1. k \in Nat /\ s \in Nat /\ t \in Nat /\ ran[t] \in Nat
    BY <1>1, Places, Typed
  <2>2. CASE t < i
    <3> DEFINE b == k + 2 + (p + 1) - s
               e == k + 2 + (p + 2) - s
    <3>1. t # n /\ ran'[t] = ran[t] /\ passed_over'[t] = passed_over[t]
      BY <1>2, <1>6, <1>7, <2>1, <2>2
    <3>2. passed_over[t] = 0 /\ timer_cnt - ran[t] <= b
      BY <1>1, <1>7, <2>2 DEF InLoop, LookedAt, Age
    <3> HIDE DEF k, s
    <3>3. b \in Int /\ e \in Int /\ b + 1 <= e
      BY ONLY <1>7, <2>1
    <3> HIDE DEF b, e
    <3>4. timer_cnt' - ran'[t] <= e
      BY <1>4, <2>1, <3>1, <3>2, <3>3, LaterWait
    <3>5. passed_over'[t] = 0
      BY <3>1, <3>2
    <3> QED
      BY <1>5, <1>7, <2>2, <3>4, <3>5 DEF LookedAt, Age, e, k, s
  <2>3. CASE t = n
    <3> DEFINE a == timer_cnt' - ran'[t]
    <3>1. a \in Int /\ a <= 1
      BY <1>4, <1>6, <2>3
    <3>2. s = p
      BY <1>7, <2>3
    <3> HIDE DEF a, k, s
    <3>3. a <= k + 2 + (p + 2) - s
      BY ONLY <1>7, <2>1, <3>1, <3>2
    <3>4. passed_over'[t] = 0
      BY <1>6, <2>3
    <3> QED
      BY <1>2, <1>5, <1>7, <2>3, <3>3, <3>4 DEF LookedAt, Age, a, k, s
  <2>4. CASE ~(t < i) /\ t # n
    <3> DEFINE b == k + 8 + N - s + (p + 1)
               e == k + 8 + N - s + (p + 2)
    <3>1. ran'[t] = ran[t] /\ passed_over'[t] = passed_over[t]
      BY <1>6, <2>4
    <3>2. passed_over[t] <= 2 /\ timer_cnt - ran[t] <= b
      BY <1>1, <1>2, <1>7, <2>4 DEF InLoop, Waits, Age, N
    <3> HIDE DEF k, s
    <3>3. b \in Int /\ e \in Int /\ b + 1 <= e
      BY ONLY <1>7, <2>1
    <3> HIDE DEF b, e
    <3>4. timer_cnt' - ran'[t] <= e
      BY <1>4, <2>1, <3>1, <3>2, <3>3, LaterWait
    <3>5. passed_over'[t] <= 2
      BY <3>1, <3>2
    <3> QED
      BY <1>2, <1>5, <1>7, <2>4, <3>4, <3>5 DEF Waits, Age, e, k, s, N
  <2> QED
    BY <2>2, <2>3, <2>4
<1>10. InLoop'
  BY <1>9 DEF InLoop
<1> QED
  BY <1>5, <1>8, <1>10 DEF TurnInv

LEMMA CallTurn ==
  ASSUME TurnInv, Call, TypeOK'
  PROVE  TurnInv'
<1>1. TypeOK /\ Stamps /\ InLoop /\ pc = "call" /\ i \in Tasks
  BY DEF TurnInv, Call, TypeOK
<1>2. PICK n \in Tasks : n = i
  BY <1>1
<1>3. Advance /\ UNCHANGED <<last_run, ran, passed_over>>
  BY DEF Call, Return
<1>4. /\ timer_cnt \in Nat /\ timer_cnt' \in Nat /\ Long \in Nat
      /\ timer_cnt <= timer_cnt' /\ timer_cnt' <= timer_cnt + Long
  BY <1>1, Typed, SchedulerAssumption DEF Call, Ends, Return
<1>5. Stamps'
  BY <1>1, <1>3, <1>4, StampsStay
<1> DEFINE p == Part(i - 1)
           q == Part(n)
           N == Part(Len(Rates))
<1>6. /\ Position = p + 2 /\ p \in Nat /\ q \in Nat /\ q = p + Long + 3 /\ N \in Nat
      /\ i \in Nat /\ Long \in Nat
  BY <1>1, <1>2, <1>4, Places DEF Position
<1> HIDE DEF p, q, N
<1>7. ASSUME NEW t \in Tasks PROVE IF t <= n THEN Behind(t, n)' ELSE Ahead(t, n)'
  <2> DEFINE k == Rates[t]
             s == Part(t - 1)
  <2>1. k \in Nat /\ s \in Nat /\ t \in Nat
    BY Places
  <2>2. passed_over'[t] = passed_over[t]
    BY <1>3
  <2>3. CASE t <= n
    <3> DEFINE b == k + 2 + (p + 2) - s
               e == k + 2 + q - s
    <3>1. t < i \/ t = i
      BY <1>2, <1>6, <2>1, <2>3
    <3>2. passed_over[t] = 0 /\ Age(t) <= b
      BY <1>1, <1>6, <3>1 DEF InLoop, LookedAt
    <3> HIDE DEF k, s
    <3>3. b \in Int /\ e \in Int /\ b + Long <= e
      BY ONLY <1>6, <2>1
    <3> HIDE DEF b, e
    <3>4. Age(t)' <= e
      BY <1>1, <1>3, <1>4, <3>2, <3>3, AgeLater
    <3> QED
      BY <2>2, <2>3, <3>2, <3>4 DEF Behind, e, k, s, q
  <2>4. CASE ~(t <= n)
    <3> DEFINE b == k + 8 + N - s + (p + 2)
               e == k + 8 + N - s + q
    <3>1. ~(t < i) /\ t # i
      BY <1>2, <1>6, <2>1, <2>4
    <3>2. passed_over[t] <= 2 /\ Age(t) <= b
      BY <1>1, <1>6, <3>1 DEF InLoop, Waits, N
    <3> HIDE DEF k, s
    <3>3. b \in Int /\ e \in Int /\ b + Long <= e
      BY ONLY <1>6, <2>1
    <3> HIDE DEF b, e
    <3>4. Age(t)' <= e
      BY <1>1, <1>3, <1>4, <3>2, <3>3, AgeLater
    <3> QED
      BY <2>2, <2>4, <3>2, <3>4 DEF Ahead, e, k, s, q, N
  <2> QED
    BY <2>3, <2>4
<1>8. pc' \in {"dt", "check"} /\ (pc' = "dt" => AtDt') /\ (pc' = "check" => InLoop')
  BY <1>1, <1>2, <1>3, <1>7, AdvanceTurn
<1> QED
  BY <1>5, <1>8 DEF TurnInv

LEMMA InitTurn == Init => TurnInv
<1> SUFFICES ASSUME Init PROVE TurnInv
  OBVIOUS
<1>1. TypeOK /\ pc = "dt" /\ i = 1
  BY InitTypes DEF Init
<1>2. \A t \in Tasks : last_run[t] = 0 /\ ran[t] = 0 /\ passed_over[t] = 0
  BY DEF Init
<1>3. timer_cnt \in 1 .. 3
  BY DEF Init
<1>4. Stamps
  BY <1>2, <1>3 DEF Stamps
<1>5. PassedOver(0)
  BY <1>2 DEF PassedOver
<1>6. Waited(0)
  <2> SUFFICES ASSUME NEW t \in Tasks
               PROVE  timer_cnt - ran[t] <= Rates[t] + 2 + Part(Len(Rates)) - Part(t - 1) + 0
    BY DEF Waited, Age
  <2> DEFINE k == Rates[t]
             N == Part(Len(Rates))
             s == Part(t - 1)
             z == Part(t)
  <2>1. /\ k \in Nat /\ s \in Nat /\ N \in Nat /\ z \in Nat /\ Long \in Nat
        /\ z = s + Long + 3 /\ z <= N
    BY Places, Parts
  <2>2. timer_cnt - ran[t] \in Int /\ timer_cnt - ran[t] <= 3
    BY <1>2, <1>3
  <2> HIDE DEF k, N, s, z
  <2>3. 3 <= k + 2 + N - s + 0 /\ k + 2 + N - s + 0 \in Int
    BY ONLY <2>1
  <2>4. timer_cnt - ran[t] <= k + 2 + N - s + 0
    BY ONLY <2>2, <2>3
  <2> QED
    BY <2>4 DEF k, N, s
<1> QED
  BY <1>1, <1>4, <1>5, <1>6 DEF TurnInv, AtDt

LEMMA StutterTurn == TurnInv /\ UNCHANGED vars => TurnInv'
<1> SUFFICES ASSUME TurnInv, UNCHANGED vars PROVE TurnInv'
  OBVIOUS
<1>1. /\ timer_cnt' = timer_cnt /\ main_loop_time' = main_loop_time /\ skips' = skips
      /\ pc' = pc /\ i' = i /\ last_run' = last_run /\ ran' = ran /\ passed_over' = passed_over
      /\ early' = early
  BY DEF vars
<1>2. TypeOK' /\ Stamps'
  BY <1>1, NextTypes DEF TurnInv, Stamps, Due
<1>3. Fresh' = Fresh /\ (\A w : Waited(w)' = Waited(w)) /\ (\A w : PassedOver(w)' = PassedOver(w))
  BY <1>1 DEF Fresh, Waited, PassedOver, Age
<1>4. AtDt => AtDt'
  BY <1>1, <1>3 DEF AtDt
<1>5. AtMark => AtMark'
  BY <1>1, <1>3, Zenon DEF AtMark
<1>6. InLoop => InLoop'
  BY <1>1 DEF InLoop, LookedAt, Waits, Age, Position
<1> QED
  BY <1>1, <1>2, <1>4, <1>5, <1>6 DEF TurnInv

LEMMA NextTurn == TurnsShort => (TurnInv /\ [Next]_vars => TurnInv')
<1> SUFFICES ASSUME TurnsShort, TurnInv, [Next]_vars PROVE TurnInv'
  OBVIOUS
<1>1. TypeOK'
  BY NextTypes DEF TurnInv
<1> QED
  BY <1>1, DtTurn, MarkTurn, CheckTurn, StampTurn, CallTurn, StutterTurn DEF Next, Turn

LEMMA TurnFeeds == TurnInv => NoTaskStarves
<1> SUFFICES ASSUME TurnInv, NEW t \in Tasks PROVE passed_over[t] <= 2
  BY DEF NoTaskStarves
<1>1. passed_over[t] \in Nat /\ pc \in {"dt", "mark", "check", "stamp", "call"}
  BY DEF TurnInv, TypeOK
<1>2. CASE pc = "dt"
  BY <1>1, <1>2 DEF TurnInv, AtDt, PassedOver
<1>3. CASE pc = "mark"
  BY <1>1, <1>3 DEF TurnInv, AtMark, PassedOver
<1>4. CASE pc \in {"check", "stamp", "call"}
  <2>1. LookedAt(t) \/ Waits(t)
    BY <1>4 DEF TurnInv, InLoop
  <2> QED
    BY <1>1, <2>1 DEF LookedAt, Waits
<1> QED
  BY <1>1, <1>2, <1>3, <1>4

(* No task starves, for every task table and torn reads included: while    *)
(* turns and periods are short against half the clock, timer_check and the *)
(* main loop's skipped turns leave a due task waiting for two turns at     *)
(* most, and no time stamp that lies ahead makes it wait longer.           *)
THEOREM NoneStarves ==
  ASSUME TurnsShort
  PROVE  Spec => []NoTaskStarves
<1>1. Init => TurnInv
  BY InitTurn
<1>2. TurnInv /\ [Next]_vars => TurnInv'
  BY NextTurn
<1>3. TurnInv => NoTaskStarves
  BY TurnFeeds
<1> QED
  BY <1>1, <1>2, <1>3, PTL DEF Spec
=============================================================================
