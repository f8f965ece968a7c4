-------------------------- MODULE SchedulerProofs --------------------------
(* Theorems about Scheduler, for every value of its constants. *)
EXTENDS Scheduler, TLAPS

-----------------------------------------------------------------------------
(* Arithmetic of the grid.                                                 *)

LEMMA ModRange ==
    ASSUME NEW n \in Int, NEW p \in Nat \ {0}
    PROVE  /\ n % p \in 0 .. p - 1 /\ n \div p \in Int
           /\ n = p * (n \div p) + (n % p)
BY SMT

LEMMA ModMultiple ==
    ASSUME NEW p \in Nat \ {0}, NEW q \in Int
    PROVE  (p * q) % p = 0
BY SMT

LEMMA ModAtMost ==
    ASSUME NEW n \in Nat, NEW p \in Nat \ {0}
    PROVE  n % p <= n
BY SMT

(* Whole periods do not move a point off the grid. *)
LEMMA GridShift ==
    ASSUME NEW n \in Int, NEW q \in Int, NEW p \in Nat \ {0}, n % p = 0
    PROVE  (n + p * q) % p = 0
<1> DEFINE k == n \div p
<1>1. k \in Int /\ n = p * k
  BY ModRange
<1>2. n + p * q = p * (k + q) /\ k + q \in Int
  BY <1>1
<1> QED
  BY <1>2, ModMultiple

(* The next deadline lies in the future, at most a period away, and no       *)
(* nearer to the late one than a period.                                     *)
LEMMA NextDueFacts ==
    ASSUME due \in Int, due <= 0
    PROVE  /\ NextDue \in 1 .. Period
           /\ NextDue >= Period + due
           /\ \E q \in Int : NextDue = due + Period * q
<1>1. -due \in Nat /\ Period \in Nat \ {0}
  BY SchedulerAssumption
<1>2. PICK r \in Int : r = (-due) % Period
  BY <1>1, ModRange
<1>3. PICK k \in Int : k = (-due) \div Period
  BY <1>1, ModRange
<1>4. r \in 0 .. Period - 1 /\ -due = Period * k + r
  BY <1>1, <1>2, <1>3, ModRange, SMTT(30)
<1>5. r <= -due
  BY <1>1, <1>2, ModAtMost
<1>6. NextDue = Period - r
  BY <1>2 DEF NextDue
<1>7. NextDue = due + Period * (1 + k)
  BY <1>1, <1>4, <1>6
<1>8. 1 + k \in Int
  OBVIOUS
<1>9. NextDue \in 1 .. Period /\ NextDue >= Period + due
  BY <1>1, <1>4, <1>5, <1>6
<1> QED
  BY <1>7, <1>8, <1>9

-----------------------------------------------------------------------------
(* Type correctness: the type invariant is inductive by itself.            *)

LEMMA NextTypeOK == TypeOK /\ [Next]_vars => TypeOK'
<1> SUFFICES ASSUME TypeOK, [Next]_vars PROVE TypeOK'
  OBVIOUS
<1> USE SchedulerAssumption
<1>1. ASSUME BeginRun PROVE TypeOK'
  BY <1>1 DEF BeginRun, StartCycle, ChangedAfterStart, TypeOK
<1>2. ASSUME TickFires PROVE TypeOK'
  <2>1. due' \in Int /\ due' <= Period
    BY <1>2, NextDueFacts DEF TickFires, TypeOK
  <2> QED
    BY <1>2, <2>1 DEF TickFires, StartCycle, ChangedAfterStart, TypeOK
<1>3. ASSUME NEW ok \in BOOLEAN, CollectEnds(ok) PROVE TypeOK'
  <2>1. [collected |-> FALSE, uploadError |-> FALSE] \in Results
    BY DEF Results
  <2>2. result' \in Results
    BY <1>3, <2>1 DEF CollectEnds, TypeOK
  <2> QED
    BY <1>3, <2>2 DEF CollectEnds, TypeOK, historyVars
<1>4. ASSUME NEW ok \in BOOLEAN, UploadEnds(ok) PROVE TypeOK'
  <2>1. [collected |-> TRUE, uploadError |-> ~ok] \in Results
    BY DEF Results
  <2>2. result' \in Results
    BY <1>4, <2>1 DEF UploadEnds
  <2> QED
    BY <1>4, <2>2 DEF UploadEnds, TypeOK, historyVars
<1>5. ASSUME RecordCycle PROVE TypeOK'
  <2>1. HealthAfter \in HealthStates /\ HeartbeatStatus \in Statuses
    BY DEF TypeOK, Results, HealthAfter, HealthStates, HeartbeatStatus, Statuses
  <2>2. heartbeats' \in Seq(Heartbeats)
    BY <1>5, <2>1 DEF RecordCycle, TypeOK, Heartbeats
  <2> QED
    BY <1>5, <2>1, <2>2 DEF RecordCycle, AfterCycle, TypeOK
<1>6. ASSUME ObserveShutdown PROVE TypeOK'
  BY <1>6 DEF ObserveShutdown, TypeOK, historyVars
<1>7. ASSUME SignalShutdown PROVE TypeOK'
  BY <1>7 DEF SignalShutdown, TypeOK, loopVars, historyVars
<1>8. ASSUME NEW i \in DOMAIN heartbeats, HeartbeatEnds(i) PROVE TypeOK'
  <2>1. /\ heartbeats \in Seq(Heartbeats) /\ i \in 1 .. Len(heartbeats)
        /\ Len(heartbeats) - 1 \in Nat
    BY <1>8 DEF TypeOK
  <2>2. \A j \in 1 .. Len(heartbeats) - 1 :
            (IF j < i THEN heartbeats[j] ELSE heartbeats[j + 1]) \in Heartbeats
    BY <2>1
  <2>3. heartbeats' \in Seq(Heartbeats)
    BY <1>8, <2>1, <2>2 DEF HeartbeatEnds
  <2> QED
    BY <1>8, <2>3 DEF HeartbeatEnds, TypeOK, loopVars, historyVars
<1>9. ASSUME Tick PROVE TypeOK'
  <2>0. TypeOK /\ Tick
    BY <1>9
  <2>1. heartbeats' \in Seq(Heartbeats)
    <3>1. heartbeats \in Seq(Heartbeats)
      BY DEF TypeOK
    <3>2. ASSUME NEW i \in DOMAIN heartbeats
          PROVE  [heartbeats[i] EXCEPT !.age = @ + 1] \in Heartbeats
      <4>1. heartbeats[i] \in Heartbeats
        BY <3>1
      <4>2. heartbeats[i].age < HeartbeatTimeout
        BY <2>0 DEF Tick, HeartbeatMayAge
      <4>3. heartbeats[i].age \in 0 .. HeartbeatTimeout
        BY <4>1 DEF Heartbeats
      <4>4. heartbeats[i].age + 1 \in 0 .. HeartbeatTimeout
        BY <4>2, <4>3
      <4> QED
        BY <4>1, <4>4 DEF Heartbeats
    <3>3. heartbeats' = [i \in DOMAIN heartbeats |-> [heartbeats[i] EXCEPT !.age = @ + 1]]
      BY <2>0 DEF Tick
    <3>4. heartbeats' \in [DOMAIN heartbeats -> Heartbeats]
      BY <3>2, <3>3
    <3>5. DOMAIN heartbeats = 1 .. Len(heartbeats) /\ Len(heartbeats) \in Nat
      BY <3>1
    <3> QED
      BY <3>4, <3>5
  <2>2. grid' \in 0 .. Period - 1
    <3>1. (grid + 1) % Period \in 0 .. Period - 1
      BY <2>0, ModRange DEF TypeOK
    <3>2. grid' = grid \/ grid' = (grid + 1) % Period
      BY <2>0 DEF Tick
    <3> QED
      BY <3>1, <3>2 DEF TypeOK
  <2>3. starts' \in Seq(Nat) /\ Len(starts') <= 2
    <3>1. starts \in Seq(Nat) /\ Len(starts) <= 2
      BY DEF TypeOK
    <3>2. starts' = [i \in DOMAIN starts |-> starts[i] + 1]
      BY <2>0 DEF Tick
    <3> QED
      BY <3>1, <3>2
  <2>4. jitter' \in 0 .. MaxJitter /\ spent' \in 0 .. CycleLimit
    <3>1. jitter \in 0 .. MaxJitter /\ spent \in 0 .. CycleLimit
      BY DEF TypeOK
    <3>2. pc = "jitter" => jitter > 0
      BY <2>0 DEF Tick, LoopIdle
    <3>3. pc \in {"collecting", "uploading"} => spent < CycleLimit
      BY <2>0 DEF Tick, LoopIdle
    <3>4. /\ jitter' = IF pc = "jitter" THEN jitter - 1 ELSE jitter
          /\ spent' = IF pc \in {"collecting", "uploading"} THEN spent + 1 ELSE spent
      BY <2>0 DEF Tick
    <3> QED
      BY <3>1, <3>2, <3>3, <3>4
  <2>5. due' \in Int /\ due' <= Period /\ recordedAgo' \in Nat
    <3>1. due' \in {due, due - 1} /\ recordedAgo' \in {recordedAgo, recordedAgo + 1}
      BY <2>0 DEF Tick
    <3> QED
      BY <3>1 DEF TypeOK
  <2>6. UNCHANGED <<pc, result, health, shutdown, changed, lastBeat, unrecorded>>
    BY <2>0 DEF Tick
  <2> QED
    BY <2>1, <2>2, <2>3, <2>4, <2>5, <2>6 DEF TypeOK
<1>10. CASE UNCHANGED vars
  BY <1>10 DEF vars, loopVars, historyVars, TypeOK
<1> QED
  BY <1>1, <1>2, <1>3, <1>4, <1>5, <1>6, <1>7, <1>8, <1>9, <1>10 DEF Next

(* Every state that Scheduler::run and its heartbeat tasks reach has the     *)
(* declared types: the next deadline is at most a period away, a cycle and a  *)
(* heartbeat never outlive their limits.                                     *)
THEOREM SchedulerTypeCorrect == Spec => []TypeOK
<1>1. Init => TypeOK
  <2> SUFFICES ASSUME Init PROVE TypeOK
    OBVIOUS
  <2>1. health \in HealthStates
    <3>1. [status |-> "ok", error |-> "none", connected |-> TRUE, recorded |-> FALSE]
             \in HealthStates
      BY DEF HealthStates, Statuses
    <3>2. [status |-> "degraded", error |-> "probe", connected |-> FALSE, recorded |-> FALSE]
             \in HealthStates
      BY DEF HealthStates, Statuses
    <3> QED
      BY <3>1, <3>2 DEF Init, SeededHealth
  <2>2. heartbeats \in Seq(Heartbeats) /\ starts \in Seq(Nat) /\ Len(starts) <= 2
    BY DEF Init
  <2>3. result \in Results
    <3>1. [collected |-> FALSE, uploadError |-> FALSE] \in Results
      BY DEF Results
    <3> QED
      BY <3>1 DEF Init
  <2>4. due \in Int /\ due <= Period /\ grid \in 0 .. Period - 1
    BY SchedulerAssumption DEF Init
  <2>5. spent \in 0 .. CycleLimit /\ jitter \in 0 .. MaxJitter /\ recordedAgo \in Nat
    BY SchedulerAssumption DEF Init
  <2>6. shutdown \in BOOLEAN /\ changed \in BOOLEAN /\ unrecorded \in BOOLEAN
    BY Zenon DEF Init
  <2> QED
    BY <2>1, <2>2, <2>3, <2>4, <2>5, <2>6 DEF Init, TypeOK
<1> QED
  BY <1>1, NextTypeOK, PTL DEF Spec

-----------------------------------------------------------------------------
(* The interval: no burst, and deadlines on the grid.                      *)

(* The next deadline against the last two starts: a start is never before    *)
(* its deadline, so the deadline after the next one is a period away from     *)
(* the start before.                                                         *)
StartInv ==
    /\ pc = "jitter" <=> starts = <<>>
    /\ Len(starts) >= 1 => due + starts[1] >= 0
    /\ Len(starts) = 2 => due + starts[2] >= Period

IntervalInv == StartInv /\ TicksOnGrid

LEMMA NextIntervalInv == TypeOK /\ IntervalInv /\ [Next]_vars => IntervalInv'
<1> SUFFICES ASSUME TypeOK, IntervalInv, [Next]_vars PROVE IntervalInv'
  OBVIOUS
<1> USE SchedulerAssumption
<1>0. TypeOK'
  BY NextTypeOK
<1>1. ASSUME BeginRun PROVE IntervalInv'
  <2>1. pc' = "collecting" /\ starts' = <<0>> /\ due' = 0 /\ grid' = 0
    BY <1>1 DEF BeginRun, StartCycle, IntervalInv, StartInv
  <2>2. 0 % Period = 0
    BY ModRange
  <2> QED
    BY <2>1, <2>2 DEF IntervalInv, StartInv, TicksOnGrid
<1>2. ASSUME TickFires PROVE IntervalInv'
  <2>1. /\ due \in Int /\ due <= 0 /\ starts # <<>> /\ starts \in Seq(Nat)
        /\ due' = NextDue /\ grid' = grid /\ grid \in Int
        /\ pc' = "collecting" /\ starts' = <<0, starts[1]>>
    BY <1>2 DEF TickFires, StartCycle, IntervalInv, StartInv, TypeOK
  <2>2. due + starts[1] >= 0 /\ starts[1] \in Nat
    BY <2>1 DEF IntervalInv, StartInv
  <2>3. NextDue \in 1 .. Period /\ NextDue >= Period + due
    BY <2>1, NextDueFacts
  <2>4. StartInv'
    BY <2>1, <2>2, <2>3 DEF StartInv
  <2>5. (due' + grid') % Period = 0
    <3>1. PICK q \in Int : NextDue = due + Period * q
      BY <2>1, NextDueFacts
    <3>2. due' + grid' = (due + grid) + Period * q
      BY <2>1, <3>1
    <3>3. (due + grid) % Period = 0
      BY <1>2 DEF TickFires, IntervalInv, TicksOnGrid
    <3>4. due + grid \in Int
      BY <2>1
    <3>5. (due + grid + Period * q) % Period = 0
      BY <3>3, <3>4, GridShift
    <3> QED
      BY <3>2, <3>5
  <2> QED
    BY <2>4, <2>5 DEF IntervalInv, TicksOnGrid
<1>3. ASSUME Tick, pc = "jitter" PROVE IntervalInv'
  BY <1>3 DEF Tick, IntervalInv, StartInv, TicksOnGrid, TypeOK
<1>4. ASSUME Tick, pc # "jitter" PROVE IntervalInv'
  <2>1. /\ due' = due - 1 /\ grid' = (grid + 1) % Period /\ pc' = pc
        /\ due \in Int /\ grid \in Int /\ starts \in Seq(Nat)
        /\ starts' = [i \in DOMAIN starts |-> starts[i] + 1]
    BY <1>4 DEF Tick, TypeOK
  <2>2. StartInv'
    BY <1>4, <2>1 DEF IntervalInv, StartInv
  <2>3. (due' + grid') % Period = 0
    <3>0. PICK k \in Int : grid + 1 = Period * k + ((grid + 1) % Period)
      <4>1. grid + 1 \in Int /\ Period \in Nat \ {0}
        BY <2>1
      <4>2. /\ (grid + 1) \div Period \in Int
            /\ grid + 1 = Period * ((grid + 1) \div Period) + ((grid + 1) % Period)
        BY <4>1, ModRange
      <4> QED
        BY <4>2, Zenon
    <3>1. -k \in Int /\ Period * (-k) = -(Period * k)
      BY <3>0
    <3>2. due' + grid' = (due + grid) + Period * (-k)
      <4>1. /\ Period * k \in Int /\ (grid + 1) % Period \in Int
            /\ grid + 1 = Period * k + ((grid + 1) % Period)
        BY <2>1, <3>0, ModRange
      <4> QED
        BY <2>1, <3>0, <3>1, <4>1
    <3>3. (due + grid) % Period = 0
      BY <1>4 DEF IntervalInv, TicksOnGrid
    <3>4. due + grid \in Int
      BY <2>1
    <3>5. (due + grid + Period * (-k)) % Period = 0
      BY <3>1, <3>3, <3>4, GridShift
    <3> QED
      BY <3>2, <3>5
  <2> QED
    BY <2>2, <2>3 DEF IntervalInv, TicksOnGrid
<1>5. ASSUME UNCHANGED <<due, starts, grid>>, pc' = pc \/ (pc # "jitter" /\ pc' # "jitter")
      PROVE  IntervalInv'
  BY <1>5 DEF IntervalInv, StartInv, TicksOnGrid
<1>6. ASSUME NEW ok \in BOOLEAN, CollectEnds(ok) \/ UploadEnds(ok) PROVE IntervalInv'
  BY <1>5, <1>6 DEF CollectEnds, UploadEnds, historyVars
<1>7. ASSUME RecordCycle \/ ObserveShutdown PROVE IntervalInv'
  BY <1>5, <1>7 DEF RecordCycle, AfterCycle, ObserveShutdown, StopPoints, historyVars
<1>8. ASSUME SignalShutdown \/ (\E i \in DOMAIN heartbeats : HeartbeatEnds(i)) \/ UNCHANGED vars
      PROVE  IntervalInv'
  BY <1>5, <1>8 DEF SignalShutdown, HeartbeatEnds, vars, loopVars, historyVars
<1> QED
  BY <1>1, <1>2, <1>3, <1>4, <1>6, <1>7, <1>8 DEF Next

LEMMA IntervalInvariant == Spec => [](TypeOK /\ IntervalInv)
<1>1. Init => IntervalInv
  BY DEF Init, IntervalInv, StartInv, TicksOnGrid
<1> QED
  BY <1>1, SchedulerTypeCorrect, NextIntervalInv, PTL DEF Spec

(* MissedTickBehavior::Skip in Scheduler::run: however late the loop is, and  *)
(* whatever collections and uploads do, three cycles in a row span a period.  *)
THEOREM NoBurstEver == Spec => NoBurst
<1>1. TypeOK /\ IntervalInv /\ [Next]_vars
         => [TickFires /\ Len(starts) = 2 => starts[2] >= Period]_vars
  BY SchedulerAssumption DEF TypeOK, IntervalInv, StartInv, TickFires
<1> QED
  BY <1>1, IntervalInvariant, PTL DEF Spec, NoBurst

(* The deadlines of Scheduler::run's interval stay where its creation put     *)
(* them: lateness does not accumulate into drift.                            *)
THEOREM DeadlinesOnGrid == Spec => []TicksOnGrid
BY IntervalInvariant, PTL DEF IntervalInv

-----------------------------------------------------------------------------
(* The health state.                                                       *)

(* Its age, place by place: while the loop waits, the age and what is left to *)
(* the deadline make at most a period; a cycle adds what it has lasted.       *)
AgeInv ==
    /\ pc = "jitter" => recordedAgo = 0 /\ ~health.recorded
    /\ pc = "waiting" => recordedAgo <= Period /\ recordedAgo + due <= Period
    /\ pc \in {"collecting", "uploading", "recording"} => recordedAgo <= Period + spent
    /\ pc = "stopped" => recordedAgo <= Period

LEMMA NextAgeInv == TypeOK /\ AgeInv /\ [Next]_vars => AgeInv'
<1> SUFFICES ASSUME TypeOK, AgeInv, [Next]_vars PROVE AgeInv'
  OBVIOUS
<1> USE SchedulerAssumption
<1>0. /\ due \in Int /\ due <= Period /\ recordedAgo \in Nat /\ spent \in Nat
      /\ Period \in Nat
  BY DEF TypeOK
<1>1. ASSUME BeginRun \/ TickFires PROVE AgeInv'
  <2>1. /\ pc' = "collecting" /\ recordedAgo' = recordedAgo /\ spent' = 0
        /\ pc \in {"jitter", "waiting"}
    BY <1>1 DEF BeginRun, TickFires, StartCycle
  <2> QED
    BY <1>0, <2>1 DEF AgeInv
<1>2. ASSUME NEW ok \in BOOLEAN, CollectEnds(ok) \/ UploadEnds(ok) PROVE AgeInv'
  <2>1. /\ pc \in {"collecting", "uploading"} /\ pc' \in {"uploading", "recording"}
        /\ recordedAgo' = recordedAgo /\ spent' = spent
    BY <1>2 DEF CollectEnds, UploadEnds, historyVars
  <2> QED
    BY <1>0, <2>1 DEF AgeInv
<1>3. ASSUME RecordCycle PROVE AgeInv'
  <2>1. pc' = "waiting" /\ recordedAgo' = 0 /\ due' = due
    BY <1>3 DEF RecordCycle, AfterCycle
  <2> QED
    BY <1>0, <2>1 DEF AgeInv
<1>4. ASSUME ObserveShutdown PROVE AgeInv'
  <2>1. /\ pc = "waiting" /\ pc' \in {"waiting", "stopped"}
        /\ recordedAgo' = recordedAgo /\ due' = due
    BY <1>4 DEF ObserveShutdown, StopPoints, historyVars
  <2> QED
    BY <1>0, <2>1 DEF AgeInv
<1>5. ASSUME Tick PROVE AgeInv'
  <2>1. /\ recordedAgo' \in {recordedAgo, recordedAgo + 1} /\ pc' = pc /\ health' = health
        /\ pc = "jitter" => recordedAgo' = recordedAgo \/ health.recorded
    BY <1>5 DEF Tick
  <2>2. CASE pc = "jitter"
    BY <2>1, <2>2 DEF AgeInv
  <2>3. CASE pc \in {"collecting", "uploading"}
    <3>1. spent' = spent + 1
      BY <1>5, <2>3 DEF Tick
    <3> QED
      BY <1>0, <2>1, <2>3, <3>1 DEF AgeInv
  <2>4. CASE pc = "waiting"
    <3>1. due' = due - 1 /\ due > 0
      BY <1>5, <2>4 DEF Tick, LoopIdle
    <3>2. recordedAgo <= Period /\ recordedAgo + due <= Period
      BY <2>4 DEF AgeInv
    <3>3. recordedAgo' <= Period /\ recordedAgo' + due' <= Period
      <4>1. recordedAgo + 1 <= Period
        BY <1>0, <3>1, <3>2
      <4>2. recordedAgo' = recordedAgo \/ recordedAgo' = recordedAgo + 1
        BY <2>1
      <4> QED
        BY <1>0, <3>1, <3>2, <4>1, <4>2
    <3> QED
      BY <2>1, <2>4, <3>3 DEF AgeInv
  <2> QED
    BY <1>5, <2>2, <2>3, <2>4 DEF Tick, LoopIdle
<1>6. ASSUME SignalShutdown \/ (\E i \in DOMAIN heartbeats : HeartbeatEnds(i)) \/ UNCHANGED vars
      PROVE  AgeInv'
  <2>1. UNCHANGED <<pc, recordedAgo, due, spent, health>>
    BY <1>6 DEF SignalShutdown, HeartbeatEnds, vars, loopVars, historyVars
  <2> QED
    BY <2>1 DEF AgeInv
<1> QED
  BY <1>1, <1>2, <1>3, <1>4, <1>5, <1>6 DEF Next

(* update_health runs at the end of every cycle, so what the health endpoint  *)
(* serves is at most a period and a cycle old, however cycles fail.           *)
THEOREM HealthStaysFresh == Spec => []HealthNeverStale
<1>1. Init => AgeInv
  BY DEF Init, SeededHealth, AgeInv
<1>2. TypeOK /\ AgeInv => HealthNeverStale
  BY SchedulerAssumption DEF TypeOK, AgeInv, HealthNeverStale
<1> QED
  BY <1>1, <1>2, NextAgeInv, SchedulerTypeCorrect, PTL DEF Spec

(* What is known of the cycle between its end and the next one's.            *)
CycleInv ==
    /\ HealthAgreesWithHeartbeat
    /\ unrecorded <=> pc \in {"collecting", "uploading", "recording"}

LEMMA NextCycleInv == TypeOK /\ CycleInv /\ [Next]_vars => CycleInv'
<1> SUFFICES ASSUME TypeOK, CycleInv, [Next]_vars PROVE CycleInv'
  OBVIOUS
<1>1. ASSUME BeginRun \/ TickFires PROVE CycleInv'
  BY <1>1 DEF BeginRun, TickFires, StartCycle, CycleInv, HealthAgreesWithHeartbeat
<1>2. ASSUME NEW ok \in BOOLEAN, CollectEnds(ok) \/ UploadEnds(ok) PROVE CycleInv'
  BY <1>2 DEF CollectEnds, UploadEnds, historyVars, CycleInv, HealthAgreesWithHeartbeat
<1>3. ASSUME RecordCycle PROVE CycleInv'
  BY <1>3 DEF RecordCycle, AfterCycle, HealthAfter, HeartbeatStatus, TypeOK, Results,
              CycleInv, HealthAgreesWithHeartbeat
<1>4. ASSUME ObserveShutdown PROVE CycleInv'
  BY <1>4 DEF ObserveShutdown, StopPoints, historyVars, CycleInv, HealthAgreesWithHeartbeat
<1>5. ASSUME Tick \/ SignalShutdown \/ (\E i \in DOMAIN heartbeats : HeartbeatEnds(i))
             \/ UNCHANGED vars
      PROVE  CycleInv'
  BY <1>5 DEF Tick, SignalShutdown, HeartbeatEnds, vars, loopVars, historyVars, CycleInv,
              HealthAgreesWithHeartbeat
<1> QED
  BY <1>1, <1>2, <1>3, <1>4, <1>5 DEF Next

LEMMA CycleInvariant == Spec => []CycleInv
<1>1. Init => CycleInv
  BY DEF Init, CycleInv, HealthAgreesWithHeartbeat
<1> QED
  BY <1>1, NextCycleInv, SchedulerTypeCorrect, PTL DEF Spec

(* update_health and fire_heartbeat derive the status of a cycle separately;  *)
(* between cycles they agree, with each other and with the cycle.             *)
THEOREM HealthAndHeartbeatAgree == Spec => []HealthAgreesWithHeartbeat
BY CycleInvariant, PTL DEF CycleInv

(* Scheduler::run returns only from its select!, never from within a cycle.   *)
THEOREM ExitIsGraceful == Spec => []CycleCompletesBeforeExit
<1>1. CycleInv => CycleCompletesBeforeExit
  BY DEF CycleInv, CycleCompletesBeforeExit
<1> QED
  BY <1>1, CycleInvariant, PTL

-----------------------------------------------------------------------------
(* The loop the rest of the agent counts on.                               *)

(* There is no upload of a payload that was not collected. *)
ResultInv == result.uploadError => result.collected

LEMMA NextResultInv == ResultInv /\ [Next]_vars => ResultInv'
<1> SUFFICES ASSUME ResultInv, [Next]_vars PROVE ResultInv'
  OBVIOUS
<1>1. ASSUME UNCHANGED result PROVE ResultInv'
  BY <1>1 DEF ResultInv
<1>2. CASE BeginRun \/ TickFires \/ RecordCycle \/ ObserveShutdown \/ Tick
  BY <1>1, <1>2 DEF BeginRun, TickFires, RecordCycle, ObserveShutdown, Tick
<1>3. ASSUME NEW ok \in BOOLEAN, CollectEnds(ok) PROVE ResultInv'
  BY <1>3 DEF CollectEnds, ResultInv
<1>4. ASSUME NEW ok \in BOOLEAN, UploadEnds(ok) PROVE ResultInv'
  BY <1>4 DEF UploadEnds, ResultInv
<1>5. CASE SignalShutdown \/ UNCHANGED vars
  BY <1>1, <1>5 DEF SignalShutdown, vars, loopVars
<1>6. ASSUME NEW i \in DOMAIN heartbeats, HeartbeatEnds(i) PROVE ResultInv'
  BY <1>1, <1>6 DEF HeartbeatEnds, loopVars
<1> QED
  BY <1>2, <1>3, <1>4, <1>5, <1>6 DEF Next

LEMMA StepImplementsLoop ==
    TypeOK /\ ResultInv /\ [Next]_vars => [Promise!Next]_(Promise!vars)
<1> SUFFICES ASSUME TypeOK, ResultInv, [Next]_vars PROVE Promise!Next \/ UNCHANGED Promise!vars
  OBVIOUS
<1>1. ASSUME UNCHANGED <<pc, health, shutdown>> PROVE UNCHANGED Promise!vars
  BY <1>1 DEF Promise!vars, At, Shown
<1>2. CASE BeginRun \/ TickFires
  <2>1. Promise!Begin
    BY <1>2 DEF BeginRun, TickFires, StartCycle, Promise!Begin, At, Shown
  <2> QED BY <2>1 DEF Promise!Next
<1>3. ASSUME NEW ok \in BOOLEAN, CollectEnds(ok) \/ UploadEnds(ok) PROVE UNCHANGED Promise!vars
  BY <1>3 DEF CollectEnds, UploadEnds, Promise!vars, At, Shown
<1>4. CASE RecordCycle
  <2>1. At = "cycling" /\ At' = "between" /\ shutdown' = shutdown /\ health' = HealthAfter
    BY <1>4 DEF RecordCycle, AfterCycle, At
  <2>2. Shown' \in Promise!Outcomes
    <3>1. result.collected \in BOOLEAN /\ result.uploadError \in BOOLEAN
      BY DEF TypeOK, Results
    <3>2. CASE result.uploadError /\ result.collected = TRUE
      BY <2>1, <3>2 DEF Shown, HealthAfter, Promise!Outcomes, Promise!Says
    <3>3. CASE ~result.uploadError /\ result.collected = TRUE
      BY <2>1, <3>3 DEF Shown, HealthAfter, Promise!Outcomes, Promise!Says
    <3>4. CASE ~result.uploadError /\ result.collected = FALSE
      BY <2>1, <3>4 DEF Shown, HealthAfter, Promise!Outcomes, Promise!Says
    <3> QED BY <3>1, <3>2, <3>3, <3>4 DEF ResultInv
  <2>3. Promise!End(Shown')
    BY <2>1 DEF Promise!End
  <2> QED BY <2>2, <2>3 DEF Promise!Next
<1>5. CASE ObserveShutdown
  <2>1. CASE shutdown
    <3>1. Promise!Stop
      BY <1>5, <2>1 DEF ObserveShutdown, StopPoints, Promise!Stop, At, Shown
    <3> QED BY <3>1 DEF Promise!Next
  <2>2. CASE ~shutdown
    BY <1>1, <1>5, <2>2 DEF ObserveShutdown
  <2> QED BY <2>1, <2>2
<1>6. CASE SignalShutdown
  <2>1. Promise!Signal
    BY <1>6 DEF SignalShutdown, loopVars, Promise!Signal, At, Shown
  <2> QED BY <2>1 DEF Promise!Next
<1>7. ASSUME NEW i \in DOMAIN heartbeats, HeartbeatEnds(i) PROVE UNCHANGED Promise!vars
  BY <1>1, <1>7 DEF HeartbeatEnds, loopVars
<1>8. CASE Tick
  BY <1>1, <1>8 DEF Tick
<1>9. CASE UNCHANGED vars
  BY <1>1, <1>9 DEF vars, loopVars
<1> QED
  BY <1>2, <1>3, <1>4, <1>5, <1>6, <1>7, <1>8, <1>9 DEF Next

(* Scheduler::run keeps Loop's promise: the health state changes only at the   *)
(* end of a cycle and to that cycle's outcome, and the loop stops only between *)
(* two cycles after a signal.                                                *)
THEOREM SchedulerImplementsLoop == Spec => ImplementsLoop
<1>1. Init => Promise!Init
  <2> SUFFICES ASSUME Init PROVE Promise!Init
    OBVIOUS
  <2>1. Shown \in Promise!Seeds
    <3>1. CASE health = [status |-> "ok", error |-> "none", connected |-> TRUE, recorded |-> FALSE]
      BY <3>1 DEF Shown, Promise!Seeds, Promise!Says
    <3>2. CASE health = [status |-> "degraded", error |-> "probe", connected |-> FALSE,
                         recorded |-> FALSE]
      BY <3>2 DEF Shown, Promise!Seeds, Promise!Says
    <3> QED BY <3>1, <3>2 DEF Init, SeededHealth
  <2>2. At = "starting" /\ shutdown = FALSE
    BY DEF Init, At
  <2> QED BY <2>1, <2>2 DEF Promise!Init
<1>2. Init => ResultInv
  BY DEF Init, ResultInv
<1> QED
  BY <1>1, <1>2, NextResultInv, StepImplementsLoop, SchedulerTypeCorrect, PTL DEF Spec, ImplementsLoop, Promise!Spec
=============================================================================
