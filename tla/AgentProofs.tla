---------------------------- MODULE AgentProofs ----------------------------
(* Theorems about Agent, for any number of requests at a time. *)
EXTENDS Agent, TLAPS

-----------------------------------------------------------------------------
(* The inductive invariant, by the part of the process it is about.        *)

(* A health state that some update left complete. *)
Complete(h) == h \in Run!Seeds \cup Run!Outcomes

(* What a health state may say, given what the database and the platform did. *)
TrueOf(h, database, nothing) ==
    /\ h.status = "ok" => database /\ ~nothing
    /\ h.connected = database

(* main: which mode goes where, what has been done on the way, how it ends.   *)
MainInv ==
    /\ exit = "none" <=> main # "exited"
    /\ main \in {"testing", "pinging"} => mode = "test"
    /\ main = "collecting" => mode = "dry"
    /\ main \in {"seeding", "spawning", "serving", "running"} => mode = "run"
    /\ main \notin {"running", "exited"} => loop = "starting" /\ server = "none"
    /\ main = "pinging" => probed
    /\ ~requested \/ loop # "starting"
    /\ mode = "run" \/ loop = "starting"
    /\ ExitStatusIsTrue

(* The scheduler: a cycle is open exactly while the loop is cycling, and its   *)
(* outcome is true of what it found.                                         *)
LoopInv ==
    /\ step = "none" <=> loop # "cycling"
    /\ loop = "stopped" => shutdown
    /\ step = "upload" => probed
    /\ step \in {"record", "connected", "status"} => TrueOf(outcome, probed, ~stored)

(* The health state: whole unless update_health is at it, and then nobody      *)
(* reads; once seeded it is one that was published, and true.                *)
HealthInv ==
    /\ writing <=> step \in {"connected", "status"}
    /\ ~writing \/ NobodyReads
    /\ step # "status" => health = shown
    /\ step = "status" => health.connected = outcome.connected
    /\ main \in {"spawning", "serving", "running"} =>
         /\ Complete(shown)
         /\ TrueOf(shown, evidence.database, evidence.platform = "nothing")

(* The requests: only a bound server has any, and a copy that is under way     *)
(* agrees with the health state.                                             *)
RequestInv ==
    \A r \in Requests :
        /\ request[r] # "idle" => server \in {"listening", "closing"}
        /\ request[r] = "half" => answer[r].status = health.status
        /\ request[r] = "answered" => Complete(answer[r])

IInv == TypeOK /\ MainInv /\ LoopInv /\ HealthInv /\ RequestInv

-----------------------------------------------------------------------------
(* Type correctness.                                                       *)

LEMMA HealthTypes ==
    /\ Run!Seeds \subseteq HealthStates /\ Run!Outcomes \subseteq HealthStates
    /\ Idle \in HealthStates
    /\ \A ok \in BOOLEAN : Seeded(ok) \in Run!Seeds
    /\ \A a, b \in BOOLEAN : OutcomeOf(a, b) \in Run!Outcomes
BY DEF Run!Seeds, Run!Outcomes, Run!Says, HealthStates, Idle, Seeded, OutcomeOf

LEMMA OutcomeFields ==
    ASSUME TypeOK
    PROVE  /\ outcome.status \in {"ok", "degraded"} /\ outcome.connected \in BOOLEAN
           /\ outcome.error \in {"none", "probe", "collection", "upload"}
           /\ outcome = [status |-> outcome.status, connected |-> outcome.connected,
                         error |-> outcome.error]
<1>1. outcome \in HealthStates
  BY HealthTypes DEF TypeOK
<1> QED BY <1>1 DEF HealthStates

LEMMA NextTypeOK == TypeOK /\ [Next]_vars => TypeOK'
<1> SUFFICES ASSUME TypeOK, [Next]_vars PROVE TypeOK'
  OBVIOUS
<1>1. ASSUME NEW ok \in BOOLEAN, LoadConfig(ok) PROVE TypeOK'
  BY <1>1 DEF LoadConfig, GoTo, ExitWith, taskVars, cycleVars, stateVars, httpVars,
     platformVars, TypeOK
<1>2. ASSUME NEW ok \in BOOLEAN, CreateCollector(ok) PROVE TypeOK'
  BY <1>2 DEF CreateCollector, GoTo, ExitWith, taskVars, cycleVars, stateVars, httpVars,
     platformVars, TypeOK
<1>3. ASSUME NEW ok \in BOOLEAN, ChooseMode(ok) PROVE TypeOK'
  BY <1>3 DEF ChooseMode, GoTo, ExitWith, taskVars, cycleVars, stateVars, httpVars,
     platformVars, TypeOK
<1>4. ASSUME NEW ok \in BOOLEAN, TestDatabase(ok) PROVE TypeOK'
  BY <1>4 DEF TestDatabase, GoTo, ExitWith, AfterDatabaseTest, taskVars, cycleVars,
     stateVars, httpVars, platformVars, TypeOK
<1>5. ASSUME NEW ok \in BOOLEAN, TestCloud(ok) PROVE TypeOK'
  BY <1>5 DEF TestCloud, ExitWith, taskVars, cycleVars, stateVars, httpVars,
     platformVars, TypeOK
<1>6. ASSUME NEW ok \in BOOLEAN, RunOnce(ok) PROVE TypeOK'
  BY <1>6 DEF RunOnce, ExitWith, DryRunUploads, taskVars, cycleVars, stateVars,
     httpVars, TypeOK
<1>7. ASSUME NEW ok \in BOOLEAN, SeedHealth(ok) PROVE TypeOK'
  <2>1. Seeded(ok) \in HealthStates
    BY HealthTypes
  <2>2. [database |-> ok, platform |-> "unasked"] \in Evidence
    BY DEF Evidence
  <2> QED
    BY <1>7, <2>1, <2>2 DEF SeedHealth, GoTo, taskVars, cycleVars, httpVars, platformVars, TypeOK
<1>8. ASSUME NEW ok \in BOOLEAN, SpawnServer(ok) PROVE TypeOK'
  BY <1>8 DEF SpawnServer, GoTo, UnseenAtStart, stateVars, httpVars, platformVars,
     TypeOK
<1>9. ASSUME SpawnSignalTask PROVE TypeOK'
  BY <1>9 DEF SpawnSignalTask, GoTo, cycleVars, stateVars, httpVars, platformVars,
     TypeOK
<1>10. ASSUME Return PROVE TypeOK'
  BY <1>10 DEF Return, ExitWith, taskVars, cycleVars, stateVars, httpVars, platformVars,
     TypeOK
<1>11. ASSUME NEW ok \in BOOLEAN, InstallHandlers(ok) PROVE TypeOK'
  BY <1>11 DEF InstallHandlers, Alive, ExitWith, mainVars, cycleVars, stateVars,
     httpVars, platformVars, TypeOK
<1>12. ASSUME Signal PROVE TypeOK'
  BY <1>12 DEF Signal, Alive, ExitWith, mainVars, cycleVars, stateVars, httpVars,
     platformVars, TypeOK
<1>13. ASSUME SendShutdown PROVE TypeOK'
  BY <1>13 DEF SendShutdown, Alive, mainVars, httpVars, platformVars, Run!Signal, TypeOK
<1>14. ASSUME BeginCycle PROVE TypeOK'
  <2>1. writing' \in BOOLEAN /\ stored' \in BOOLEAN
    BY <1>14, Zenon DEF BeginCycle, LocksAtStart
  <2>2. loop' = "cycling" /\ step' = "collect" /\ UNCHANGED <<shown, shutdown>>
    BY <1>14 DEF BeginCycle, Run!Begin
  <2>3. UNCHANGED <<mainVars, taskVars, outcome, unseen, health, evidence, httpVars, requested, probed>>
    BY <1>14 DEF BeginCycle
  <2> QED
    BY <2>1, <2>2, <2>3 DEF mainVars, taskVars, httpVars, TypeOK
<1>15. ASSUME NEW ok \in BOOLEAN, CollectEnds(ok) PROVE TypeOK'
  <2>1. probed' \in BOOLEAN /\ requested' \in BOOLEAN
    <3>1. requested' = requested \/ requested' = TRUE
      BY <1>15 DEF CollectEnds
    <3> QED BY <1>15, <3>1, Zenon DEF CollectEnds, TypeOK
  <2>2. outcome' \in Run!Outcomes /\ step' \in {"upload", "record"}
    <3>1. OutcomeOf(FALSE, FALSE) \in Run!Outcomes
      BY HealthTypes
    <3>2. outcome' = outcome \/ outcome' = OutcomeOf(FALSE, FALSE)
      BY <1>15 DEF CollectEnds
    <3> QED BY <1>15, <3>1, <3>2 DEF CollectEnds, TypeOK
  <2>3. UNCHANGED <<mainVars, taskVars, loop, unseen, stateVars, httpVars, stored, shutdown>>
    BY <1>15 DEF CollectEnds
  <2> QED
    BY <2>1, <2>2, <2>3 DEF mainVars, taskVars, stateVars, httpVars, TypeOK
<1>16. ASSUME NEW ok \in BOOLEAN, UploadEnds(ok) PROVE TypeOK'
  <2>1. outcome' \in Run!Outcomes /\ step' = "record"
    BY <1>16, HealthTypes DEF UploadEnds
  <2>2. UNCHANGED <<mainVars, taskVars, loop, unseen, stateVars, httpVars, platformVars,
                    shutdown, probed>>
    BY <1>16 DEF UploadEnds
  <2> QED
    BY <2>1, <2>2 DEF mainVars, taskVars, stateVars, httpVars, platformVars, TypeOK
<1>17. ASSUME PlatformStores PROVE TypeOK'
  BY <1>17 DEF PlatformStores, Alive, mainVars, taskVars, cycleVars, stateVars,
     httpVars, TypeOK
<1>18. ASSUME LockHealth PROVE TypeOK'
  BY <1>18 DEF LockHealth, Running, mainVars, taskVars, httpVars, platformVars, TypeOK
<1>19. ASSUME WriteConnected PROVE TypeOK'
  <2>1. health' \in HealthStates
    BY <1>19, OutcomeFields DEF WriteConnected, TypeOK, HealthStates
  <2>2. /\ step' = "status"
        /\ UNCHANGED <<mainVars, taskVars, loop, outcome, unseen, writing, shown, evidence,
                       httpVars, platformVars, shutdown, probed>>
    BY <1>19 DEF WriteConnected
  <2> QED
    BY <2>1, <2>2 DEF mainVars, taskVars, httpVars, platformVars, TypeOK
<1>20. ASSUME WriteStatus PROVE TypeOK'
  <2>1. health' \in HealthStates
    BY <1>20, OutcomeFields DEF WriteStatus, TypeOK, HealthStates
  <2>2. evidence' \in Evidence
    BY <1>20 DEF WriteStatus, TypeOK, Evidence
  <2>3. /\ loop' = "between" /\ shown' = outcome /\ step' = "none" /\ UNCHANGED shutdown
        /\ UNCHANGED <<mainVars, taskVars, outcome, unseen, httpVars, platformVars, probed>>
    BY <1>20 DEF WriteStatus, Run!End
  <2>4. writing' \in BOOLEAN
    BY <1>20, Zenon DEF WriteStatus
  <2>5. shown' \in HealthStates
    BY <2>3, HealthTypes DEF TypeOK
  <2> QED
    BY <2>1, <2>2, <2>3, <2>4, <2>5 DEF mainVars, taskVars, httpVars, platformVars, TypeOK
<1>21. ASSUME StopLoop PROVE TypeOK'
  <2>1. unseen' \in BOOLEAN
    BY <1>21, Zenon DEF StopLoop
  <2>2. loop' = "stopped" /\ UNCHANGED <<shown, shutdown>>
    BY <1>21 DEF StopLoop, Run!Stop
  <2>3. UNCHANGED <<mainVars, taskVars, step, outcome, health, writing, evidence, httpVars,
                    platformVars, probed>>
    BY <1>21 DEF StopLoop
  <2> QED
    BY <2>1, <2>2, <2>3 DEF mainVars, taskVars, httpVars, platformVars, TypeOK
<1>22. ASSUME NEW ok \in BOOLEAN, Bind(ok) PROVE TypeOK'
  BY <1>22 DEF Bind, Alive, mainVars, cycleVars, stateVars, httpVars, platformVars,
     TypeOK
<1>23. ASSUME CloseServer PROVE TypeOK'
  BY <1>23 DEF CloseServer, Alive, mainVars, cycleVars, stateVars, httpVars,
     platformVars, TypeOK
<1>24. ASSUME EndServer PROVE TypeOK'
  BY <1>24 DEF EndServer, Alive, mainVars, cycleVars, stateVars, httpVars, platformVars,
     TypeOK
<1>25. ASSUME NEW r \in Requests, Ask(r) PROVE TypeOK'
  BY <1>25 DEF Ask, Alive, mainVars, taskVars, cycleVars, stateVars, platformVars,
     TypeOK
<1>26. ASSUME NEW r \in Requests, ReadLock(r) PROVE TypeOK'
  BY <1>26 DEF ReadLock, Alive, MayRead, mainVars, taskVars, cycleVars, stateVars,
     platformVars, TypeOK
<1>27. ASSUME NEW r \in Requests, CopyStatus(r) PROVE TypeOK'
  <2>1. [answer[r] EXCEPT !.status = health.status] \in HealthStates
    BY DEF TypeOK, HealthStates
  <2>2. answer' \in [Requests -> HealthStates]
    BY <1>27, <2>1 DEF CopyStatus, TypeOK
  <2>3. request' \in [Requests -> {"idle", "asked", "reading", "half", "answered"}]
    BY <1>27 DEF CopyStatus, TypeOK
  <2>4. UNCHANGED <<mainVars, taskVars, cycleVars, stateVars, platformVars, shutdown, probed>>
    BY <1>27 DEF CopyStatus
  <2> QED
    BY <2>2, <2>3, <2>4 DEF mainVars, taskVars, cycleVars, stateVars, platformVars, TypeOK
<1>28. ASSUME NEW r \in Requests, Answer(r) PROVE TypeOK'
  <2>1. [answer[r] EXCEPT !.error = health.error, !.connected = health.connected] \in HealthStates
    BY DEF TypeOK, HealthStates
  <2>2. answer' \in [Requests -> HealthStates]
    BY <1>28, <2>1 DEF Answer, TypeOK
  <2>3. request' \in [Requests -> {"idle", "asked", "reading", "half", "answered"}]
    BY <1>28 DEF Answer, TypeOK
  <2>4. UNCHANGED <<mainVars, taskVars, cycleVars, stateVars, platformVars, shutdown, probed>>
    BY <1>28 DEF Answer
  <2> QED
    BY <2>2, <2>3, <2>4 DEF mainVars, taskVars, cycleVars, stateVars, platformVars, TypeOK
<1>29. ASSUME NEW r \in Requests, Respond(r) PROVE TypeOK'
  <2>1. answer' \in [Requests -> HealthStates]
    BY <1>29, HealthTypes DEF Respond, TypeOK
  <2> QED
    BY <1>29, <2>1 DEF Respond, mainVars, taskVars, cycleVars, stateVars, platformVars, TypeOK
<1>30. CASE UNCHANGED vars
  BY <1>30 DEF vars, mainVars, taskVars, cycleVars, stateVars, httpVars, platformVars,
     TypeOK
<1> QED
  BY <1>1, <1>2, <1>3, <1>4, <1>5, <1>6, <1>7, <1>8, <1>9, <1>10, <1>11, <1>12, <1>13,
     <1>14, <1>15, <1>16, <1>17, <1>18, <1>19, <1>20, <1>21, <1>22, <1>23, <1>24, <1>25,
     <1>26, <1>27, <1>28, <1>29, <1>30 DEF Next, MainStep, SignalStep, SchedulerStep,
     ServerStep, CycleEnds, UpdateHealth, Serve

-----------------------------------------------------------------------------
(* The rest of the invariant is inductive, part by part.                   *)

LEMMA NextMainInv == IInv /\ [Next]_vars => MainInv'
<1> SUFFICES ASSUME IInv, [Next]_vars PROVE MainInv'
  OBVIOUS
<1>1. ASSUME UNCHANGED <<mainVars, loop, server, requested, probed, shutdown, step,
      writing, health, shown>> PROVE MainInv'
  BY <1>1 DEF IInv, MainInv, mainVars, ExitStatusIsTrue
<1>2. CASE PlatformStores \/ UNCHANGED vars
  BY <1>2, <1>1 DEF PlatformStores, Alive, mainVars, taskVars, cycleVars, stateVars,
     httpVars, vars, platformVars
<1>3. ASSUME NEW r \in Requests, Ask(r) \/ ReadLock(r) \/ CopyStatus(r) \/ Answer(r) \/
      Respond(r) PROVE MainInv'
  BY <1>3, <1>1 DEF Ask, Alive, mainVars, taskVars, cycleVars, stateVars, platformVars,
     ReadLock, CopyStatus, Answer, Respond
<1>4. ASSUME NEW ok \in BOOLEAN, LoadConfig(ok) PROVE MainInv'
  BY <1>4 DEF LoadConfig, GoTo, ExitWith, taskVars, cycleVars, stateVars, httpVars,
     platformVars, IInv, TypeOK, MainInv, LoopInv, HealthInv, ExitStatusIsTrue
<1>5. ASSUME NEW ok \in BOOLEAN, CreateCollector(ok) PROVE MainInv'
  BY <1>5 DEF CreateCollector, GoTo, ExitWith, taskVars, cycleVars, stateVars, httpVars,
     platformVars, IInv, TypeOK, MainInv, LoopInv, HealthInv, ExitStatusIsTrue
<1>6. ASSUME NEW ok \in BOOLEAN, ChooseMode(ok) PROVE MainInv'
  BY <1>6 DEF ChooseMode, GoTo, ExitWith, taskVars, cycleVars, stateVars, httpVars,
     platformVars, IInv, TypeOK, MainInv, LoopInv, HealthInv, ExitStatusIsTrue
<1>7. ASSUME NEW ok \in BOOLEAN, TestDatabase(ok) PROVE MainInv'
  BY <1>7 DEF TestDatabase, GoTo, ExitWith, AfterDatabaseTest, taskVars, cycleVars,
     stateVars, httpVars, platformVars, IInv, TypeOK, MainInv, LoopInv, HealthInv,
     ExitStatusIsTrue
<1>8. ASSUME NEW ok \in BOOLEAN, TestCloud(ok) PROVE MainInv'
  BY <1>8 DEF TestCloud, ExitWith, taskVars, cycleVars, stateVars, httpVars,
     platformVars, IInv, TypeOK, MainInv, LoopInv, HealthInv, ExitStatusIsTrue
<1>9. ASSUME NEW ok \in BOOLEAN, RunOnce(ok) PROVE MainInv'
  BY <1>9 DEF RunOnce, ExitWith, DryRunUploads, taskVars, cycleVars, stateVars,
     httpVars, IInv, TypeOK, MainInv, LoopInv, HealthInv, ExitStatusIsTrue
<1>10. ASSUME NEW ok \in BOOLEAN, SeedHealth(ok) PROVE MainInv'
  BY <1>10 DEF SeedHealth, GoTo, Seeded, taskVars, cycleVars, httpVars, platformVars,
     IInv, TypeOK, MainInv, LoopInv, HealthInv, ExitStatusIsTrue
<1>11. ASSUME NEW ok \in BOOLEAN, SpawnServer(ok) PROVE MainInv'
  BY <1>11 DEF SpawnServer, GoTo, UnseenAtStart, stateVars, httpVars, platformVars,
     IInv, TypeOK, MainInv, LoopInv, HealthInv, ExitStatusIsTrue
<1>12. CASE SpawnSignalTask
  BY <1>12 DEF SpawnSignalTask, GoTo, cycleVars, stateVars, httpVars, platformVars,
     IInv, TypeOK, MainInv, LoopInv, HealthInv, ExitStatusIsTrue
<1>13. CASE Return
  BY <1>13 DEF Return, ExitWith, taskVars, cycleVars, stateVars, httpVars, platformVars,
     IInv, TypeOK, MainInv, LoopInv, HealthInv, ExitStatusIsTrue
<1>14. ASSUME NEW ok \in BOOLEAN, InstallHandlers(ok) PROVE MainInv'
  BY <1>14 DEF InstallHandlers, Alive, ExitWith, mainVars, cycleVars, stateVars,
     httpVars, platformVars, IInv, TypeOK, MainInv, LoopInv, HealthInv, ExitStatusIsTrue
<1>15. CASE Signal
  BY <1>15 DEF Signal, Alive, ExitWith, mainVars, cycleVars, stateVars, httpVars,
     platformVars, IInv, TypeOK, MainInv, LoopInv, HealthInv, ExitStatusIsTrue
<1>16. CASE SendShutdown
  BY <1>16 DEF SendShutdown, Alive, mainVars, httpVars, platformVars, Run!Signal, IInv,
     TypeOK, MainInv, LoopInv, HealthInv, ExitStatusIsTrue
<1>17. CASE BeginCycle
  BY <1>17 DEF BeginCycle, Running, LocksAtStart, mainVars, taskVars, httpVars,
     Run!Begin, IInv, TypeOK, MainInv, LoopInv, HealthInv, ExitStatusIsTrue
<1>18. ASSUME NEW ok \in BOOLEAN, CollectEnds(ok) PROVE MainInv'
  BY <1>18 DEF CollectEnds, Running, OutcomeOf, mainVars, taskVars, stateVars, httpVars,
     IInv, TypeOK, MainInv, LoopInv, HealthInv, ExitStatusIsTrue
<1>19. ASSUME NEW ok \in BOOLEAN, UploadEnds(ok) PROVE MainInv'
  BY <1>19 DEF UploadEnds, Running, OutcomeOf, mainVars, taskVars, stateVars, httpVars,
     platformVars, IInv, TypeOK, MainInv, LoopInv, HealthInv, ExitStatusIsTrue
<1>20. CASE LockHealth
  BY <1>20 DEF LockHealth, Running, mainVars, taskVars, httpVars, platformVars, IInv,
     TypeOK, MainInv, LoopInv, HealthInv, ExitStatusIsTrue
<1>21. CASE WriteConnected
  BY <1>21 DEF WriteConnected, Running, mainVars, taskVars, httpVars, platformVars,
     IInv, TypeOK, MainInv, LoopInv, HealthInv, ExitStatusIsTrue
<1>22. CASE WriteStatus
  BY <1>22 DEF WriteStatus, Running, mainVars, taskVars, httpVars, platformVars,
     Run!End, IInv, TypeOK, MainInv, LoopInv, HealthInv, ExitStatusIsTrue
<1>23. CASE StopLoop
  BY <1>23 DEF StopLoop, Running, mainVars, taskVars, httpVars, platformVars, Run!Stop,
     IInv, TypeOK, MainInv, LoopInv, HealthInv, ExitStatusIsTrue
<1>24. ASSUME NEW ok \in BOOLEAN, Bind(ok) PROVE MainInv'
  BY <1>24 DEF Bind, Alive, mainVars, cycleVars, stateVars, httpVars, platformVars,
     IInv, TypeOK, MainInv, LoopInv, HealthInv, ExitStatusIsTrue
<1>25. CASE CloseServer
  BY <1>25 DEF CloseServer, Alive, mainVars, cycleVars, stateVars, httpVars,
     platformVars, IInv, TypeOK, MainInv, LoopInv, HealthInv, ExitStatusIsTrue
<1>26. CASE EndServer
  BY <1>26 DEF EndServer, Alive, mainVars, cycleVars, stateVars, httpVars, platformVars,
     IInv, TypeOK, MainInv, LoopInv, HealthInv, ExitStatusIsTrue
<1> QED
  BY <1>2, <1>3, <1>4, <1>5, <1>6, <1>7, <1>8, <1>9, <1>10, <1>11, <1>12, <1>13, <1>14,
     <1>15, <1>16, <1>17, <1>18, <1>19, <1>20, <1>21, <1>22, <1>23, <1>24, <1>25, <1>26
     DEF Next, MainStep, SignalStep, SchedulerStep, ServerStep, CycleEnds, UpdateHealth,
     Serve

LEMMA NextLoopInv == IInv /\ [Next]_vars => LoopInv'
<1> SUFFICES ASSUME IInv, [Next]_vars PROVE LoopInv'
  OBVIOUS
<1>1. ASSUME UNCHANGED <<loop, step, shutdown, probed, outcome, stored>> PROVE LoopInv'
  BY <1>1 DEF IInv, LoopInv, TrueOf
<1>2. CASE SpawnSignalTask \/ Return \/ Signal \/ CloseServer \/ EndServer \/ UNCHANGED
      vars
  BY <1>2, <1>1 DEF SpawnSignalTask, GoTo, cycleVars, stateVars, httpVars, platformVars,
     Return, ExitWith, taskVars, Signal, Alive, mainVars, CloseServer, EndServer, vars
<1>3. ASSUME NEW ok \in BOOLEAN, LoadConfig(ok) \/ CreateCollector(ok) \/ ChooseMode(ok)
      \/ TestCloud(ok) \/ SpawnServer(ok) \/ InstallHandlers(ok) \/ Bind(ok) PROVE
      LoopInv'
  BY <1>3, <1>1 DEF LoadConfig, GoTo, ExitWith, taskVars, cycleVars, stateVars,
     httpVars, platformVars, CreateCollector, ChooseMode, TestCloud, SpawnServer,
     InstallHandlers, Alive, mainVars, Bind
<1>4. ASSUME NEW r \in Requests, Ask(r) \/ ReadLock(r) \/ CopyStatus(r) \/ Answer(r) \/
      Respond(r) PROVE LoopInv'
  BY <1>4, <1>1 DEF Ask, Alive, mainVars, taskVars, cycleVars, stateVars, platformVars,
     ReadLock, CopyStatus, Answer, Respond
<1>5. ASSUME NEW ok \in BOOLEAN, TestDatabase(ok) PROVE LoopInv'
  BY <1>5 DEF TestDatabase, GoTo, ExitWith, AfterDatabaseTest, taskVars, cycleVars,
     stateVars, httpVars, platformVars, IInv, TypeOK, MainInv, LoopInv, TrueOf, Run!Says
<1>6. ASSUME NEW ok \in BOOLEAN, RunOnce(ok) PROVE LoopInv'
  BY <1>6 DEF RunOnce, ExitWith, DryRunUploads, taskVars, cycleVars, stateVars,
     httpVars, IInv, TypeOK, MainInv, LoopInv, TrueOf, Run!Says
<1>7. ASSUME NEW ok \in BOOLEAN, SeedHealth(ok) PROVE LoopInv'
  BY <1>7 DEF SeedHealth, GoTo, Seeded, taskVars, cycleVars, httpVars, platformVars,
     IInv, TypeOK, MainInv, LoopInv, TrueOf, Run!Says
<1>8. CASE SendShutdown
  BY <1>8 DEF SendShutdown, Alive, mainVars, httpVars, platformVars, Run!Signal, IInv,
     TypeOK, MainInv, LoopInv, TrueOf, Run!Says
<1>9. CASE BeginCycle
  BY <1>9 DEF BeginCycle, Running, LocksAtStart, mainVars, taskVars, httpVars,
     Run!Begin, IInv, TypeOK, MainInv, LoopInv, TrueOf, Run!Says
<1>10. ASSUME NEW ok \in BOOLEAN, CollectEnds(ok) PROVE LoopInv'
  <2>1. CASE ok = TRUE
    BY <1>10, <2>1 DEF CollectEnds, IInv, LoopInv, TrueOf
  <2>2. CASE ok = FALSE
    <3>1. TrueOf(OutcomeOf(FALSE, FALSE), FALSE, ~stored)
      BY DEF TrueOf, OutcomeOf, Run!Says
    <3>2. /\ step = "collect" /\ step' = "record" /\ probed' = FALSE
          /\ outcome' = OutcomeOf(FALSE, FALSE)
          /\ UNCHANGED <<loop, shutdown, stored>>
      BY <1>10, <2>2 DEF CollectEnds
    <3> QED BY <3>1, <3>2 DEF IInv, LoopInv, TrueOf
  <2> QED BY <2>1, <2>2
<1>11. ASSUME NEW ok \in BOOLEAN, UploadEnds(ok) PROVE LoopInv'
  BY <1>11 DEF UploadEnds, Running, OutcomeOf, mainVars, taskVars, stateVars, httpVars,
     platformVars, IInv, TypeOK, MainInv, LoopInv, TrueOf, Run!Says
<1>12. CASE PlatformStores
  BY <1>12 DEF PlatformStores, Alive, mainVars, taskVars, cycleVars, stateVars,
     httpVars, IInv, TypeOK, MainInv, LoopInv, TrueOf, Run!Says
<1>13. CASE LockHealth
  BY <1>13 DEF LockHealth, Running, mainVars, taskVars, httpVars, platformVars, IInv,
     TypeOK, MainInv, LoopInv, TrueOf, Run!Says
<1>14. CASE WriteConnected
  BY <1>14 DEF WriteConnected, Running, mainVars, taskVars, httpVars, platformVars,
     IInv, TypeOK, MainInv, LoopInv, TrueOf, Run!Says
<1>15. CASE WriteStatus
  BY <1>15 DEF WriteStatus, Running, mainVars, taskVars, httpVars, platformVars,
     Run!End, IInv, TypeOK, MainInv, LoopInv, TrueOf, Run!Says
<1>16. CASE StopLoop
  BY <1>16 DEF StopLoop, Running, mainVars, taskVars, httpVars, platformVars, Run!Stop,
     IInv, TypeOK, MainInv, LoopInv, TrueOf, Run!Says
<1> QED
  BY <1>2, <1>3, <1>4, <1>5, <1>6, <1>7, <1>8, <1>9, <1>10, <1>11, <1>12, <1>13, <1>14,
     <1>15, <1>16 DEF Next, MainStep, SignalStep, SchedulerStep, ServerStep, CycleEnds,
     UpdateHealth, Serve

LEMMA NextHealthInv == IInv /\ [Next]_vars => HealthInv'
<1> SUFFICES ASSUME IInv, [Next]_vars PROVE HealthInv'
  OBVIOUS
<1>1. ASSUME UNCHANGED <<main, writing, step, request, health, shown, outcome,
      evidence>> PROVE HealthInv'
  BY <1>1 DEF IInv, HealthInv, NobodyReads
<1>2. CASE SendShutdown \/ PlatformStores \/ CloseServer \/ EndServer \/ UNCHANGED vars
  BY <1>2, <1>1 DEF SendShutdown, Alive, mainVars, httpVars, platformVars, Run!Signal,
     PlatformStores, taskVars, cycleVars, stateVars, CloseServer, EndServer, vars
<1>3. ASSUME NEW ok \in BOOLEAN, Bind(ok) PROVE HealthInv'
  BY <1>3, <1>1 DEF Bind, Alive, mainVars, cycleVars, stateVars, httpVars, platformVars
<1>4. ASSUME NEW ok \in BOOLEAN, LoadConfig(ok) PROVE HealthInv'
  BY <1>4 DEF LoadConfig, GoTo, ExitWith, taskVars, cycleVars, stateVars, httpVars,
     platformVars, IInv, TypeOK, MainInv, LoopInv, HealthInv, NobodyReads, RequestInv
<1>5. ASSUME NEW ok \in BOOLEAN, CreateCollector(ok) PROVE HealthInv'
  BY <1>5 DEF CreateCollector, GoTo, ExitWith, taskVars, cycleVars, stateVars, httpVars,
     platformVars, IInv, TypeOK, MainInv, LoopInv, HealthInv, NobodyReads, RequestInv
<1>6. ASSUME NEW ok \in BOOLEAN, ChooseMode(ok) PROVE HealthInv'
  BY <1>6 DEF ChooseMode, GoTo, ExitWith, taskVars, cycleVars, stateVars, httpVars,
     platformVars, IInv, TypeOK, MainInv, LoopInv, HealthInv, NobodyReads, RequestInv
<1>7. ASSUME NEW ok \in BOOLEAN, TestDatabase(ok) PROVE HealthInv'
  BY <1>7 DEF TestDatabase, GoTo, ExitWith, AfterDatabaseTest, taskVars, cycleVars,
     stateVars, httpVars, platformVars, IInv, TypeOK, MainInv, LoopInv, HealthInv,
     NobodyReads, RequestInv
<1>8. ASSUME NEW ok \in BOOLEAN, TestCloud(ok) PROVE HealthInv'
  BY <1>8 DEF TestCloud, ExitWith, taskVars, cycleVars, stateVars, httpVars,
     platformVars, IInv, TypeOK, MainInv, LoopInv, HealthInv, NobodyReads, RequestInv
<1>9. ASSUME NEW ok \in BOOLEAN, RunOnce(ok) PROVE HealthInv'
  BY <1>9 DEF RunOnce, ExitWith, DryRunUploads, taskVars, cycleVars, stateVars,
     httpVars, IInv, TypeOK, MainInv, LoopInv, HealthInv, NobodyReads, RequestInv
<1>10. ASSUME NEW ok \in BOOLEAN, SeedHealth(ok) PROVE HealthInv'
  <2>1. Complete(Seeded(ok)) /\ TrueOf(Seeded(ok), ok, FALSE)
    <3>1. CASE ok = TRUE
      BY <3>1 DEF Complete, TrueOf, Seeded, Run!Seeds, Run!Says
    <3>2. CASE ok = FALSE
      BY <3>2 DEF Complete, TrueOf, Seeded, Run!Seeds, Run!Says
    <3> QED BY <3>1, <3>2
  <2>2. step = "none"
    BY <1>10 DEF SeedHealth, IInv, MainInv, LoopInv
  <2>3. /\ health' = Seeded(ok) /\ shown' = Seeded(ok)
        /\ evidence' = [database |-> ok, platform |-> "unasked"]
        /\ UNCHANGED <<step, writing, request>>
    BY <1>10 DEF SeedHealth, cycleVars, httpVars
  <2> QED
    BY <2>1, <2>2, <2>3 DEF IInv, HealthInv, NobodyReads
<1>11. ASSUME NEW ok \in BOOLEAN, SpawnServer(ok) PROVE HealthInv'
  BY <1>11 DEF SpawnServer, GoTo, UnseenAtStart, stateVars, httpVars, platformVars,
     IInv, TypeOK, MainInv, LoopInv, HealthInv, NobodyReads, RequestInv
<1>12. CASE SpawnSignalTask
  BY <1>12 DEF SpawnSignalTask, GoTo, cycleVars, stateVars, httpVars, platformVars,
     IInv, TypeOK, MainInv, LoopInv, HealthInv, NobodyReads, RequestInv
<1>13. CASE Return
  BY <1>13 DEF Return, ExitWith, taskVars, cycleVars, stateVars, httpVars, platformVars,
     IInv, TypeOK, MainInv, LoopInv, HealthInv, NobodyReads, RequestInv
<1>14. ASSUME NEW ok \in BOOLEAN, InstallHandlers(ok) PROVE HealthInv'
  BY <1>14 DEF InstallHandlers, Alive, ExitWith, mainVars, cycleVars, stateVars,
     httpVars, platformVars, IInv, TypeOK, MainInv, LoopInv, HealthInv, NobodyReads,
     RequestInv
<1>15. CASE Signal
  BY <1>15 DEF Signal, Alive, ExitWith, mainVars, cycleVars, stateVars, httpVars,
     platformVars, IInv, TypeOK, MainInv, LoopInv, HealthInv, NobodyReads, RequestInv
<1>16. CASE BeginCycle
  BY <1>16 DEF BeginCycle, Running, LocksAtStart, mainVars, taskVars, httpVars,
     Run!Begin, IInv, TypeOK, MainInv, LoopInv, HealthInv, NobodyReads, RequestInv
<1>17. ASSUME NEW ok \in BOOLEAN, CollectEnds(ok) PROVE HealthInv'
  BY <1>17 DEF CollectEnds, Running, OutcomeOf, mainVars, taskVars, stateVars, httpVars,
     IInv, TypeOK, MainInv, LoopInv, HealthInv, NobodyReads, RequestInv
<1>18. ASSUME NEW ok \in BOOLEAN, UploadEnds(ok) PROVE HealthInv'
  BY <1>18 DEF UploadEnds, Running, OutcomeOf, mainVars, taskVars, stateVars, httpVars,
     platformVars, IInv, TypeOK, MainInv, LoopInv, HealthInv, NobodyReads, RequestInv
<1>19. CASE LockHealth
  BY <1>19 DEF LockHealth, Running, mainVars, taskVars, httpVars, platformVars, IInv,
     TypeOK, MainInv, LoopInv, HealthInv, NobodyReads, RequestInv
<1>20. CASE WriteConnected
  BY <1>20 DEF WriteConnected, Running, mainVars, taskVars, httpVars, platformVars,
     IInv, TypeOK, MainInv, LoopInv, HealthInv, NobodyReads, RequestInv
<1>21. CASE WriteStatus
  <2>1. health' = outcome
    <3>1. /\ health' = [health EXCEPT !.status = outcome.status, !.error = outcome.error]
          /\ health.connected = outcome.connected /\ health \in HealthStates
      BY <1>21, HealthTypes DEF WriteStatus, IInv, TypeOK, HealthInv
    <3>2. outcome = [status |-> outcome.status, connected |-> outcome.connected,
                     error |-> outcome.error]
      BY OutcomeFields DEF IInv
    <3>3. health' = [status |-> outcome.status, connected |-> outcome.connected,
                     error |-> outcome.error]
      BY <3>1 DEF HealthStates
    <3> QED BY <3>2, <3>3
  <2>2. Complete(outcome) /\ TrueOf(outcome, probed, ~stored)
    BY <1>21 DEF WriteStatus, IInv, TypeOK, LoopInv, Complete
  <2>3. /\ step' = "none" /\ shown' = outcome /\ writing' = FALSE
        /\ evidence' = [database |-> probed,
                        platform |-> IF stored THEN "stored" ELSE "nothing"]
    BY <1>21 DEF WriteStatus, Run!End
  <2>4. evidence'.platform = "nothing" <=> ~stored
    BY <2>3
  <2> QED
    BY <2>1, <2>2, <2>3, <2>4 DEF HealthInv, TrueOf
<1>22. CASE StopLoop
  BY <1>22 DEF StopLoop, Running, mainVars, taskVars, httpVars, platformVars, Run!Stop,
     IInv, TypeOK, MainInv, LoopInv, HealthInv, NobodyReads, RequestInv
<1>23. ASSUME NEW r \in Requests, Ask(r) PROVE HealthInv'
  BY <1>23 DEF Ask, Alive, mainVars, taskVars, cycleVars, stateVars, platformVars, IInv,
     TypeOK, MainInv, LoopInv, HealthInv, NobodyReads, RequestInv
<1>24. ASSUME NEW r \in Requests, ReadLock(r) PROVE HealthInv'
  BY <1>24 DEF ReadLock, Alive, MayRead, mainVars, taskVars, cycleVars, stateVars,
     platformVars, IInv, TypeOK, MainInv, LoopInv, HealthInv, NobodyReads, RequestInv
<1>25. ASSUME NEW r \in Requests, CopyStatus(r) PROVE HealthInv'
  BY <1>25 DEF CopyStatus, Alive, mainVars, taskVars, cycleVars, stateVars,
     platformVars, IInv, TypeOK, MainInv, LoopInv, HealthInv, NobodyReads, RequestInv
<1>26. ASSUME NEW r \in Requests, Answer(r) PROVE HealthInv'
  BY <1>26 DEF Answer, Alive, mainVars, taskVars, cycleVars, stateVars, platformVars,
     IInv, TypeOK, MainInv, LoopInv, HealthInv, NobodyReads, RequestInv
<1>27. ASSUME NEW r \in Requests, Respond(r) PROVE HealthInv'
  BY <1>27 DEF Respond, Alive, mainVars, taskVars, cycleVars, stateVars, platformVars,
     IInv, TypeOK, MainInv, LoopInv, HealthInv, NobodyReads, RequestInv
<1> QED
  BY <1>2, <1>3, <1>4, <1>5, <1>6, <1>7, <1>8, <1>9, <1>10, <1>11, <1>12, <1>13, <1>14,
     <1>15, <1>16, <1>17, <1>18, <1>19, <1>20, <1>21, <1>22, <1>23, <1>24, <1>25, <1>26,
     <1>27 DEF Next, MainStep, SignalStep, SchedulerStep, ServerStep, CycleEnds,
     UpdateHealth, Serve

LEMMA NextRequestInv == IInv /\ [Next]_vars => RequestInv'
<1> SUFFICES ASSUME IInv, [Next]_vars PROVE RequestInv'
  OBVIOUS
<1>1. ASSUME UNCHANGED <<request, server, answer, health>> PROVE RequestInv'
  BY <1>1 DEF IInv, RequestInv
<1>2. CASE SpawnSignalTask \/ Return \/ Signal \/ SendShutdown \/ BeginCycle \/
      PlatformStores \/ LockHealth \/ StopLoop \/ UNCHANGED vars
  BY <1>2, <1>1 DEF SpawnSignalTask, GoTo, cycleVars, stateVars, httpVars, platformVars,
     Return, ExitWith, taskVars, Signal, Alive, mainVars, SendShutdown, Run!Signal,
     BeginCycle, Run!Begin, PlatformStores, LockHealth, StopLoop, Run!Stop, vars
<1>3. ASSUME NEW ok \in BOOLEAN, LoadConfig(ok) \/ CreateCollector(ok) \/ ChooseMode(ok)
      \/ TestDatabase(ok) \/ TestCloud(ok) \/ RunOnce(ok) \/ InstallHandlers(ok) \/
      CollectEnds(ok) \/ UploadEnds(ok) PROVE RequestInv'
  BY <1>3, <1>1 DEF LoadConfig, GoTo, ExitWith, taskVars, cycleVars, stateVars,
     httpVars, platformVars, CreateCollector, ChooseMode, TestDatabase, TestCloud,
     RunOnce, InstallHandlers, Alive, mainVars, CollectEnds, UploadEnds
<1>4. ASSUME NEW ok \in BOOLEAN, SeedHealth(ok) PROVE RequestInv'
  BY <1>4 DEF SeedHealth, GoTo, Seeded, taskVars, cycleVars, httpVars, platformVars,
     IInv, TypeOK, MainInv, LoopInv, HealthInv, NobodyReads, RequestInv
<1>5. ASSUME NEW ok \in BOOLEAN, SpawnServer(ok) PROVE RequestInv'
  BY <1>5 DEF SpawnServer, GoTo, UnseenAtStart, stateVars, httpVars, platformVars, IInv,
     TypeOK, MainInv, LoopInv, HealthInv, NobodyReads, RequestInv
<1>6. CASE WriteConnected
  BY <1>6 DEF WriteConnected, Running, mainVars, taskVars, httpVars, platformVars, IInv,
     TypeOK, MainInv, LoopInv, HealthInv, NobodyReads, RequestInv
<1>7. CASE WriteStatus
  BY <1>7 DEF WriteStatus, Running, mainVars, taskVars, httpVars, platformVars, Run!End,
     IInv, TypeOK, MainInv, LoopInv, HealthInv, NobodyReads, RequestInv
<1>8. ASSUME NEW ok \in BOOLEAN, Bind(ok) PROVE RequestInv'
  BY <1>8 DEF Bind, Alive, mainVars, cycleVars, stateVars, httpVars, platformVars, IInv,
     TypeOK, MainInv, LoopInv, HealthInv, NobodyReads, RequestInv
<1>9. CASE CloseServer
  BY <1>9 DEF CloseServer, Alive, mainVars, cycleVars, stateVars, httpVars,
     platformVars, IInv, TypeOK, MainInv, LoopInv, HealthInv, NobodyReads, RequestInv
<1>10. CASE EndServer
  BY <1>10 DEF EndServer, Alive, mainVars, cycleVars, stateVars, httpVars, platformVars,
     IInv, TypeOK, MainInv, LoopInv, HealthInv, NobodyReads, RequestInv
<1>11. ASSUME NEW r \in Requests, Ask(r) PROVE RequestInv'
  BY <1>11 DEF Ask, Alive, mainVars, taskVars, cycleVars, stateVars, platformVars, IInv,
     TypeOK, MainInv, LoopInv, HealthInv, NobodyReads, RequestInv
<1>12. ASSUME NEW r \in Requests, ReadLock(r) PROVE RequestInv'
  BY <1>12 DEF ReadLock, Alive, MayRead, mainVars, taskVars, cycleVars, stateVars,
     platformVars, IInv, TypeOK, MainInv, LoopInv, HealthInv, NobodyReads, RequestInv
<1>13. ASSUME NEW r \in Requests, CopyStatus(r) PROVE RequestInv'
  BY <1>13 DEF CopyStatus, Alive, mainVars, taskVars, cycleVars, stateVars,
     platformVars, IInv, TypeOK, MainInv, LoopInv, HealthInv, NobodyReads, RequestInv
<1>14. ASSUME NEW r \in Requests, Answer(r) PROVE RequestInv'
  <2>1. Alive /\ server # "none" /\ ~writing
    BY <1>14 DEF Answer, IInv, RequestInv, HealthInv, NobodyReads
  <2>2. main = "running" /\ health = shown
    BY <2>1 DEF Alive, IInv, MainInv, HealthInv
  <2>3. Complete(health)
    BY <2>2 DEF IInv, HealthInv
  <2>4. answer'[r] = health
    <3>1. answer[r] \in HealthStates /\ health \in HealthStates /\ answer[r].status = health.status
      BY <1>14 DEF Answer, IInv, TypeOK, RequestInv
    <3>2. answer'[r] = [answer[r] EXCEPT !.error = health.error, !.connected = health.connected]
      BY <1>14 DEF Answer, IInv, TypeOK
    <3> QED BY <3>1, <3>2 DEF HealthStates
  <2>5. \A q \in Requests \ {r} : answer'[q] = answer[q] /\ request'[q] = request[q]
    BY <1>14 DEF Answer, IInv, TypeOK
  <2>6. request'[r] = "answered" /\ request[r] = "half" /\ UNCHANGED <<server, health>>
    BY <1>14 DEF Answer, taskVars, stateVars, IInv, TypeOK
  <2> QED
    BY <2>3, <2>4, <2>5, <2>6 DEF IInv, RequestInv
<1>15. ASSUME NEW r \in Requests, Respond(r) PROVE RequestInv'
  BY <1>15 DEF Respond, Alive, mainVars, taskVars, cycleVars, stateVars, platformVars,
     IInv, TypeOK, MainInv, LoopInv, HealthInv, NobodyReads, RequestInv
<1> QED
  BY <1>2, <1>3, <1>4, <1>5, <1>6, <1>7, <1>8, <1>9, <1>10, <1>11, <1>12, <1>13, <1>14,
     <1>15 DEF Next, MainStep, SignalStep, SchedulerStep, ServerStep, CycleEnds,
     UpdateHealth, Serve

-----------------------------------------------------------------------------
LEMMA Invariant == Spec => []IInv
<1>1. Init => IInv
  <2> SUFFICES ASSUME Init PROVE IInv
    OBVIOUS
  <2>1. TypeOK
    <3>1. outcome \in Run!Outcomes
      BY DEF Init, Run!Outcomes
    <3>2. [database |-> FALSE, platform |-> "unasked"] \in Evidence
      BY DEF Evidence
    <3>3. request \in [Requests -> {"idle", "asked", "reading", "half", "answered"}]
      BY DEF Init
    <3>4. answer \in [Requests -> HealthStates]
      BY HealthTypes DEF Init
    <3>5. /\ writing \in BOOLEAN /\ shutdown \in BOOLEAN /\ unseen \in BOOLEAN
          /\ stored \in BOOLEAN /\ requested \in BOOLEAN /\ probed \in BOOLEAN
      BY Zenon DEF Init
    <3> QED
      BY HealthTypes, <3>1, <3>2, <3>3, <3>4, <3>5 DEF Init, TypeOK
  <2>2. MainInv
    BY DEF Init, MainInv, ExitStatusIsTrue
  <2>3. LoopInv /\ HealthInv /\ RequestInv
    BY DEF Init, LoopInv, HealthInv, RequestInv, NobodyReads
  <2> QED
    BY <2>1, <2>2, <2>3 DEF IInv
<1>2. IInv /\ [Next]_vars => IInv'
  <2>1. IInv /\ [Next]_vars => TypeOK'
    BY NextTypeOK DEF IInv
  <2> QED
    BY <2>1, NextMainInv, NextLoopInv, NextHealthInv, NextRequestInv DEF IInv
<1> QED
  BY <1>1, <1>2, PTL DEF Spec

(* The process, its tasks, the health state and the copies of it that are     *)
(* under way have the declared types, whatever the number of requests.       *)
THEOREM AgentTypeCorrect == Spec => []TypeOK
BY Invariant, PTL DEF IInv

(* update_health writes field by field, health_handler clones field by field;  *)
(* the RwLock, and the seeding before the server is spawned, make every        *)
(* response one that an update left behind as a whole.                        *)
THEOREM HealthResponsesAreWhole == Spec => []ResponsesAreWhole
<1>1. IInv => ResponsesAreWhole
  BY DEF IInv, RequestInv, ResponsesAreWhole, Complete
<1> QED
  BY <1>1, Invariant, PTL

(* What a response says of the database and of the platform is what the last   *)
(* probe or cycle found there.                                               *)
THEOREM HealthAnswersAreTrue == Spec => AnswersAreTrue
<1>1. IInv /\ [Next]_vars =>
        [\A r \in Requests : Answer(r) =>
            /\ answer'[r].status = "ok" => evidence.database /\ evidence.platform # "nothing"
            /\ answer'[r].connected = evidence.database]_vars
  <2> SUFFICES ASSUME IInv, NEW r \in Requests, Answer(r)
               PROVE  /\ answer'[r].status = "ok" =>
                            evidence.database /\ evidence.platform # "nothing"
                      /\ answer'[r].connected = evidence.database
    OBVIOUS
  <2>1. Alive /\ server # "none" /\ ~writing /\ answer[r].status = health.status
    BY DEF Answer, IInv, RequestInv, HealthInv, NobodyReads
  <2>2. health = shown /\ main = "running"
    BY <2>1 DEF Alive, IInv, MainInv, HealthInv
  <2>3. TrueOf(health, evidence.database, evidence.platform = "nothing")
    BY <2>2 DEF IInv, HealthInv
  <2>4. answer[r] \in HealthStates
    BY DEF IInv, TypeOK
  <2>5. answer'[r] = [answer[r] EXCEPT !.error = health.error, !.connected = health.connected]
    BY DEF Answer, IInv, TypeOK
  <2>6. answer'[r].status = health.status /\ answer'[r].connected = health.connected
    BY <2>1, <2>4, <2>5 DEF HealthStates
  <2> QED
    BY <2>3, <2>6 DEF TrueOf
<1> QED
  BY <1>1, Invariant, PTL DEF Spec, AnswersAreTrue

(* main's exit status: success only when the loop was told to stop and left    *)
(* nothing half done, or a one-shot mode did what it is for; and no failure    *)
(* after the loop has begun is the process's.                                *)
THEOREM ExitStatusTrue == Spec => []ExitStatusIsTrue
<1>1. IInv => ExitStatusIsTrue
  BY DEF IInv, MainInv
<1> QED
  BY <1>1, Invariant, PTL
=============================================================================
