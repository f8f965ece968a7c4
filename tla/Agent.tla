------------------------------- MODULE Agent -------------------------------
(***************************************************************************)
(* The agent process: main of src/src/main.rs, the health server of        *)
(* src/src/health/mod.rs, the task that waits for signals, and the         *)
(* scheduler.  The scheduler is its promise, Loop, which Scheduler is      *)
(* shown to implement; what is added here is what a cycle leaves at the    *)
(* platform (Delivery's contract: Ok only when a copy is stored) and how   *)
(* it rewrites the health state, field by field under the RwLock, while    *)
(* requests read it.                                                       *)
(***************************************************************************)
EXTENDS Naturals

CONSTANTS
    Requests   \* the requests the health server works on at a time

VARIABLES
    main,      \* where main is
    mode,      \* the command line: "run", "dry" (--dry-run), "test" (--test-connection)
    exit,      \* how the process ended: "none", "ok", "error" or "killed"
    handlers,  \* the signal task: "none", "spawned", "installed", "notified", "done"
    server,    \* the health server: "none", "spawned", "listening", "closing", "ended"
    loop,      \* the scheduler, as in Loop
    step,      \* where the scheduler is within a cycle
    outcome,   \* CycleResult, as what the health state is to say of it
    health,    \* the fields of the shared HealthState
    writing,   \* update_health holds the write lock
    shutdown,  \* the value of the shutdown channel
    unseen,    \* the scheduler's receiver has not seen that value
    request,   \* per request: "idle", "asked", "reading", "half", "answered"
    answer,    \* per request: the fields copied so far
    stored,    \* the platform holds a copy of the current cycle's payload
    requested, \* history: requests the process has sent to the platform's ingest
    probed,    \* history: the last check of the database succeeded
    shown,     \* history: the health state as it was last left complete
    evidence   \* history: what `shown` rests on

mainVars == <<main, mode, exit>>
taskVars == <<handlers, server>>
cycleVars == <<loop, step, outcome, unseen>>
stateVars == <<health, writing, shown, evidence>>
httpVars == <<request, answer>>
platformVars == <<stored, requested>>
vars == <<mainVars, taskVars, cycleVars, stateVars, httpVars, platformVars, shutdown, probed>>

Run == INSTANCE Loop WITH at <- loop, signalled <- shutdown

Idle == Run!Says("ok", FALSE, "none")    \* HealthState::new

HealthStates == [status : {"ok", "degraded"}, connected : BOOLEAN,
                 error : {"none", "probe", "collection", "upload"}]
Evidence == [database : BOOLEAN, platform : {"unasked", "stored", "nothing"}]

TypeOK ==
    /\ main \in {"loading", "creating", "choosing", "testing", "pinging", "collecting",
                 "seeding", "spawning", "serving", "running", "exited"}
    /\ mode \in {"run", "dry", "test"}
    /\ exit \in {"none", "ok", "error", "killed"}
    /\ handlers \in {"none", "spawned", "installed", "notified", "done"}
    /\ server \in {"none", "spawned", "listening", "closing", "ended"}
    /\ loop \in {"starting", "cycling", "between", "stopped"}
    /\ step \in {"none", "collect", "upload", "record", "connected", "status"}
    /\ outcome \in Run!Outcomes
    /\ health \in HealthStates /\ shown \in HealthStates
    /\ writing \in BOOLEAN /\ shutdown \in BOOLEAN /\ unseen \in BOOLEAN
    /\ request \in [Requests -> {"idle", "asked", "reading", "half", "answered"}]
    /\ answer \in [Requests -> HealthStates]
    /\ stored \in BOOLEAN /\ requested \in BOOLEAN /\ probed \in BOOLEAN
    /\ evidence \in Evidence

-----------------------------------------------------------------------------
(* Decisions of the code, with the wrong variants the properties are tried on. *)

(* main: what the probe leaves in the health state.  The variant notes the   *)
(* failure only in database_connected.                                       *)
Seeded_KeepsStatus(ok) == [Idle EXCEPT !.connected = ok]
Seeded(ok) == IF ok THEN Run!Says("ok", TRUE, "none") ELSE Run!Says("degraded", FALSE, "probe")

(* health_handler reads under the lock.  The variant does not take it.       *)
MayRead_Unlocked == TRUE
MayRead == ~writing

(* update_health takes the lock when the cycle is over, for the time of its   *)
(* assignments.  The variant takes it when the cycle begins.                 *)
LocksAtStart_Early == TRUE
LocksAtStart == FALSE

(* Scheduler::new is given the channel's first receiver, which has seen the   *)
(* value the channel was made with.  The variant subscribes there and then.  *)
UnseenAtStart_Subscribes == FALSE
UnseenAtStart == shutdown

(* run_once only collects.  The variant runs a whole cycle's upload.         *)
DryRunUploads_Cycle == TRUE
DryRunUploads == FALSE

(* test_connections: what ends the test.  The variant only prints a database  *)
(* that cannot be reached.                                                   *)
AfterDatabaseTest_Prints(ok) == "pinging"
AfterDatabaseTest(ok) == IF ok THEN "pinging" ELSE "failed"

(* run: what the health state is to say of the cycle.  The variant takes an   *)
(* upload that failed for a success, the database having answered; the second *)
(* blames every failure on the upload.                                       *)
OutcomeOf_DatabaseOnly(collected, delivered) ==
    IF collected THEN Run!Says("ok", TRUE, "none")
    ELSE Run!Says("degraded", FALSE, "collection")
OutcomeOf_Confused(collected, delivered) ==
    IF collected /\ delivered THEN Run!Says("ok", TRUE, "none")
    ELSE Run!Says("degraded", collected, "upload")
OutcomeOf(collected, delivered) ==
    IF ~collected THEN Run!Says("degraded", FALSE, "collection")
    ELSE IF ~delivered THEN Run!Says("degraded", TRUE, "upload")
    ELSE Run!Says("ok", TRUE, "none")

-----------------------------------------------------------------------------
Init ==
    /\ main = "loading" /\ mode \in {"run", "dry", "test"} /\ exit = "none"
    /\ handlers = "none" /\ server = "none"
    /\ loop = "starting" /\ step = "none" /\ unseen = FALSE
    /\ outcome = Run!Says("degraded", FALSE, "collection")
    /\ health = Idle /\ shown = Idle /\ writing = FALSE
    /\ shutdown = FALSE
    /\ request = [r \in Requests |-> "idle"]
    /\ answer = [r \in Requests |-> Idle]
    /\ stored = FALSE /\ requested = FALSE /\ probed = FALSE
    /\ evidence = [database |-> FALSE, platform |-> "unasked"]

-----------------------------------------------------------------------------
(* main.                                                                   *)

Alive == main # "exited"

ExitWith(e) == main' = "exited" /\ exit' = e /\ UNCHANGED mode

GoTo(m) == main' = m /\ UNCHANGED <<mode, exit>>

(* load_config: what it accepts is the subject of Config. *)
LoadConfig(ok) ==
    /\ main = "loading"
    /\ IF ok THEN GoTo("creating") ELSE ExitWith("error")
    /\ UNCHANGED <<taskVars, cycleVars, stateVars, httpVars, platformVars, shutdown, probed>>

(* create_collector connects, or fails for good. *)
CreateCollector(ok) ==
    /\ main = "creating"
    /\ IF ok THEN GoTo("choosing") ELSE ExitWith("error")
    /\ UNCHANGED <<taskVars, cycleVars, stateVars, httpVars, platformVars, shutdown, probed>>

(* The mode is looked at; dry-run and run have made their uploader by then.  *)
ChooseMode(uploader) ==
    /\ main = "choosing"
    /\ IF mode = "test" THEN GoTo("testing")
       ELSE IF ~uploader THEN ExitWith("error")
       ELSE IF mode = "dry" THEN GoTo("collecting")
       ELSE GoTo("seeding")
    /\ UNCHANGED <<taskVars, cycleVars, stateVars, httpVars, platformVars, shutdown, probed>>

TestDatabase(ok) ==
    /\ main = "testing"
    /\ probed' = ok
    /\ IF AfterDatabaseTest(ok) = "pinging" THEN GoTo("pinging") ELSE ExitWith("error")
    /\ UNCHANGED <<taskVars, cycleVars, stateVars, httpVars, platformVars, shutdown>>

(* The uploader is made and sends its test request, which stores nothing. *)
TestCloud(ok) ==
    /\ main = "pinging"
    /\ ExitWith(IF ok THEN "ok" ELSE "error")
    /\ UNCHANGED <<taskVars, cycleVars, stateVars, httpVars, platformVars, shutdown, probed>>

(* Scheduler::run_once: a payload that cannot be printed is only logged. *)
RunOnce(ok) ==
    /\ main = "collecting"
    /\ probed' = ok
    /\ requested' = (requested \/ (ok /\ DryRunUploads))
    /\ ExitWith(IF ok THEN "ok" ELSE "error")
    /\ UNCHANGED <<taskVars, cycleVars, stateVars, httpVars, shutdown, stored>>

(* The health state is made and seeded from a probe; nobody else has it yet. *)
SeedHealth(ok) ==
    /\ main = "seeding"
    /\ probed' = ok
    /\ health' = Seeded(ok) /\ shown' = Seeded(ok)
    /\ evidence' = [database |-> ok, platform |-> "unasked"]
    /\ GoTo("spawning")
    /\ UNCHANGED <<taskVars, cycleVars, writing, httpVars, platformVars, shutdown>>

SpawnSignalTask ==
    /\ main = "spawning"
    /\ handlers' = "spawned"
    /\ GoTo("serving")
    /\ UNCHANGED <<server, cycleVars, stateVars, httpVars, platformVars, shutdown, probed>>

(* The server is spawned if the configuration enables it; run is entered. *)
SpawnServer(enabled) ==
    /\ main = "serving"
    /\ server' = IF enabled THEN "spawned" ELSE "none"
    /\ unseen' = UnseenAtStart
    /\ GoTo("running")
    /\ UNCHANGED <<handlers, loop, step, outcome, stateVars, httpVars, platformVars,
                   shutdown, probed>>

(* run has returned, and main does; the runtime goes, and every task with it. *)
Return ==
    /\ main = "running" /\ loop = "stopped"
    /\ ExitWith("ok")
    /\ UNCHANGED <<taskVars, cycleVars, stateVars, httpVars, platformVars, shutdown, probed>>

-----------------------------------------------------------------------------
(* The signal task.                                                        *)

(* The handlers are installed when the task is first polled; a failure is a   *)
(* panic, and that the end of the process (panic = abort).                   *)
InstallHandlers(ok) ==
    /\ Alive /\ handlers = "spawned"
    /\ IF ok
       THEN handlers' = "installed" /\ UNCHANGED mainVars
       ELSE ExitWith("killed") /\ UNCHANGED handlers
    /\ UNCHANGED <<server, cycleVars, stateVars, httpVars, platformVars, shutdown, probed>>

(* SIGINT or SIGTERM.  It kills the process until the handlers are in place;  *)
(* once one is handled, later ones are swallowed.                            *)
Signal ==
    /\ Alive
    /\ IF handlers \in {"none", "spawned"}
       THEN ExitWith("killed") /\ UNCHANGED handlers
       ELSE /\ handlers = "installed"
            /\ handlers' = "notified"
            /\ UNCHANGED mainVars
    /\ UNCHANGED <<server, cycleVars, stateVars, httpVars, platformVars, shutdown, probed>>

SendShutdown ==
    /\ Alive /\ handlers = "notified"
    /\ handlers' = "done"
    /\ Run!Signal
    /\ unseen' = TRUE
    /\ UNCHANGED <<mainVars, server, step, outcome, health, writing, evidence, httpVars,
                   platformVars, probed>>

-----------------------------------------------------------------------------
(* The scheduler.                                                          *)

Running == main = "running"

NobodyReads == \A r \in Requests : request[r] \notin {"reading", "half"}

BeginCycle ==
    /\ Running /\ step = "none"
    /\ Run!Begin
    /\ step' = "collect"
    /\ LocksAtStart => NobodyReads
    /\ writing' = LocksAtStart
    /\ stored' = FALSE
    /\ UNCHANGED <<mainVars, taskVars, outcome, unseen, health, evidence, httpVars,
                   requested, probed>>

(* Collector::collect returns. *)
CollectEnds(ok) ==
    /\ Running /\ step = "collect"
    /\ probed' = ok
    /\ IF ok
       THEN step' = "upload" /\ requested' = TRUE /\ UNCHANGED outcome
       ELSE step' = "record" /\ outcome' = OutcomeOf(FALSE, FALSE) /\ UNCHANGED requested
    /\ UNCHANGED <<mainVars, taskVars, loop, unseen, stateVars, httpVars, stored, shutdown>>

(* The platform stores the payload of the open call. *)
PlatformStores ==
    /\ Alive /\ step = "upload" /\ ~stored
    /\ stored' = TRUE
    /\ UNCHANGED <<mainVars, taskVars, cycleVars, stateVars, httpVars, requested, shutdown, probed>>

(* upload returns, Ok only when a copy is stored (Delivery). *)
UploadEnds(ok) ==
    /\ Running /\ step = "upload"
    /\ ok => stored
    /\ step' = "record"
    /\ outcome' = OutcomeOf(TRUE, ok)
    /\ UNCHANGED <<mainVars, taskVars, loop, unseen, stateVars, httpVars, platformVars,
                   shutdown, probed>>

(* update_health: the lock, database_connected, status and error, unlock. *)
LockHealth ==
    /\ Running /\ step = "record"
    /\ writing \/ NobodyReads
    /\ writing' = TRUE
    /\ step' = "connected"
    /\ UNCHANGED <<mainVars, taskVars, loop, outcome, unseen, health, shown, evidence, httpVars,
                   platformVars, shutdown, probed>>

WriteConnected ==
    /\ Running /\ step = "connected"
    /\ health' = [health EXCEPT !.connected = outcome.connected]
    /\ step' = "status"
    /\ UNCHANGED <<mainVars, taskVars, loop, outcome, unseen, writing, shown, evidence, httpVars,
                   platformVars, shutdown, probed>>

WriteStatus ==
    /\ Running /\ step = "status"
    /\ health' = [health EXCEPT !.status = outcome.status, !.error = outcome.error]
    /\ writing' = FALSE
    /\ step' = "none"
    /\ Run!End(outcome)
    /\ evidence' = [database |-> probed,
                    platform |-> IF stored THEN "stored" ELSE "nothing"]
    /\ UNCHANGED <<mainVars, taskVars, outcome, unseen, httpVars, platformVars, probed>>

(* select! takes the shutdown branch. *)
StopLoop ==
    /\ Running /\ step = "none" /\ unseen
    /\ Run!Stop
    /\ unseen' = FALSE
    /\ UNCHANGED <<mainVars, taskVars, step, outcome, health, writing, evidence, httpVars,
                   platformVars, probed>>

-----------------------------------------------------------------------------
(* The health server.                                                      *)

(* start_health_server: a bad address or a port in use only ends this task. *)
Bind(ok) ==
    /\ Alive /\ server = "spawned"
    /\ server' = IF ok THEN "listening" ELSE "ended"
    /\ UNCHANGED <<mainVars, handlers, cycleVars, stateVars, httpVars, platformVars, shutdown, probed>>

(* The graceful shutdown's future looks at the value, then waits for changes: *)
(* no new requests, but those accepted are still worked on.                  *)
CloseServer ==
    /\ Alive /\ server = "listening" /\ shutdown
    /\ server' = "closing"
    /\ UNCHANGED <<mainVars, handlers, cycleVars, stateVars, httpVars, platformVars, shutdown, probed>>

EndServer ==
    /\ Alive /\ server = "closing"
    /\ \A r \in Requests : request[r] = "idle"
    /\ server' = "ended"
    /\ UNCHANGED <<mainVars, handlers, cycleVars, stateVars, httpVars, platformVars, shutdown, probed>>

Ask(r) ==
    /\ Alive /\ server = "listening"
    /\ request[r] = "idle"
    /\ request' = [request EXCEPT ![r] = "asked"]
    /\ UNCHANGED <<mainVars, taskVars, cycleVars, stateVars, answer, platformVars, shutdown, probed>>

(* health_handler: the read lock, then the clone, field after field. *)
ReadLock(r) ==
    /\ Alive /\ request[r] = "asked" /\ MayRead
    /\ request' = [request EXCEPT ![r] = "reading"]
    /\ UNCHANGED <<mainVars, taskVars, cycleVars, stateVars, answer, platformVars, shutdown, probed>>

CopyStatus(r) ==
    /\ Alive /\ request[r] = "reading"
    /\ request' = [request EXCEPT ![r] = "half"]
    /\ answer' = [answer EXCEPT ![r].status = health.status]
    /\ UNCHANGED <<mainVars, taskVars, cycleVars, stateVars, platformVars, shutdown, probed>>

Answer(r) ==
    /\ Alive /\ request[r] = "half"
    /\ request' = [request EXCEPT ![r] = "answered"]
    /\ answer' = [answer EXCEPT ![r].error = health.error, ![r].connected = health.connected]
    /\ UNCHANGED <<mainVars, taskVars, cycleVars, stateVars, platformVars, shutdown, probed>>

(* The response is written to the client. *)
Respond(r) ==
    /\ Alive /\ request[r] = "answered"
    /\ request' = [request EXCEPT ![r] = "idle"]
    /\ answer' = [answer EXCEPT ![r] = Idle]
    /\ UNCHANGED <<mainVars, taskVars, cycleVars, stateVars, platformVars, shutdown, probed>>

-----------------------------------------------------------------------------
MainStep ==
    \/ \E ok \in BOOLEAN :
         LoadConfig(ok) \/ CreateCollector(ok) \/ ChooseMode(ok) \/ TestDatabase(ok)
         \/ TestCloud(ok) \/ RunOnce(ok) \/ SeedHealth(ok) \/ SpawnServer(ok)
    \/ SpawnSignalTask \/ Return

SignalStep == (\E ok \in BOOLEAN : InstallHandlers(ok)) \/ Signal \/ SendShutdown

CycleEnds == \E ok \in BOOLEAN : CollectEnds(ok) \/ UploadEnds(ok)

UpdateHealth == WriteConnected \/ WriteStatus

SchedulerStep ==
    BeginCycle \/ CycleEnds \/ PlatformStores \/ LockHealth \/ UpdateHealth \/ StopLoop

Serve(r) == CopyStatus(r) \/ Answer(r) \/ Respond(r)

ServerStep ==
    \/ \E ok \in BOOLEAN : Bind(ok)
    \/ CloseServer \/ EndServer
    \/ \E r \in Requests : Ask(r) \/ ReadLock(r) \/ Serve(r)

Next == MainStep \/ SignalStep \/ SchedulerStep \/ ServerStep

Spec == Init /\ [][Next]_vars

(* Tasks that can run do, and the RwLock serves those who wait in turn; at    *)
(* select! both branches get their chance.  Nothing obliges the database or   *)
(* the platform to answer, or anyone to ask or to signal.                    *)
Fairness ==
    /\ WF_vars(\E ok \in BOOLEAN : ChooseMode(ok) \/ SpawnServer(ok))
    /\ WF_vars(SpawnSignalTask) /\ WF_vars(Return)
    /\ WF_vars(\E ok \in BOOLEAN : InstallHandlers(ok)) /\ WF_vars(SendShutdown)
    /\ WF_vars(BeginCycle) /\ SF_vars(LockHealth) /\ WF_vars(UpdateHealth) /\ SF_vars(StopLoop)
    /\ WF_vars(\E ok \in BOOLEAN : Bind(ok)) /\ WF_vars(CloseServer) /\ WF_vars(EndServer)
    /\ \A r \in Requests : SF_vars(ReadLock(r)) /\ WF_vars(Serve(r))

FairSpec == Spec /\ Fairness

-----------------------------------------------------------------------------
(* Properties.                                                             *)

(* What a health response says was said by one update as a whole: the fields  *)
(* of two cycles, or those of HealthState::new, are never seen together.     *)
ResponsesAreWhole ==
    \A r \in Requests : request[r] = "answered" => answer[r] \in Run!Seeds \cup Run!Outcomes

(* A response says what is the case: "ok" when the last probe or collection   *)
(* succeeded and the platform, if there was a cycle, holds its payload;      *)
(* connected when the database answered last.  `evidence' changes with the    *)
(* update that publishes it.                                                 *)
AnswersAreTrue ==
    [][\A r \in Requests : Answer(r) =>
         /\ answer'[r].status = "ok" => evidence.database /\ evidence.platform # "nothing"
         /\ answer'[r].connected = evidence.database]_vars

(* The exit status tells what happened: success only after a shutdown that    *)
(* left no cycle unfinished, or a one-shot mode whose database answered and   *)
(* that ingested nothing; and nothing that fails once the loop has begun is   *)
(* an error of the process.                                                  *)
ExitStatusIsTrue ==
    /\ exit = "ok" => IF mode = "run" THEN shutdown /\ step = "none" /\ ~writing /\ health = shown
                      ELSE probed /\ ~requested
    /\ exit = "error" => loop = "starting" /\ ~requested

(* The health endpoint answers even while a collection or an upload hangs.    *)
RequestsAnswered ==
    \A r \in Requests : request[r] = "asked" ~> (request[r] = "answered" \/ ~Alive)

(* A handled signal ends the process, whenever it comes, if the database and  *)
(* the platform do not keep a cycle open for ever.                           *)
SignalEndsProcess ==
    ([]<>(step \notin {"collect", "upload"})) => (handlers = "notified" ~> ~Alive)
=============================================================================
