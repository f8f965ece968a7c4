----------------------------- MODULE Scheduler -----------------------------
(***************************************************************************)
(* Scheduler::run of src/src/scheduler/mod.rs: a jittered start, a first    *)
(* cycle of collection and upload, then a loop that waits for the interval  *)
(* timer or for the shutdown flag, whichever select! takes.  Each cycle     *)
(* rewrites the shared health state and spawns a detached heartbeat task.   *)
(*                                                                          *)
(* Time is relative: timers hold the ticks left, ages the ticks elapsed, so *)
(* that behaviours are infinite but states finite.  Timers are punctual; a  *)
(* collection or an upload may take any time up to CycleLimit.              *)
(***************************************************************************)
EXTENDS Integers, Sequences

CONSTANTS
    Period,            \* collection.interval
    MaxJitter,         \* the longest startup jitter
    CycleLimit,        \* bound: the longest a cycle lasts
    HeartbeatTimeout   \* UploaderConfig.timeout, for the heartbeat's request

ASSUME SchedulerAssumption ==
    /\ Period \in Nat \ {0} /\ MaxJitter \in Nat
    /\ CycleLimit \in Nat /\ HeartbeatTimeout \in Nat

VARIABLES
    pc,          \* "jitter", "collecting", "uploading", "recording", "waiting", "stopped"
    jitter,      \* what is left of the startup sleep
    due,         \* ticks until the interval's next deadline; negative: it is overdue
    spent,       \* how long the current cycle has lasted
    result,      \* CycleResult of the cycle that is ending, or has ended last
    health,      \* the shared HealthState
    heartbeats,  \* ages and statuses of the heartbeat requests in flight, oldest first
    shutdown,    \* value of the shutdown watch channel
    changed,     \* the scheduler's receiver has not seen the channel's value
    grid,        \* history: time since the interval was created, modulo Period
    starts,      \* history: ages of the last two cycle starts, the latest first
    recordedAgo, \* history: time since the last update_health
    lastBeat,    \* history: status of the heartbeat spawned last
    unrecorded   \* history: a cycle has begun that update_health has not seen yet

loopVars == <<pc, jitter, due, spent, result, health>>
historyVars == <<grid, starts, recordedAgo, lastBeat, unrecorded>>
vars == <<loopVars, heartbeats, shutdown, changed, historyVars>>

Results == [collected : BOOLEAN, uploadError : BOOLEAN]
Statuses == {"ok", "degraded"}
(* last_collection_error by its source; recorded: last_collection_time is set. *)
HealthStates == [status : Statuses, error : {"none", "probe", "collection", "upload"},
                 connected : BOOLEAN, recorded : BOOLEAN]
Heartbeats == [age : 0 .. HeartbeatTimeout, status : Statuses]

TypeOK ==
    /\ pc \in {"jitter", "collecting", "uploading", "recording", "waiting", "stopped"}
    /\ jitter \in 0 .. MaxJitter
    /\ due \in Int /\ due <= Period
    /\ spent \in 0 .. CycleLimit
    /\ result \in Results
    /\ health \in HealthStates
    /\ heartbeats \in Seq(Heartbeats)
    /\ shutdown \in BOOLEAN /\ changed \in BOOLEAN
    /\ grid \in 0 .. Period - 1
    /\ starts \in Seq(Nat) /\ Len(starts) <= 2
    /\ recordedAgo \in Nat
    /\ lastBeat \in Statuses \cup {"none"}
    /\ unrecorded \in BOOLEAN

-----------------------------------------------------------------------------
(* Decisions of the code, each an operator of its own, with the wrong        *)
(* variants the properties are tried on.                                     *)

(* Interval::poll_tick with MissedTickBehavior::Skip: a late tick moves the   *)
(* deadline to the next point of the grid.  Burst, tokio's default, would     *)
(* make up for every missed tick; Delay would restart the period now; the     *)
(* third variant skips a tick too many.                                       *)
NextDue_Burst == due + Period
NextDue_Delay == Period
NextDue_SkipsOneMore == 2 * Period - ((-due) % Period)
NextDue == Period - ((-due) % Period)

(* fire_heartbeat: the status sent.  The variant forgets failed collections. *)
HeartbeatStatus_UploadOnly == IF result.uploadError THEN "degraded" ELSE "ok"
HeartbeatStatus == IF result.uploadError \/ ~result.collected THEN "degraded" ELSE "ok"

(* update_health. *)
HealthAfter ==
    [status |-> IF result.uploadError \/ ~result.collected THEN "degraded" ELSE "ok",
     error |-> IF result.uploadError THEN "upload"
               ELSE IF ~result.collected THEN "collection" ELSE "none",
     connected |-> result.collected,
     recorded |-> TRUE]

(* run: a failed cycle does not end the loop.  The variant propagates it.    *)
AfterCycle_Propagates == IF result.uploadError THEN "stopped" ELSE "waiting"
AfterCycle == "waiting"

(* run: the places where select! looks at the shutdown channel.  The variant *)
(* races the whole cycle against it.                                         *)
StopPoints_RaceCycle == {"collecting", "uploading", "waiting"}
StopPoints == {"waiting"}

(* run: a cycle does not touch the shutdown receiver.  The variant marks the *)
(* channel's value as seen when a cycle begins.                              *)
ChangedAfterStart_MarksSeen == FALSE
ChangedAfterStart == changed

(* fire_heartbeat uses the uploader's client, whose timeout bounds the task. *)
(* The variant has a client without timeout.                                 *)
HeartbeatMayAge(h) == h.age < HeartbeatTimeout

-----------------------------------------------------------------------------
(* main seeds the health state from a probe before it starts the scheduler. *)
SeededHealth ==
    {[status |-> "ok", error |-> "none", connected |-> TRUE, recorded |-> FALSE],
     [status |-> "degraded", error |-> "probe", connected |-> FALSE, recorded |-> FALSE]}

Init ==
    /\ pc = "jitter" /\ jitter \in 0 .. MaxJitter
    /\ due = 0 /\ spent = 0
    /\ result = [collected |-> FALSE, uploadError |-> FALSE]
    /\ health \in SeededHealth
    /\ heartbeats = <<>>
    /\ shutdown = FALSE /\ changed = FALSE
    /\ grid = 0 /\ starts = <<>> /\ recordedAgo = 0 /\ lastBeat = "none"
    /\ unrecorded = FALSE

(* collect_and_upload is entered. *)
StartCycle ==
    /\ pc' = "collecting"
    /\ spent' = 0
    /\ starts' = IF starts = <<>> THEN <<0>> ELSE <<0, starts[1]>>
    /\ changed' = ChangedAfterStart
    /\ unrecorded' = TRUE

(* The jitter sleep is over: the interval is created, its first deadline     *)
(* being now, and the first cycle starts.                                    *)
BeginRun ==
    /\ pc = "jitter" /\ jitter = 0
    /\ due' = 0
    /\ grid' = 0
    /\ StartCycle
    /\ UNCHANGED <<jitter, result, health, heartbeats, shutdown, recordedAgo, lastBeat>>

(* select! takes the interval's branch. *)
TickFires ==
    /\ pc = "waiting" /\ due <= 0
    /\ due' = NextDue
    /\ StartCycle
    /\ UNCHANGED <<jitter, result, health, heartbeats, shutdown, grid, recordedAgo, lastBeat>>

(* Collector::collect returns: without a payload there is no upload. *)
CollectEnds(ok) ==
    /\ pc = "collecting"
    /\ IF ok
       THEN /\ pc' = "uploading"
            /\ UNCHANGED result
       ELSE /\ pc' = "recording"
            /\ result' = [collected |-> FALSE, uploadError |-> FALSE]
    /\ UNCHANGED <<jitter, due, spent, health, heartbeats, shutdown, changed, historyVars>>

(* Upload::upload returns. *)
UploadEnds(ok) ==
    /\ pc = "uploading"
    /\ pc' = "recording"
    /\ result' = [collected |-> TRUE, uploadError |-> ~ok]
    /\ UNCHANGED <<jitter, due, spent, health, heartbeats, shutdown, changed, historyVars>>

(* update_health and fire_heartbeat.  The health lock is held by readers only *)
(* while they copy the state, so it is taken at once.                         *)
RecordCycle ==
    /\ pc = "recording"
    /\ health' = HealthAfter
    /\ heartbeats' = Append(heartbeats, [age |-> 0, status |-> HeartbeatStatus])
    /\ pc' = AfterCycle
    /\ recordedAgo' = 0
    /\ lastBeat' = HeartbeatStatus
    /\ unrecorded' = FALSE
    /\ UNCHANGED <<jitter, due, spent, result, shutdown, changed, grid, starts>>

(* select! takes the shutdown branch; it is taken at random when a tick is   *)
(* ready too.                                                                *)
ObserveShutdown ==
    /\ pc \in StopPoints /\ changed
    /\ changed' = FALSE
    /\ IF shutdown THEN pc' = "stopped" ELSE UNCHANGED pc
    /\ UNCHANGED <<jitter, due, spent, result, health, heartbeats, shutdown, historyVars>>

(* The signal task sends true, once. *)
SignalShutdown ==
    /\ pc # "stopped" /\ ~shutdown
    /\ shutdown' = TRUE /\ changed' = TRUE
    /\ UNCHANGED <<loopVars, heartbeats, historyVars>>

(* A heartbeat's request is answered, fails or times out: its task ends. *)
HeartbeatEnds(i) ==
    /\ pc # "stopped"
    /\ heartbeats' = [j \in 1 .. Len(heartbeats) - 1 |->
                         IF j < i THEN heartbeats[j] ELSE heartbeats[j + 1]]
    /\ UNCHANGED <<loopVars, shutdown, changed, historyVars>>

(* Whether the loop, which is due to do something, lets time pass. *)
LoopIdle ==
    \/ pc = "jitter" /\ jitter > 0
    \/ pc \in {"collecting", "uploading"} /\ spent < CycleLimit
    \/ pc = "waiting" /\ due > 0 /\ ~changed

Tick ==
    /\ LoopIdle
    /\ \A i \in DOMAIN heartbeats : HeartbeatMayAge(heartbeats[i])
    /\ heartbeats' = [i \in DOMAIN heartbeats |-> [heartbeats[i] EXCEPT !.age = @ + 1]]
    /\ jitter' = IF pc = "jitter" THEN jitter - 1 ELSE jitter
    /\ due' = IF pc = "jitter" THEN due ELSE due - 1
    /\ spent' = IF pc \in {"collecting", "uploading"} THEN spent + 1 ELSE spent
    /\ grid' = IF pc = "jitter" THEN grid ELSE (grid + 1) % Period
    /\ starts' = [i \in DOMAIN starts |-> starts[i] + 1]
    /\ recordedAgo' = IF health.recorded THEN recordedAgo + 1 ELSE recordedAgo
    /\ UNCHANGED <<pc, result, health, shutdown, changed, lastBeat, unrecorded>>

CycleStep == \E ok \in BOOLEAN : CollectEnds(ok) \/ UploadEnds(ok)

Next ==
    \/ BeginRun \/ TickFires
    \/ \E ok \in BOOLEAN : CollectEnds(ok)
    \/ \E ok \in BOOLEAN : UploadEnds(ok)
    \/ RecordCycle \/ ObserveShutdown \/ SignalShutdown
    \/ \E i \in DOMAIN heartbeats : HeartbeatEnds(i)
    \/ Tick

Spec == Init /\ [][Next]_vars

(* A ready task is polled, time passes, heartbeat tasks end, and collections *)
(* and uploads return.  select! draws its branch at random, so a shutdown    *)
(* branch that is ready again and again is taken: strong fairness.  Nothing  *)
(* obliges anyone to signal.                                                 *)
Fairness ==
    /\ WF_vars(BeginRun) /\ WF_vars(TickFires) /\ WF_vars(RecordCycle) /\ WF_vars(Tick)
    /\ WF_vars(CycleStep)
    /\ WF_vars(\E i \in DOMAIN heartbeats : HeartbeatEnds(i))
    /\ SF_vars(ObserveShutdown)

FairSpec == Spec /\ Fairness

-----------------------------------------------------------------------------
(* Properties.                                                             *)

(* A late loop does not make up for the ticks it missed: any three cycles in *)
(* a row span at least a period, so at most one cycle follows another early. *)
(* `starts` holds the two cycles before the one that TickFires starts.       *)
NoBurst == [][TickFires /\ Len(starts) = 2 => starts[2] >= Period]_vars

(* However late the ticks are taken, the deadlines stay on the grid that     *)
(* starts when the interval is created.                                      *)
TicksOnGrid == pc # "jitter" => (due + grid) % Period = 0

(* Once a cycle is over, the health endpoint and the heartbeat tell the same *)
(* story, and it is that of the cycle: degraded exactly when something       *)
(* failed, disconnected exactly when the database did.                       *)
HealthAgreesWithHeartbeat ==
    pc \in {"waiting", "stopped"} =>
        /\ health.status = lastBeat
        /\ health.connected = result.collected
        /\ (health.status = "ok") <=> (result.collected /\ ~result.uploadError)
        /\ (health.error = "none") <=> (health.status = "ok")

(* While collections return, the health state is never older than a period   *)
(* and a cycle.                                                              *)
HealthNeverStale == recordedAgo <= Period + CycleLimit

(* Shutdown is graceful: a cycle that has begun is recorded, and its         *)
(* heartbeat spawned, before run returns.                                    *)
CycleCompletesBeforeExit == pc = "stopped" => ~unrecorded

(* A shutdown signal, whenever it comes, ends the loop: it is not lost       *)
(* during the jitter sleep or a cycle.                                       *)
ShutdownStops == shutdown ~> (pc = "stopped")

(* Failed collections and uploads do not end the loop: until someone signals *)
(* there is always another cycle.                                            *)
KeepsCollecting == []<>(pc = "collecting" \/ shutdown)

(* run is the loop the rest of the agent counts on: the health state changes *)
(* only when a cycle ends and then says what became of that cycle, nothing is *)
(* half done when the loop stops, and it stops only when it is told to.      *)
At ==
    IF pc = "jitter" THEN "starting"
    ELSE IF pc = "waiting" THEN "between"
    ELSE IF pc = "stopped" THEN "stopped" ELSE "cycling"

Shown == [status |-> health.status, connected |-> health.connected, error |-> health.error]

Promise == INSTANCE Loop WITH at <- At, shown <- Shown, signalled <- shutdown

ImplementsLoop == Promise!Spec

(* Cycles start no closer than the configured interval. *)
StartsSpaced == [][TickFires /\ Len(starts) > 0 => starts[1] >= Period]_vars
=============================================================================
