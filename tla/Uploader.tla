------------------------------ MODULE Uploader ------------------------------
(***************************************************************************)
(* Uploader::upload of src/src/uploader/mod.rs: the retry loop that sends  *)
(* one payload to the platform, with exponential backoff, Retry-After and  *)
(* a signature made afresh for each attempt, together with the network and *)
(* the platform it talks to.  The scheduler calls upload again and again,  *)
(* never twice at once.                                                    *)
(*                                                                         *)
(* Time is a discrete clock.  It stops only where a timer of the agent or  *)
(* the life of a request in the network is due, so timers are punctual.    *)
(* Payloads are their call numbers; HTTP headers are left out, except the  *)
(* signature's timestamp and Retry-After.                                  *)
(***************************************************************************)
EXTENDS Integers, Sequences, FiniteSets

CONSTANTS
    MaxCalls,        \* bound: how many times the scheduler calls upload
    MaxRetries,      \* UploaderConfig.max_retries
    InitialDelay,    \* UploaderConfig.initial_retry_delay
    RequestTimeout,  \* UploaderConfig.timeout, a bound on the whole exchange
    TransitLimit,    \* bound: the longest a request lives in the network
    Window,          \* age at which the platform refuses a signature
    Statuses,        \* the HTTP statuses the platform answers with
    RetryAfters,     \* the Retry-After values, in seconds, it may send
    NoSeconds        \* a Retry-After that is absent or not a number

ASSUME UploaderAssumption ==
    /\ MaxCalls \in Nat \ {0} /\ MaxRetries \in Nat
    /\ InitialDelay \in Nat /\ RequestTimeout \in Nat \ {0}
    /\ TransitLimit \in Nat /\ Window \in Nat
    /\ Statuses \subseteq Nat \ {0}
    /\ RetryAfters \subseteq Nat /\ IsFiniteSet(RetryAfters)   \* they are u64
    /\ NoSeconds \notin Nat

(* The platform's window is wider than any request's life in the network. *)
ASSUME WindowAssumption == TransitLimit <= Window

VARIABLES
    now,         \* the clock
    pc,          \* "idle" (no call), "sending" or "sleeping" (between attempts)
    call,        \* number of the current, or the last, call of upload
    attempt,     \* loop variable: the attempt being made or slept for
    retryDelay,  \* retry_delay
    lastError,   \* last_error
    deadline,    \* when the request times out, or the sleep ends
    results,     \* what each call returned: an outcome, or "pending"
    network,     \* requests on their way to the platform
    answer,      \* the platform's answer on the open exchange, if any
    copies,      \* per call: the attempts of which the platform stored the payload
    tries        \* history of the current call's attempts, for the properties

clientVars == <<pc, call, attempt, retryDelay, lastError, deadline, results, tries>>
vars == <<now, clientVars, network, answer, copies>>

Calls == 1 .. MaxCalls
Attempts == 0 .. MaxRetries

(* UploaderError as upload can return it.  MaxRetriesExceeded is not here,   *)
(* since the loop body runs at least once and sets last_error, nor            *)
(* SerializationError, since every Payload has a JSON form.                   *)
Errors == {"RequestError", "ServerError", "RateLimited", "AuthError"}
Outcomes == Errors \cup {"Ok"}

Requests == [call : Calls, attempt : Attempts, signedAt : Nat, sentAt : Nat]

(* One attempt: when it was sent and when it ended, the status it was        *)
(* answered with (NoStatus: it was not, or not yet) and the Retry-After.     *)
NoStatus == 0
Answers == [status : Nat, retryAfter : Nat \cup {NoSeconds}]
NoAnswer == [status |-> NoStatus, retryAfter |-> NoSeconds]
Tries == [sentAt : Nat, endedAt : Nat, status : Nat, retryAfter : Nat \cup {NoSeconds}]

TypeOK ==
    /\ now \in Nat
    /\ pc \in {"idle", "sending", "sleeping"}
    /\ call \in 0 .. MaxCalls
    /\ attempt \in Attempts
    /\ retryDelay \in Nat
    /\ lastError \in Errors \cup {"None"}
    /\ deadline \in Nat
    /\ results \in [Calls -> Outcomes \cup {"pending"}]
    /\ network \subseteq Requests
    /\ answer \in Answers
    /\ copies \in [Calls -> SUBSET Attempts]
    /\ tries \in Seq(Tries)

-----------------------------------------------------------------------------
(* Decisions of the code, each an operator of its own.                     *)

(* send_request: the statuses that mean success.  One variant forgets 202,  *)
(* the other takes every answer below 500 for a success.                    *)
SuccessStatuses_Forgets202 == {200, 201}
SuccessStatuses_Below500 == 200 .. 499
SuccessStatuses == {200, 201, 202}

(* send_request: the result of one attempt. *)
Outcome(status) ==
    CASE status = NoStatus -> "RequestError"
      [] status \in SuccessStatuses -> "Ok"
      [] status \in {401, 403} -> "AuthError"
      [] status = 429 -> "RateLimited"
      [] OTHER -> "ServerError"

(* upload: an authentication error ends the call at once.  The variant      *)
(* treats it like any other failure.                                        *)
Retryable_AuthToo(outcome) == TRUE
Retryable(outcome) == outcome # "AuthError"

(* upload: the range 0..=max_retries.  The variant makes one attempt more   *)
(* when the platform asks for patience.                                     *)
AttemptsLeft_PatienceIsFree(retryAfter) == attempt < MaxRetries \/ retryAfter \in Nat
AttemptsLeft(retryAfter) == attempt < MaxRetries

(* upload: the delay before the next attempt after a failure.  In the       *)
(* variant Retry-After may only lengthen it.                                *)
DelayAfter_NeverShorter(outcome, retryAfter) ==
    IF outcome = "RateLimited" /\ retryAfter \in Nat /\ retryAfter > retryDelay
    THEN retryAfter ELSE retryDelay
DelayAfter(outcome, retryAfter) ==
    IF outcome = "RateLimited" /\ retryAfter \in Nat THEN retryAfter ELSE retryDelay

(* upload: retry_delay *= 2, after the sleep.  The variant squares what the *)
(* backoff adds.                                                            *)
Doubled_Quadruples == 4 * retryDelay
Doubled == 2 * retryDelay

(* signed_post: the signature's timestamp is the time of this attempt.  The *)
(* variant signs once, before the loop.                                     *)
SigningTime_Once == IF pc = "sleeping" THEN tries[1].sentAt ELSE now
SigningTime == now

(* upload: the error to report is the last attempt's.  The variant keeps    *)
(* the first one.                                                           *)
ErrorToReport_First(outcome) == IF lastError = "None" THEN outcome ELSE lastError
ErrorToReport(outcome) == outcome

-----------------------------------------------------------------------------
Init ==
    /\ now = 0
    /\ pc = "idle" /\ call = 0 /\ attempt = 0 /\ retryDelay = InitialDelay
    /\ lastError = "None" /\ deadline = 0
    /\ results = [c \in Calls |-> "pending"]
    /\ network = {} /\ answer = NoAnswer
    /\ copies = [c \in Calls |-> {}]
    /\ tries = <<>>

(* signed_post and send: sign, put the request on the wire, start the       *)
(* client's timeout.                                                        *)
Dispatch(c, a) ==
    /\ network' = network \cup
          {[call |-> c, attempt |-> a, signedAt |-> SigningTime, sentAt |-> now]}
    /\ pc' = "sending"
    /\ deadline' = now + RequestTimeout

OpenTry == [sentAt |-> now, endedAt |-> now, status |-> NoStatus, retryAfter |-> NoSeconds]

(* The scheduler calls upload with a new payload: attempt 0 is sent. *)
Upload ==
    /\ pc = "idle" /\ call < MaxCalls
    /\ call' = call + 1
    /\ attempt' = 0
    /\ retryDelay' = InitialDelay
    /\ lastError' = "None"
    /\ Dispatch(call + 1, 0)
    /\ tries' = <<OpenTry>>
    /\ UNCHANGED <<now, results, answer, copies>>

(* The sleep is over: the delay doubles, the next attempt is signed and sent. *)
Retry ==
    /\ pc = "sleeping" /\ now = deadline
    /\ retryDelay' = Doubled
    /\ Dispatch(call, attempt)
    /\ tries' = Append(tries, OpenTry)
    /\ UNCHANGED <<now, call, attempt, lastError, results, answer, copies>>

(* The open attempt ends: its exchange is closed, so an answer not yet read  *)
(* is lost.                                                                  *)
CloseTry(status, retryAfter) ==
    /\ answer' = NoAnswer
    /\ tries' = [tries EXCEPT ![Len(tries)] =
          [@ EXCEPT !.endedAt = now, !.status = status, !.retryAfter = retryAfter]]

Return(outcome) ==
    /\ pc' = "idle"
    /\ results' = [results EXCEPT ![call] = outcome]
    /\ UNCHANGED <<attempt, deadline>>

(* The loop continues with the next attempt, or ends with last_error. *)
RetryOrGiveUp(outcome, retryAfter) ==
    /\ retryDelay' = DelayAfter(outcome, retryAfter)
    /\ lastError' = ErrorToReport(outcome)
    /\ IF AttemptsLeft(retryAfter)
       THEN /\ pc' = "sleeping"
            /\ attempt' = attempt + 1
            /\ deadline' = now + DelayAfter(outcome, retryAfter)
            /\ UNCHANGED results
       ELSE Return(ErrorToReport(outcome))

(* The loop body's match on the result of send_request. *)
AttemptEnds(status, retryAfter) ==
    LET outcome == Outcome(status)
    IN  /\ CloseTry(status, retryAfter)
        /\ IF outcome # "Ok" /\ Retryable(outcome)
           THEN RetryOrGiveUp(outcome, retryAfter)
           ELSE Return(outcome) /\ UNCHANGED <<retryDelay, lastError>>
        /\ UNCHANGED <<now, call, network, copies>>

(* The answer arrives before the timeout. *)
ReceiveAnswer ==
    /\ pc = "sending" /\ answer # NoAnswer
    /\ AttemptEnds(answer.status, answer.retryAfter)

(* The connection breaks while the exchange is open, before or after the     *)
(* platform saw the request.                                                 *)
ConnectionFails ==
    /\ pc = "sending" /\ now < deadline
    /\ AttemptEnds(NoStatus, NoSeconds)

(* The client's timeout closes the exchange.  In the variant the client was  *)
(* built without one.                                                        *)
TimesOut_NoTimeout == FALSE
TimesOut ==
    /\ pc = "sending" /\ now = deadline
    /\ AttemptEnds(NoStatus, NoSeconds)

-----------------------------------------------------------------------------
(* The network and the platform, which are not part of the repository.     *)

(* The platform refuses a signature older than its window.  An accepted     *)
(* payload is stored; behind a failing gateway (5xx) it may be stored too.  *)
(* The answer reaches the agent only if the exchange is still open.         *)
PlatformHandles(r, status, stored) ==
    /\ IF now - r.signedAt > Window THEN status = 401 ELSE status \in Statuses
    /\ \/ stored /\ status \in {200, 201, 202} \cup 500 .. 599
       \/ ~stored /\ status \notin {200, 201, 202}
    /\ network' = network \ {r}
    /\ copies' = IF stored THEN [copies EXCEPT ![r.call] = @ \cup {r.attempt}] ELSE copies
    /\ IF pc = "sending" /\ r.call = call /\ r.attempt = attempt
       THEN \E ra \in IF status = 429 THEN RetryAfters \cup {NoSeconds} ELSE {NoSeconds} :
                answer' = [status |-> status, retryAfter |-> ra]
       ELSE UNCHANGED answer
    /\ UNCHANGED <<now, clientVars>>

RequestLost(r) ==
    /\ network' = network \ {r}
    /\ UNCHANGED <<now, clientVars, answer, copies>>

(* Time passes while there is something to wait for, but not past a timer   *)
(* that is due.                                                             *)
Tick ==
    /\ pc # "idle" \/ network # {}
    /\ pc # "idle" => now < deadline
    /\ \A r \in network : now < r.sentAt + TransitLimit
    /\ now' = now + 1
    /\ UNCHANGED <<clientVars, network, answer, copies>>

-----------------------------------------------------------------------------
Platform ==
    \E r \in network :
        \/ \E status \in Statuses \cup {401}, stored \in BOOLEAN : PlatformHandles(r, status, stored)
        \/ RequestLost(r)

Next ==
    \/ Upload \/ Retry \/ ReceiveAnswer \/ ConnectionFails \/ TimesOut
    \/ Platform
    \/ Tick

Spec == Init /\ [][Next]_vars

(* The executor polls the upload task when its timer fires; the clock runs;  *)
(* a request does not stay in the network for ever.  Nothing obliges the     *)
(* platform to answer, nor the scheduler to call again.                      *)
Fairness == WF_vars(Retry) /\ WF_vars(TimesOut) /\ WF_vars(Tick) /\ WF_vars(Platform)

FairSpec == Spec /\ Fairness

-----------------------------------------------------------------------------
(* Properties.                                                             *)

(* Every request that may still reach the platform carries a signature the  *)
(* platform accepts, however long the backoff or Retry-After sleeps were:    *)
(* signed_post signs each attempt, not each call.                           *)
SignaturesStayFresh == \A r \in network : now - r.signedAt <= Window

(* The platform holds a payload twice only in doubt: a stored attempt was     *)
(* retried because its acceptance never reached the agent, not because the   *)
(* agent took an acceptance for a failure.                                   *)
DuplicatesOnlyInDoubt ==
    call > 0 => \A a \in copies[call] :
        a + 1 < Len(tries) => tries[a + 1].status \notin {200, 201, 202}

(* Credentials the platform refused are not tried again: the call ends with  *)
(* AuthError at once.                                                        *)
RefusalIsFinal ==
    \A i \in 1 .. Len(tries) : tries[i].status \in {401, 403} =>
        i = Len(tries) /\ pc = "idle" /\ results[call] = "AuthError"

(* The wait between two attempts is what the failed one asked for with       *)
(* Retry-After, and otherwise twice the wait before (at first, the initial   *)
(* delay): the delay survives the loop iterations as intended.               *)
Wait(i) == tries[i + 1].sentAt - tries[i].endedAt
Due(i) == IF tries[i].retryAfter \in Nat THEN tries[i].retryAfter
          ELSE IF i = 1 THEN InitialDelay ELSE 2 * Wait(i - 1)
BackoffSchedule == \A i \in 1 .. Len(tries) - 1 : Wait(i) = Due(i)

(* upload reports the failure of its last attempt, and reports a retryable   *)
(* failure only after max_retries retries.                                   *)
ReportsLastFailure ==
    pc = "idle" /\ call > 0 =>
        /\ results[call] = Outcome(tries[Len(tries)].status)
        /\ results[call] \notin {"Ok", "AuthError"} => Len(tries) = MaxRetries + 1

(* A call lasts no longer than its timeouts and the longest backoff: the     *)
(* greatest first delay, doubled before each further retry.                  *)
LongestDelay == CHOOSE d \in RetryAfters \cup {InitialDelay} :
                    \A e \in RetryAfters \cup {InitialDelay} : e <= d
UploadBounded ==
    Len(tries) > 0 =>
        tries[Len(tries)].endedAt - tries[1].sentAt
            <= (MaxRetries + 1) * RequestTimeout + LongestDelay * (2 ^ MaxRetries - 1)

(* Every call returns, although the platform may never answer: the request   *)
(* timeout and the bounded number of attempts see to it.                     *)
EveryUploadReturns == (pc # "idle") ~> (pc = "idle")

(* The calls as Delivery sees them. *)
PhaseOf(c) ==
    CASE c > call -> "new"
      [] c <= call /\ results[c] = "pending" -> "open"
      [] c <= call /\ results[c] = "Ok" -> "ok"
      [] OTHER -> "failed"
Phase == [c \in Calls |-> PhaseOf(c)]

DeliveryView == INSTANCE Delivery WITH phase <- Phase

(* The retry loop delivers as Delivery promises. *)
ImplementsDelivery == DeliveryView!Spec
=============================================================================
