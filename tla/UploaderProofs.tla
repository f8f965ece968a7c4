--------------------------- MODULE UploaderProofs ---------------------------
(* Theorems about Uploader, for every value of its constants. *)
EXTENDS Uploader, Recursion, SequenceTheorems, TLAPS

-----------------------------------------------------------------------------
(* Type correctness.                                                       *)

(* The type invariant alone is not inductive: RetryOrGiveUp writes the last  *)
(* element of tries, which must exist while an attempt is open.              *)
TriesShape ==
    /\ pc # "idle" => call \in Calls
    /\ pc = "sending" => Len(tries) = attempt + 1
    /\ pc = "sleeping" => Len(tries) = attempt

TInv == TypeOK /\ TriesShape

LEMMA OutcomeType ==
    ASSUME NEW s \in Nat
    PROVE  Outcome(s) \in Outcomes
BY DEF Outcome, Outcomes, Errors

(* Rewriting the last element of a sequence keeps its length and its type. *)
LEMMA LastRewritten ==
    ASSUME NEW S, NEW q \in Seq(S), q # <<>>, NEW e \in S
    PROVE  LET p == [q EXCEPT ![Len(q)] = e]
           IN  /\ p \in Seq(S) /\ Len(p) = Len(q) /\ p[Len(p)] = e
               /\ \A i \in 1 .. Len(q) - 1 : p[i] = q[i]
BY ExceptSeq, Len(q) \in 1 .. Len(q)

LEMMA InitTInv == Init => TInv
BY UploaderAssumption
   DEF Init, TInv, TypeOK, TriesShape, Calls, Attempts, Answers, NoAnswer, NoStatus,
       Tries, Errors, Outcomes

LEMMA AttemptEndsTInv ==
    ASSUME TInv, pc = "sending",
           NEW s \in Nat, NEW ra \in Nat \cup {NoSeconds},
           AttemptEnds(s, ra)
    PROVE  TInv'
<1> DEFINE o == Outcome(s)
<1> USE UploaderAssumption
<1>1. o \in Outcomes
  BY OutcomeType
<1>2. /\ now' = now /\ call' = call /\ network' = network /\ copies' = copies
      /\ answer' \in Answers
  BY DEF AttemptEnds, CloseTry, NoAnswer, NoStatus, Answers
<1>3. tries' \in Seq(Tries) /\ Len(tries') = Len(tries)
  <2>1. tries \in Seq(Tries) /\ Len(tries) > 0 /\ now \in Nat
    BY DEF TInv, TypeOK, TriesShape, Attempts
  <2>2. tries[Len(tries)] \in Tries
    BY <2>1
  <2>3. [tries[Len(tries)] EXCEPT !.endedAt = now, !.status = s, !.retryAfter = ra] \in Tries
    BY <2>1, <2>2 DEF Tries
  <2> QED
    BY <2>1, <2>3, LastRewritten DEF AttemptEnds, CloseTry
<1>4. CASE o # "Ok" /\ Retryable(o)
  <2>1. RetryOrGiveUp(o, ra)
    BY <1>4 DEF AttemptEnds
  <2>2. DelayAfter(o, ra) \in Nat /\ o \in Errors
    BY <1>1, <1>4 DEF DelayAfter, TInv, TypeOK, Outcomes
  <2>3. retryDelay' \in Nat /\ lastError' \in Errors
    BY <2>1, <2>2 DEF RetryOrGiveUp, ErrorToReport
  <2>4. CASE attempt < MaxRetries
    BY <1>2, <1>3, <2>1, <2>2, <2>3, <2>4
       DEF RetryOrGiveUp, AttemptsLeft, TInv, TypeOK, TriesShape, Attempts
  <2>5. CASE ~(attempt < MaxRetries)
    BY <1>2, <1>3, <2>1, <2>2, <2>3, <2>5
       DEF RetryOrGiveUp, AttemptsLeft, Return, ErrorToReport, TInv, TypeOK, TriesShape, Outcomes
  <2> QED BY <2>4, <2>5
<1>5. CASE ~(o # "Ok" /\ Retryable(o))
  BY <1>1, <1>2, <1>3, <1>5 DEF AttemptEnds, Return, TInv, TypeOK, TriesShape
<1> QED BY <1>4, <1>5

LEMMA NextTInv == TInv /\ [Next]_vars => TInv'
<1> SUFFICES ASSUME TInv, [Next]_vars
             PROVE  TInv'
  OBVIOUS
<1> USE UploaderAssumption
<1>1. CASE Upload
  BY <1>1 DEF Upload, Dispatch, OpenTry, SigningTime, TInv, TypeOK, TriesShape, Calls,
              Attempts, Requests, Tries, NoStatus
<1>2. CASE Retry
  BY <1>2 DEF Retry, Dispatch, OpenTry, SigningTime, Doubled, TInv, TypeOK, TriesShape,
              Calls, Attempts, Requests, Tries, NoStatus
<1>3. CASE ReceiveAnswer
  BY <1>3, AttemptEndsTInv DEF ReceiveAnswer, TInv, TypeOK, Answers
<1>4. CASE ConnectionFails
  BY <1>4, AttemptEndsTInv DEF ConnectionFails, NoStatus
<1>5. CASE TimesOut
  BY <1>5, AttemptEndsTInv DEF TimesOut, NoStatus
<1>6. ASSUME NEW r \in network, NEW s \in Statuses \cup {401}, NEW st \in BOOLEAN,
             PlatformHandles(r, s, st)
      PROVE  TInv'
  <2>1. answer' \in Answers
    BY <1>6 DEF PlatformHandles, Answers, TInv, TypeOK
  <2>2. copies' \in [Calls -> SUBSET Attempts]
    BY <1>6 DEF PlatformHandles, TInv, TypeOK, Requests
  <2> QED BY <1>6, <2>1, <2>2 DEF PlatformHandles, clientVars, TInv, TypeOK, TriesShape
<1>7. ASSUME NEW r \in network, RequestLost(r)
      PROVE  TInv'
  BY <1>7 DEF RequestLost, clientVars, TInv, TypeOK, TriesShape
<1>8. CASE Tick
  BY <1>8 DEF Tick, clientVars, TInv, TypeOK, TriesShape
<1>9. CASE UNCHANGED vars
  BY <1>9 DEF vars, clientVars, TInv, TypeOK, TriesShape
<1> QED
  BY <1>1, <1>2, <1>3, <1>4, <1>5, <1>6, <1>7, <1>8, <1>9 DEF Next, Platform

(* Every variable keeps its type: what Upload::upload carries from attempt   *)
(* to attempt stays within max_retries, whatever the platform answers.       *)
THEOREM TypeCorrect == Spec => []TypeOK
<1>1. TInv => TypeOK
  BY DEF TInv
<1> QED
  BY InitTInv, NextTInv, <1>1, PTL DEF Spec

-----------------------------------------------------------------------------
(* Signatures.                                                             *)

(* Every request in the network was signed when it was sent, no longer ago   *)
(* than a request lives.                                                     *)
SInv == \A r \in network :
    r.signedAt = r.sentAt /\ r.sentAt <= now /\ now <= r.sentAt + TransitLimit

LEMMA NextSInv == TInv /\ SInv /\ [Next]_vars => SInv'
<1> SUFFICES ASSUME TInv, SInv, [Next]_vars
             PROVE  SInv'
  OBVIOUS
<1> USE UploaderAssumption
<1>1. now \in Nat /\ network \subseteq Requests
  BY DEF TInv, TypeOK
<1>2. CASE Upload \/ Retry
  <2>1. PICK c, a : network' = network \cup
            {[call |-> c, attempt |-> a, signedAt |-> now, sentAt |-> now]}
    BY <1>2 DEF Upload, Retry, Dispatch, SigningTime
  <2>2. now' = now /\ now <= now + TransitLimit
    BY <1>1, <1>2 DEF Upload, Retry
  <2> SUFFICES ASSUME NEW r \in network'
               PROVE  r.signedAt = r.sentAt /\ r.sentAt <= now /\ now <= r.sentAt + TransitLimit
    BY <2>2 DEF SInv
  <2>3. CASE r \in network
    BY <2>3 DEF SInv
  <2>4. CASE r = [call |-> c, attempt |-> a, signedAt |-> now, sentAt |-> now]
    BY <1>1, <2>2, <2>4
  <2> QED
    BY <2>1, <2>3, <2>4
<1>3. CASE ReceiveAnswer \/ ConnectionFails \/ TimesOut
  BY <1>3 DEF ReceiveAnswer, ConnectionFails, TimesOut, AttemptEnds, SInv
<1>4. ASSUME NEW r \in network, NEW s \in Statuses \cup {401}, NEW st \in BOOLEAN,
             PlatformHandles(r, s, st)
      PROVE  SInv'
  BY <1>4 DEF PlatformHandles, SInv
<1>5. ASSUME NEW r \in network, RequestLost(r)
      PROVE  SInv'
  BY <1>5 DEF RequestLost, SInv
<1>6. CASE Tick
  BY <1>1, <1>6 DEF Tick, SInv, Requests
<1>7. CASE UNCHANGED vars
  BY <1>7 DEF vars, SInv
<1> QED
  BY <1>2, <1>3, <1>4, <1>5, <1>6, <1>7 DEF Next, Platform

(* No request ever reaches the platform with a signature older than its      *)
(* window: signed_post signs each attempt anew, after the sleep.             *)
THEOREM SignaturesFresh == Spec => []SignaturesStayFresh
<1>1. Init => SInv
  BY DEF Init, SInv
<1>2. TInv /\ SInv => SignaturesStayFresh
  BY WindowAssumption, UploaderAssumption
     DEF TInv, TypeOK, SInv, SignaturesStayFresh, Requests
<1> QED
  BY InitTInv, NextTInv, NextSInv, <1>1, <1>2, PTL DEF Spec

-----------------------------------------------------------------------------
(* The retry loop.                                                         *)

Final == {"Ok", "AuthError"}

(* What the history of the current call looks like at each place of the      *)
(* loop: every attempt before the open one failed and could be retried; a    *)
(* call that returned reports its last attempt.                              *)
LoopInv ==
    /\ call = 0 => pc = "idle" /\ tries = <<>>
    /\ pc = "sending" => tries[Len(tries)].status = NoStatus
    /\ \A i \in 1 .. Len(tries) :
          i < Len(tries) \/ pc = "sleeping" => Outcome(tries[i].status) \notin Final
    /\ pc = "idle" /\ call > 0 =>
          /\ Len(tries) = attempt + 1
          /\ results[call] = Outcome(tries[Len(tries)].status)
          /\ results[call] \notin Final => attempt = MaxRetries

(* What send_request makes of the statuses that end a call. *)
LEMMA Accepted == \A s : s \in {200, 201, 202} <=> Outcome(s) = "Ok"
BY DEF Outcome, NoStatus, SuccessStatuses

LEMMA Refused ==
    ASSUME NEW s \in {401, 403}
    PROVE  Outcome(s) = "AuthError" /\ s # NoStatus
BY DEF Outcome, NoStatus, SuccessStatuses

(* How AttemptEnds and Retry change the history. *)
LEMMA TryClosed ==
    ASSUME TInv, pc = "sending",
           NEW s \in Nat, NEW ra \in Nat \cup {NoSeconds},
           AttemptEnds(s, ra)
    PROVE  /\ Len(tries) = attempt + 1 /\ Len(tries') = Len(tries)
           /\ \A i \in 1 .. Len(tries) - 1 : tries'[i] = tries[i]
           /\ tries'[Len(tries)].sentAt = tries[Len(tries)].sentAt
           /\ tries'[Len(tries)].endedAt = now
           /\ tries'[Len(tries)].status = s
           /\ tries'[Len(tries)].retryAfter = ra
<1> DEFINE e == [tries[Len(tries)] EXCEPT !.endedAt = now, !.status = s, !.retryAfter = ra]
<1>1. tries \in Seq(Tries) /\ Len(tries) = attempt + 1 /\ Len(tries) > 0 /\ now \in Nat
  BY UploaderAssumption DEF TInv, TypeOK, TriesShape, Attempts
<1>2. tries[Len(tries)] \in Tries
  BY <1>1
<1>3. /\ e \in Tries
      /\ e.sentAt = tries[Len(tries)].sentAt /\ e.endedAt = now
      /\ e.status = s /\ e.retryAfter = ra
  BY <1>1, <1>2 DEF Tries
<1>4. tries' = [tries EXCEPT ![Len(tries)] = e]
  BY DEF AttemptEnds, CloseTry
<1> HIDE DEF e
<1> QED
  BY <1>1, <1>3, <1>4, LastRewritten

LEMMA TryOpened ==
    ASSUME TInv, Retry
    PROVE  /\ Len(tries) = attempt /\ Len(tries') = attempt + 1
           /\ \A i \in 1 .. Len(tries) : tries'[i] = tries[i]
           /\ tries'[attempt + 1] = OpenTry
<1>1. tries \in Seq(Tries) /\ Len(tries) = attempt /\ now \in Nat
  BY DEF TInv, TypeOK, TriesShape, Retry
<1>2. OpenTry \in Tries
  BY <1>1 DEF OpenTry, Tries, NoStatus
<1> QED
  BY <1>1, <1>2, AppendProperties DEF Retry

LEMMA NextLoopInv == TInv /\ LoopInv /\ [Next]_vars => LoopInv'
<1> SUFFICES ASSUME TInv, LoopInv, [Next]_vars
             PROVE  LoopInv'
  OBVIOUS
<1> USE UploaderAssumption
<1>1. /\ attempt \in 0 .. MaxRetries /\ call \in 0 .. MaxCalls
      /\ tries \in Seq(Tries) /\ results \in [Calls -> Outcomes \cup {"pending"}]
      /\ pc # "idle" => call \in Calls
  BY DEF TInv, TypeOK, Attempts, TriesShape
<1>2. CASE Upload
  BY <1>1, <1>2 DEF Upload, Dispatch, OpenTry, LoopInv, NoStatus
<1>3. CASE Retry
  <2>1. /\ pc = "sleeping" /\ pc' = "sending" /\ call' = call
    BY <1>3 DEF Retry, Dispatch
  <2>2. tries'[Len(tries')].status = NoStatus
    BY <1>1, <1>3, TryOpened DEF OpenTry
  <2>3. ASSUME NEW i \in 1 .. Len(tries') - 1
        PROVE  Outcome(tries'[i].status) \notin Final
    <3>1. i \in 1 .. Len(tries) /\ tries'[i] = tries[i]
      BY <1>1, <1>3, TryOpened
    <3>2. Outcome(tries[i].status) \notin Final
      BY <1>3, <2>1, <3>1 DEF LoopInv
    <3> QED
      BY <3>1, <3>2
  <2> QED
    BY <1>1, <2>1, <2>2, <2>3 DEF LoopInv, Calls
<1>4. ASSUME pc = "sending", NEW s \in Nat, NEW ra \in Nat \cup {NoSeconds}, AttemptEnds(s, ra)
      PROVE  LoopInv'
  <2>1. /\ call' = call /\ call \in Calls /\ pc' \in {"idle", "sleeping"}
    BY <1>1, <1>4 DEF AttemptEnds, RetryOrGiveUp, Return
  <2>2. ASSUME NEW i \in 1 .. Len(tries') - 1
        PROVE  Outcome(tries'[i].status) \notin Final
    <3>1. /\ tries'[i] = tries[i]
          /\ i \in 1 .. Len(tries) /\ i < Len(tries)
      BY <1>1, <1>4, TryClosed
    <3>2. Outcome(tries[i].status) \notin Final
      BY <3>1 DEF LoopInv
    <3> QED
      BY <3>1, <3>2
  <2>3. Outcome(tries'[Len(tries')].status) = Outcome(s) /\ Len(tries') = attempt + 1
    BY <1>1, <1>4, TryClosed
  <2>4. ASSUME pc' = "sleeping"
        PROVE  Outcome(s) \notin Final
    BY <1>4, <2>4 DEF AttemptEnds, Return, Retryable, Final
  <2>5. ASSUME pc' = "idle"
        PROVE  /\ attempt' = attempt /\ results'[call] = Outcome(s)
               /\ Outcome(s) \notin Final => attempt = MaxRetries
    BY <1>1, <1>4, <2>1, <2>5
       DEF AttemptEnds, RetryOrGiveUp, Return, AttemptsLeft, ErrorToReport, Retryable, Final
  <2> QED
    BY <1>1, <2>1, <2>2, <2>3, <2>4, <2>5 DEF LoopInv, Calls
<1>5. CASE ReceiveAnswer
  BY <1>4, <1>5 DEF ReceiveAnswer, TInv, TypeOK, Answers
<1>6. CASE ConnectionFails \/ TimesOut
  BY <1>4, <1>6 DEF ConnectionFails, TimesOut, NoStatus
<1>7. CASE UNCHANGED clientVars
  BY <1>7 DEF clientVars, LoopInv
<1>8. ASSUME NEW r \in network, NEW s \in Statuses \cup {401}, NEW st \in BOOLEAN,
             PlatformHandles(r, s, st)
      PROVE  LoopInv'
  BY <1>7, <1>8 DEF PlatformHandles
<1>9. ASSUME NEW r \in network, RequestLost(r)
      PROVE  LoopInv'
  BY <1>7, <1>9 DEF RequestLost
<1>10. CASE Tick \/ UNCHANGED vars
  BY <1>7, <1>10 DEF Tick, vars
<1> QED
  BY <1>2, <1>3, <1>5, <1>6, <1>8, <1>9, <1>10 DEF Next, Platform

LEMMA LoopInvariant == Spec => [](TInv /\ LoopInv)
<1>1. Init => LoopInv
  BY UploaderAssumption DEF Init, LoopInv
<1> QED
  BY InitTInv, NextTInv, NextLoopInv, <1>1, PTL DEF Spec

(* Refused credentials end the call: no attempt follows an answer 401 or 403, *)
(* and the caller sees AuthError.                                             *)
THEOREM RefusalEndsCall == Spec => []RefusalIsFinal
<1>1. ASSUME TInv, LoopInv, NEW i \in 1 .. Len(tries), tries[i].status \in {401, 403}
      PROVE  i = Len(tries) /\ pc = "idle" /\ results[call] = "AuthError"
  <2>1. Outcome(tries[i].status) = "AuthError" /\ tries[i].status # NoStatus
    BY <1>1, Refused
  <2>2. /\ tries \in Seq(Tries) /\ pc \in {"idle", "sending", "sleeping"}
        /\ call \in Nat /\ tries # <<>>
    BY <1>1 DEF TInv, TypeOK
  <2>3. i = Len(tries) /\ pc # "sleeping"
    BY <1>1, <2>1, <2>2 DEF LoopInv, Final
  <2>4. pc = "idle" /\ call > 0
    BY <1>1, <2>1, <2>2, <2>3 DEF LoopInv
  <2> QED
    BY <1>1, <2>1, <2>3, <2>4 DEF LoopInv
<1>2. TInv /\ LoopInv => RefusalIsFinal
  BY <1>1 DEF RefusalIsFinal
<1> QED
  BY LoopInvariant, <1>2, PTL

(* An accepted payload is sent again only if the acceptance did not arrive. *)
THEOREM DuplicatesAreDoubts == Spec => []DuplicatesOnlyInDoubt
<1>1. ASSUME TInv, LoopInv, call > 0, NEW a \in copies[call], a + 1 < Len(tries)
      PROVE  tries[a + 1].status \notin {200, 201, 202}
  <2>1. copies \in [Calls -> SUBSET Attempts] /\ call \in Calls /\ tries \in Seq(Tries)
    BY <1>1, UploaderAssumption DEF TInv, TypeOK, Calls
  <2>2. a \in Nat
    BY <2>1 DEF Attempts
  <2>3. Outcome(tries[a + 1].status) # "Ok"
    BY <1>1, <2>1, <2>2 DEF LoopInv, Final
  <2> QED
    BY <2>3, Accepted
<1>2. TInv /\ LoopInv => DuplicatesOnlyInDoubt
  BY <1>1 DEF DuplicatesOnlyInDoubt
<1> QED
  BY LoopInvariant, <1>2, PTL

(* The error upload returns is that of its last attempt, after max_retries   *)
(* retries unless the credentials were refused.                              *)
THEOREM LastFailureReported == Spec => []ReportsLastFailure
<1>1. TInv /\ LoopInv => ReportsLastFailure
  BY DEF TInv, TypeOK, LoopInv, ReportsLastFailure, Final
<1> QED
  BY LoopInvariant, <1>1, PTL

-----------------------------------------------------------------------------
(* Backoff.                                                                *)

(* retry_delay between the attempts: while a request is out it is twice the  *)
(* wait before it; during a sleep it is the wait the failed attempt calls    *)
(* for, and the sleep ends when that wait is over.                           *)
BackInv ==
    /\ BackoffSchedule
    /\ pc = "sending" =>
          /\ retryDelay = IF attempt = 0 THEN InitialDelay ELSE 2 * Wait(attempt)
          /\ tries[Len(tries)].retryAfter = NoSeconds
    /\ pc = "sleeping" =>
          /\ attempt > 0
          /\ retryDelay = Due(attempt)
          /\ deadline = tries[attempt].endedAt + retryDelay
    /\ answer.retryAfter \in Nat => answer.status = 429

LEMMA NextBackInv == TInv /\ BackInv /\ [Next]_vars => BackInv'
<1> SUFFICES ASSUME TInv, BackInv, [Next]_vars
             PROVE  BackInv'
  OBVIOUS
<1> USE UploaderAssumption
<1>1. /\ attempt \in 0 .. MaxRetries /\ tries \in Seq(Tries) /\ now \in Nat
      /\ retryDelay \in Nat /\ answer \in Answers
      /\ \A i \in 1 .. Len(tries) : tries[i] \in Tries
  BY DEF TInv, TypeOK, Attempts
<1>2. CASE Upload
  BY <1>1, <1>2 DEF Upload, Dispatch, OpenTry, BackInv, BackoffSchedule
<1>k. PICK k \in 0 .. MaxRetries : k = attempt
  BY <1>1
<1>3. CASE Retry
  <2>1. /\ Len(tries) = k /\ Len(tries') = k + 1 /\ k > 0
        /\ attempt' = k /\ pc' = "sending" /\ answer' = answer
        /\ \A i \in 1 .. k : tries'[i] = tries[i]
        /\ tries'[k + 1].sentAt = now /\ tries'[k + 1].retryAfter = NoSeconds
    BY <1>1, <1>k, <1>3, TryOpened DEF Retry, Dispatch, OpenTry, BackInv
  <2>2. ASSUME NEW i \in 1 .. k
        PROVE  Due(i)' = Due(i) /\ (i < k => Wait(i)' = Wait(i))
    <3>1. \A j \in 1 .. k - 1 : j + 1 \in 1 .. k /\ j \in 1 .. k
      OBVIOUS
    <3>2. \A j \in 1 .. k - 1 : Wait(j)' = Wait(j)
      BY <2>1, <3>1, Zenon DEF Wait
    <3>3. i # 1 => i - 1 \in 1 .. k - 1
      OBVIOUS
    <3>4. tries'[i] = tries[i] /\ (i # 1 => Wait(i - 1)' = Wait(i - 1))
      BY <2>1, <3>2, <3>3, Zenon
    <3>5. Due(i)' = Due(i)
      BY <3>4, Zenon DEF Due
    <3>6. i < k => i \in 1 .. k - 1
      OBVIOUS
    <3> QED BY <3>2, <3>5, <3>6, Zenon
  <2>3. now = tries[k].endedAt + retryDelay /\ retryDelay = Due(k)
    BY <1>k, <1>3 DEF BackInv, Retry
  <2>4. tries[k].endedAt \in Nat
    BY <1>1, <2>1 DEF Tries
  <2>5. Wait(k)' = retryDelay
    BY <1>1, <2>1, <2>3, <2>4 DEF Wait
  <2>6. BackoffSchedule'
    <3> SUFFICES ASSUME NEW i \in 1 .. k
                 PROVE  Wait(i)' = Due(i)'
      BY <1>1, <2>1 DEF BackoffSchedule
    <3>1. CASE i = k
      BY <2>1, <2>2, <2>3, <2>5, <3>1
    <3>2. CASE i < k
      BY <1>1, <2>1, <2>2, <3>2 DEF BackInv, BackoffSchedule
    <3> QED BY <1>1, <3>1, <3>2
  <2>7. retryDelay' = 2 * Wait(k)'
    BY <1>3, <2>5 DEF Retry, Doubled
  <2>8. answer.retryAfter \in Nat => answer.status = 429
    BY DEF BackInv
  <2> QED
    BY <2>1, <2>6, <2>7, <2>8 DEF BackInv
<1>4. ASSUME pc = "sending", NEW s \in Nat, NEW ra \in Nat \cup {NoSeconds},
             s = 429 \/ ra = NoSeconds, AttemptEnds(s, ra)
      PROVE  BackInv'
  <2>1. /\ Len(tries) = k + 1 /\ Len(tries') = k + 1
        /\ \A i \in 1 .. k : tries'[i] = tries[i]
        /\ tries'[k + 1].sentAt = tries[k + 1].sentAt
        /\ tries'[k + 1].endedAt = now /\ tries'[k + 1].retryAfter = ra
    <3>1. Len(tries) = k + 1 /\ Len(tries) - 1 = k
      BY <1>1, <1>k, <1>4 DEF TInv, TriesShape
    <3> QED BY <1>1, <1>4, <3>1, TryClosed
  <2>2. ASSUME NEW i \in 1 .. k
        PROVE  Due(i)' = Due(i) /\ Wait(i)' = Wait(i)
    BY <1>1, <2>1 DEF Wait, Due
  <2>3. BackoffSchedule'
    BY <1>1, <2>1, <2>2 DEF BackInv, BackoffSchedule
  <2>4. answer' = NoAnswer /\ pc' \in {"idle", "sleeping"}
    BY <1>4 DEF AttemptEnds, CloseTry, RetryOrGiveUp, Return
  <2>5. ASSUME pc' = "sleeping"
        PROVE  /\ attempt' = k + 1
               /\ retryDelay' = IF ra \in Nat THEN ra ELSE retryDelay
               /\ deadline' = now + retryDelay'
    BY <1>k, <1>4, <2>5
       DEF AttemptEnds, RetryOrGiveUp, Return, DelayAfter, Outcome, NoStatus, SuccessStatuses
  <2>6. ASSUME NEW i, i = k + 1
        PROVE  Due(i)' = IF ra \in Nat THEN ra ELSE retryDelay
    <3>1. retryDelay = IF k = 0 THEN InitialDelay ELSE 2 * Wait(k)
      BY <1>k, <1>4 DEF BackInv
    <3>2. CASE k = 0
      BY <2>1, <2>6, <3>1, <3>2 DEF Due
    <3>3. CASE k > 0
      <4>1. i - 1 = k /\ i # 1 /\ Wait(i - 1)' = Wait(k)
        BY <2>2, <2>6, <3>3
      <4> QED BY <2>1, <2>6, <3>1, <3>3, <4>1 DEF Due
    <3> QED BY <3>2, <3>3
  <2>7. pc' = "sleeping" => Due(attempt)' = retryDelay'
    BY <2>5, <2>6 DEF Due, Wait
  <2>8. pc' = "sleeping" => attempt' > 0 /\ deadline' = tries'[attempt'].endedAt + retryDelay'
    BY <2>1, <2>5
  <2>9. answer'.retryAfter \notin Nat
    BY <2>4 DEF NoAnswer
  <2> QED
    BY <2>3, <2>4, <2>7, <2>8, <2>9 DEF BackInv
<1>5. CASE ReceiveAnswer
  <2>1. answer.status \in Nat /\ answer.retryAfter \in Nat \cup {NoSeconds}
    BY <1>1 DEF Answers
  <2>2. answer.status = 429 \/ answer.retryAfter = NoSeconds
    BY <2>1 DEF BackInv
  <2> QED
    BY <1>4, <1>5, <2>1, <2>2 DEF ReceiveAnswer
<1>6. CASE ConnectionFails \/ TimesOut
  BY <1>4, <1>6 DEF ConnectionFails, TimesOut, NoStatus
<1>7. ASSUME UNCHANGED clientVars, answer'.retryAfter \in Nat => answer'.status = 429
      PROVE  BackInv'
  <2>1. /\ BackoffSchedule' = BackoffSchedule
        /\ Due(attempt)' = Due(attempt) /\ Wait(attempt)' = Wait(attempt)
    BY <1>7 DEF clientVars, BackoffSchedule, Due, Wait
  <2> QED
    BY <1>7, <2>1 DEF clientVars, BackInv
<1>8. ASSUME NEW r \in network, NEW s \in Statuses \cup {401}, NEW st \in BOOLEAN,
             PlatformHandles(r, s, st)
      PROVE  BackInv'
  <2>1. answer'.retryAfter \in Nat => answer'.status = 429
    BY <1>8 DEF PlatformHandles, BackInv
  <2> QED BY <1>7, <1>8, <2>1 DEF PlatformHandles
<1>9. ASSUME NEW r \in network, RequestLost(r)
      PROVE  BackInv'
  BY <1>7, <1>9 DEF RequestLost, BackInv
<1>10. CASE Tick \/ UNCHANGED vars
  BY <1>7, <1>10 DEF Tick, vars, BackInv
<1> QED
  BY <1>2, <1>3, <1>5, <1>6, <1>8, <1>9, <1>10 DEF Next, Platform

(* The wait before every retry is the Retry-After of the failed attempt, or  *)
(* the doubled previous wait: retry_delay carries it from one iteration to   *)
(* the next.                                                                  *)
THEOREM BackoffFollowsSchedule == Spec => []BackoffSchedule
<1>1. Init => BackInv
  BY UploaderAssumption DEF Init, BackInv, BackoffSchedule, NoAnswer
<1>2. BackInv => BackoffSchedule
  BY DEF BackInv
<1> QED
  BY InitTInv, NextTInv, NextBackInv, <1>1, <1>2, PTL DEF Spec

-----------------------------------------------------------------------------
(* How long a call lasts.                                                  *)

LEMMA LongestDelayFacts ==
    /\ LongestDelay \in Nat
    /\ \A d \in RetryAfters \cup {InitialDelay} : d <= LongestDelay
<1> DEFINE D == RetryAfters \cup {InitialDelay}
<1>1. D \subseteq Nat /\ D # {}
  BY UploaderAssumption
<1>2. IsFiniteSet(D)
  BY UploaderAssumption, FS_AddElement
<1> HIDE DEF D
<1>3. \E d \in D : \A e \in D : e <= d
  BY <1>1, <1>2, GreatestOfFinite
<1>4. LongestDelay = CHOOSE d \in D : \A e \in D : e <= d
  BY DEF LongestDelay, D
<1>5. LongestDelay \in D /\ \A e \in D : e <= LongestDelay
  BY <1>3, <1>4
<1> QED BY <1>1, <1>5 DEF D

(* The time k attempts and the sleeps after them may take, and the longest    *)
(* delay after k of them.                                                    *)
Longest(k) == LongestDelay * 2 ^ k
Bound(k) == k * RequestTimeout + LongestDelay * (2 ^ k - 1)

LEMMA LongestFacts ==
    ASSUME NEW k \in Nat
    PROVE  /\ Longest(k) \in Nat /\ Longest(k + 1) = 2 * Longest(k)
           /\ LongestDelay <= Longest(k)
<1>1. /\ 2 ^ k \in Nat /\ 2 ^ (k + 1) = 2 * 2 ^ k /\ 1 <= 2 ^ k /\ LongestDelay \in Nat
  BY PowerOfTwo, PowersGrow, LongestDelayFacts
<1>2. PICK p \in Nat : p = 2 ^ k
  BY <1>1
<1>3. LongestDelay * p \in Nat /\ LongestDelay * (2 * p) = 2 * (LongestDelay * p)
  BY <1>1
<1>4. LongestDelay <= LongestDelay * p
  <2>1. PICK q \in Nat : p = q + 1
    <3>1. p - 1 \in Nat /\ p = (p - 1) + 1
      BY <1>1, <1>2
    <3> QED BY <3>1
  <2>2. LongestDelay * (q + 1) = LongestDelay * q + LongestDelay /\ LongestDelay * q \in Nat
    BY <1>1
  <2> QED BY <1>1, <2>1, <2>2
<1> QED BY <1>1, <1>2, <1>3, <1>4 DEF Longest

LEMMA BoundFacts ==
    ASSUME NEW k \in Nat
    PROVE  /\ Bound(k) \in Nat
           /\ Bound(k + 1) = Bound(k) + RequestTimeout + Longest(k)
<1>1. /\ 2 ^ k \in Nat /\ 2 ^ (k + 1) = 2 * 2 ^ k /\ 1 <= 2 ^ k /\ LongestDelay \in Nat
  BY PowerOfTwo, PowersGrow, LongestDelayFacts
<1>2. PICK p \in Nat : p = 2 ^ k
  BY <1>1
<1>3. p - 1 \in Nat
  BY <1>1, <1>2
<1>4. LongestDelay * (p - 1) \in Nat
  BY <1>1, <1>3
<1>5. LongestDelay * (2 * p - 1) = LongestDelay * (p - 1) + LongestDelay * p
  BY <1>1
<1>6. /\ k * RequestTimeout \in Nat
      /\ (k + 1) * RequestTimeout = k * RequestTimeout + RequestTimeout
  BY UploaderAssumption
<1> DEFINE x == k * RequestTimeout
           y == LongestDelay * (p - 1)
           z == LongestDelay * p
<1>7. /\ Bound(k) = x + y /\ Longest(k) = z
      /\ Bound(k + 1) = (x + RequestTimeout) + (y + z)
  BY <1>1, <1>2, <1>5, <1>6 DEF Bound, Longest
<1>8. x \in Nat /\ y \in Nat /\ z \in Nat
  BY <1>1, <1>4, <1>6
<1> HIDE DEF x, y, z
<1> QED BY <1>7, <1>8, UploaderAssumption

LEMMA BoundGrows ==
    ASSUME NEW m \in Nat, NEW n \in Nat, m <= n
    PROVE  Bound(m) <= Bound(n)
<1> DEFINE S == {k \in Nat : m <= k => Bound(m) <= Bound(k)}
<1>1. 0 \in S
  BY BoundFacts
<1>2. ASSUME NEW k \in Nat, k \in S PROVE k + 1 \in S
  <2>1. /\ Bound(k) \in Nat /\ Bound(m) \in Nat /\ Longest(k) \in Nat
        /\ Bound(k + 1) = Bound(k) + RequestTimeout + Longest(k)
    BY BoundFacts, LongestFacts
  <2>2. CASE m = k + 1
    BY <2>1, <2>2, UploaderAssumption
  <2>3. CASE m # k + 1
    BY <1>2, <2>1, <2>3, UploaderAssumption
  <2> QED BY <2>2, <2>3
<1>3. \A k \in Nat : k \in S
  BY <1>1, <1>2, SetInduction
<1> QED BY <1>3

(* Where the clock is at each place of the loop: the open attempt was sent in *)
(* time and will not outlive its timeout, the open sleep ends in time.        *)
TimeInv ==
    /\ answer.retryAfter \in RetryAfters \cup {NoSeconds}
    /\ pc # "idle" => now <= deadline
    /\ pc = "sending" =>
          /\ retryDelay <= Longest(attempt)
          /\ deadline = tries[attempt + 1].sentAt + RequestTimeout
          /\ tries[attempt + 1].endedAt = tries[attempt + 1].sentAt
          /\ tries[attempt + 1].sentAt <= tries[1].sentAt + Bound(attempt)
    /\ pc = "sleeping" =>
          /\ attempt > 0 /\ retryDelay <= Longest(attempt - 1)
          /\ tries[attempt].endedAt <= deadline
          /\ deadline <= tries[1].sentAt + Bound(attempt)
    /\ pc = "idle" /\ call > 0 =>
          tries[attempt + 1].endedAt <= tries[1].sentAt + Bound(attempt) + RequestTimeout

LEMMA AttemptEndsInTime ==
    ASSUME TInv, TimeInv, pc = "sending",
           NEW s \in Nat, NEW ra \in RetryAfters \cup {NoSeconds},
           AttemptEnds(s, ra)
    PROVE  TimeInv'
<1> USE UploaderAssumption
<1>1. PICK k \in Nat : k = attempt /\ k <= MaxRetries
  BY DEF TInv, TypeOK, Attempts
<1>2. /\ Len(tries) = k + 1 /\ tries \in Seq(Tries) /\ now \in Nat /\ retryDelay \in Nat
      /\ tries[1] \in Tries /\ tries[k + 1] \in Tries
  BY <1>1 DEF TInv, TypeOK, TriesShape
<1>3. /\ tries'[1].sentAt = tries[1].sentAt /\ tries'[k + 1].endedAt = now
      /\ tries[1].sentAt \in Nat /\ tries[k + 1].sentAt \in Nat
  <2>1. Len(tries) - 1 = k /\ ra \in Nat \cup {NoSeconds}
    BY <1>2
  <2>2. /\ \A i \in 1 .. Len(tries) - 1 : tries'[i] = tries[i]
        /\ tries'[Len(tries)].sentAt = tries[Len(tries)].sentAt
        /\ tries'[Len(tries)].endedAt = now
    BY <1>2, <2>1, TryClosed
  <2>3. /\ \A i \in 1 .. k : tries'[i] = tries[i]
        /\ tries'[k + 1].sentAt = tries[k + 1].sentAt
        /\ tries'[k + 1].endedAt = now
    BY <1>2, <2>1, <2>2
  <2> QED BY <1>1, <1>2, <2>3 DEF Tries
<1>4. /\ Bound(k) \in Nat /\ Longest(k) \in Nat
      /\ Bound(k + 1) = Bound(k) + RequestTimeout + Longest(k)
  BY BoundFacts, LongestFacts
<1>5. now <= tries[1].sentAt + Bound(k) + RequestTimeout
  <2>1. /\ now <= deadline
        /\ deadline = tries[k + 1].sentAt + RequestTimeout
        /\ tries[k + 1].sentAt <= tries[1].sentAt + Bound(k)
    BY <1>1, Zenon DEF TimeInv
  <2> HIDE DEF TimeInv, TInv
  <2> QED BY <1>2, <1>3, <1>4, <2>1, SMTT(30)
<1>6. answer' = NoAnswer /\ now' = now
  BY DEF AttemptEnds, CloseTry
<1>7. CASE pc' = "sleeping"
  <2> DEFINE d == DelayAfter(Outcome(s), ra)
  <2>1. attempt' = k + 1 /\ retryDelay' = d /\ deadline' = now + d
    BY <1>1, <1>7 DEF AttemptEnds, RetryOrGiveUp, Return
  <2>2. d \in Nat /\ d <= Longest(k)
    <3>1. d = retryDelay \/ (d = ra /\ ra \in RetryAfters)
      BY DEF DelayAfter
    <3>2. retryDelay <= Longest(k)
      BY <1>1 DEF TimeInv
    <3>3. ra \in RetryAfters => ra \in Nat /\ ra <= Longest(k)
      BY <1>4, LongestFacts, LongestDelayFacts
    <3> QED BY <1>2, <3>1, <3>2, <3>3
  <2> HIDE DEF d
  <2>3. /\ tries'[k + 1].endedAt <= now + d /\ now <= now + d
        /\ now + d <= tries[1].sentAt + (Bound(k) + RequestTimeout + Longest(k))
    <3> HIDE DEF TInv, TimeInv
    <3> QED BY <1>2, <1>3, <1>4, <1>5, <2>2, SMTT(30)
  <2>4. attempt' - 1 = k /\ attempt' > 0
    BY <1>1, <2>1
  <2>5. /\ tries'[attempt'].endedAt <= deadline'
        /\ deadline' <= tries'[1].sentAt + Bound(attempt')
        /\ retryDelay' <= Longest(attempt' - 1)
        /\ attempt' > 0 /\ now' <= deadline'
    BY <1>3, <1>4, <1>6, <2>1, <2>2, <2>3, <2>4, Zenon
  <2> QED BY <1>6, <1>7, <2>5 DEF TimeInv, NoAnswer
<1>8. CASE pc' = "idle"
  <2>1. attempt' = k
    BY <1>1, <1>8 DEF AttemptEnds, RetryOrGiveUp, Return
  <2> QED BY <1>3, <1>5, <1>6, <1>8, <2>1 DEF TimeInv, NoAnswer
<1>9. pc' \in {"idle", "sleeping"}
  BY DEF AttemptEnds, RetryOrGiveUp, Return
<1> QED BY <1>7, <1>8, <1>9

LEMMA NextTimeInv == TInv /\ TimeInv /\ [Next]_vars => TimeInv'
<1> SUFFICES ASSUME TInv, TimeInv, [Next]_vars
             PROVE  TimeInv'
  OBVIOUS
<1> USE UploaderAssumption
<1>1. /\ attempt \in 0 .. MaxRetries /\ now \in Nat /\ tries \in Seq(Tries)
      /\ retryDelay \in Nat /\ deadline \in Nat /\ answer \in Answers
  BY DEF TInv, TypeOK, Attempts
<1>2. CASE Upload
  <2>1. InitialDelay <= Longest(0) /\ Bound(0) \in Nat
    BY LongestFacts, LongestDelayFacts, BoundFacts
  <2>2. /\ tries' = <<OpenTry>> /\ OpenTry.sentAt = now /\ OpenTry.endedAt = now
        /\ pc' = "sending" /\ attempt' = 0 /\ retryDelay' = InitialDelay
        /\ deadline' = now + RequestTimeout /\ now' = now /\ answer' = answer
    BY <1>2 DEF Upload, Dispatch, OpenTry
  <2> QED BY <1>1, <2>1, <2>2 DEF TimeInv
<1>3. CASE Retry
  <2>1. PICK k \in Nat : k = attempt
    BY <1>1
  <2>2. /\ Len(tries) = k /\ Len(tries') = k + 1 /\ k > 0
        /\ tries'[1] = tries[1] /\ tries'[k + 1] = OpenTry
    <3>1. k > 0
      BY <1>3, <2>1 DEF Retry, TimeInv
    <3> QED BY <1>3, <2>1, <3>1, TryOpened
  <2>3. /\ pc' = "sending" /\ attempt' = k /\ retryDelay' = 2 * retryDelay
        /\ now' = now /\ now = deadline /\ deadline' = now + RequestTimeout /\ answer' = answer
        /\ OpenTry.sentAt = now /\ OpenTry.endedAt = now
    BY <1>3, <2>1 DEF Retry, Dispatch, Doubled, OpenTry
  <2>4. Longest(k) = 2 * Longest(k - 1) /\ Longest(k - 1) \in Nat
    <3>1. k - 1 \in Nat /\ (k - 1) + 1 = k
      BY <2>2
    <3> QED BY <3>1, LongestFacts
  <2>5. retryDelay <= Longest(k - 1) /\ deadline <= tries[1].sentAt + Bound(k)
    BY <1>3, <2>1 DEF Retry, TimeInv
  <2> QED BY <1>1, <2>2, <2>3, <2>4, <2>5, SMTT(30) DEF TimeInv
<1>4. CASE ReceiveAnswer
  <2>1. answer.status \in Nat /\ answer.retryAfter \in RetryAfters \cup {NoSeconds}
    BY <1>1 DEF Answers, TimeInv
  <2> QED BY <1>4, <2>1, AttemptEndsInTime DEF ReceiveAnswer
<1>5. CASE ConnectionFails \/ TimesOut
  BY <1>5, AttemptEndsInTime DEF ConnectionFails, TimesOut, NoStatus
<1>6. ASSUME UNCHANGED clientVars, now' = now, answer'.retryAfter \in RetryAfters \cup {NoSeconds}
      PROVE  TimeInv'
  BY <1>6 DEF clientVars, TimeInv
<1>7. ASSUME NEW r \in network, NEW s \in Statuses \cup {401}, NEW st \in BOOLEAN,
             PlatformHandles(r, s, st)
      PROVE  TimeInv'
  <2>1. answer'.retryAfter \in RetryAfters \cup {NoSeconds}
    BY <1>7 DEF PlatformHandles, TimeInv
  <2> QED BY <1>6, <1>7, <2>1 DEF PlatformHandles
<1>8. ASSUME NEW r \in network, RequestLost(r)
      PROVE  TimeInv'
  BY <1>6, <1>8 DEF RequestLost, TimeInv
<1>9. CASE Tick
  <2>1. UNCHANGED clientVars /\ answer' = answer /\ now' = now + 1 /\ (pc # "idle" => now < deadline)
    BY <1>9 DEF Tick
  <2>2. pc' # "idle" => now' <= deadline'
    BY <1>1, <2>1 DEF clientVars
  <2> QED BY <2>1, <2>2 DEF clientVars, TimeInv
<1>10. CASE UNCHANGED vars
  BY <1>6, <1>10 DEF vars, TimeInv
<1> QED
  BY <1>2, <1>3, <1>4, <1>5, <1>7, <1>8, <1>9, <1>10 DEF Next, Platform

(* However often the platform asks for patience, upload returns within its    *)
(* timeouts and the longest backoff: for any number of retries, the delay may *)
(* start as Retry-After asks and double from there, but no more.              *)
THEOREM UploadTimeBounded == Spec => []UploadBounded
<1>1. Init => TimeInv
  BY DEF Init, TimeInv, NoAnswer
<1>2. ASSUME TInv, LoopInv, TimeInv, Len(tries) > 0
      PROVE  tries[Len(tries)].endedAt - tries[1].sentAt
                 <= (MaxRetries + 1) * RequestTimeout + LongestDelay * (2 ^ MaxRetries - 1)
  <2> USE UploaderAssumption
  <2>1. /\ attempt \in Nat /\ attempt <= MaxRetries /\ tries \in Seq(Tries)
        /\ pc \in {"idle", "sending", "sleeping"} /\ deadline \in Nat /\ call \in Nat
    BY <1>2 DEF TInv, TypeOK, Attempts
  <2>2. /\ tries[1] \in Tries /\ tries[Len(tries)] \in Tries
    BY <1>2, <2>1
  <2>3. tries[1].sentAt \in Nat /\ tries[Len(tries)].endedAt \in Nat
    BY <2>2 DEF Tries
  <2>4. /\ Bound(attempt) \in Nat /\ Bound(MaxRetries) \in Nat
        /\ Bound(attempt) <= Bound(MaxRetries)
    BY <2>1, BoundFacts, BoundGrows
  <2>5. tries[Len(tries)].endedAt <= tries[1].sentAt + Bound(attempt) + RequestTimeout
    <3>1. CASE pc = "sending"
      BY <1>2, <2>1, <2>3, <2>4, <3>1, SMTT(30) DEF TInv, TriesShape, TimeInv
    <3>2. CASE pc = "sleeping"
      BY <1>2, <2>1, <2>3, <2>4, <3>2, SMTT(30) DEF TInv, TriesShape, TimeInv
    <3>3. CASE pc = "idle"
      <4>1. call > 0
        BY <1>2, <2>1 DEF LoopInv
      <4> QED BY <1>2, <2>1, <3>3, <4>1 DEF LoopInv, TimeInv
    <3> QED BY <2>1, <3>1, <3>2, <3>3
  <2>6. tries[Len(tries)].endedAt - tries[1].sentAt <= Bound(MaxRetries) + RequestTimeout
    BY <2>3, <2>4, <2>5
  <2>7. Bound(MaxRetries) + RequestTimeout
            = (MaxRetries + 1) * RequestTimeout + LongestDelay * (2 ^ MaxRetries - 1)
    <3> DEFINE y == LongestDelay * (2 ^ MaxRetries - 1)
               x == MaxRetries * RequestTimeout
    <3>1. y \in Int /\ x \in Int
      BY PowerOfTwo, LongestDelayFacts
    <3>2. (MaxRetries + 1) * RequestTimeout = x + RequestTimeout
      OBVIOUS
    <3>3. Bound(MaxRetries) = x + y
      BY DEF Bound
    <3> HIDE DEF x, y
    <3>4. (x + y) + RequestTimeout = (x + RequestTimeout) + y
      BY <3>1
    <3> QED BY <3>2, <3>3, <3>4 DEF y
  <2> QED BY <2>6, <2>7
<1>3. TInv /\ LoopInv /\ TimeInv => UploadBounded
  BY <1>2 DEF UploadBounded
<1> QED
  BY LoopInvariant, NextTimeInv, <1>1, <1>3, PTL DEF Spec

-----------------------------------------------------------------------------
(* Refinement: the retry loop implements Delivery.                         *)

(* A call has a result once it returned; a payload in the network is not yet *)
(* stored, belongs to a call already made and to an attempt already made,    *)
(* and is there once; an answer that means success follows a stored copy.    *)
DInv ==
    /\ \A c \in Calls : results[c] = "pending" <=> c > call \/ (c = call /\ pc # "idle")
    /\ \A c \in Calls : c > call => copies[c] = {}
    /\ call \in Calls => \A a \in copies[call] : a < Len(tries)
    /\ \A r \in network :
          /\ r.call <= call
          /\ r.attempt \notin copies[r.call]
          /\ r.call = call => r.attempt < Len(tries)
    /\ \A r, q \in network : r.call = q.call /\ r.attempt = q.attempt => r = q
    /\ pc # "sending" => answer = NoAnswer
    /\ Outcome(answer.status) = "Ok" => call \in Calls /\ copies[call] # {}

(* An exchange without an answer is no success. *)
LEMMA NoAnswerIsNoSuccess == Outcome(NoAnswer.status) # "Ok"
BY DEF Outcome, NoAnswer, NoStatus, SuccessStatuses

LEMMA NextDInv == TInv /\ LoopInv /\ DInv /\ [Next]_vars => DInv'
<1> SUFFICES ASSUME TInv, LoopInv, DInv, [Next]_vars
             PROVE  DInv'
  OBVIOUS
<1> USE UploaderAssumption
<1>1. /\ attempt \in 0 .. MaxRetries /\ call \in 0 .. MaxCalls /\ network \subseteq Requests
      /\ pc \in {"idle", "sending", "sleeping"} /\ now \in Nat
      /\ results \in [Calls -> Outcomes \cup {"pending"}]
      /\ copies \in [Calls -> SUBSET Attempts]
      /\ tries \in Seq(Tries) /\ Len(tries) \in Nat
      /\ pc # "idle" => call \in Calls
      /\ \A r \in network : r.call \in Calls /\ r.attempt \in Attempts
  BY DEF TInv, TypeOK, Attempts, TriesShape, Requests
<1>2. CASE Upload
  <2> DEFINE r0 == [call |-> call + 1, attempt |-> 0, signedAt |-> now, sentAt |-> now]
  <2>1. /\ pc = "idle" /\ pc' = "sending" /\ call' = call + 1 /\ call + 1 \in Calls
        /\ results' = results /\ copies' = copies /\ answer' = answer
        /\ network' = network \cup {r0} /\ Len(tries') = 1
    BY <1>1, <1>2 DEF Upload, Dispatch, SigningTime, Calls
  <2>2. /\ r0.call = call + 1 /\ r0.attempt = 0
    OBVIOUS
  <2> HIDE DEF r0
  <2>3. copies[call + 1] = {} /\ \A r \in network : r.call <= call
    BY <1>1, <2>1 DEF DInv, Calls
  <2>4. \A r \in network' :
          /\ r.call <= call'
          /\ r.attempt \notin copies'[r.call]
          /\ r.call = call' => r.attempt < Len(tries')
    BY <1>1, <2>1, <2>2, <2>3 DEF DInv, Calls
  <2>5. \A r, q \in network' : r.call = q.call /\ r.attempt = q.attempt => r = q
    BY <1>1, <2>1, <2>2, <2>3 DEF DInv, Calls
  <2>6. \A c \in Calls : results'[c] = "pending" <=> c > call' \/ (c = call' /\ pc' # "idle")
    BY <1>1, <2>1 DEF DInv, Calls
  <2>7. \A c \in Calls : c > call' => copies'[c] = {}
    BY <1>1, <2>1 DEF DInv, Calls
  <2>8. Outcome(answer'.status) # "Ok"
    BY <2>1, NoAnswerIsNoSuccess DEF DInv
  <2> QED
    BY <2>1, <2>3, <2>4, <2>5, <2>6, <2>7, <2>8 DEF DInv
<1>3. CASE Retry
  <2> DEFINE r0 == [call |-> call, attempt |-> attempt, signedAt |-> now, sentAt |-> now]
  <2>1. /\ pc = "sleeping" /\ pc' = "sending" /\ call' = call /\ call \in Calls
        /\ results' = results /\ copies' = copies /\ answer' = answer
        /\ network' = network \cup {r0}
    BY <1>1, <1>3 DEF Retry, Dispatch, SigningTime
  <2>2. /\ r0.call = call /\ r0.attempt = attempt
    OBVIOUS
  <2> HIDE DEF r0
  <2>3. Len(tries) = attempt /\ Len(tries') = attempt + 1
    BY <1>3, TryOpened
  <2>4. \A r \in network' :
          /\ r.call <= call'
          /\ r.attempt \notin copies'[r.call]
          /\ r.call = call' => r.attempt < Len(tries')
    BY <1>1, <2>1, <2>2, <2>3 DEF DInv, Attempts, Calls
  <2>5. \A r, q \in network' : r.call = q.call /\ r.attempt = q.attempt => r = q
    BY <1>1, <2>1, <2>2, <2>3 DEF DInv
  <2>6. \A a \in copies'[call'] : a < Len(tries')
    BY <1>1, <2>1, <2>3 DEF DInv, Attempts
  <2>7. Outcome(answer'.status) # "Ok"
    BY <2>1, NoAnswerIsNoSuccess DEF DInv
  <2> QED
    BY <1>1, <2>1, <2>4, <2>5, <2>6, <2>7 DEF DInv
<1>4. ASSUME pc = "sending", NEW s \in Nat, NEW ra \in Nat \cup {NoSeconds}, AttemptEnds(s, ra)
      PROVE  DInv'
  <2>1. /\ call' = call /\ call \in Calls /\ network' = network /\ copies' = copies
        /\ answer' = NoAnswer /\ pc' \in {"idle", "sleeping"}
    BY <1>1, <1>4 DEF AttemptEnds, CloseTry, RetryOrGiveUp, Return
  <2>2. Len(tries') = Len(tries)
    BY <1>4, TryClosed
  <2>3. Outcome(s) \in Outcomes
    BY <1>4, OutcomeType
  <2>4. IF pc' = "idle" THEN results' = [results EXCEPT ![call] = Outcome(s)]
                        ELSE results' = results
    BY <1>4 DEF AttemptEnds, RetryOrGiveUp, Return, ErrorToReport
  <2>5. \A c \in Calls : results'[c] = "pending" <=> c > call' \/ (c = call' /\ pc' # "idle")
    BY <1>1, <1>4, <2>1, <2>3, <2>4 DEF DInv, Outcomes, Errors, Calls
  <2>6. Outcome(answer'.status) # "Ok"
    BY <2>1, NoAnswerIsNoSuccess
  <2> QED
    BY <2>1, <2>2, <2>5, <2>6 DEF DInv
<1>5. CASE ReceiveAnswer
  BY <1>4, <1>5 DEF ReceiveAnswer, TInv, TypeOK, Answers
<1>6. CASE ConnectionFails \/ TimesOut
  BY <1>4, <1>6 DEF ConnectionFails, TimesOut, NoStatus
<1>7. ASSUME NEW r \in network, NEW s \in Statuses \cup {401}, NEW st \in BOOLEAN,
             PlatformHandles(r, s, st)
      PROVE  DInv'
  <2>1. /\ UNCHANGED clientVars /\ network' = network \ {r}
        /\ copies' = IF st THEN [copies EXCEPT ![r.call] = @ \cup {r.attempt}] ELSE copies
        /\ answer' = answer \/ (pc = "sending" /\ r.call = call /\ answer'.status = s)
        /\ s \in {200, 201, 202} => st
    BY <1>7 DEF PlatformHandles
  <2>2. r.call \in Calls /\ r.call <= call
    BY <1>1 DEF DInv
  <2>3. \A c \in Calls : copies[c] \subseteq copies'[c]
    BY <1>1, <2>1, <2>2
  <2>4. \A c \in Calls : c > call => copies'[c] = {}
    BY <1>1, <2>1, <2>2 DEF DInv, Calls
  <2>5. call \in Calls => \A a \in copies'[call] : a < Len(tries)
    BY <1>1, <2>1, <2>2 DEF DInv
  <2>6. \A q \in network' : q.attempt \notin copies'[q.call]
    BY <1>1, <2>1, <2>2 DEF DInv
  <2>7. Outcome(answer'.status) = "Ok" => call \in Calls /\ copies'[call] # {}
    <3>1. CASE answer' = answer
      BY <2>3, <3>1 DEF DInv
    <3>2. CASE r.call = call /\ answer'.status = s
      <4>1. Outcome(s) = "Ok" => s \in {200, 201, 202}
        BY Accepted
      <4>2. st => copies'[call] # {}
        BY <1>1, <2>1, <2>2, <3>2
      <4> QED BY <2>1, <2>2, <3>2, <4>1, <4>2
    <3> QED BY <2>1, <3>1, <3>2
  <2>8. pc # "sending" => answer' = NoAnswer
    BY <2>1 DEF DInv
  <2> QED
    BY <2>1, <2>4, <2>5, <2>6, <2>7, <2>8 DEF DInv, clientVars
<1>8. ASSUME NEW r \in network, RequestLost(r)
      PROVE  DInv'
  BY <1>8 DEF RequestLost, clientVars, DInv
<1>9. CASE Tick \/ UNCHANGED vars
  BY <1>9 DEF Tick, vars, clientVars, DInv
<1> QED
  BY <1>2, <1>3, <1>5, <1>6, <1>7, <1>8, <1>9 DEF Next, Platform

(* A step of the retry loop, of the network or of the platform is a step of  *)
(* Delivery, or changes nothing Delivery sees.                               *)
LEMMA RefinementStep ==
    TInv /\ LoopInv /\ DInv /\ DInv' /\ [Next]_vars => [DeliveryView!Next]_DeliveryView!vars
<1> SUFFICES ASSUME TInv, LoopInv, DInv, DInv', [Next]_vars
             PROVE  DeliveryView!Next \/ UNCHANGED DeliveryView!vars
  BY DEF DeliveryView!vars
<1> USE UploaderAssumption DEF DeliveryView!Calls, Calls, DeliveryView!Attempts
<1>1. /\ attempt \in Attempts /\ call \in 0 .. MaxCalls /\ network \subseteq Requests
      /\ results \in [Calls -> Outcomes \cup {"pending"}]
      /\ copies \in [Calls -> SUBSET Attempts]
      /\ pc # "idle" => call \in Calls
      /\ \A r \in network : r.call \in Calls /\ r.attempt \in Attempts
  BY DEF TInv, TypeOK, TriesShape, Requests
<1>2. ASSUME UNCHANGED <<call, results, copies>>
      PROVE  UNCHANGED DeliveryView!vars
  BY <1>2 DEF DeliveryView!vars, Phase, PhaseOf
<1>3. CASE Upload
  <2>1. /\ pc = "idle" /\ call + 1 \in Calls /\ call' = call + 1 /\ results' = results
        /\ copies' = copies
    BY <1>1, <1>3 DEF Upload
  <2>2. /\ Phase[call + 1] = "new"
        /\ \A d \in Calls : d < call + 1 => Phase[d] \in {"ok", "failed"}
    BY <1>1, <2>1 DEF Phase, PhaseOf, DInv
  <2>3. results[call + 1] = "pending"
    BY <1>1, <2>1 DEF DInv
  <2>4. Phase' = [Phase EXCEPT ![call + 1] = "open"]
    <3>1. ASSUME NEW c \in Calls
          PROVE  PhaseOf(c)' = IF c = call + 1 THEN "open" ELSE PhaseOf(c)
      BY <1>1, <2>1, <2>3 DEF PhaseOf
    <3> QED BY <2>1, <3>1 DEF Phase
  <2> QED
    BY <2>1, <2>2, <2>4 DEF DeliveryView!Next, DeliveryView!Begin
<1>4. CASE Retry
  BY <1>2, <1>4 DEF Retry
<1>5. ASSUME pc = "sending", NEW s \in Nat, NEW ra \in Nat \cup {NoSeconds}, AttemptEnds(s, ra),
             Outcome(s) = "Ok" => copies[call] # {}
      PROVE  DeliveryView!Next \/ UNCHANGED DeliveryView!vars
  <2>1. /\ call' = call /\ call \in Calls /\ copies' = copies
        /\ results' = results \/ results' = [results EXCEPT ![call] = Outcome(s)]
    BY <1>1, <1>5 DEF AttemptEnds, RetryOrGiveUp, Return, ErrorToReport
  <2>2. CASE results' = results
    BY <1>2, <2>1, <2>2
  <2>3. CASE results' = [results EXCEPT ![call] = Outcome(s)]
    <3>1. Outcome(s) \in Outcomes
      BY <1>5, OutcomeType
    <3>2. Phase[call] = "open"
      BY <1>1, <1>5, <2>1 DEF Phase, PhaseOf, DInv
    <3>3. Phase' = [Phase EXCEPT ![call] = IF Outcome(s) = "Ok" THEN "ok" ELSE "failed"]
      <4>1. ASSUME NEW c \in Calls
            PROVE  PhaseOf(c)' = IF c # call THEN PhaseOf(c)
                                 ELSE IF Outcome(s) = "Ok" THEN "ok" ELSE "failed"
        BY <1>1, <2>1, <2>3, <3>1 DEF PhaseOf, Outcomes, Errors
      <4> QED BY <2>1, <4>1 DEF Phase
    <3>4. CASE Outcome(s) = "Ok"
      <4>1. DeliveryView!Confirm(call)
        BY <1>5, <2>1, <3>2, <3>3, <3>4 DEF DeliveryView!Confirm
      <4> QED BY <2>1, <4>1 DEF DeliveryView!Next
    <3>5. CASE Outcome(s) # "Ok"
      <4>1. DeliveryView!GiveUp(call)
        BY <2>1, <3>2, <3>3, <3>5 DEF DeliveryView!GiveUp
      <4> QED BY <2>1, <4>1 DEF DeliveryView!Next
    <3> QED BY <3>4, <3>5
  <2> QED BY <2>1, <2>2, <2>3
<1>6. CASE ReceiveAnswer
  <2>1. answer.status \in Nat /\ answer.retryAfter \in Nat \cup {NoSeconds}
    BY DEF TInv, TypeOK, Answers
  <2>2. Outcome(answer.status) = "Ok" => copies[call] # {}
    BY DEF DInv
  <2> QED BY <1>5, <1>6, <2>1, <2>2 DEF ReceiveAnswer
<1>7. CASE ConnectionFails \/ TimesOut
  <2>1. Outcome(NoStatus) # "Ok"
    BY DEF Outcome, NoStatus, SuccessStatuses
  <2> QED BY <1>5, <1>7, <2>1 DEF ConnectionFails, TimesOut, NoStatus
<1>8. ASSUME NEW r \in network, NEW s \in Statuses \cup {401}, NEW st \in BOOLEAN,
             PlatformHandles(r, s, st)
      PROVE  DeliveryView!Next \/ UNCHANGED DeliveryView!vars
  <2>1. /\ call' = call /\ results' = results
        /\ copies' = IF st THEN [copies EXCEPT ![r.call] = @ \cup {r.attempt}] ELSE copies
    BY <1>8 DEF PlatformHandles, clientVars
  <2>2. CASE ~st
    BY <1>2, <2>1, <2>2
  <2>3. CASE st
    <3>1. /\ r.call \in Calls /\ r.call <= call /\ r.attempt \in 0 .. MaxRetries
          /\ r.attempt \notin copies[r.call]
      BY <1>1 DEF DInv, Attempts
    <3>2. Phase' = Phase /\ Phase[r.call] # "new"
      BY <1>1, <2>1, <3>1 DEF Phase, PhaseOf
    <3>3. DeliveryView!Store(r.call, r.attempt)
      BY <2>1, <2>3, <3>1, <3>2 DEF DeliveryView!Store
    <3> QED BY <3>1, <3>3 DEF DeliveryView!Next
  <2> QED BY <2>2, <2>3
<1>9. ASSUME NEW r \in network, RequestLost(r)
      PROVE  UNCHANGED DeliveryView!vars
  BY <1>2, <1>9 DEF RequestLost, clientVars
<1>10. CASE Tick \/ UNCHANGED vars
  BY <1>2, <1>10 DEF Tick, vars, clientVars
<1> QED
  BY <1>3, <1>4, <1>6, <1>7, <1>8, <1>9, <1>10 DEF Next, Platform

(* Uploader::upload keeps what Delivery promises: calls one after the other,  *)
(* at most one copy stored per attempt, Ok only when a copy is stored.        *)
THEOREM UploaderImplementsDelivery == Spec => ImplementsDelivery
<1>1. Init => DInv
  BY NoAnswerIsNoSuccess, UploaderAssumption DEF Init, DInv, Calls
<1>2. Init => DeliveryView!Init
  BY UploaderAssumption DEF Init, DeliveryView!Init, DeliveryView!Calls, Phase, PhaseOf, Calls
<1> QED
  BY LoopInvariant, NextDInv, RefinementStep, <1>1, <1>2, PTL
     DEF Spec, ImplementsDelivery, DeliveryView!Spec

=============================================================================
