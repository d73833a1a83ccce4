--------------------------- MODULE CompletionProofs ---------------------------
(***************************************************************************)
(* Theorems about one completion, for any numbers of retries, any delays   *)
(* and any timeout.                                                        *)
(***************************************************************************)
EXTENDS LLMCompletion, TLAPS

(* The requests one attempt may make, and those of a number of attempts.   *)
PerAttempt == MaxRateLimitRetries + 1
Slots(n) == n * PerAttempt

(* Rate limits are counted, and an attempt that met too many is closing.   *)
Counted ==
    /\ at \in {"request", "sleep"} => attempts <= MaxRateLimitRetries
    /\ attempts <= PerAttempt
    /\ at = "backoff" => tries < Retries

(* Requests fill the slots of the attempts before, and those of this one   *)
(* as far as its rate limits tell.                                         *)
Spent ==
    /\ at = "open" => requests <= Slots(tries)
    /\ at \in {"request", "sleep"} => requests <= Slots(tries) + attempts
    /\ requests <= Slots(tries + 1)

(* A client is open exactly while an attempt works. *)
Clients == clients = IF at \in {"request", "sleep", "close"} THEN 1 ELSE 0

(* A sleep is as long as the window that was reported. *)
Patience ==
    /\ at = "sleep" => window <= wait
    /\ RetriesAfterWindow

IndInv == TypeOK /\ Counted /\ Spent /\ Clients /\ Patience

LEMMA SlotFacts ==
    /\ PerAttempt \in Nat \ {0}
    /\ \A n \in Nat : Slots(n) \in Nat /\ Slots(n + 1) = Slots(n) + PerAttempt
    /\ Slots(0) = 0
BY CompletionAssumption DEF PerAttempt, Slots

LEMMA SlotsGrow ==
    ASSUME NEW m \in Nat, NEW n \in Nat, m <= n
    PROVE  Slots(m) <= Slots(n)
<1>1. n - m \in Nat /\ n = m + (n - m)
  OBVIOUS
<1>2. PerAttempt \in Nat
  BY SlotFacts
<1>3. (n - m) * PerAttempt >= 0
  BY <1>1, <1>2
<1>4. n * PerAttempt = m * PerAttempt + (n - m) * PerAttempt
  BY <1>1, <1>2
<1> QED BY <1>2, <1>3, <1>4 DEF Slots

LEMMA Typed ==
    ASSUME TypeOK
    PROVE  /\ {attempts, wait, requests, window, clients, elapsed, tries} \subseteq Nat
           /\ tries + 1 \in Nat
           /\ {MaxRateLimitRetries, Buffer, Retries, Timeout, Backoff} \subseteq Nat
BY CompletionAssumption DEF TypeOK

LEMMA InitInd == Init => IndInv
<1> SUFFICES ASSUME Init PROVE IndInv
  OBVIOUS
<1>1. TypeOK
  <2>1. 0 \in 0 .. Timeout /\ 0 \in 0 .. Retries /\ {0} \subseteq Nat
    BY CompletionAssumption
  <2> QED BY <2>1 DEF Init, TypeOK
<1>2. Counted
  BY CompletionAssumption DEF Init, Counted, PerAttempt
<1>3. Spent
  BY SlotFacts DEF Init, Spent
<1>4. Clients /\ Patience
  BY DEF Init, Clients, Patience, RetriesAfterWindow
<1> QED BY <1>1, <1>2, <1>3, <1>4 DEF IndInv

(* What a request adds, whatever becomes of it. *)
LEMMA OneRequest ==
    ASSUME IndInv, at = "request", requests' = requests + 1, tries' = tries,
           at' \in {"close", "sleep"}
    PROVE  requests' \in Nat /\ requests' <= Slots(tries) + attempts + 1
           /\ requests' <= Slots(tries' + 1)
<1>1. requests \in Nat /\ tries \in Nat /\ attempts \in Nat /\ MaxRateLimitRetries \in Nat
  BY Typed DEF IndInv
<1>2. requests <= Slots(tries) + attempts /\ attempts <= MaxRateLimitRetries
  BY DEF IndInv, Spent, Counted
<1>3. Slots(tries) \in Nat /\ Slots(tries + 1) = Slots(tries) + MaxRateLimitRetries + 1
  BY <1>1, SlotFacts DEF PerAttempt
<1> QED BY <1>1, <1>2, <1>3

LEMMA RateLimitedInd == IndInv /\ RateLimited => IndInv'
<1> SUFFICES ASSUME IndInv, RateLimited PROVE IndInv'
  OBVIOUS
<1>1. PICK delay \in RetrySeconds :
         /\ IF delay = NoDelay THEN UNCHANGED window
            ELSE window' \in delay .. delay + Buffer
         /\ IF GivesUp(delay, attempts')
            THEN at' = "close" /\ UNCHANGED wait
            ELSE at' = "sleep" /\ wait' = SleepSeconds(delay)
  BY DEF RateLimited
<1>2. /\ at = "request" /\ requests' = requests + 1 /\ attempts' = attempts + 1
      /\ UNCHANGED <<elapsed, tries, clients, result>>
      /\ at' \in {"close", "sleep"}
  BY <1>1 DEF RateLimited
<1>3. attempts \in Nat /\ attempts <= MaxRateLimitRetries /\ MaxRateLimitRetries \in Nat
  BY <1>2, Typed DEF IndInv, Counted
<1>4. delay # NoDelay => delay \in Nat /\ Buffer \in Nat
  BY <1>1, CompletionAssumption DEF RetrySeconds
<1>5. window' \in Nat /\ wait' \in Nat
  BY <1>1, <1>4, Typed DEF IndInv, GivesUp, SleepSeconds
<1>6. TypeOK'
  BY <1>2, <1>3, <1>5, OneRequest DEF IndInv, TypeOK
<1>7. at' = "sleep" => attempts' <= MaxRateLimitRetries /\ window' <= wait'
  BY <1>1, <1>2, <1>3, <1>4 DEF GivesUp, SleepSeconds
<1>8. Counted'
  BY <1>2, <1>3, <1>7 DEF Counted, PerAttempt
<1>9. Spent'
  <2>1. Slots(tries) \in Nat
    BY SlotFacts, Typed DEF IndInv
  <2> QED BY <1>2, <1>3, <2>1, OneRequest DEF Spent
<1>10. Clients'
  BY <1>2 DEF IndInv, Clients
<1>11. Patience'
  BY <1>2, <1>7 DEF Patience, RetriesAfterWindow
<1> QED BY <1>6, <1>8, <1>9, <1>10, <1>11 DEF IndInv

LEMMA AnsweredInd == IndInv /\ Answered => IndInv'
<1> SUFFICES ASSUME IndInv, Answered PROVE IndInv'
  OBVIOUS
<1>1. /\ at = "request" /\ at' = "close" /\ requests' = requests + 1
      /\ UNCHANGED <<attempts, wait, elapsed, tries, clients, window>>
  BY DEF Answered
<1>2. TypeOK'
  BY <1>1, OneRequest DEF IndInv, TypeOK, Answered
<1>3. Counted' /\ Clients' /\ Patience'
  BY <1>1 DEF IndInv, Counted, Clients, Patience, RetriesAfterWindow
<1>4. Spent'
  BY <1>1, OneRequest DEF Spent
<1> QED BY <1>2, <1>3, <1>4 DEF IndInv

LEMMA TimesOutInd == IndInv /\ TimesOut => IndInv'
<1> SUFFICES ASSUME IndInv, TimesOut PROVE IndInv'
  OBVIOUS
<1>1. /\ at \in {"request", "sleep"} /\ at' = "close" /\ elapsed' = Timeout
      /\ window' = Later(Timeout - elapsed)
      /\ UNCHANGED <<attempts, wait, tries, clients, result>>
      /\ \/ at = "request" /\ requests' = requests + 1
         \/ requests' = requests
  BY DEF TimesOut
<1>2. requests' \in Nat /\ requests' <= Slots(tries' + 1)
  <2>1. CASE at = "request" /\ requests' = requests + 1
    BY <1>1, <2>1, OneRequest
  <2>2. CASE requests' = requests
    BY <1>1, <2>2, Typed DEF IndInv, Spent
  <2> QED BY <1>1, <2>1, <2>2
<1>3. window' \in Nat /\ elapsed' \in 0 .. Timeout
  BY <1>1, Typed DEF IndInv, TypeOK, Later
<1>4. TypeOK'
  BY <1>1, <1>2, <1>3 DEF IndInv, TypeOK
<1>5. Counted' /\ Clients' /\ Patience'
  BY <1>1 DEF IndInv, Counted, Clients, Patience, RetriesAfterWindow
<1>6. Spent'
  BY <1>1, <1>2 DEF Spent
<1> QED BY <1>4, <1>5, <1>6 DEF IndInv

LEMMA SleepInd == IndInv /\ Sleep => IndInv'
<1> SUFFICES ASSUME IndInv, Sleep PROVE IndInv'
  OBVIOUS
<1>1. /\ at = "sleep" /\ at' = "request" /\ elapsed' = elapsed + wait
      /\ elapsed + wait <= Timeout /\ window' = Later(wait)
      /\ UNCHANGED <<attempts, wait, tries, clients, result, requests>>
  BY DEF Sleep
<1>2. window' = 0 /\ elapsed' \in 0 .. Timeout
  BY <1>1, Typed DEF IndInv, Patience, Later
<1>3. TypeOK'
  BY <1>1, <1>2 DEF IndInv, TypeOK
<1>4. Counted' /\ Clients' /\ Patience' /\ Spent'
  BY <1>1, <1>2 DEF IndInv, Counted, Clients, Patience, RetriesAfterWindow, Spent
<1> QED BY <1>3, <1>4 DEF IndInv

LEMMA BackOffInd == IndInv /\ BackOff => IndInv'
<1> SUFFICES ASSUME IndInv, BackOff PROVE IndInv'
  OBVIOUS
<1>1. /\ at = "backoff" /\ at' = "open" /\ tries' = tries + 1 /\ window' = Later(Backoff)
      /\ UNCHANGED <<attempts, wait, elapsed, clients, result, requests>>
  BY DEF BackOff
<1>2. tries' \in 0 .. Retries /\ tries' \in Nat /\ window' \in Nat
  BY <1>1, Typed DEF IndInv, Counted, Later
<1>3. TypeOK'
  BY <1>1, <1>2 DEF IndInv, TypeOK
<1>4. Counted' /\ Clients' /\ Patience'
  BY <1>1 DEF IndInv, Counted, Clients, Patience, RetriesAfterWindow
<1>5. requests <= Slots(tries') /\ Slots(tries') <= Slots(tries' + 1)
  BY <1>1, <1>2, SlotsGrow DEF IndInv, Spent
<1>6. Slots(tries') \in Nat /\ Slots(tries' + 1) \in Nat /\ requests \in Nat
  BY <1>2, SlotFacts, Typed DEF IndInv
<1>7. Spent'
  BY <1>1, <1>5, <1>6 DEF Spent
<1> QED BY <1>3, <1>4, <1>7 DEF IndInv

LEMMA NextInd == IndInv /\ [Next]_vars => IndInv'
<1> SUFFICES ASSUME IndInv, [Next]_vars PROVE IndInv'
  OBVIOUS
<1>1. CASE OpenClient
  <2>1. TypeOK'
    <3>1. 0 \in 0 .. Timeout /\ clients + 1 \in Nat /\ 0 \in Nat
      BY CompletionAssumption, Typed DEF IndInv
    <3>2. {0, wait, requests, window, clients + 1} \subseteq Nat
      BY <3>1, Typed DEF IndInv
    <3> QED BY <1>1, <3>1, <3>2 DEF OpenClient, IndInv, TypeOK
  <2>2. Counted' /\ Clients' /\ Patience'
    BY <1>1, CompletionAssumption DEF OpenClient, IndInv, Counted, Clients, Patience,
       RetriesAfterWindow, PerAttempt
  <2>3. Slots(tries) \in Nat
    BY SlotFacts, Typed DEF IndInv
  <2>4. Spent'
    BY <1>1, <2>3 DEF OpenClient, IndInv, Spent
  <2> QED BY <2>1, <2>2, <2>4 DEF IndInv
<1>2. CASE Close
  <2>1. /\ at = "close" /\ clients' = clients - 1 /\ clients = 1
        /\ at' \in {"returned", "backoff", "failed"}
        /\ at' = "backoff" => tries < Retries
        /\ UNCHANGED <<attempts, wait, elapsed, tries, result, window, requests>>
    BY <1>2 DEF Close, IndInv, Clients
  <2> QED BY <2>1 DEF IndInv, TypeOK, Counted, Spent, Clients, Patience, RetriesAfterWindow
<1>3. CASE UNCHANGED vars
  BY <1>3 DEF vars, IndInv, TypeOK, Counted, Spent, Clients, Patience, RetriesAfterWindow
<1> QED
  BY <1>1, <1>2, <1>3, RateLimitedInd, AnsweredInd, TimesOutInd, SleepInd, BackOffInd
  DEF Next, Finished

LEMMA Invariance == Spec => []IndInv
BY InitInd, NextInd, PTL DEF Spec

(* Every reachable state of a completion is well typed: an attempt never   *)
(* takes longer than its timeout, nor is it retried too often.             *)
THEOREM CompletionTypeCorrect == Spec => []TypeOK
<1>1. IndInv => TypeOK
  BY DEF IndInv
<1> QED BY <1>1, Invariance, PTL

(* The two retry loops together make a bounded number of requests. *)
THEOREM RequestBudget == Spec => []RequestsBounded
<1>1. IndInv => RequestsBounded
  <2> SUFFICES ASSUME IndInv PROVE RequestsBounded
    OBVIOUS
  <2>1. tries + 1 \in Nat /\ Retries + 1 \in Nat /\ tries + 1 <= Retries + 1
        /\ requests \in Nat
    BY Typed DEF IndInv, TypeOK
  <2>2. requests <= Slots(tries + 1) /\ Slots(tries + 1) <= Slots(Retries + 1)
    BY <2>1, SlotsGrow DEF IndInv, Spent
  <2>3. Slots(tries + 1) \in Nat /\ Slots(Retries + 1) \in Nat
    BY <2>1, SlotFacts
  <2>4. requests <= Slots(Retries + 1)
    BY <2>1, <2>2, <2>3
  <2> QED BY <2>4 DEF RequestsBounded, IndInv, Counted, Slots, PerAttempt
<1> QED BY <1>1, Invariance, PTL

(* No client outlives its attempt, however the attempt ended. *)
THEOREM ClientsAreClosed == Spec => []ClientsClosed
<1>1. IndInv => ClientsClosed
  BY DEF IndInv, Clients, ClientsClosed
<1> QED BY <1>1, Invariance, PTL

(* Inside an attempt a rate limited request is repeated only after the     *)
(* quota window has rolled over, also if the delay was rounded down.       *)
THEOREM WindowRespected == Spec => []RetriesAfterWindow
<1>1. IndInv => RetriesAfterWindow
  BY DEF IndInv, Patience
<1> QED BY <1>1, Invariance, PTL
-----------------------------------------------------------------------------
(* Why a completion ends *)

(* How far an attempt is from its end. *)
Stage == [open |-> 4, request |-> 3, sleep |-> 3, close |-> 2, backoff |-> 1,
          returned |-> 0, failed |-> 0][at]

(* The requests, twice, that an attempt may still make, with a sleep in     *)
(* between: never below zero, by RequestBudget.                             *)
Left == 2 * (MaxRateLimitRetries + 1 - attempts) + (IF at = "sleep" THEN 1 ELSE 0)

(* A later attempt, a later stage of it, or less that is left. *)
Advances ==
    \/ tries' > tries
    \/ tries' = tries /\ Stage' < Stage
    \/ tries' = tries /\ Stage' = Stage /\ Left' < Left

LEMMA RetryAdvances == IndInv /\ RateLimited => Advances
<1> SUFFICES ASSUME IndInv, RateLimited PROVE Advances
  OBVIOUS
<1>1. tries' = tries /\ at = "request" /\ attempts' = attempts + 1 /\ attempts \in Nat
  BY DEF IndInv, TypeOK, RateLimited
<1>2. at' \in {"close", "sleep"}
  BY DEF RateLimited
<1>3. CASE at' = "close"
  BY <1>1, <1>3 DEF Advances, Stage
<1>4. CASE at' = "sleep"
  <2>1. Stage' = Stage
    BY <1>1, <1>4 DEF Stage
  <2>2. Left' < Left
    BY <1>1, <1>4, CompletionAssumption DEF Left
  <2> QED BY <1>1, <2>1, <2>2 DEF Advances
<1> QED BY <1>2, <1>3, <1>4

LEMMA SleepAdvances == IndInv /\ Sleep => Advances
<1> SUFFICES ASSUME IndInv, Sleep PROVE Advances
  OBVIOUS
<1>1. tries' = tries /\ Stage' = Stage
  BY DEF Sleep, Stage
<1>2. Left' < Left
  BY CompletionAssumption DEF IndInv, TypeOK, Sleep, Left
<1> QED BY <1>1, <1>2 DEF Advances

LEMMA LaterStage ==
    ASSUME IndInv, OpenClient \/ Answered \/ TimesOut \/ Close
    PROVE  Advances
<1>1. tries' = tries
  BY DEF OpenClient, Answered, TimesOut, Close
<1>2. \/ at = "open" /\ at' = "request"
      \/ at \in {"request", "sleep"} /\ at' = "close"
      \/ at = "close" /\ at' \in {"backoff", "returned", "failed"}
  BY DEF OpenClient, Answered, TimesOut, Close
<1>3. Stage' < Stage
  BY <1>2 DEF Stage
<1> QED BY <1>1, <1>3 DEF Advances

LEMMA LaterAttempt == IndInv /\ BackOff => Advances
BY DEF IndInv, TypeOK, BackOff, Advances

(* Every step of a completion is a step of a later attempt of the engine,  *)
(* of a later stage of the attempt, or uses up one of its requests or the  *)
(* sleep after it: the two nested loops cannot go round for ever, whatever *)
(* delays the errors report.                                               *)
THEOREM EveryStepAdvances == Spec => [][Advances]_vars
<1>1. IndInv /\ [Next]_vars => [Advances]_vars
  BY RetryAdvances, SleepAdvances, LaterStage, LaterAttempt DEF Next, Finished
<1> QED BY <1>1, Invariance, PTL DEF Spec
=============================================================================
