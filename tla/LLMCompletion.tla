--------------------------- MODULE LLMCompletion ---------------------------
(***************************************************************************)
(* One completion of llm/client.py: generate_completion and its structured *)
(* twin, which differ in the request only.  An activity attempt opens a    *)
(* client, sends the request, waits out rate limits a few times, and       *)
(* closes the client; the engine gives an attempt so much time and the     *)
(* activity so many attempts.  Time is counted in seconds, or any unit.    *)
(***************************************************************************)
EXTENDS Integers

CONSTANTS
    MaxRateLimitRetries,  (* _MAX_RATE_LIMIT_RETRIES                        *)
    Buffer,               (* _RATE_LIMIT_BUFFER_SECONDS                     *)
    Retries,              (* retries of the activity                        *)
    Timeout,              (* timeout of one attempt                         *)
    Backoff,              (* backoff_seconds between two attempts           *)
    Delays,               (* bound: the delays a rate limit error reports   *)
    NoDelay               (* a rate limit error without a delay in its text *)

ASSUME CompletionAssumption ==
    /\ {MaxRateLimitRetries, Buffer, Retries, Timeout, Backoff} \subseteq Nat
    /\ Delays \subseteq Nat
    /\ NoDelay \notin Nat

VARIABLES
    at,        (* open, request, sleep, close, backoff, returned or failed   *)
    attempts,  (* rate limits met in this attempt                            *)
    wait,      (* the sleep it stands in                                     *)
    elapsed,   (* time this attempt has taken                                *)
    tries,     (* activity attempts that were retried                        *)
    clients,   (* clients that are open                                      *)
    result,    (* did the request of this attempt give a result?             *)
    window,    (* time until the quota window last reported rolls over       *)
    requests   (* history: requests made in all attempts                     *)

vars == <<at, attempts, wait, elapsed, tries, clients, result, window, requests>>

(* _rate_limit_retry_seconds: what is found in the text of the error. *)
RetrySeconds == Delays \cup {NoDelay}

Later(time) == IF window > time THEN window - time ELSE 0

Init ==
    /\ at = "open"
    /\ attempts = 0
    /\ wait = 0
    /\ elapsed = 0
    /\ tries = 0
    /\ clients = 0
    /\ result = FALSE
    /\ window = 0
    /\ requests = 0

OpenClient ==
    /\ at = "open"
    /\ clients' = clients + 1
    /\ attempts' = 0
    /\ elapsed' = 0
    /\ result' = FALSE
    /\ at' = "request"
    /\ UNCHANGED <<wait, tries, window, requests>>

(* A response, with content or without (which raises). *)
Answered ==
    /\ at = "request"
    /\ requests' = requests + 1
    /\ result' \in BOOLEAN
    /\ at' = "close"
    /\ UNCHANGED <<attempts, wait, elapsed, tries, clients, window>>

(* Mutant: the reported delay is waited without the buffer. *)
PlainDelay(delay) == delay

(* The delay is reported with rounding; the buffer makes up for it. *)
SleepSeconds(delay) == delay + Buffer

(* Mutant: one retry too many. *)
GivesUpLate(delay, met) == delay = NoDelay \/ met > MaxRateLimitRetries + 1

GivesUp(delay, met) == delay = NoDelay \/ met > MaxRateLimitRetries

(* RateLimitError: raised when it reports no delay or once too often. *)
RateLimited ==
    /\ at = "request"
    /\ requests' = requests + 1
    /\ attempts' = attempts + 1
    /\ \E delay \in RetrySeconds :
         /\ IF delay = NoDelay THEN UNCHANGED window
            ELSE window' \in delay .. delay + Buffer
         /\ IF GivesUp(delay, attempts')
            THEN at' = "close" /\ UNCHANGED wait
            ELSE at' = "sleep" /\ wait' = SleepSeconds(delay)
    /\ UNCHANGED <<elapsed, tries, clients, result>>

Sleep ==
    /\ at = "sleep"
    /\ elapsed + wait <= Timeout
    /\ elapsed' = elapsed + wait
    /\ window' = Later(wait)
    /\ at' = "request"
    /\ UNCHANGED <<attempts, wait, tries, clients, result, requests>>

(* The attempt is cancelled, in a request or in a sleep that is too long. *)
TimesOut ==
    /\ \/ at = "request" /\ requests' = requests + 1
       \/ at = "sleep" /\ elapsed + wait > Timeout /\ UNCHANGED requests
    /\ elapsed' = Timeout
    /\ window' = Later(Timeout - elapsed)
    /\ at' = "close"
    /\ UNCHANGED <<attempts, wait, tries, clients, result>>

(* Mutant: the client is closed after a result only, without finally. *)
CloseAfterResult ==
    /\ at = "close"
    /\ clients' = IF result THEN clients - 1 ELSE clients
    /\ at' = IF result THEN "returned" ELSE IF tries < Retries THEN "backoff" ELSE "failed"
    /\ UNCHANGED <<attempts, wait, elapsed, tries, result, window, requests>>

(* finally: the client is closed; the engine retries an attempt that raised. *)
Close ==
    /\ at = "close"
    /\ clients' = clients - 1
    /\ at' = IF result THEN "returned" ELSE IF tries < Retries THEN "backoff" ELSE "failed"
    /\ UNCHANGED <<attempts, wait, elapsed, tries, result, window, requests>>

(* Mutant: a retry is not counted, and the history starts over with it. *)
BackOffUncounted ==
    /\ at = "backoff"
    /\ window' = Later(Backoff)
    /\ at' = "open"
    /\ requests' = 0
    /\ UNCHANGED <<attempts, wait, elapsed, tries, clients, result>>

(* The engine's backoff knows nothing of the delay the last error reported. *)
BackOff ==
    /\ at = "backoff"
    /\ tries' = tries + 1
    /\ window' = Later(Backoff)
    /\ at' = "open"
    /\ UNCHANGED <<attempts, wait, elapsed, clients, result, requests>>

Finished == at \in {"returned", "failed"} /\ UNCHANGED vars

Next ==
    \/ OpenClient \/ Answered \/ RateLimited \/ Sleep \/ TimesOut \/ Close
    \/ BackOff \/ Finished

Spec == Init /\ [][Next]_vars

(* The engine drives the activity and its timer ends every attempt. *)
FairSpec == Spec /\ WF_vars(Next)
-----------------------------------------------------------------------------
TypeOK ==
    /\ at \in {"open", "request", "sleep", "close", "backoff", "returned", "failed"}
    /\ {attempts, wait, requests, window, clients} \subseteq Nat
    /\ elapsed \in 0 .. Timeout
    /\ tries \in 0 .. Retries
    /\ result \in BOOLEAN

(* However the two retry loops nest, a completion costs a bounded number   *)
(* of requests, and those of one attempt end with the rate limit budget.   *)
RequestsBounded ==
    /\ requests <= (Retries + 1) * (MaxRateLimitRetries + 1)
    /\ attempts <= MaxRateLimitRetries + 1

(* No client outlives its attempt, whether it returned, raised or was cut  *)
(* off in its sleep.                                                       *)
ClientsClosed ==
    /\ at \in {"open", "backoff", "returned", "failed"} => clients = 0
    /\ clients <= 1

(* After a rate limit the same attempt asks again only when the quota      *)
(* window has rolled over, even if the reported delay was rounded down.    *)
RetriesAfterWindow == at = "request" /\ attempts > 0 => window = 0

(* The same of every request, the first one of a later attempt included. *)
RequestsAfterWindow == at = "request" => window = 0

(* A completion always returns or raises. *)
CompletionEnds == <>(at \in {"returned", "failed"})
=============================================================================
