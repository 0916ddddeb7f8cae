-------------------------- MODULE TelegramNotifier --------------------------
(***************************************************************************)
(* TelegramNotifier.send_alert (monitor/notifications/telegram.py) with the *)
(* retries of utils/retry.py and the sliding window of RateLimiter: a text  *)
(* goes out in chunks, every chunk is posted until Telegram acknowledges    *)
(* it, an error is not worth a retry, or the attempts are used up.          *)
(*                                                                         *)
(* The monitor is one task, so there is one call at a time.  The network    *)
(* is the environment: Failures says what an attempt may die of.            *)
(***************************************************************************)
EXTENDS RateLimiterParams, Sequences

CONSTANTS
    Types,              \* AlertType
    EnabledTypes,       \* the types _is_enabled lets through
    RetryAttempts,      \* telegram.retry_attempts
    MaxChunks,          \* bound on the chunks of a text
    Failures            \* how an attempt may fail, see Failure

(* An exception of an attempt: whether the message got to the chat all the  *)
(* same (the acknowledgement was lost), whether _telegram_should_retry      *)
(* wants another attempt, and whether str(exc) is empty, as it is for the   *)
(* timeouts of httpx.                                                       *)
Failure == [arrived: BOOLEAN, retryable: BOOLEAN, silent: BOOLEAN]

(* TelegramNotifierParams.__post_init__. *)
ASSUME NotifierParams ==
    /\ EnabledTypes \subseteq Types
    /\ RetryAttempts \in Nat
    /\ MaxChunks \in Nat
    /\ Failures \subseteq Failure

VARIABLES clock, real, events, granted      \* of RateLimiter

VARIABLES
    pc,         \* "idle", or "posting" while a chunk is on its way
    type,       \* the alert_type of the call
    chunks,     \* len(chunks); 0 for an empty text
    chunk,      \* the chunk being posted
    attempt,    \* of retry_async, counted from 1
    result,     \* the status of the last call
    copies      \* history: how often each chunk of the call got to the chat

limiter == <<clock, real, events, granted>>
call == <<pc, type, chunks, chunk, attempt, result, copies>>
vars == <<limiter, call>>

(* The key of a call without an alert_id is its type: no caller passes one. *)
Limiter == INSTANCE RateLimiter WITH Keys <- Types

MaxAttempts == IF RetryAttempts > 1 THEN RetryAttempts ELSE 1

NoCopies == [i \in 1 .. MaxChunks |-> 0]

Init ==
    /\ Limiter!Init
    /\ pc = "idle"
    /\ type \in Types
    /\ chunks = 0 /\ chunk = 1 /\ attempt = 1
    /\ result = "none"
    /\ copies = NoCopies

Start(t, n, status) ==
    /\ pc = "idle"
    /\ type' = t /\ chunks' = n /\ chunk' = 1 /\ attempt' = 1
    /\ result' = status
    /\ copies' = NoCopies

(* Not enabled: the limiter is not asked. *)
SuppressByConfig(t, n) ==
    /\ t \notin EnabledTypes
    /\ Start(t, n, "suppressed")
    /\ UNCHANGED <<limiter, pc>>

SuppressByLimiter(t, n) ==
    /\ t \in EnabledTypes
    /\ Limiter!Refuse(t)
    /\ Start(t, n, "suppressed")
    /\ UNCHANGED pc

(* The limiter is asked before the text is looked at: an empty text fails,  *)
(* and has used up a message.                                               *)
SendAlert(t, n) ==
    /\ t \in EnabledTypes
    /\ Limiter!Grant(t)
    /\ IF n = 0
          THEN Start(t, n, "failed") /\ UNCHANGED pc
          ELSE Start(t, n, "none") /\ pc' = "posting"

Arrive(arrived) ==
    copies' = IF arrived THEN [copies EXCEPT ![chunk] = @ + 1] ELSE copies

(* HTTP 200. *)
Acknowledged ==
    /\ pc = "posting"
    /\ Arrive(TRUE)
    /\ IF chunk = chunks
          THEN /\ pc' = "idle" /\ result' = "sent"
               /\ UNCHANGED <<chunk, attempt>>
          ELSE /\ chunk' = chunk + 1 /\ attempt' = 1
               /\ UNCHANGED <<pc, result>>
    /\ UNCHANGED <<limiter, type, chunks>>

(* Mutants: one attempt too many, or a count that starts over. *)
RetryOnceMore(f) ==
    /\ pc = "posting"
    /\ f.retryable /\ attempt <= MaxAttempts
    /\ attempt' = attempt + 1
    /\ Arrive(f.arrived)
    /\ UNCHANGED <<limiter, pc, type, chunks, chunk, result>>

RetryForEver(f) ==
    /\ pc = "posting"
    /\ f.retryable
    /\ attempt' = IF attempt < MaxAttempts THEN attempt + 1 ELSE 1
    /\ UNCHANGED <<limiter, pc, type, chunks, chunk, result, copies>>

Retry(f) ==
    /\ pc = "posting"
    /\ f.retryable /\ attempt < MaxAttempts
    /\ attempt' = attempt + 1
    /\ Arrive(f.arrived)
    /\ UNCHANGED <<limiter, pc, type, chunks, chunk, result>>

(* Mutants: the call goes on with the next chunk, or counts as delivered    *)
(* once some of it is.                                                      *)
GiveUpGoesOn(f) ==
    /\ pc = "posting"
    /\ ~f.retryable \/ attempt >= MaxAttempts
    /\ Arrive(f.arrived)
    /\ chunk < chunks
    /\ chunk' = chunk + 1 /\ attempt' = 1
    /\ UNCHANGED <<limiter, pc, type, chunks, result>>

GiveUpPartly(f) ==
    /\ pc = "posting"
    /\ ~f.retryable \/ attempt >= MaxAttempts
    /\ Arrive(f.arrived)
    /\ pc' = "idle"
    /\ result' = IF chunk > 1 THEN "sent" ELSE "failed"
    /\ UNCHANGED <<limiter, type, chunks, chunk, attempt>>

(* _send_text gives up and send_alert stops at this chunk.  Whether the     *)
(* call failed is read off the error message: an empty one counts as none.  *)
GiveUp(f) ==
    /\ pc = "posting"
    /\ ~f.retryable \/ attempt >= MaxAttempts
    /\ Arrive(f.arrived)
    /\ pc' = "idle"
    /\ result' = IF f.silent THEN "sent" ELSE "failed"
    /\ UNCHANGED <<limiter, type, chunks, chunk, attempt>>

Tick == Limiter!Tick /\ UNCHANGED call

Post == Acknowledged \/ \E f \in Failures : Retry(f) \/ GiveUp(f)

Next ==
    \/ \E t \in Types, n \in 0 .. MaxChunks :
          SuppressByConfig(t, n) \/ SuppressByLimiter(t, n) \/ SendAlert(t, n)
    \/ Post
    \/ Tick

Spec == Init /\ [][Next]_vars

(* httpx has a timeout: every attempt ends. *)
FairSpec == Spec /\ WF_vars(Post)

-----------------------------------------------------------------------------
(* The state of a call; the deques of the limiter are typed in RateLimiter. *)
TypeOK ==
    /\ pc \in {"idle", "posting"}
    /\ type \in Types
    /\ chunks \in 0 .. MaxChunks
    /\ chunk \in Nat \ {0}
    /\ attempt \in 1 .. MaxAttempts
    /\ result \in {"none", "sent", "failed", "suppressed"}
    /\ copies \in [1 .. MaxChunks -> 0 .. MaxAttempts]
    /\ pc = "posting" => chunk <= chunks

(* No chunk reaches the chat before the one in front of it, and no chunk    *)
(* more often than there are attempts, whatever acknowledgements are lost   *)
(* (telegram.py, send_alert: break; retry.py, retry_async).                 *)
InOrder ==
    \A i \in 1 .. MaxChunks :
        /\ copies[i] <= MaxAttempts
        /\ copies[i] > 0 => \A j \in 1 .. i : copies[j] > 0

(* A call that reports SENT has delivered the whole text ("Timeout          *)
(* retry'ится, но все попытки падают -> FAILED", test_telegram.py:464).      *)
SentIsDelivered ==
    result = "sent" => \A i \in 1 .. chunks : copies[i] > 0

(* Every call ends: the caller, and with it the whole monitor, waits for it *)
(* (telegram.py, send_alert; retry.py, retry_async).                        *)
CallEnds == pc = "posting" ~> pc = "idle"
=============================================================================
