----------------------------- MODULE MCTelegram -----------------------------
(***************************************************************************)
(* A small instance for TLC of the notifications: a call of the notifier    *)
(* with its limiter, the limiter alone with all its operations and a clock  *)
(* that may be behind, and the splitting of a text.  A behaviour is one of  *)
(* part.                                                                    *)
(***************************************************************************)
EXTENDS TelegramNotifier

CONSTANTS MaxLen, MaxText               \* of MessageSplit

(* max_len of _split_message is positive. *)
ASSUME SplitParams == MaxLen \in Nat \ {0} /\ MaxText \in Nat

VARIABLE part
VARIABLES text, remaining, pieces, starts, done     \* MessageSplit

Fails(arrived, retryable, silent) ==
    [arrived |-> arrived, retryable |-> retryable, silent |-> silent]

TooManyRequests == Fails(FALSE, TRUE, FALSE)        \* 429
Unauthorized == Fails(FALSE, FALSE, FALSE)          \* 401, 403, 400
LostAnswer == Fails(TRUE, TRUE, FALSE)              \* a proxy's "bad gateway"
ConnectTimeout == Fails(FALSE, TRUE, TRUE)          \* httpx.ConnectTimeout("")

SpokenFailures == {TooManyRequests, Unauthorized, LostAnswer}
SilentFailures == {ConnectTimeout}

message == <<text, remaining, pieces, starts, done>>

Split == INSTANCE MessageSplit WITH chunks <- pieces

MCInit ==
    /\ part \in {"call", "limiter", "split"}
    /\ Init /\ (part # "call" => type = CHOOSE t \in Types : TRUE)
    /\ Split!Init /\ (part # "split" => Len(text) = 1)

Finished == done /\ UNCHANGED message

MCNext ==
    /\ UNCHANGED part
    /\ \/ part = "call" /\ Next /\ UNCHANGED message
       \/ part = "limiter" /\ Limiter!Next /\ UNCHANGED <<call, message>>
       \/ part = "split" /\ (Split!Next \/ Finished) /\ UNCHANGED vars

CallStep == part = "call" /\ Post /\ UNCHANGED <<part, message>>

MCSpec ==
    /\ MCInit /\ [][MCNext]_<<part, vars, message>>
    /\ WF_<<part, vars, message>>(CallStep)

-----------------------------------------------------------------------------
(* The properties of the parts; each is stated and explained in its module. *)
WindowLimit == Limiter!WindowLimit
RefusalHasCause == Limiter!RefusalHasCause
SplitSound == Split!SplitSound
Progress == Split!Progress
=============================================================================
