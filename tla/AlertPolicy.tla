---------------------------- MODULE AlertPolicy ----------------------------
(***************************************************************************)
(* What the monitor promises the person who reads its Telegram channel     *)
(* about the alerts of a symbol: between two of them the cooldown passes,   *)
(* and an episode (the time the signal condition holds) is dealt with once. *)
(* A restart, or a database that fails after the message went out, makes    *)
(* the program forget, and the promise starts anew for that symbol.         *)
(* No pipeline, no store, no engine: MonitorApp implements this machine.    *)
(***************************************************************************)
EXTENDS Integers

CONSTANTS Symbols, None, CooldownMs, RepeatAlertWhileActive

VARIABLES
    clock,
    last,       \* the last alert of each symbol that is remembered
    dealt       \* the episodes whose alert was sent or suppressed

policyVars == <<clock, last, dealt>>

Init ==
    /\ clock \in Nat
    /\ last = [s \in Symbols |-> None]
    /\ dealt = [s \in Symbols |-> FALSE]

Alert(s) ==
    /\ last[s] = None \/ clock - last[s] >= CooldownMs
    /\ ~dealt[s] \/ RepeatAlertWhileActive
    /\ last' = [last EXCEPT ![s] = clock]
    /\ dealt' = [dealt EXCEPT ![s] = TRUE]
    /\ UNCHANGED clock

EpisodeEnds(s) ==
    /\ dealt' = [dealt EXCEPT ![s] = FALSE]
    /\ UNCHANGED <<clock, last>>

Forget(S) ==
    /\ last' = [s \in Symbols |-> IF s \in S THEN None ELSE last[s]]
    /\ dealt' = [s \in Symbols |-> dealt[s] /\ s \notin S]
    /\ UNCHANGED clock

Pass ==
    /\ clock' \in Nat
    /\ clock' > clock
    /\ UNCHANGED <<last, dealt>>

Next ==
    \/ \E s \in Symbols : Alert(s) \/ EpisodeEnds(s)
    \/ \E S \in SUBSET Symbols : Forget(S)
    \/ Pass

Spec == Init /\ [][Next]_policyVars
=============================================================================
