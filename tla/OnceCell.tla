------------------------------ MODULE OnceCell ------------------------------
(***************************************************************************)
(* What a lazily loaded value promises to the tasks that want it: one task  *)
(* at a time tries to load it, in the order they asked; once it is there it *)
(* never changes and nobody loads it again.  The markets and the funding    *)
(* intervals of an exchange client are such values.                         *)
(***************************************************************************)
EXTENDS Integers, Sequences

CONSTANTS Tasks, Values, Unset

VARIABLES
    queue,      \* the tasks that hold the lock (the first) or wait for it
    value       \* Unset, or a member of Values for ever

vars == <<queue, value>>

Init == queue = << >> /\ value = Unset

Ask(t) ==
    /\ \A i \in 1 .. Len(queue) : queue[i] # t
    /\ queue' = Append(queue, t)
    /\ UNCHANGED value

Publish ==
    /\ queue # << >> /\ value = Unset
    /\ value' \in Values
    /\ queue' = Tail(queue)

(* The value was there already, or the load failed. *)
Leave ==
    /\ queue # << >>
    /\ queue' = Tail(queue)
    /\ UNCHANGED value

Next == Publish \/ Leave \/ \E t \in Tasks : Ask(t)

Spec == Init /\ [][Next]_vars
=============================================================================
