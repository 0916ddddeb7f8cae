------------------------- MODULE RateLimiterParams -------------------------
(* The parameters of NotificationRateLimiter                                *)
(* (monitor/notifications/rate_limiter.py) and the bounds of its models.    *)
EXTENDS Integers

CONSTANTS
    MaxMessages,    \* max_messages_per_hour
    WindowMs,       \* window_ms
    MaxTime,        \* bound on real time
    MaxSlack        \* bound on how far now_ms is behind the real time

(* RateLimiterParams.__post_init__. *)
ASSUME LimiterParams == MaxMessages \in Nat \ {0} /\ WindowMs \in Nat \ {0}

ASSUME LimiterBounds == MaxTime \in Nat /\ MaxSlack \in Nat
=============================================================================
