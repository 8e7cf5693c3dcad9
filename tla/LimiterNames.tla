---------------------------- MODULE LimiterNames ----------------------------
(* What the two halves of the limiter (DeviceLimit, SpeedLimit) talk about. *)
CONSTANTS
    Users,      \* user tags; a user stands for its UID as well
    Conns,      \* goroutines that may be in CheckLimit at the same time
    None
=============================================================================
