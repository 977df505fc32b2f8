---------------------------- MODULE SlidingWindow ----------------------------
(***************************************************************************)
(* What rate limiting promises a client, without saying how it is counted: *)
(* a request is admitted exactly when the Limit-th last admission under    *)
(* its key is at least a window old, so no window ever holds more than     *)
(* Limit admissions and nobody is refused while a window has room.         *)
(***************************************************************************)
EXTENDS Integers, Sequences

CONSTANTS
    Key,     \* a bucket ("create" or "read") and a client address
    Limit,   \* Limit[k]: requests allowed per window
    Window   \* Window[k]: the window, in ticks of the monotonic clock

VARIABLES
    now,       \* time.monotonic()
    admitted,  \* admitted[k]: when each admitted request under k came
    answer     \* what the last request was told

Limited(k) == Limit[k] > 0 /\ Window[k] > 0

HasRoom(k) ==
    LET n == Len(admitted[k]) IN
    n < Limit[k] \/ admitted[k][n + 1 - Limit[k]] <= now - Window[k]

Init ==
    /\ now = 0
    /\ admitted = [k \in Key |-> <<>>]
    /\ answer = "none"

Admit(k) ==
    /\ Limited(k) => HasRoom(k)
    /\ admitted' = [admitted EXCEPT ![k] = Append(@, now)]
    /\ answer' = "allowed"
    /\ UNCHANGED now

Refuse(k) ==
    /\ Limited(k) /\ ~HasRoom(k)
    /\ answer' = "refused"
    /\ UNCHANGED <<now, admitted>>

Tick == now' = now + 1 /\ UNCHANGED <<admitted, answer>>

Next == Tick \/ \E k \in Key : Admit(k) \/ Refuse(k)

Spec == Init /\ [][Next]_<<now, admitted, answer>>
=============================================================================
