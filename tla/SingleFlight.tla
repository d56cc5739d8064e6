---------------------------- MODULE SingleFlight ----------------------------
(***************************************************************************)
(* What a session promises the callers that need a token, without saying   *)
(* how.  Logins are numbered by the generation they produce.  A caller     *)
(* asks with the last generation it has seen (NoGen if it has seen none)   *)
(* and is answered by a generation that is newer and has landed.  There is *)
(* one login in flight at most, and it is launched only for a caller that  *)
(* has seen nothing, or has seen the newest generation there is: a caller  *)
(* that is behind never costs the appliance a login.                       *)
(*                                                                         *)
(* Session.tla is shown to implement this specification.                   *)
(***************************************************************************)
EXTENDS Integers

CONSTANT Callers

VARIABLES
    epoch,    \* number of logins that have landed
    flight,   \* is a login in flight
    asking,   \* the callers that wait for an answer
    seen      \* the last generation each caller was given, NoGen if none

vars == <<epoch, flight, asking, seen>>

NoGen == -1

TypeOK == /\ epoch \in Nat
          /\ flight \in BOOLEAN
          /\ asking \subseteq Callers
          /\ seen \in [Callers -> Nat \cup {NoGen}]

Init == /\ epoch = 0
        /\ flight = FALSE
        /\ asking = {}
        /\ seen = [c \in Callers |-> NoGen]

(* A caller asks afresh, or asks for something newer than what it has.     *)
Ask(c) == /\ c \notin asking
          /\ asking' = asking \cup {c}
          /\ \/ seen' = seen
             \/ seen' = [seen EXCEPT ![c] = NoGen]
          /\ UNCHANGED <<epoch, flight>>

Launch == /\ ~flight
          /\ \E c \in asking : seen[c] \in {NoGen, epoch}
          /\ flight' = TRUE
          /\ UNCHANGED <<epoch, asking, seen>>

Land == /\ flight
        /\ flight' = FALSE
        /\ epoch' = epoch + 1
        /\ UNCHANGED <<asking, seen>>

Answer(c) == /\ c \in asking
             /\ asking' = asking \ {c}
             /\ \E g \in 1..epoch : /\ g > seen[c]
                                    /\ seen' = [seen EXCEPT ![c] = g]
             /\ UNCHANGED <<epoch, flight>>

Next == \/ Launch
        \/ Land
        \/ \E c \in Callers : Ask(c) \/ Answer(c)

Spec == Init /\ [][Next]_vars
=============================================================================
