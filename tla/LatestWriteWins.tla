--------------------------- MODULE LatestWriteWins ---------------------------
(***************************************************************************)
(* What the API access manager promises to whoever changes a setting of    *)
(* the boiler, with no queue, no worker and no retry in sight:             *)
(*                                                                         *)
(*   - one transmission is on its way to the boiler at a time;             *)
(*   - a transmission that begins carries the newest value asked for;      *)
(*   - the boiler therefore never moves back to an older value.            *)
(*                                                                         *)
(* A value is identified by the number of the request that carries it;     *)
(* later requests have higher numbers.                                     *)
(***************************************************************************)
EXTENDS Naturals

CONSTANT Nodes   \* the settable nodes of the boiler

VARIABLES
    asked,     \* asked[n]: the numbers of the values asked for at node n
    sending,   \* sending[n]: the value on its way to node n, or 0
    held       \* held[n]: the value asked for that node n holds, or 0

absVars == <<asked, sending, held>>

AbsInit ==
    /\ asked = [n \in Nodes |-> {}]
    /\ sending = [n \in Nodes |-> 0]
    /\ held = [n \in Nodes |-> 0]

\* A new value is asked for: it is numbered after every earlier one.
Ask(n) ==
    /\ \E v \in asked'[n] :
          /\ \A u \in asked[n] : u < v
          /\ asked' = [asked EXCEPT ![n] = @ \cup {v}]
    /\ UNCHANGED <<sending, held>>

\* Only the newest value may be sent, and only when nothing else is.
Begin(n) ==
    /\ \A m \in Nodes : sending[m] = 0
    /\ \E v \in asked[n] :
          /\ \A u \in asked[n] : u <= v
          /\ sending' = [sending EXCEPT ![n] = v]
    /\ UNCHANGED <<asked, held>>

Deliver(n) ==
    /\ sending[n] # 0
    /\ held' = [held EXCEPT ![n] = sending[n]]
    /\ UNCHANGED <<asked, sending>>

\* The transmission ends, delivered or not.
End(n) ==
    /\ sending[n] # 0
    /\ sending' = [sending EXCEPT ![n] = 0]
    /\ UNCHANGED <<asked, held>>

AbsNext == \E n \in Nodes : Ask(n) \/ Begin(n) \/ Deliver(n) \/ End(n)

AbsSpec == AbsInit /\ [][AbsNext]_absVars

=============================================================================
