----------------------------- MODULE SettingFlow -----------------------------
(***************************************************************************)
(* What the integration promises to whoever changes a setting, with no     *)
(* timer, no request and no optimistic value in sight.  A setting exists   *)
(* three times: as the user wants it, in the boiler, and as the            *)
(* integration knows it.  A value flows from the first to the second and   *)
(* on to the third:                                                        *)
(*                                                                         *)
(*   - a change that is sent carries what the user wants at that moment;   *)
(*   - the boiler stores nothing older than what it holds;                 *)
(*   - what is known follows the boiler, by polls and confirmations, and   *)
(*     goes back only to the value from which a failed change started.     *)
(*                                                                         *)
(* Values are numbered in the order in which they are asked for; 0 is the  *)
(* value that every setting has at the start.                              *)
(***************************************************************************)
EXTENDS Naturals, TLAPS

CONSTANT Nodes   \* the settable nodes of the boiler

VARIABLES
    wanted,    \* wanted[n]: the user's latest value for node n
    waiting,   \* the nodes whose value has not been sent yet
    device,    \* device[n]: the value the boiler holds
    known,     \* known[n]: the value the integration takes the boiler to hold
    changes    \* the changes under way: a node, its value and the one known before

flowVars == <<wanted, waiting, device, known, changes>>

FlowInit ==
    /\ wanted = [n \in Nodes |-> 0]
    /\ waiting = {}
    /\ device = [n \in Nodes |-> 0]
    /\ known = [n \in Nodes |-> 0]
    /\ changes = {}

\* The user asks for another value, also in place of one that still waits.
Want(n) ==
    /\ wanted'[n] \in Nat /\ wanted[n] < wanted'[n]
    /\ wanted' = [wanted EXCEPT ![n] = wanted'[n]]
    /\ waiting' = waiting \cup {n}
    /\ UNCHANGED <<device, known, changes>>

\* What is wanted is sent, once.
Send(n) ==
    /\ n \in waiting
    /\ \A c \in changes : c.node = n => c.value < wanted[n]
    /\ waiting' = waiting \ {n}
    /\ changes' = changes \cup {[node |-> n, value |-> wanted[n], old |-> known[n]]}
    /\ UNCHANGED <<wanted, device, known>>

\* The boiler takes a change, perhaps repeatedly and unnoticed.
Store(c) ==
    /\ device[c.node] <= c.value
    /\ device' = [device EXCEPT ![c.node] = c.value]
    /\ UNCHANGED <<wanted, waiting, known, changes>>

\* A change ends: known to have reached the boiler, failed, or given up.
Confirm(c) ==
    /\ known[c.node] <= c.value /\ c.value <= device[c.node]
    /\ known' = [known EXCEPT ![c.node] = c.value]
    /\ changes' = changes \ {c}
    /\ UNCHANGED <<wanted, waiting, device>>

RollBack(c) ==
    /\ known' = [known EXCEPT ![c.node] = c.old]
    /\ changes' = changes \ {c}
    /\ UNCHANGED <<wanted, waiting, device>>

GiveUp(c) ==
    /\ changes' = changes \ {c}
    /\ UNCHANGED <<wanted, waiting, device, known>>

\* A poll brings what is known of some nodes nearer to the boiler.
Poll ==
    /\ known' \in [Nodes -> Nat]
    /\ \A n \in Nodes : known[n] <= known'[n] /\ known'[n] <= device[n]
    /\ UNCHANGED <<wanted, waiting, device, changes>>

\* The integration is unloaded: what waits is not sent any more.
Stop ==
    /\ waiting' = {}
    /\ UNCHANGED <<wanted, device, known, changes>>

FlowNext ==
    \/ \E n \in Nodes : Want(n) \/ Send(n)
    \/ \E c \in changes : Store(c) \/ Confirm(c) \/ RollBack(c) \/ GiveUp(c)
    \/ Poll \/ Stop

FlowSpec == FlowInit /\ [][FlowNext]_flowVars

-----------------------------------------------------------------------------
(* What follows                                                            *)

\* The three values of a setting are in the order in which a value reaches them.
InOrder == \A n \in Nodes : known[n] <= device[n] /\ device[n] <= wanted[n]

\* A setting is settled when nothing of it is under way and the integration
\* knows the boiler to hold what the user wants.
Settled(n) ==
    /\ n \notin waiting
    /\ \A c \in changes : c.node # n
    /\ known[n] = wanted[n]

\* A settled setting stays settled, and the boiler keeps its value, until the
\* user asks for another one: nothing that is late disturbs it.
SettledStays ==
    [][\A n \in Nodes :
          Settled(n) /\ wanted'[n] = wanted[n] =>
              Settled(n)' /\ device[n] = wanted[n] /\ device'[n] = wanted[n]]_flowVars

-----------------------------------------------------------------------------
(* Proofs, for any set of nodes and any number of values                   *)

\* The inductive invariant: a change starts from a value that the boiler has had
\* and carries one that was wanted.
FlowInv ==
    /\ wanted \in [Nodes -> Nat]
    /\ device \in [Nodes -> Nat]
    /\ known \in [Nodes -> Nat]
    /\ changes \subseteq [node : Nodes, value : Nat, old : Nat]
    /\ InOrder
    /\ \A c \in changes : c.old <= device[c.node] /\ c.value <= wanted[c.node]

\* Every step keeps the inductive invariant.
LEMMA FlowStep == FlowInv /\ [FlowNext]_flowVars => FlowInv'
<1> SUFFICES ASSUME FlowInv, [FlowNext]_flowVars
             PROVE  FlowInv'
  OBVIOUS
<1> USE DEF FlowInv, InOrder
<1>1. ASSUME NEW n \in Nodes, Want(n)
      PROVE  FlowInv'
  BY <1>1 DEF Want
<1>2. ASSUME NEW n \in Nodes, Send(n)
      PROVE  FlowInv'
  BY <1>2 DEF Send
<1>3. ASSUME NEW c \in changes, Store(c)
      PROVE  FlowInv'
  BY <1>3 DEF Store
<1>4. ASSUME NEW c \in changes, Confirm(c) \/ RollBack(c) \/ GiveUp(c)
      PROVE  FlowInv'
  BY <1>4 DEF Confirm, RollBack, GiveUp
<1>5. CASE Poll
  BY <1>5 DEF Poll
<1>6. CASE Stop
  BY <1>6 DEF Stop
<1>7. CASE UNCHANGED flowVars
  BY <1>7 DEF flowVars
<1> QED
  BY <1>1, <1>2, <1>3, <1>4, <1>5, <1>6, <1>7 DEF FlowNext

\* In every behaviour the values of a setting are in order, and a change carries a
\* value that was wanted and starts from one that the boiler has had.
THEOREM FlowInvariant == FlowSpec => []FlowInv
<1>1. FlowInit => FlowInv
  BY DEF FlowInit, FlowInv, InOrder
<1> QED
  BY <1>1, FlowStep, PTL DEF FlowSpec

\* No value is known before the boiler has it, and the boiler has none that the
\* user has not asked for.
THEOREM FlowOrdered == FlowSpec => []InOrder
<1>1. FlowInv => InOrder
  BY DEF FlowInv
<1> QED
  BY <1>1, FlowInvariant, PTL

\* What is settled stays so: the three values of the node agree, which leaves a
\* poll nothing to bring, and there is no change to end.
THEOREM FlowSettles == FlowSpec => SettledStays
<1>1. FlowInv /\ FlowInv' /\ [FlowNext]_flowVars =>
         [\A n \in Nodes :
             Settled(n) /\ wanted'[n] = wanted[n] =>
                 Settled(n)' /\ device[n] = wanted[n] /\ device'[n] = wanted[n]]_flowVars
  <2> SUFFICES ASSUME FlowInv, FlowInv', [FlowNext]_flowVars, NEW n \in Nodes,
                      Settled(n), wanted'[n] = wanted[n]
               PROVE  Settled(n)' /\ device[n] = wanted[n] /\ device'[n] = wanted[n]
    OBVIOUS
  <2> USE DEF FlowInv, InOrder, Settled
  <2>1. device[n] = wanted[n]
    OBVIOUS
  <2>2. Settled(n)' => device'[n] = wanted[n]
    OBVIOUS
  <2>3. ASSUME NEW m \in Nodes, Want(m) \/ Send(m)
        PROVE  Settled(n)'
    BY <2>3 DEF Want, Send
  <2>4. ASSUME NEW c \in changes, Store(c) \/ Confirm(c) \/ RollBack(c) \/ GiveUp(c)
        PROVE  Settled(n)'
    BY <2>4 DEF Store, Confirm, RollBack, GiveUp
  <2>5. CASE Poll \/ Stop \/ UNCHANGED flowVars
    BY <2>5, <2>1 DEF Poll, Stop, flowVars
  <2>6. Settled(n)'
    BY <2>3, <2>4, <2>5 DEF FlowNext
  <2> QED
    BY <2>1, <2>2, <2>6
<1> QED
  BY <1>1, FlowInvariant, PTL DEF FlowSpec, SettledStays

=============================================================================
